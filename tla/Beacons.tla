------------------------------ MODULE Beacons -------------------------------
(***************************************************************************)
(* What the adapters make of what they are told: access points of the BSSs *)
(* the kernel dumps, cells of the modem's properties.                      *)
(***************************************************************************)
EXTENDS Values, SequencesExt

-----------------------------------------------------------------------------
(* Nl80211WifiAdapter: a BSS is a record of its attributes, of which has   *)
(* are there, and of its information elements, in their order.             *)

Required == {"BSSID", "CAPABILITY", "SEEN_MS_AGO", "SIGNAL_MBM"}
Optional == {"INFORMATION_ELEMENTS", "STATUS"}

(* Faulty variant: ad-hoc points are taken too.                            *)
IsTakenAny(bss) == Required \subseteq bss.has

IsTaken(bss) == Required \subseteq bss.has /\ ~bss.ibss

(* Its attributes as they come: bytes, milliseconds, hundredths of a dBm.  *)
Bss ==
  [has : SUBSET (Required \union Optional), bssid : [1..6 -> 0..255],
   ibss : BOOLEAN, seen : Nat, signal : Int,
   elements : Seq([type : 0..255, data : Seq(0..255)])]

(* The elements of one that is taken are gone through whether they are     *)
(* there or not: parseBssIe follows a null pointer if they are not.        *)
LacksElements(bss) == IsTaken(bss) /\ "INFORMATION_ELEMENTS" \notin bss.has

(* The elements of s at the places I, in their order: what a loop that     *)
(* goes over s has put into a vector in the end.                           *)
Kept(s, I) ==
  LET rank(i) == Cardinality({j \in I : j <= i})
  IN [k \in 1..Cardinality(I) |-> s[CHOOSE i \in I : rank(i) = k]]

(* parseBssIe with ssidIeHandler: the first element of type 0.             *)
Ssid(elements) ==
  LET ssids == {i \in DOMAIN elements : elements[i].type = 0}
  IN IF ssids = {} THEN <<>> ELSE elements[Min(ssids)].data

(* toMAC turns the bytes round.                                            *)
toMAC(bssid) == Reverse(bssid)

(* Division as C does it, towards zero.                                    *)
Quotient(a, b) == IF a >= 0 THEN a \div b ELSE -((-a) \div b)

(* ScannedAccessPoint: what is not in (-255, 0) or a percentage is taken   *)
(* for the weakest signal of all.                                          *)
todBm(rssi) ==
  CASE rssi \in -254..-1 -> rssi
    [] rssi \in 1..99    -> Quotient(rssi * 69, 100) - 90
    [] OTHER             -> -255

SignalOf(mbm) == todBm(Quotient(mbm, 100))

(* parseAccessPoint at the tick t.                                         *)
AccessPoint(bss, t) ==
  [mac |-> toMAC(bss.bssid), rssi |-> SignalOf(bss.signal),
   timestamp |-> Reset(t, bss.seen), ssid |-> Ssid(bss.elements)]

-----------------------------------------------------------------------------
(* OfonoCellAdapter: the properties of the network registration, of which  *)
(* has are there.                                                          *)

toCellType(technology) ==
  CASE technology \in {"gsm", "edge"}  -> "GSM"
    [] technology \in {"umts", "hspa"} -> "UMTS"
    [] technology = "lte"              -> "LTE"
    [] OTHER                           -> "UNKNOWN"

(* The first modem that is online, 0 if there is none.                     *)
getCurrentModem(modems) ==
  LET online == {i \in DOMAIN modems : modems[i].online}
  IN IF online = {} THEN 0 ELSE Min(online)

CellProperties ==
  {"MobileCountryCode", "MobileNetworkCode", "CellId", "Strength"}

(* Their values: the codes as atoi reads them, the cell and the area as    *)
(* the int they are put in has their 32 bits.  Strength is a percentage.   *)
Registration ==
  [has : SUBSET (CellProperties \union {"LocationAreaCode"}),
   technology : STRING, mcc : Int, mnc : Int, ci : Int, lac : Int,
   strength : 0..100]

(* A code is put in an unsigned short.                                     *)
Code(n) == n % Word

(* The tower a registration is taken for.                                  *)
NetworkTower(network) ==
  Tower(toCellType(network.technology),
        Code(network.mcc), Code(network.mnc), network.ci,
        IF "LocationAreaCode" \in network.has THEN network.lac ELSE -1)

IsTold(network) ==
  CellProperties \subseteq network.has /\ NetworkTower(network) # NoCell

(* The constructor asserts the range of an LTE cell's area, which LTETower *)
(* does not look at.                                                       *)
FailsAssertion(network) ==
  IsTold(network) /\ ~Asserted(NetworkTower(network))

(* getScannedCellTower at the tick t: one cell or none.                    *)
ScannedCells(network, t) ==
  IF ~IsTold(network) THEN <<>>
  ELSE << [cell |-> NetworkTower(network), timing |-> 0,
           rssi |-> network.strength - 110, timestamp |-> t] >>
=============================================================================
