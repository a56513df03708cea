------------------------------ MODULE Request -------------------------------
(***************************************************************************)
(* From what the radios hear to the LocationRQ that tells the server of it:*)
(* the choice of the interface, the access points, cells and fixes with the*)
(* timers they carry, and the elements Protocol::locationRQ writes.  Cells *)
(* and fixes come in from their own threads all the while, time passes, and*)
(* somebody may set the clock of the host, which the timers are read from. *)
(* Three things the adapters are told without looking end the process.     *)
(***************************************************************************)
EXTENDS Beacons, XmlText

CONSTANTS
  Places,       \* what there is around the device when the call is made
  Handovers,    \* network registrations the modem may change to
  Starts,       \* what the host's clock may show in the beginning
  Settings,     \* by how much the host's clock may be set
  P2pNames,     \* names of interfaces that have "p2p" in them
  MaxFixes,     \* bound: epochs of the GPS receiver
  MaxEvents     \* bound: events besides those of the calling thread

ASSUME RequestAssumption ==
  /\ Starts \subseteq Nat /\ Settings \subseteq Int
  /\ MaxFixes \in Nat /\ MaxEvents \in Nat

(* Stands for the name of an interface that has none, as a P2P device.     *)
NoName == "no name"

(* The kernel dumps interfaces, with names or without, and BSSs.           *)
ASSUME RadiosAssumption ==
  /\ NoName \notin P2pNames
  /\ \A place \in Places :
       /\ place.interfaces \in Seq(STRING \ {""})
       /\ place.dump \in Seq(Bss)

(* Whether a modem is online, and what it says of its network.             *)
ASSUME ModemsAssumption ==
  /\ \A place \in Places :
       place.modems \in Seq([online : BOOLEAN, network : Registration])
  /\ Handovers \subseteq Registration

VARIABLES
  stage,      \* where the thread of SHLC_location is; "crashed" when an
              \* assertion or a null pointer has ended the process
  interface,  \* name of the interface, "" if none
  aps,        \* WifiWrapper::_scan, then scan.aps
  currentModem,  \* OfonoCellAdapter::_currentModem, 0 if it is not open
  lastCell,   \* OfonoCellAdapter::_lastCell, a sequence of one cell or none
  scannedCells,  \* CellWrapper::_scannedCells
  fixes,      \* GpsWrapper::_fixes
  scan,       \* scan.gps and scan.cells, as far as they have been taken
  request     \* the LocationRQ

(* The world: what there is to hear, and the clocks.                       *)
VARIABLES
  interfaces, \* answer to NL80211_CMD_GET_INTERFACE
  dump,       \* answer to NL80211_CMD_GET_SCAN
  modems,     \* the modems, each with its network registration
  now,        \* milliseconds that have passed
  clock,      \* what the host's clock is ahead of them
  events      \* events so far

(* History: when what is told was heard, and the clock's lead then.        *)
VARIABLES scanAt, cellAt, fixAt

toldVars  == <<interface, aps, scan, request>>
callVars  == <<stage, toldVars>>
cellVars  == <<currentModem, modems, lastCell, scannedCells, cellAt>>
fixVars   == <<fixes, fixAt>>
worldVars == <<interfaces, dump, now, clock>>
vars == <<callVars, cellVars, fixVars, worldVars, events, scanAt>>

(* Timer::tick(): HAVE_CLOCK_GETTIME is never defined, so it is the host's *)
(* clock that is read.                                                     *)
Tick == (now + clock) % Modulus

Moment == [now |-> now, clock |-> clock]
Never == [now |-> 0, clock |-> 0]

-----------------------------------------------------------------------------
(* The elements of a request; what may be left out is a sequence of one or *)
(* none.                                                                   *)

(* Faulty variant: the age of what was heard later is not negative.        *)
AgeUnsigned(timestamp, least) ==
  LET age == (Tick - timestamp) % Modulus
  IN IF age >= least THEN <<age>> ELSE <<>>

Age(timestamp, least) ==
  LET age == Delta(Tick, timestamp)
  IN IF age >= least THEN <<age>> ELSE <<>>

xAccessPoint(ap) ==
  [mac |-> MacText(ap.mac),
   ssid |-> IF ap.ssid # <<>> /\ xmlUtf8Test(ap.ssid)
            THEN <<xmlEscape(ap.ssid)>> ELSE <<>>,
   signalStrength |-> ap.rssi,
   age |-> Age(ap.timestamp, 1)]

xCellTower(c) ==
  [tower |-> c.cell.type, mcc |-> c.cell.mcc, mnc |-> c.cell.mnc,
   lac |-> IF c.cell.type \in {"GSM", "UMTS"} THEN <<c.cell.lac>> ELSE <<>>,
   ci |-> c.cell.ci,
   rssi |-> c.rssi,
   timingAdvance |-> IF c.timing # 0 THEN <<c.timing>> ELSE <<>>,
   age |-> Age(c.timestamp, 1)]

xGPSLocation(fix) ==
  [at |-> fix.gpsTime, says |-> fix.has, age |-> Age(fix.localTime, 0)]

-----------------------------------------------------------------------------
(* SHLC_location.                                                          *)

(* Faulty variant: the dump of the interfaces goes on to its end.          *)
ChosenLast(names) == IF names = <<>> THEN "" ELSE names[Len(names)]

(* getInterfaceCallback: the name is stored, and a P2P interface skipped   *)
(* only then; the first other one ends the dump.                           *)
Chosen(names) ==
  LET others == {i \in DOMAIN names : names[i] \notin P2pNames}
  IN IF names = <<>> THEN ""
     ELSE names[IF others = {} THEN Len(names) ELSE Min(others)]

(* init: a socket that cannot be had leaves the adapter uninitialised.     *)
AfterInit == {"scan", "failed"}

(* An interface without a name, come to before the dump has ended, is a    *)
(* null pointer to the callback.                                           *)
NewInstance ==
  /\ stage = "open"
  /\ LET name == Chosen(interfaces)
     IN \/ /\ name = NoName
           /\ stage' = "crashed"
           /\ UNCHANGED interface
        \/ /\ name # NoName
           /\ interface' = name
           /\ stage' \in IF name = "" THEN {"failed"} ELSE AfterInit
  /\ UNCHANGED <<aps, scan, request, cellVars, fixVars, worldVars, events,
                 scanAt>>

(* onScanCompleted: every BSS of the dump that is taken, in its order.     *)
OnScanCompleted ==
  /\ stage = "scan"
  /\ \/ /\ \E i \in DOMAIN dump : LacksElements(dump[i])
        /\ stage' = "crashed"
        /\ UNCHANGED <<aps, scanAt>>
     \/ /\ \A i \in DOMAIN dump : ~LacksElements(dump[i])
        /\ aps' =
             LET taken == Kept(dump, {i \in DOMAIN dump : IsTaken(dump[i])})
             IN [i \in DOMAIN taken |-> AccessPoint(taken[i], Tick)]
        /\ scanAt' = Moment
        /\ stage' = "fixes"
  /\ UNCHANGED <<interface, scan, request, cellVars, fixVars, worldVars,
                 events>>

GetFixes ==
  /\ stage = "fixes"
  /\ scan' = [scan EXCEPT !.gps = fixes]
  /\ stage' = "cells"
  /\ UNCHANGED <<interface, aps, request, cellVars, fixVars, worldVars,
                 events, scanAt>>

GetScannedCells ==
  /\ stage = "cells"
  /\ scan' = [scan EXCEPT !.cells = scannedCells]
  /\ stage' = IF aps = <<>> /\ scan'.cells = <<>> /\ scan'.gps = <<>>
              THEN "failed" ELSE "request"
  /\ UNCHANGED <<interface, aps, request, cellVars, fixVars, worldVars,
                 events, scanAt>>

(* One timer is taken for all the ages.                                    *)
LocationRQ ==
  /\ stage = "request"
  /\ request' =
       [aps   |-> [i \in DOMAIN aps |-> xAccessPoint(aps[i])],
        cells |-> [i \in DOMAIN scan.cells |-> xCellTower(scan.cells[i])],
        gps   |-> [i \in DOMAIN scan.gps |-> xGPSLocation(scan.gps[i])]]
  /\ stage' = "sent"
  /\ UNCHANGED <<interface, aps, scan, cellVars, fixVars, worldVars, events,
                 scanAt>>

Call == NewInstance \/ OnScanCompleted \/ GetFixes \/ GetScannedCells
        \/ LocationRQ

-----------------------------------------------------------------------------
(* What happens meanwhile.                                                 *)

Event ==
  /\ stage \notin {"sent", "failed", "crashed"}
  /\ events < MaxEvents
  /\ events' = events + 1

(* Faulty variant: only another cell is reported, not another signal.      *)
IsCachedCell(c) == lastCell # <<>> /\ SameCell(Head(lastCell).cell, c.cell)

IsCached(c) ==
  /\ lastCell # <<>>
  /\ SameCell(Head(lastCell).cell, c.cell)
  /\ Head(lastCell).rssi = c.rssi

(* reportCell and onCellChanged: a cell that is already known with its     *)
(* signal is not reported again and keeps its time; a cell that is lost is *)
(* reported as none.                                                       *)
ReportCell(cells) ==
  IF cells # <<>> /\ IsCached(Head(cells))
  THEN UNCHANGED <<lastCell, scannedCells, cellAt>>
  ELSE /\ lastCell' = cells
       /\ scannedCells' = cells
       /\ cellAt' = Moment

(* Signals are received from the modem the adapter has chosen alone.       *)
PropertyChanged ==
  /\ Event
  /\ \E i \in DOMAIN modems, n \in Handovers :
       /\ modems' = [modems EXCEPT ![i].network = n]
       /\ \/ /\ i # currentModem
             /\ UNCHANGED <<stage, lastCell, scannedCells, cellAt>>
          \/ /\ i = currentModem /\ FailsAssertion(n)
             /\ stage' = "crashed"
             /\ UNCHANGED <<lastCell, scannedCells, cellAt>>
          \/ /\ i = currentModem /\ ~FailsAssertion(n)
             /\ ReportCell(ScannedCells(n, Tick))
             /\ UNCHANGED stage
  /\ UNCHANGED <<toldVars, fixVars, currentModem, worldVars, scanAt>>

(* onGpsData: the first fix of an epoch is kept.  A fix carries a timer of *)
(* its making.  In its first epoch the receiver knows no height.           *)
OnGpsData ==
  /\ Event
  /\ \E time \in 1..MaxFixes :
       IF fixes # <<>> /\ fixes[Len(fixes)].gpsTime = time
       THEN UNCHANGED fixVars
       ELSE /\ time = Len(fixes) + 1
            /\ fixes' = Append(fixes,
                 [gpsTime |-> time, localTime |-> Tick,
                  has |-> IF time = 1 THEN {} ELSE {"altitude", "height"}])
            /\ fixAt' = Append(fixAt, Moment)
  /\ UNCHANGED <<callVars, cellVars, worldVars, scanAt>>

Pass ==
  /\ Event
  /\ now' = now + 1
  /\ UNCHANGED <<callVars, cellVars, fixVars, interfaces, dump, clock, scanAt>>

SetClock ==
  /\ Event
  /\ \E setting \in Settings :
       /\ clock + setting >= 0
       /\ clock' = clock + setting
  /\ UNCHANGED <<callVars, cellVars, fixVars, interfaces, dump, now, scanAt>>

World == PropertyChanged \/ OnGpsData \/ Pass \/ SetClock

-----------------------------------------------------------------------------

(* CellWrapper::open has asked the modem once.                             *)
Init ==
  /\ interface = "" /\ aps = <<>> /\ fixes = <<>>
  /\ scan = [gps |-> <<>>, cells |-> <<>>]
  /\ request = [aps |-> <<>>, cells |-> <<>>, gps |-> <<>>]
  /\ \E place \in Places :
       /\ interfaces = place.interfaces
       /\ dump = place.dump
       /\ modems = place.modems
  /\ now = 0 /\ clock \in Starts
  /\ currentModem = getCurrentModem(modems)
  /\ \/ /\ currentModem = 0
        /\ stage = "open" /\ lastCell = <<>>
     \/ /\ currentModem # 0 /\ FailsAssertion(modems[currentModem].network)
        /\ stage = "crashed" /\ lastCell = <<>>
     \/ /\ currentModem # 0 /\ ~FailsAssertion(modems[currentModem].network)
        /\ stage = "open"
        /\ lastCell = ScannedCells(modems[currentModem].network, Tick)
  /\ scannedCells = lastCell
  /\ events = 0
  /\ scanAt = Moment /\ cellAt = Moment /\ fixAt = <<>>

Next == Call \/ World

Spec == Init /\ [][Next]_vars

-----------------------------------------------------------------------------
(* Properties.                                                             *)

CellOK(c) ==
  /\ c.cell.mcc \in 0..999 /\ c.cell.mnc \in 0..999
  /\ c.cell.type = "GSM" => c.cell.ci \in 0..65535
  /\ c.cell.type # "GSM" => 0 <= c.cell.ci /\ c.cell.ci < 2^28
  /\ c.cell.type # "LTE" => c.cell.lac \in 0..65535 /\ c.cell.tac = -1
  /\ c.cell.type = "LTE" => c.cell.lac = -1 /\ c.cell.tac <= 65535
  /\ c.rssi \in -255..0 /\ c.timestamp \in 0..(Modulus - 1)

(* What the constructors of CellTower, ScannedCellTower and                *)
(* ScannedAccessPoint assert, and besides that no cell without an area     *)
(* passes for one that needs it.                                           *)
TypeOK ==
  /\ stage \in {"open", "scan", "fixes", "cells", "request", "sent", "failed",
                "crashed"}
  /\ \A i \in DOMAIN aps :
       aps[i].rssi \in -255..-1 /\ aps[i].timestamp \in 0..(Modulus - 1)
  /\ \A i \in DOMAIN lastCell : CellOK(lastCell[i])
  /\ \A i \in DOMAIN scannedCells : CellOK(scannedCells[i])
  /\ Len(fixes) = Len(fixAt) /\ Len(fixes) <= MaxFixes
  /\ currentModem \in 0..Len(modems)
  /\ events \in 0..MaxEvents /\ now \in 0..MaxEvents /\ clock \in Nat

(* The dump without what is no access point of an infrastructure network   *)
(* or is not described in full.                                            *)
Heard ==
  Kept(dump, {i \in DOMAIN dump :
                ~dump[i].ibss /\ Required \ dump[i].has = {}})

FirstSsid(bss) ==
  LET at == {i \in DOMAIN bss.elements : bss.elements[i].type = 0}
  IN IF at = {} THEN <<>>
     ELSE bss.elements[CHOOSE i \in at : \A j \in at : i <= j].data

(* A signal that can be told in dBm is told to within one.                 *)
SignalIsTold(told, signal) ==
  Between(signal, -25499, -100) =>
    -100 < told * 100 - signal /\ told * 100 - signal < 100

(* The parts of the request, by what they tell of.                         *)
AccessPointsAreTold ==
  /\ Len(request.aps) = Len(Heard)
  /\ \A i \in DOMAIN Heard :
       /\ request.aps[i].mac = Heard[i].bssid
       /\ SignalIsTold(request.aps[i].signalStrength, Heard[i].signal)

CellsAreTold ==
  /\ Len(request.cells) = Len(scan.cells) /\ Len(scan.cells) <= 1
  /\ \A i \in DOMAIN scan.cells :
       request.cells[i].lac = <<>> <=> scan.cells[i].cell.lac = -1

FixesAreTold ==
  /\ Len(request.gps) = Len(scan.gps)
  /\ \A i \in DOMAIN request.gps :
       /\ request.gps[i].at = i
       /\ "altitude" \in request.gps[i].says <=> i > 1

(* Whether a network names a cell, by the ranges of its numbers in 3GPP TS *)
(* 23.003, where an area of 0 or FFFE is none; but of the codes only 16    *)
(* bits are looked at.                                                     *)
NamesNetwork(mcc, mnc) == mcc \in 200..799 \union 900..999 /\ mnc \in 0..999

NamesArea(n) ==
  /\ "LocationAreaCode" \in n.has
  /\ n.lac \in 1..(2^16 - 1) /\ n.lac # 2^16 - 2

NumberFits(n, bits) == 0 <= n.ci /\ n.ci < 2^bits

NamesCell(n) ==
  /\ {"MobileCountryCode", "MobileNetworkCode", "CellId", "Strength"}
       \subseteq n.has
  /\ NamesNetwork(n.mcc % 2^16, n.mnc % 2^16)
  /\ \/ /\ n.technology \in {"gsm", "edge"}
        /\ NamesArea(n) /\ NumberFits(n, 16)
     \/ /\ n.technology \in {"umts", "hspa"}
        /\ NamesArea(n) /\ NumberFits(n, 28)
     \/ n.technology = "lte" /\ NumberFits(n, 28)

(* The area of an LTE cell, which may be missing, is more than 16 bits.    *)
AreaIsTooBig(n) ==
  /\ NamesCell(n) /\ n.technology = "lte"
  /\ "LocationAreaCode" \in n.has /\ n.lac >= 2^16

Serves(i) == modems[i].online /\ \A j \in 1..(i - 1) : ~modems[j].online

(* What there is around that ends the process once an adapter comes to it: *)
(* an interface without a name before any that ends the dump of them, an   *)
(* access point without elements, a cell with an area that is too big.     *)
NamelessFirst ==
  \E i \in DOMAIN interfaces :
    interfaces[i] = NoName /\ \A j \in 1..(i - 1) : interfaces[j] \in P2pNames

DumpBreaks ==
  \E i \in DOMAIN dump :
    /\ ~dump[i].ibss /\ Required \ dump[i].has = {}
    /\ "INFORMATION_ELEMENTS" \notin dump[i].has

AreaBreaks ==
  \E i \in DOMAIN modems : Serves(i) /\ AreaIsTooBig(modems[i].network)

(* Each access point, cell and fix there was is told of once and in its    *)
(* order: the MAC has its bytes as they were on the air, and its signal.   *)
(* There is no request if an access point that counts has no elements; and *)
(* the process ends for none but the three known reasons.                  *)
RequestTellsTheScan ==
  /\ TypeOK
  /\ stage = "sent" => AccessPointsAreTold /\ CellsAreTold /\ FixesAreTold
  /\ DumpBreaks => stage \notin {"fixes", "cells", "request", "sent"}
  /\ stage = "crashed" => NamelessFirst \/ DumpBreaks \/ AreaBreaks

(* The names of the access points that are told of.                        *)
SsidsAreTold ==
  \A i \in DOMAIN request.aps :
    LET name == FirstSsid(Heard[i])
        told == request.aps[i].ssid
    IN /\ told # <<>> <=> name # <<>> /\ IsXmlText(name)
       /\ told # <<>> =>
            /\ AsRead(Head(told)) = LineEnds(name)
            /\ AsRead(Head(told)) = name
                 <=> \A j \in DOMAIN name : name[j] # 13

(* The server reads the name that was on the air, the first of the beacon, *)
(* if it can be written in XML at all, whatever its length is (nobody sees *)
(* to the 1-32 characters of Protocol.cpp:260); else it reads none, and the*)
(* request stays well-formed whatever bytes the name is of.  Names with a  *)
(* carriage return, and they alone, are read as others: their line ends    *)
(* become line feeds.                                                      *)
SsidIsTold == stage = "sent" => SsidsAreTold

(* How long ago it was, by a clock that has been set since then.           *)
Since(moment) == (now - moment.now) + (clock - moment.clock)

AgeIs(told, age, least) ==
  age \in -Half..(Half - 1) =>
    told = IF age >= least THEN <<age>> ELSE <<>>

(* The ages, by what they are of.                                          *)
AccessPointAges ==
  \A i \in DOMAIN request.aps :
    AgeIs(request.aps[i].age, Since(scanAt) + Heard[i].seen, 1)

CellAges ==
  \A i \in DOMAIN request.cells :
    scan.cells = scannedCells =>
      AgeIs(request.cells[i].age, Since(cellAt), 1)

FixAges ==
  \A i \in DOMAIN request.gps : AgeIs(request.gps[i].age, Since(fixAt[i]), 0)

(* The age of all that is told of is true although each timer runs over,   *)
(* as long as nobody sets the clock of the host, by which it is off        *)
(* otherwise; and what seems to lie in the future has no age rather than a *)
(* huge one.  An age of zero is told of fixes only.                        *)
AgesAreTrue == stage = "sent" => AccessPointAges /\ CellAges /\ FixAges

CellIs(n) ==
  IF NamesCell(n)
  THEN /\ Len(scannedCells) = 1
       /\ LET c == Head(scannedCells)
          IN /\ c.rssi = n.strength - 110
             /\ c.cell.mcc = n.mcc % 2^16 /\ c.cell.mnc = n.mnc % 2^16
             /\ c.cell.ci = n.ci
             /\ c.cell.type # "LTE" => c.cell.lac = n.lac
  ELSE scannedCells = <<>>

(* However the registrations change, what is known of the cell is what the *)
(* first modem that is online says now: a cell that is lost or cannot be   *)
(* told of is not left in place of the one before, an unchanged one that   *)
(* is not reported again has the signal it has now, and no other modem     *)
(* speaks for the one that serves.  A code of more than 16 bits is taken   *)
(* for its last 16; an area of more than 16 bits ends the process, if the  *)
(* cell is one of LTE.                                                     *)
CellIsCurrent ==
  /\ AreaBreaks => stage = "crashed"
  /\ stage # "crashed" =>
       \A i \in DOMAIN modems : Serves(i) => CellIs(modems[i].network)
  /\ (\A i \in DOMAIN modems : ~modems[i].online) => scannedCells = <<>>

(* A Wi-Fi Direct interface serves only where there is no other: scans are *)
(* asked of the first that is not one.  Where one without a name comes     *)
(* before it, as that of a P2P device may, the process ends.               *)
P2pOnlyIfNoOther ==
  /\ NamelessFirst => stage \in {"open", "crashed"}
  /\ stage \notin {"open", "crashed"} =>
       /\ interface \in P2pNames => Range(interfaces) \subseteq P2pNames
       /\ interface = "" <=> interfaces = <<>>
       /\ \A i \in DOMAIN interfaces :
            interfaces[i] \notin P2pNames \union {interface} =>
              \E j \in 1..(i - 1) : interfaces[j] = interface
=============================================================================
