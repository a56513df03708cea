------------------------------ MODULE WifiPower ------------------------------
(***************************************************************************)
(* The power state of the Wi-Fi interface: what the nl80211 adapter's      *)
(* open(), close() and power() do to it while other programs associate     *)
(* with access points and bring the same interface up and down.            *)
(*                                                                         *)
(* power() is three exchanges with the kernel, and the interface can       *)
(* change between any two of them: is the interface associated             *)
(* (getConnectedMAC, which can also fail), is it up (getWifiLink), change  *)
(* it (rtnl_link_change).  Adapters are created and destroyed one after    *)
(* the other, as the calls of SHLC_location do.                            *)
(***************************************************************************)
EXTENDS Naturals

CONSTANTS
  MaxAdapters,   \* bound: adapters created
  MaxForeign     \* bound: times another program changes the interface

ASSUME WifiPowerAssumption == MaxAdapters \in Nat /\ MaxForeign \in Nat

VARIABLES
  phase,             \* where the adapter's life is
  bringUp,           \* the state power() was asked for is FULL
  shouldBringDown,   \* _shouldBringDown
  isUp,              \* the interface's IFF_UP
  assoc,             \* the interface is associated
  adapters,          \* adapters created so far
  foreign            \* changes made by other programs so far

(* History: none of the steps reads these.                                 *)
VARIABLES
  upAtCreation,      \* isUp when the present adapter was created
  disturbed,         \* since then: another program changed the interface,
                     \* power() saw an association or a link call failed
  overruled,         \* since then: another program changed the interface
  mayBreak           \* the association check of this power() failed, or an
                     \* association was made after it

vars == <<phase, bringUp, shouldBringDown, isUp, assoc, adapters, foreign,
          upAtCreation, disturbed, overruled, mayBreak>>

-----------------------------------------------------------------------------
(* The adapter.                                                            *)

Create ==
  /\ phase = "none"
  /\ adapters < MaxAdapters
  /\ adapters' = adapters + 1
  /\ phase' = "created"
  /\ shouldBringDown' = FALSE
  /\ upAtCreation' = isUp
  /\ disturbed' = FALSE
  /\ overruled' = FALSE
  /\ UNCHANGED <<bringUp, isUp, assoc, foreign, mayBreak>>

(* open() fails before it comes to power(FULL); the destructor's close()   *)
(* has nothing to do then.                                                 *)
OpenFails ==
  /\ phase = "created"
  /\ phase' = "none"
  /\ UNCHANGED <<bringUp, shouldBringDown, isUp, assoc, adapters, foreign,
                 upAtCreation, disturbed, overruled, mayBreak>>

Open ==
  /\ phase = "created"
  /\ phase' = "check"
  /\ bringUp' = TRUE
  /\ UNCHANGED <<shouldBringDown, isUp, assoc, adapters, foreign,
                 upAtCreation, disturbed, overruled, mayBreak>>

Close ==
  /\ phase = "open"
  /\ phase' = "check"
  /\ bringUp' = FALSE
  /\ UNCHANGED <<shouldBringDown, isUp, assoc, adapters, foreign,
                 upAtCreation, disturbed, overruled, mayBreak>>

(* Faulty variant: close() leaves the adapter in a state of its own.       *)
ReturnHalfClosed == phase' = IF bringUp THEN "open" ELSE "closing"

(* power() returns: to open() or to close(), which both ignore its code.   *)
Return == phase' = IF bringUp THEN "open" ELSE "none"

(* Faulty variant: an association does not stop power().                   *)
AssociationIgnored ==
  /\ phase = "check"
  /\ assoc
  /\ phase' = "link"
  /\ mayBreak' = FALSE
  /\ UNCHANGED <<bringUp, shouldBringDown, isUp, assoc, adapters, foreign,
                 upAtCreation, disturbed, overruled>>

(* getConnectedMAC() finds the access point the interface is associated    *)
(* with: power() leaves everything as it is.                               *)
CheckAssociated ==
  /\ phase = "check"
  /\ assoc
  /\ disturbed' = TRUE
  /\ Return
  /\ UNCHANGED <<bringUp, shouldBringDown, isUp, assoc, adapters, foreign,
                 upAtCreation, overruled, mayBreak>>

(* It finds none, or it fails: power() does not tell the two apart.        *)
CheckNotAssociated ==
  /\ phase = "check"
  /\ \/ ~assoc /\ mayBreak' = FALSE
     \/ mayBreak' = TRUE
  /\ phase' = "link"
  /\ UNCHANGED <<bringUp, shouldBringDown, isUp, assoc, adapters, foreign,
                 upAtCreation, disturbed, overruled>>

LinkFails ==
  /\ phase \in {"link", "change"}
  /\ disturbed' = TRUE
  /\ Return
  /\ UNCHANGED <<bringUp, shouldBringDown, isUp, assoc, adapters, foreign,
                 upAtCreation, overruled, mayBreak>>

(* Faulty variant: who brought the interface up is not looked at.          *)
AlwaysChanges == isUp # bringUp

MustChange == isUp # bringUp /\ (bringUp \/ shouldBringDown)

(* The interface is in the wanted state, or it is up and this adapter did  *)
(* not bring it up; otherwise it is going to be changed.                   *)
ReadLink ==
  /\ phase = "link"
  /\ IF MustChange THEN phase' = "change" ELSE Return
  /\ UNCHANGED <<bringUp, shouldBringDown, isUp, assoc, adapters, foreign,
                 upAtCreation, disturbed, overruled, mayBreak>>

(* Faulty variant: the change of state is not remembered.                  *)
Unremembered == FALSE

Remembered == bringUp

ChangeLink ==
  /\ phase = "change"
  /\ isUp' = bringUp
  /\ assoc' = (assoc /\ bringUp)
  /\ shouldBringDown' = Remembered
  /\ Return
  /\ UNCHANGED <<bringUp, adapters, foreign, upAtCreation, disturbed,
                 overruled, mayBreak>>

Adapter ==
  \/ Create \/ OpenFails \/ Open \/ Close \/ CheckAssociated
  \/ CheckNotAssociated \/ LinkFails \/ ReadLink \/ ChangeLink

-----------------------------------------------------------------------------
(* Other programs and the radio (external).                                *)

Associate ==
  /\ isUp
  /\ ~assoc
  /\ assoc' = TRUE
  /\ mayBreak' = TRUE
  /\ UNCHANGED <<phase, bringUp, shouldBringDown, isUp, adapters, foreign,
                 upAtCreation, disturbed, overruled>>

Disassociate ==
  /\ assoc
  /\ assoc' = FALSE
  /\ UNCHANGED <<phase, bringUp, shouldBringDown, isUp, adapters, foreign,
                 upAtCreation, disturbed, overruled, mayBreak>>

ForeignChange ==
  /\ foreign < MaxForeign
  /\ foreign' = foreign + 1
  /\ isUp' = ~isUp
  /\ assoc' = FALSE
  /\ disturbed' = TRUE
  /\ overruled' = TRUE
  /\ UNCHANGED <<phase, bringUp, shouldBringDown, adapters, upAtCreation,
                 mayBreak>>

Environment == Associate \/ Disassociate \/ ForeignChange

-----------------------------------------------------------------------------
Init ==
  /\ phase = "none"
  /\ bringUp = FALSE
  /\ shouldBringDown = FALSE
  /\ isUp \in BOOLEAN
  /\ assoc = FALSE
  /\ adapters = 0
  /\ foreign = 0
  /\ upAtCreation = FALSE
  /\ disturbed = FALSE
  /\ overruled = FALSE
  /\ mayBreak = FALSE

Next == Adapter \/ Environment

Spec == Init /\ [][Next]_vars

-----------------------------------------------------------------------------
(* Properties.                                                             *)

(* Every variable of the power state stays within its type, and only an    *)
(* interface that is up is associated.                                     *)
TypeOK ==
  /\ phase \in {"none", "created", "check", "link", "change", "open"}
  /\ bringUp \in BOOLEAN /\ shouldBringDown \in BOOLEAN
  /\ isUp \in BOOLEAN /\ assoc \in BOOLEAN
  /\ adapters \in Nat /\ foreign \in Nat
  /\ upAtCreation \in BOOLEAN /\ disturbed \in BOOLEAN
  /\ overruled \in BOOLEAN /\ mayBreak \in BOOLEAN
  /\ assoc => isUp

(* An adapter that is destroyed leaves the interface in the power state it *)
(* was created in, as WifiAdapter.h asks of close(); provided that nobody  *)
(* else changed the interface, power() saw no association and the link     *)
(* calls worked.                                                           *)
PowerRestored ==
  phase = "none" /\ adapters > 0 /\ ~disturbed => isUp = upAtCreation

(* WifiAdapter.h on power(): an adapter does not change the power state of *)
(* an interface that was at full power when the adapter was created, as    *)
(* long as no other program has changed it meanwhile.                      *)
FullPowerLeftAlone ==
  [][Adapter /\ phase # "none" /\ upAtCreation /\ ~overruled
       => isUp' = isUp]_vars

(* The adapter takes an associated interface down only if it could not     *)
(* know better: the association check of the same power() call failed, or  *)
(* the association was made after the check.                               *)
AssociationKept ==
  [][phase = "change" /\ assoc /\ ~assoc' /\ ChangeLink => mayBreak]_vars
=============================================================================
