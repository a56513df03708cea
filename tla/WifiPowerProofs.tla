--------------------------- MODULE WifiPowerProofs --------------------------
(***************************************************************************)
(* Theorems about WifiPower, for any number of adapters created one after  *)
(* the other and any number of changes by other programs.                  *)
(***************************************************************************)
EXTENDS WifiPower, TLAPS

-----------------------------------------------------------------------------
(* The flags and the phase apart from the counters.                        *)

FlagsOK ==
  /\ bringUp \in BOOLEAN /\ shouldBringDown \in BOOLEAN
  /\ isUp \in BOOLEAN /\ assoc \in BOOLEAN
  /\ upAtCreation \in BOOLEAN /\ disturbed \in BOOLEAN
  /\ overruled \in BOOLEAN /\ mayBreak \in BOOLEAN
  /\ assoc => isUp

PhaseOK == phase \in {"none", "created", "check", "link", "change", "open"}

CountsOK == adapters \in Nat /\ foreign \in Nat

(* What the adapter has done to the interface so far, phase by phase, as   *)
(* long as nothing has come between: nothing up to the change power(FULL)  *)
(* may make; from open() on the interface is up and the adapter remembers  *)
(* whether it is its doing; and power(OFF) undoes that.                    *)
Untouched == ~shouldBringDown /\ isUp = upAtCreation

Raised == isUp /\ shouldBringDown = ~upAtCreation

PowerInv ==
  ~disturbed =>
    /\ phase = "none" /\ adapters > 0 => isUp = upAtCreation
    /\ phase = "created" => Untouched
    /\ phase \in {"check", "link", "change"} /\ bringUp => Untouched
    /\ phase \in {"check", "link", "change"} /\ ~bringUp => Raised
    /\ phase = "open" => Raised
    /\ phase = "change" => shouldBringDown = ~bringUp /\ isUp = ~bringUp

(* Of an interface that was up at its creation, and that nobody else has   *)
(* changed since, the adapter has nothing to bring up or down.             *)
LeaveInv ==
  phase # "none" /\ upAtCreation /\ ~overruled =>
    isUp /\ ~shouldBringDown /\ phase # "change"

(* Between the check and the change, an association is one the check did   *)
(* not see.                                                                *)
CheckedInv == phase \in {"link", "change"} /\ assoc => mayBreak

-----------------------------------------------------------------------------
(* The steps.                                                              *)

(* Each step leaves the flags Boolean, and the association with an        *)
(* interface that is up.                                                   *)
LEMMA FlagsStep ==
  ASSUME FlagsOK, [Next]_vars
  PROVE  FlagsOK'
<1> USE DEF FlagsOK
<1>1. CASE Create
  BY <1>1, Zenon DEF Create
<1>2. CASE OpenFails
  BY <1>2, Zenon DEF OpenFails
<1>3. CASE Open
  BY <1>3, Zenon DEF Open
<1>4. CASE Close
  BY <1>4, Zenon DEF Close
<1>5. CASE CheckAssociated
  BY <1>5, Zenon DEF CheckAssociated
<1>6. CASE CheckNotAssociated
  BY <1>6, Zenon DEF CheckNotAssociated
<1>7. CASE LinkFails
  BY <1>7, Zenon DEF LinkFails
<1>8. CASE ReadLink
  BY <1>8, Zenon DEF ReadLink, MustChange
<1>9. CASE ChangeLink
  BY <1>9, Zenon DEF ChangeLink, Remembered
<1>10. CASE Associate
  BY <1>10, Zenon DEF Associate
<1>11. CASE Disassociate
  BY <1>11, Zenon DEF Disassociate
<1>12. CASE ForeignChange
  BY <1>12, Zenon DEF ForeignChange
<1>13. CASE UNCHANGED vars
  BY <1>13, Zenon DEF vars
<1> QED
  BY <1>1, <1>2, <1>3, <1>4, <1>5, <1>6, <1>7,
     <1>8, <1>9, <1>10, <1>11, <1>12, <1>13 DEF Next, Adapter, Environment

(* Each step leads from a phase to a phase.                                *)
LEMMA PhaseStep ==
  ASSUME PhaseOK, [Next]_vars
  PROVE  PhaseOK'
<1> USE DEF PhaseOK, Return
<1>1. CASE Create
  BY <1>1 DEF Create
<1>2. CASE OpenFails
  BY <1>2 DEF OpenFails
<1>3. CASE Open
  BY <1>3 DEF Open
<1>4. CASE Close
  BY <1>4 DEF Close
<1>5. CASE CheckAssociated
  BY <1>5 DEF CheckAssociated
<1>6. CASE CheckNotAssociated
  BY <1>6 DEF CheckNotAssociated
<1>7. CASE LinkFails
  BY <1>7 DEF LinkFails
<1>8. CASE ReadLink
  BY <1>8 DEF ReadLink, MustChange
<1>9. CASE ChangeLink
  BY <1>9 DEF ChangeLink, Remembered
<1>10. CASE Associate
  BY <1>10 DEF Associate
<1>11. CASE Disassociate
  BY <1>11 DEF Disassociate
<1>12. CASE ForeignChange
  BY <1>12 DEF ForeignChange
<1>13. CASE UNCHANGED vars
  BY <1>13 DEF vars
<1> QED
  BY <1>1, <1>2, <1>3, <1>4, <1>5, <1>6, <1>7,
     <1>8, <1>9, <1>10, <1>11, <1>12, <1>13 DEF Next, Adapter, Environment

(* Each step keeps the account of what the adapter has done.               *)
LEMMA PowerStep ==
  ASSUME FlagsOK, CountsOK, PowerInv, [Next]_vars
  PROVE  PowerInv'
<1> USE DEF FlagsOK, CountsOK, PowerInv, Untouched, Raised, Return
<1>1. CASE Create
  BY <1>1 DEF Create
<1>2. CASE OpenFails
  BY <1>2 DEF OpenFails
<1>3. CASE Open
  BY <1>3 DEF Open
<1>4. CASE Close
  BY <1>4 DEF Close
<1>5. CASE CheckAssociated
  BY <1>5 DEF CheckAssociated
<1>6. CASE CheckNotAssociated
  BY <1>6 DEF CheckNotAssociated
<1>7. CASE LinkFails
  BY <1>7 DEF LinkFails
<1>8. CASE ReadLink
  BY <1>8 DEF ReadLink, MustChange
<1>9. CASE ChangeLink
  BY <1>9 DEF ChangeLink, Remembered
<1>10. CASE Associate
  BY <1>10 DEF Associate
<1>11. CASE Disassociate
  BY <1>11 DEF Disassociate
<1>12. CASE ForeignChange
  BY <1>12 DEF ForeignChange
<1>13. CASE UNCHANGED vars
  BY <1>13 DEF vars
<1> QED
  BY <1>1, <1>2, <1>3, <1>4, <1>5, <1>6, <1>7,
     <1>8, <1>9, <1>10, <1>11, <1>12, <1>13 DEF Next, Adapter, Environment

(* Each step leaves an interface alone that was up before.                 *)
LEMMA LeaveStep ==
  ASSUME FlagsOK, LeaveInv, [Next]_vars
  PROVE  LeaveInv'
<1> USE DEF FlagsOK, LeaveInv, Return
<1>1. CASE Create
  BY <1>1 DEF Create
<1>2. CASE OpenFails
  BY <1>2 DEF OpenFails
<1>3. CASE Open
  BY <1>3 DEF Open
<1>4. CASE Close
  BY <1>4 DEF Close
<1>5. CASE CheckAssociated
  BY <1>5 DEF CheckAssociated
<1>6. CASE CheckNotAssociated
  BY <1>6 DEF CheckNotAssociated
<1>7. CASE LinkFails
  BY <1>7 DEF LinkFails
<1>8. CASE ReadLink
  BY <1>8 DEF ReadLink, MustChange
<1>9. CASE ChangeLink
  BY <1>9 DEF ChangeLink, Remembered
<1>10. CASE Associate
  BY <1>10 DEF Associate
<1>11. CASE Disassociate
  BY <1>11 DEF Disassociate
<1>12. CASE ForeignChange
  BY <1>12 DEF ForeignChange
<1>13. CASE UNCHANGED vars
  BY <1>13 DEF vars
<1> QED
  BY <1>1, <1>2, <1>3, <1>4, <1>5, <1>6, <1>7,
     <1>8, <1>9, <1>10, <1>11, <1>12, <1>13 DEF Next, Adapter, Environment

(* Each step keeps track of the associations the check did not see.        *)
LEMMA CheckedStep ==
  ASSUME FlagsOK, CheckedInv, [Next]_vars
  PROVE  CheckedInv'
<1> USE DEF FlagsOK, CheckedInv, Return
<1>1. CASE Create
  BY <1>1 DEF Create
<1>2. CASE OpenFails
  BY <1>2 DEF OpenFails
<1>3. CASE Open
  BY <1>3 DEF Open
<1>4. CASE Close
  BY <1>4 DEF Close
<1>5. CASE CheckAssociated
  BY <1>5 DEF CheckAssociated
<1>6. CASE CheckNotAssociated
  BY <1>6 DEF CheckNotAssociated
<1>7. CASE LinkFails
  BY <1>7 DEF LinkFails
<1>8. CASE ReadLink
  BY <1>8 DEF ReadLink, MustChange
<1>9. CASE ChangeLink
  BY <1>9 DEF ChangeLink, Remembered
<1>10. CASE Associate
  BY <1>10 DEF Associate
<1>11. CASE Disassociate
  BY <1>11 DEF Disassociate
<1>12. CASE ForeignChange
  BY <1>12 DEF ForeignChange
<1>13. CASE UNCHANGED vars
  BY <1>13 DEF vars
<1> QED
  BY <1>1, <1>2, <1>3, <1>4, <1>5, <1>6, <1>7,
     <1>8, <1>9, <1>10, <1>11, <1>12, <1>13 DEF Next, Adapter, Environment
(* Each step keeps the counters natural numbers.                           *)
LEMMA CountsStep ==
  ASSUME CountsOK, [Next]_vars
  PROVE  CountsOK'
  BY DEF CountsOK, Next, Adapter, Environment, Create, OpenFails, Open, Close,
     CheckAssociated, CheckNotAssociated, LinkFails, ReadLink, ChangeLink,
     Associate, Disassociate, ForeignChange, vars

-----------------------------------------------------------------------------
(* The theorems.                                                           *)

(* Every variable of the power state keeps its type, and only an interface *)
(* that is up is ever associated.                                          *)
THEOREM TypeCorrect == Spec => []TypeOK
<1>1. Init => FlagsOK
  BY Zenon DEF Init, FlagsOK
<1>2. Init => PhaseOK /\ CountsOK
  BY DEF Init, PhaseOK, CountsOK
<1>3. FlagsOK /\ PhaseOK /\ CountsOK /\ [Next]_vars
        => FlagsOK' /\ PhaseOK' /\ CountsOK'
  BY FlagsStep, PhaseStep, CountsStep
<1>4. FlagsOK /\ PhaseOK /\ CountsOK => TypeOK
  BY DEF TypeOK, FlagsOK, PhaseOK, CountsOK
<1> QED
  BY <1>1, <1>2, <1>3, <1>4, PTL DEF Spec

(* The three accounts hold throughout.                                     *)
LEMMA Inductive == Spec => [](FlagsOK /\ CountsOK /\ PowerInv /\ LeaveInv /\ CheckedInv)
<1>1. Init => FlagsOK
  BY Zenon DEF Init, FlagsOK
<1>2. Init => CountsOK /\ PowerInv
  BY DEF Init, CountsOK, PowerInv
<1>3. Init => LeaveInv /\ CheckedInv
  BY DEF Init, LeaveInv, CheckedInv
<1>4. FlagsOK /\ CountsOK /\ PowerInv /\ LeaveInv /\ CheckedInv /\ [Next]_vars
        => FlagsOK' /\ CountsOK' /\ PowerInv' /\ LeaveInv' /\ CheckedInv'
  BY FlagsStep, CountsStep, PowerStep, LeaveStep, CheckedStep
<1> QED
  BY <1>1, <1>2, <1>3, <1>4, PTL DEF Spec

(* However many adapters come and go, each of them that was not disturbed  *)
(* leaves the interface in the power state it found.                       *)
THEOREM AdapterRestoresPower == Spec => []PowerRestored
<1>1. PowerInv => PowerRestored
  BY DEF PowerInv, PowerRestored
<1> QED
  BY <1>1, Inductive, PTL

(* No step of an adapter changes an interface that was at full power when  *)
(* the adapter was created and was not changed by others since.            *)
THEOREM AdapterLeavesFullPower == Spec => FullPowerLeftAlone
<1>1. FlagsOK /\ LeaveInv /\ [Next]_vars
        => [Adapter /\ phase # "none" /\ upAtCreation /\ ~overruled
              => isUp' = isUp]_vars
  <2> SUFFICES ASSUME FlagsOK, LeaveInv, Adapter, phase # "none",
                      upAtCreation, ~overruled
               PROVE  isUp' = isUp
    OBVIOUS
  <2>1. phase # "change"
    BY DEF LeaveInv
  <2> QED
    BY <2>1 DEF Adapter, Create, OpenFails, Open, Close, CheckAssociated,
       CheckNotAssociated, LinkFails, ReadLink, ChangeLink
<1> QED
  BY <1>1, Inductive, PTL DEF Spec, FullPowerLeftAlone

(* The adapter never takes down an association that its check, if it       *)
(* worked, could have seen.                                                *)
THEOREM AdapterKeepsAssociation == Spec => AssociationKept
<1>1. CheckedInv /\ [Next]_vars
        => [phase = "change" /\ assoc /\ ~assoc' /\ ChangeLink => mayBreak]_vars
  BY DEF CheckedInv
<1> QED
  BY <1>1, Inductive, PTL DEF Spec, AssociationKept
=============================================================================
