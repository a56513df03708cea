--------------------------- MODULE CellLoopProofs ---------------------------
(***************************************************************************)
(* Theorems about CellLoop, for every set of cells and any number of       *)
(* changes of the network: its type invariant, that a dispatch is answered *)
(* by its own callback, that a change of the cell is not lost, that        *)
(* nothing is used after its end, and that the adapter is taken back only  *)
(* when the loop's thread is over.                                         *)
(***************************************************************************)
EXTENDS CellLoop, TLAPS

-----------------------------------------------------------------------------
(* What a step of one thread does to the other's state.                    *)

ReportPlaces == {"report", "notify", "notified"}

(* What the loop is running agrees with the place it is at.                *)
TaskInv ==
  /\ lpc \in {"open", "imei", "close"} => task = lpc
  /\ lpc = "imeiCall" => task = "imei"
  /\ lpc \in ReportPlaces => task \in {"open", "imei", "signal"}
  /\ lpc \in {"storeRc", "signal"} => task # "signal"

(* reportCell() returns to open(), to getIMEI() or to the main loop.       *)
LEMMA ReportReturnsTo ==
  ASSUME ReportReturns, task \in {"open", "imei", "signal"}
  PROVE  \/ task = "open" /\ code' = "ok" /\ lpc' = "storeRc"
         \/ task = "imei" /\ lpc' = "imeiCall" /\ UNCHANGED code
         \/ task = "signal" /\ lpc' = "idle" /\ UNCHANGED code
<1>1. CASE task = "open"
  BY <1>1 DEF ReportReturns, Return
<1>2. CASE task = "imei"
  BY <1>2 DEF ReportReturns
<1>3. CASE task = "signal"
  BY <1>3 DEF ReportReturns
<1> QED
  BY <1>1, <1>2, <1>3

(* dispatch() returns to open(), to getIMEI() or to close().               *)
LEMMA DispatchReturnsTo ==
  ASSUME NEW ok \in BOOLEAN, DispatchReturns(ok), op \in Operations
  PROVE  \/ op = "open" /\ upc' = (IF ok THEN "opened" ELSE "stop")
         \/ op = "imei" /\ upc' = (IF ok THEN "cells" ELSE "destroy")
         \/ op = "close" /\ upc' = "stop"
<1>1. CASE op = "open"
  BY <1>1 DEF DispatchReturns
<1>2. CASE op = "imei"
  BY <1>2 DEF DispatchReturns
<1>3. CASE op = "close"
  BY <1>3 DEF DispatchReturns
<1> QED
  BY <1>1, <1>2, <1>3 DEF Operations

(* The loop reads where the user thread is but does not move it, and its   *)
(* own thread takes no step before start() or after its end.               *)
LEMMA LoopFrame ==
  ASSUME TaskInv, callback \in Operations, Loop
  PROVE  /\ UNCHANGED <<upc, op, isOpen, thread, callback, wrongAnswer,
                        wrongWake, timedOut, failedOpen, detached, cell,
                        changes>>
         /\ lpc \notin {"none", "exited"} /\ lpc' # "none"
<1> USE DEF userVars, loopVars, thrdVars, dispVars, wrapVars, adptVars,
            netVars, histVars, Return, TaskInv, ReportPlaces
<1>1. CASE LoopInit
  BY <1>1 DEF LoopInit
<1>2. CASE LoopReady
  BY <1>2 DEF LoopReady
<1>3. CASE LoopRun
  BY <1>3 DEF LoopRun
<1>4. CASE LoopExit
  BY <1>4 DEF LoopExit
<1>5. CASE RunSource
  BY <1>5 DEF RunSource, Operations
<1>6. CASE RunSignal
  BY <1>6 DEF RunSignal
<1>7. CASE StoreRc
  BY <1>7 DEF StoreRc, CodeOf
<1>8. CASE SignalAnswer
  BY <1>8 DEF SignalAnswer
<1>9. CASE AdapterOpenFails
  BY <1>9 DEF AdapterOpenFails
<1>10. CASE AdapterOpen
  BY <1>10 DEF AdapterOpen, FirstReport
<1>11. CASE ReportFails
  BY <1>11, ReportReturnsTo DEF ReportFails
<1>12. CASE Report
  BY <1>12, ReportReturnsTo DEF Report
<1>13. CASE NotifyLock
  BY <1>13 DEF NotifyLock
<1>14. CASE Notify
  BY <1>14, ReportReturnsTo DEF Notify, Told
<1>15. CASE ImeiOpenFails
  BY <1>15 DEF ImeiOpenFails
<1>16. CASE ImeiOpen
  BY <1>16 DEF ImeiOpen
<1>17. CASE ImeiCall
  BY <1>17 DEF ImeiCall, WriteIMEI
<1>18. CASE AdapterClose
  BY <1>18 DEF AdapterClose
<1> QED
  BY <1>1, <1>2, <1>3, <1>4, <1>5, <1>6, <1>7, <1>8, <1>9, <1>10, <1>11,
     <1>12, <1>13, <1>14, <1>15, <1>16, <1>17, <1>18
     DEF Loop

(* The user thread starts the loop's thread and otherwise does not move    *)
(* it, nor what the loop alone writes.                                     *)
LEMMA UserFrame ==
  ASSUME User
  PROVE  /\ UNCHANGED <<task, seen, code, ready, context, scannedCells,
                        lastCell, cell, changes, missed>>
         /\ \/ UNCHANGED lpc
            \/ upc = "start" /\ upc' = "starting" /\ lpc' = "init"
<1> USE DEF userVars, loopVars, thrdVars, dispVars, wrapVars, adptVars,
            netVars, histVars
<1>1. CASE StartFails
  BY <1>1 DEF StartFails
<1>2. CASE Start
  BY <1>2 DEF Start
<1>3. CASE Started
  BY <1>3 DEF Started, Ready
<1>4. CASE StartTimesOut
  BY <1>4 DEF StartTimesOut
<1>5. CASE Quit
  BY <1>5 DEF Quit
<1>6. CASE Join
  BY <1>6 DEF Join, Joined
<1>7. CASE DispatchToNowhere
  BY <1>7 DEF DispatchToNowhere
<1>8. CASE Dispatch
  BY <1>8 DEF Dispatch
<1>9. CASE ResetCode
  BY <1>9 DEF ResetCode
<1>10. CASE ClearEvent
  BY <1>10 DEF ClearEvent, Cleared
<1>11. CASE Attach
  BY <1>11 DEF Attach
<1>12. CASE Woken
  BY <1>12 DEF Woken
<1>13. CASE DispatchTimesOut
  BY <1>13 DEF DispatchTimesOut
<1>14. CASE Answered
  BY <1>14 DEF Answered, DispatchReturns
<1>15. CASE Opened
  BY <1>15 DEF Opened
<1>16. CASE GetIMEI
  BY <1>16 DEF GetIMEI
<1>17. CASE GetScannedCells
  BY <1>17 DEF GetScannedCells
<1>18. CASE Copied
  BY <1>18 DEF Copied
<1>19. CASE Destroy
  BY <1>19 DEF Destroy
<1>20. CASE Free
  BY <1>20 DEF Free
<1> QED
  BY <1>1, <1>2, <1>3, <1>4, <1>5, <1>6, <1>7, <1>8, <1>9, <1>10, <1>11,
     <1>12, <1>13, <1>14, <1>15, <1>16, <1>17, <1>18, <1>19, <1>20
     DEF User

-----------------------------------------------------------------------------
(* The type invariant, by the kind of value a variable has.                *)
PlacesOK ==
  /\ upc \in UserPlaces /\ lpc \in LoopPlaces
  /\ op \in Operations /\ callback \in Operations
  /\ task \in Operations \union {"signal"}

ValuesOK ==
  /\ context \in {"unset", "live", "orphan", "freed"}
  /\ rc \in {"ok", "error"} /\ code \in {"ok", "error"}
  /\ sources \in Nat
  /\ mutex \in {"none", "user", "loop"}
  /\ wrongAnswer \in Operations \union {"none"}
  /\ wrongWake \in Operations \union {"none"}
  /\ broken \subseteq {"context", "imei", "cells", "copy"}
  /\ changes \in 0..MaxChanges
  /\ scannedCells \in Cells \union {NoCell}
  /\ lastCell \in Cells \union {NoCell}
  /\ seen \in Cells \union {NoCell}
  /\ cell \in Cells \union {NoCell}

FlagsOK ==
  /\ thread \in BOOLEAN /\ ready \in BOOLEAN /\ running \in BOOLEAN
  /\ isOpen \in BOOLEAN /\ signalled \in BOOLEAN
  /\ connection \in BOOLEAN /\ changed \in BOOLEAN
  /\ ran \in BOOLEAN /\ timedOut \in BOOLEAN /\ failedOpen \in BOOLEAN
  /\ detached \in BOOLEAN /\ missed \in BOOLEAN

(* The parts make up the type invariant.                                   *)
LEMMA TypeParts == TypeOK <=> PlacesOK /\ ValuesOK /\ FlagsOK
  BY DEF TypeOK, PlacesOK, ValuesOK, FlagsOK

(* The call begins within its types.                                       *)
LEMMA InitType == Init => TypeOK
<1> SUFFICES ASSUME Init PROVE TypeOK
  OBVIOUS
<1>1. PlacesOK
  BY DEF Init, PlacesOK, UserPlaces, LoopPlaces, Operations
<1>2. ValuesOK
  BY CellLoopAssumption DEF Init, ValuesOK
<1>3. FlagsOK
  BY DEF Init, FlagsOK
<1> QED
  BY <1>1, <1>2, <1>3, TypeParts

(* Both threads stay somewhere in their code.                              *)
LEMMA PlacesStep ==
  ASSUME PlacesOK, TaskInv, Next
  PROVE  PlacesOK'
<1> USE DEF PlacesOK, UserPlaces, InDispatch, LoopPlaces, Operations,
            TaskInv, ReportPlaces, userVars, loopVars, dispVars, Return
<1>1. CASE StartFails
  BY <1>1 DEF StartFails
<1>2. CASE Start
  BY <1>2 DEF Start
<1>3. CASE Started
  BY <1>3 DEF Started, Ready
<1>4. CASE StartTimesOut
  BY <1>4 DEF StartTimesOut
<1>5. CASE Quit
  BY <1>5 DEF Quit
<1>6. CASE Join
  BY <1>6 DEF Join, Joined
<1>7. CASE DispatchToNowhere
  BY <1>7 DEF DispatchToNowhere
<1>8. CASE Dispatch
  BY <1>8 DEF Dispatch
<1>9. CASE ResetCode
  BY <1>9 DEF ResetCode
<1>10. CASE ClearEvent
  BY <1>10 DEF ClearEvent, Cleared
<1>11. CASE Attach
  BY <1>11 DEF Attach
<1>12. CASE Woken
  BY <1>12 DEF Woken
<1>13. CASE DispatchTimesOut
  BY <1>13 DEF DispatchTimesOut
<1>14. CASE Answered
  BY <1>14 DEF Answered, DispatchReturns
<1>15. CASE Opened
  BY <1>15 DEF Opened
<1>16. CASE GetIMEI
  BY <1>16 DEF GetIMEI
<1>17. CASE GetScannedCells
  BY <1>17 DEF GetScannedCells
<1>18. CASE Copied
  BY <1>18 DEF Copied
<1>19. CASE Destroy
  BY <1>19 DEF Destroy
<1>20. CASE Free
  BY <1>20 DEF Free
<1>21. CASE LoopInit
  BY <1>21 DEF LoopInit
<1>22. CASE LoopReady
  BY <1>22 DEF LoopReady
<1>23. CASE LoopRun
  BY <1>23 DEF LoopRun
<1>24. CASE LoopExit
  BY <1>24 DEF LoopExit
<1>25. CASE RunSource
  BY <1>25 DEF RunSource
<1>26. CASE RunSignal
  BY <1>26 DEF RunSignal
<1>27. CASE StoreRc
  BY <1>27 DEF StoreRc, CodeOf
<1>28. CASE SignalAnswer
  BY <1>28 DEF SignalAnswer
<1>29. CASE AdapterOpenFails
  BY <1>29 DEF AdapterOpenFails
<1>30. CASE AdapterOpen
  BY <1>30 DEF AdapterOpen, FirstReport
<1>31. CASE ReportFails
  BY <1>31, ReportReturnsTo DEF ReportFails
<1>32. CASE Report
  BY <1>32, ReportReturnsTo DEF Report
<1>33. CASE NotifyLock
  BY <1>33 DEF NotifyLock
<1>34. CASE Notify
  BY <1>34, ReportReturnsTo DEF Notify, Told
<1>35. CASE ImeiOpenFails
  BY <1>35 DEF ImeiOpenFails
<1>36. CASE ImeiOpen
  BY <1>36 DEF ImeiOpen
<1>37. CASE ImeiCall
  BY <1>37 DEF ImeiCall, WriteIMEI
<1>38. CASE AdapterClose
  BY <1>38 DEF AdapterClose
<1>39. CASE NetworkChanges
  BY <1>39 DEF NetworkChanges
<1> QED
  BY <1>1, <1>2, <1>3, <1>4, <1>5, <1>6, <1>7, <1>8, <1>9, <1>10, <1>11,
     <1>12, <1>13, <1>14, <1>15, <1>16, <1>17, <1>18, <1>19, <1>20, <1>21,
     <1>22, <1>23, <1>24, <1>25, <1>26, <1>27, <1>28, <1>29, <1>30, <1>31,
     <1>32, <1>33, <1>34, <1>35, <1>36, <1>37, <1>38, <1>39
     DEF Next, User, Loop

(* What the threads hold stays of its kind.                                *)
LEMMA ValuesStep ==
  ASSUME PlacesOK, ValuesOK, TaskInv, Next
  PROVE  ValuesOK'
<1> USE DEF PlacesOK, ValuesOK, TaskInv, ReportPlaces, Operations,
            loopVars, thrdVars, dispVars, wrapVars, adptVars, netVars,
            histVars, Return
<1>1. CASE StartFails
  BY <1>1 DEF StartFails
<1>2. CASE Start
  BY <1>2 DEF Start
<1>3. CASE Started
  BY <1>3 DEF Started, Ready
<1>4. CASE StartTimesOut
  BY <1>4 DEF StartTimesOut
<1>5. CASE Quit
  BY <1>5 DEF Quit
<1>6. CASE Join
  BY <1>6 DEF Join, Joined
<1>7. CASE DispatchToNowhere
  BY <1>7 DEF DispatchToNowhere
<1>8. CASE Dispatch
  BY <1>8 DEF Dispatch
<1>9. CASE ResetCode
  BY <1>9 DEF ResetCode
<1>10. CASE ClearEvent
  BY <1>10 DEF ClearEvent, Cleared
<1>11. CASE Attach
  BY <1>11 DEF Attach
<1>12. CASE Woken
  BY <1>12 DEF Woken
<1>13. CASE DispatchTimesOut
  BY <1>13 DEF DispatchTimesOut
<1>14. CASE Answered
  BY <1>14 DEF Answered, DispatchReturns
<1>15. CASE Opened
  BY <1>15 DEF Opened
<1>16. CASE GetIMEI
  BY <1>16 DEF GetIMEI
<1>17. CASE GetScannedCells
  BY <1>17 DEF GetScannedCells
<1>18. CASE Copied
  BY <1>18 DEF Copied
<1>19. CASE Destroy
  BY <1>19 DEF Destroy
<1>20. CASE Free
  BY <1>20 DEF Free
<1>21. CASE LoopInit
  BY <1>21 DEF LoopInit
<1>22. CASE LoopReady
  BY <1>22 DEF LoopReady
<1>23. CASE LoopRun
  BY <1>23 DEF LoopRun
<1>24. CASE LoopExit
  BY <1>24 DEF LoopExit
<1>25. CASE RunSource
  BY <1>25 DEF RunSource
<1>26. CASE RunSignal
  BY <1>26 DEF RunSignal
<1>27. CASE StoreRc
  BY <1>27 DEF StoreRc, CodeOf
<1>28. CASE SignalAnswer
  BY <1>28 DEF SignalAnswer
<1>29. CASE AdapterOpenFails
  BY <1>29 DEF AdapterOpenFails
<1>30. CASE AdapterOpen
  BY <1>30 DEF AdapterOpen, FirstReport
<1>31. CASE ReportFails
  BY <1>31, ReportReturnsTo DEF ReportFails
<1>32. CASE Report
  BY <1>32, ReportReturnsTo DEF Report
<1>33. CASE NotifyLock
  BY <1>33 DEF NotifyLock
<1>34. CASE Notify
  BY <1>34, ReportReturnsTo DEF Notify, Told
<1>35. CASE ImeiOpenFails
  BY <1>35 DEF ImeiOpenFails
<1>36. CASE ImeiOpen
  BY <1>36 DEF ImeiOpen
<1>37. CASE ImeiCall
  <2>1. broken' \subseteq {"context", "imei", "cells", "copy"}
    <3>1. CASE WriteIMEI
      BY <3>1 DEF WriteIMEI
    <3>2. CASE UNCHANGED broken
      BY <3>2
    <3> QED
      BY <1>37, <3>1, <3>2 DEF ImeiCall
  <2> QED
    BY <1>37, <2>1 DEF ImeiCall
<1>38. CASE AdapterClose
  BY <1>38 DEF AdapterClose
<1>39. CASE NetworkChanges
  <2>1. changes' \in 0..MaxChanges
    BY <1>39, CellLoopAssumption DEF NetworkChanges
  <2> QED
    BY <1>39, <2>1 DEF NetworkChanges
<1> QED
  BY <1>1, <1>2, <1>3, <1>4, <1>5, <1>6, <1>7, <1>8, <1>9, <1>10, <1>11,
     <1>12, <1>13, <1>14, <1>15, <1>16, <1>17, <1>18, <1>19, <1>20, <1>21,
     <1>22, <1>23, <1>24, <1>25, <1>26, <1>27, <1>28, <1>29, <1>30, <1>31,
     <1>32, <1>33, <1>34, <1>35, <1>36, <1>37, <1>38, <1>39
     DEF Next, User, Loop

(* The flags stay Boolean.                                                 *)
LEMMA FlagsStep ==
  ASSUME FlagsOK, Next
  PROVE  FlagsOK'
<1> USE DEF FlagsOK, userVars, thrdVars, dispVars, adptVars, netVars,
            histVars
<1>1. CASE StartFails
  BY <1>1 DEF StartFails
<1>2. CASE Start
  BY <1>2 DEF Start
<1>3. CASE Started
  BY <1>3 DEF Started, Ready
<1>4. CASE StartTimesOut
  BY <1>4 DEF StartTimesOut
<1>5. CASE Quit
  BY <1>5 DEF Quit
<1>6. CASE Join
  BY <1>6 DEF Join, Joined
<1>7. CASE DispatchToNowhere
  BY <1>7 DEF DispatchToNowhere
<1>8. CASE Dispatch
  BY <1>8 DEF Dispatch
<1>9. CASE ResetCode
  BY <1>9 DEF ResetCode
<1>10. CASE ClearEvent
  BY <1>10 DEF ClearEvent, Cleared
<1>11. CASE Attach
  BY <1>11 DEF Attach
<1>12. CASE Woken
  BY <1>12 DEF Woken
<1>13. CASE DispatchTimesOut
  BY <1>13 DEF DispatchTimesOut
<1>14. CASE Answered
  <2>1. isOpen' \in BOOLEAN /\ failedOpen' \in BOOLEAN
    BY <1>14, Zenon DEF Answered, DispatchReturns
  <2> QED
    BY <1>14, <2>1 DEF Answered
<1>15. CASE Opened
  BY <1>15 DEF Opened
<1>16. CASE GetIMEI
  BY <1>16 DEF GetIMEI
<1>17. CASE GetScannedCells
  BY <1>17 DEF GetScannedCells
<1>18. CASE Copied
  BY <1>18 DEF Copied
<1>19. CASE Destroy
  BY <1>19 DEF Destroy
<1>20. CASE Free
  BY <1>20 DEF Free
<1>21. CASE LoopInit
  BY <1>21 DEF LoopInit
<1>22. CASE LoopReady
  BY <1>22 DEF LoopReady
<1>23. CASE LoopRun
  BY <1>23 DEF LoopRun
<1>24. CASE LoopExit
  BY <1>24 DEF LoopExit
<1>25. CASE RunSource
  BY <1>25 DEF RunSource
<1>26. CASE RunSignal
  BY <1>26 DEF RunSignal
<1>27. CASE StoreRc
  BY <1>27, Zenon DEF StoreRc, CodeOf
<1>28. CASE SignalAnswer
  BY <1>28 DEF SignalAnswer
<1>29. CASE AdapterOpenFails
  BY <1>29 DEF AdapterOpenFails
<1>30. CASE AdapterOpen
  BY <1>30 DEF AdapterOpen, FirstReport
<1>31. CASE ReportFails
  BY <1>31 DEF ReportFails
<1>32. CASE Report
  BY <1>32 DEF Report
<1>33. CASE NotifyLock
  BY <1>33 DEF NotifyLock
<1>34. CASE Notify
  BY <1>34 DEF Notify, Told
<1>35. CASE ImeiOpenFails
  BY <1>35 DEF ImeiOpenFails
<1>36. CASE ImeiOpen
  BY <1>36 DEF ImeiOpen
<1>37. CASE ImeiCall
  BY <1>37, Zenon DEF ImeiCall, WriteIMEI
<1>38. CASE AdapterClose
  BY <1>38 DEF AdapterClose
<1>39. CASE NetworkChanges
  BY <1>39 DEF NetworkChanges
<1> QED
  BY <1>1, <1>2, <1>3, <1>4, <1>5, <1>6, <1>7, <1>8, <1>9, <1>10, <1>11,
     <1>12, <1>13, <1>14, <1>15, <1>16, <1>17, <1>18, <1>19, <1>20, <1>21,
     <1>22, <1>23, <1>24, <1>25, <1>26, <1>27, <1>28, <1>29, <1>30, <1>31,
     <1>32, <1>33, <1>34, <1>35, <1>36, <1>37, <1>38, <1>39
     DEF Next, User, Loop

(* TypeOK is preserved, by the parts.                                      *)
LEMMA TypeStep ==
  ASSUME TypeOK, TaskInv, [Next]_vars
  PROVE  TypeOK'
<1>1. CASE Next
  BY <1>1, TypeParts, PlacesStep, ValuesStep, FlagsStep, PTL
<1>2. CASE UNCHANGED vars
  BY <1>2 DEF TypeOK, vars, userVars, loopVars, thrdVars, dispVars, wrapVars,
              adptVars, netVars, histVars, UserPlaces, LoopPlaces
<1> QED
  BY <1>1, <1>2

-----------------------------------------------------------------------------
(* The parts of the inductive invariant about the control of the threads.  *)

(* What the user thread last dispatched agrees with the place it is at.    *)
OpInv ==
  /\ upc \in {"start", "starting", "opened", "imeiLock"} => op = "open"
  /\ upc \in {"stop", "joining"} => op # "imei"
  /\ upc \in InDispatch \ {"dispatch"} => callback = op

(* The loop's thread lives only while the user thread starts it, uses it   *)
(* or takes it back, unless start() has given it up.                       *)
LifeInv ==
  /\ upc = "start" => lpc = "none"
  /\ upc \in {"free", "done"} => ~isOpen
  /\ lpc \notin {"none", "exited"} /\ ~detached =>
       \/ upc \in {"starting", "stop", "joining", "undefined"}
       \/ op = "open" /\ upc \in InDispatch
       \/ isOpen

(* The loop's task and its place stay in agreement.                        *)
LEMMA TaskStep ==
  ASSUME callback \in Operations, TaskInv, Next
  PROVE  TaskInv'
<1> USE DEF TaskInv, ReportPlaces, Operations, userVars, loopVars, Return
<1>1. CASE User
  BY <1>1, UserFrame
<1>2. CASE LoopInit
  BY <1>2 DEF LoopInit
<1>3. CASE LoopReady
  BY <1>3 DEF LoopReady
<1>4. CASE LoopRun
  BY <1>4 DEF LoopRun
<1>5. CASE LoopExit
  BY <1>5 DEF LoopExit
<1>6. CASE RunSource
  BY <1>6 DEF RunSource
<1>7. CASE RunSignal
  BY <1>7 DEF RunSignal
<1>8. CASE StoreRc
  BY <1>8 DEF StoreRc, CodeOf
<1>9. CASE SignalAnswer
  BY <1>9 DEF SignalAnswer
<1>10. CASE AdapterOpenFails
  BY <1>10 DEF AdapterOpenFails
<1>11. CASE AdapterOpen
  BY <1>11 DEF AdapterOpen, FirstReport
<1>12. CASE ReportFails
  BY <1>12, ReportReturnsTo DEF ReportFails
<1>13. CASE Report
  BY <1>13, ReportReturnsTo DEF Report
<1>14. CASE NotifyLock
  BY <1>14 DEF NotifyLock
<1>15. CASE Notify
  BY <1>15, ReportReturnsTo DEF Notify, Told
<1>16. CASE ImeiOpenFails
  BY <1>16 DEF ImeiOpenFails
<1>17. CASE ImeiOpen
  BY <1>17 DEF ImeiOpen
<1>18. CASE ImeiCall
  BY <1>18 DEF ImeiCall, WriteIMEI
<1>19. CASE AdapterClose
  BY <1>19 DEF AdapterClose
<1>20. CASE NetworkChanges
  BY <1>20 DEF NetworkChanges
<1> QED
  BY <1>1, <1>2, <1>3, <1>4, <1>5, <1>6, <1>7, <1>8, <1>9, <1>10, <1>11,
     <1>12, <1>13, <1>14, <1>15, <1>16, <1>17, <1>18, <1>19, <1>20
     DEF Next, Loop

(* The user's operation and its place stay in agreement.                   *)
LEMMA OpStep ==
  ASSUME PlacesOK, TaskInv, OpInv, Next
  PROVE  OpInv'
<1> USE DEF OpInv, PlacesOK, InDispatch, Operations, userVars, dispVars
<1>1. CASE StartFails
  BY <1>1 DEF StartFails
<1>2. CASE Start
  BY <1>2 DEF Start
<1>3. CASE Started
  BY <1>3 DEF Started, Ready
<1>4. CASE StartTimesOut
  BY <1>4 DEF StartTimesOut
<1>5. CASE Quit
  BY <1>5 DEF Quit
<1>6. CASE Join
  BY <1>6 DEF Join, Joined
<1>7. CASE DispatchToNowhere
  BY <1>7 DEF DispatchToNowhere
<1>8. CASE Dispatch
  BY <1>8 DEF Dispatch
<1>9. CASE ResetCode
  BY <1>9 DEF ResetCode
<1>10. CASE ClearEvent
  BY <1>10 DEF ClearEvent, Cleared
<1>11. CASE Attach
  BY <1>11 DEF Attach
<1>12. CASE Woken
  BY <1>12 DEF Woken
<1>13. CASE DispatchTimesOut
  BY <1>13 DEF DispatchTimesOut
<1>14. CASE Answered
  BY <1>14 DEF Answered, DispatchReturns
<1>15. CASE Opened
  BY <1>15 DEF Opened
<1>16. CASE GetIMEI
  BY <1>16 DEF GetIMEI
<1>17. CASE GetScannedCells
  BY <1>17 DEF GetScannedCells
<1>18. CASE Copied
  BY <1>18 DEF Copied
<1>19. CASE Destroy
  BY <1>19 DEF Destroy
<1>20. CASE Free
  BY <1>20 DEF Free
<1>21. CASE Loop
  BY <1>21, LoopFrame
<1>22. CASE NetworkChanges
  BY <1>22 DEF NetworkChanges
<1> QED
  BY <1>1, <1>2, <1>3, <1>4, <1>5, <1>6, <1>7, <1>8, <1>9, <1>10, <1>11,
     <1>12, <1>13, <1>14, <1>15, <1>16, <1>17, <1>18, <1>19, <1>20, <1>21,
     <1>22
     DEF Next, User

(* The loop's thread is not left behind.                                   *)
LEMMA LifeStep ==
  ASSUME PlacesOK, TaskInv, OpInv, LifeInv, Next
  PROVE  LifeInv'
<1> USE DEF LifeInv, OpInv, PlacesOK, InDispatch, Operations, userVars,
            loopVars, histVars
<1>1. CASE StartFails
  BY <1>1 DEF StartFails
<1>2. CASE Start
  BY <1>2 DEF Start
<1>3. CASE Started
  BY <1>3 DEF Started, Ready
<1>4. CASE StartTimesOut
  BY <1>4 DEF StartTimesOut
<1>5. CASE Quit
  BY <1>5 DEF Quit
<1>6. CASE Join
  BY <1>6 DEF Join, Joined
<1>7. CASE DispatchToNowhere
  BY <1>7 DEF DispatchToNowhere
<1>8. CASE Dispatch
  BY <1>8 DEF Dispatch
<1>9. CASE ResetCode
  BY <1>9 DEF ResetCode
<1>10. CASE ClearEvent
  BY <1>10 DEF ClearEvent, Cleared
<1>11. CASE Attach
  BY <1>11 DEF Attach
<1>12. CASE Woken
  BY <1>12 DEF Woken
<1>13. CASE DispatchTimesOut
  BY <1>13 DEF DispatchTimesOut
<1>14. CASE Answered
  BY <1>14 DEF Answered, DispatchReturns
<1>15. CASE Opened
  BY <1>15 DEF Opened
<1>16. CASE GetIMEI
  BY <1>16 DEF GetIMEI
<1>17. CASE GetScannedCells
  BY <1>17 DEF GetScannedCells
<1>18. CASE Copied
  BY <1>18 DEF Copied
<1>19. CASE Destroy
  BY <1>19 DEF Destroy
<1>20. CASE Free
  BY <1>20 DEF Free
<1>21. CASE Loop
  BY <1>21, LoopFrame
<1>22. CASE NetworkChanges
  BY <1>22 DEF NetworkChanges
<1> QED
  BY <1>1, <1>2, <1>3, <1>4, <1>5, <1>6, <1>7, <1>8, <1>9, <1>10, <1>11,
     <1>12, <1>13, <1>14, <1>15, <1>16, <1>17, <1>18, <1>19, <1>20, <1>21,
     <1>22
     DEF Next, User

-----------------------------------------------------------------------------
(* The parts about the dispatcher.                                         *)

(* The loop runs the callback of a dispatch, or returns from it to the     *)
(* dispatcher's source.                                                    *)
Busy ==
  \/ lpc \in {"open", "imei", "close", "imeiCall", "storeRc", "signal"}
  \/ lpc \in ReportPlaces /\ task # "signal"

(* A dispatch that is waited for has one source, which the loop has not    *)
(* run or is running; no other source is about.                            *)
OneSource ==
  /\ upc = "waiting" /\ ~signalled =>
       \/ sources = 1 /\ ~Busy
       \/ sources = 0 /\ Busy
  /\ ~(upc = "waiting" /\ ~signalled) => sources = 0 /\ ~Busy

(* As long as no dispatch has timed out, what the loop runs is what the    *)
(* user waits for, and the event is signalled after the callback only.     *)
PromptInv ==
  ~timedOut =>
    /\ OneSource
    /\ Busy => task = op
    /\ upc = "attach" => ~signalled
    /\ upc = "waiting" /\ (lpc = "signal" \/ signalled) => ran
    /\ upc = "leaving" => ran
    /\ wrongAnswer = "none" /\ wrongWake = "none"
    /\ "imei" \notin broken

(* No callback is still to be run; the signal of the last one may be due.  *)
Settled == sources = 0 /\ (Busy => lpc = "signal")

(* Whether or not a dispatch has timed out, open() and getIMEI() begin     *)
(* theirs when no callback of an earlier one is left, unless the loop has  *)
(* ended: an open() that timed out either fails, and ends the loop, or has *)
(* returned the code of its own callback.  So only the code of their own   *)
(* callback reaches them; but the signal that wakes getIMEI() can be that  *)
(* of open().                                                              *)
NotMisled == wrongAnswer \in {"none", "close"} /\ wrongWake # "open"

(* open() is the first dispatch: nothing is left of an earlier one.        *)
OpenFirst ==
  op = "open" =>
    /\ upc \in {"start", "starting", "dispatch", "reset", "clear", "attach"}
         => ~Busy
    /\ upc = "attach" => ~signalled
    /\ upc = "waiting" /\ (lpc = "signal" \/ signalled) => ran

(* An SPI_OK in _rc is that of the own callback once _rc has been reset.   *)
OwnCode ==
  op # "close" /\ upc \in {"clear", "attach", "waiting", "leaving"}
    => (rc = "ok" => ran)

(* The places at which nothing of the operation is in the loop.            *)
Before ==
  \/ upc \in {"dispatch", "reset", "clear", "attach"}
  \/ op = "open" /\ upc \notin InDispatch \union {"stop", "joining"}

(* The source in the loop is the own one, and run once.                    *)
OwnSource ==
  op # "close" /\ lpc # "exited" =>
    /\ Before => Settled
    /\ upc \in {"reset", "clear", "attach"} => ~ran
    /\ upc \in {"waiting", "leaving"} =>
         \/ sources = 1 /\ ~ran /\ (Busy => lpc = "signal")
         \/ /\ sources = 0
            /\ Busy => task = op \/ lpc = "signal"
            /\ ran => Settled

OwnInv == NotMisled /\ OpenFirst /\ OwnCode /\ OwnSource

(* Without a timeout a dispatch and its callback stay together.            *)
LEMMA PromptStep ==
  ASSUME PlacesOK, ValuesOK, FlagsOK, TaskInv, OpInv, PromptInv, Next
  PROVE  PromptInv'
<1> USE DEF PlacesOK, ValuesOK, FlagsOK, TaskInv, OpInv, PromptInv,
            OneSource, Busy, InDispatch, ReportPlaces, Operations, userVars,
            loopVars, dispVars, histVars, Return
<1>1. CASE StartFails
  BY <1>1 DEF StartFails
<1>2. CASE Start
  BY <1>2 DEF Start
<1>3. CASE Started
  BY <1>3 DEF Started, Ready
<1>4. CASE StartTimesOut
  BY <1>4 DEF StartTimesOut
<1>5. CASE Quit
  BY <1>5 DEF Quit
<1>6. CASE Join
  BY <1>6 DEF Join, Joined
<1>7. CASE DispatchToNowhere
  BY <1>7 DEF DispatchToNowhere
<1>8. CASE Dispatch
  BY <1>8 DEF Dispatch
<1>9. CASE ResetCode
  BY <1>9 DEF ResetCode
<1>10. CASE ClearEvent
  BY <1>10 DEF ClearEvent, Cleared
<1>11. CASE Attach
  BY <1>11 DEF Attach
<1>12. CASE Woken
  BY <1>12 DEF Woken
<1>13. CASE DispatchTimesOut
  BY <1>13 DEF DispatchTimesOut
<1>14. CASE Answered
  BY <1>14 DEF Answered, DispatchReturns
<1>15. CASE Opened
  BY <1>15 DEF Opened
<1>16. CASE GetIMEI
  BY <1>16 DEF GetIMEI
<1>17. CASE GetScannedCells
  BY <1>17 DEF GetScannedCells
<1>18. CASE Copied
  BY <1>18 DEF Copied
<1>19. CASE Destroy
  BY <1>19 DEF Destroy
<1>20. CASE Free
  BY <1>20 DEF Free
<1>21. CASE LoopInit
  BY <1>21 DEF LoopInit
<1>22. CASE LoopReady
  BY <1>22 DEF LoopReady
<1>23. CASE LoopRun
  BY <1>23 DEF LoopRun
<1>24. CASE LoopExit
  BY <1>24 DEF LoopExit
<1>25. CASE RunSource
  BY <1>25 DEF RunSource
<1>26. CASE RunSignal
  BY <1>26 DEF RunSignal
<1>27. CASE StoreRc
  BY <1>27 DEF StoreRc, CodeOf
<1>28. CASE SignalAnswer
  BY <1>28 DEF SignalAnswer
<1>29. CASE AdapterOpenFails
  BY <1>29 DEF AdapterOpenFails
<1>30. CASE AdapterOpen
  BY <1>30 DEF AdapterOpen, FirstReport
<1>31. CASE ReportFails
  BY <1>31, ReportReturnsTo DEF ReportFails
<1>32. CASE Report
  BY <1>32, ReportReturnsTo DEF Report
<1>33. CASE NotifyLock
  BY <1>33 DEF NotifyLock
<1>34. CASE Notify
  BY <1>34, ReportReturnsTo DEF Notify, Told
<1>35. CASE ImeiOpenFails
  BY <1>35 DEF ImeiOpenFails
<1>36. CASE ImeiOpen
  BY <1>36 DEF ImeiOpen
<1>37. CASE ImeiCall
  <2>1. Busy /\ lpc' = "storeRc"
    BY <1>37 DEF ImeiCall
  <2>2. ~timedOut => ImeiAlive
    BY <1>37, <2>1 DEF ImeiCall, ImeiAlive
  <2>3. ~timedOut => "imei" \notin broken'
    <3>1. CASE WriteIMEI
      BY <2>2, <3>1 DEF WriteIMEI
    <3>2. CASE UNCHANGED broken
      BY <3>2
    <3> QED
      BY <1>37, <3>1, <3>2 DEF ImeiCall
  <2> QED
    BY <1>37, <2>1, <2>3 DEF ImeiCall
<1>38. CASE AdapterClose
  BY <1>38 DEF AdapterClose
<1>39. CASE NetworkChanges
  BY <1>39 DEF NetworkChanges
<1> QED
  BY <1>1, <1>2, <1>3, <1>4, <1>5, <1>6, <1>7, <1>8, <1>9, <1>10, <1>11,
     <1>12, <1>13, <1>14, <1>15, <1>16, <1>17, <1>18, <1>19, <1>20, <1>21,
     <1>22, <1>23, <1>24, <1>25, <1>26, <1>27, <1>28, <1>29, <1>30, <1>31,
     <1>32, <1>33, <1>34, <1>35, <1>36, <1>37, <1>38, <1>39
     DEF Next, User, Loop

(* No dispatch of open() or getIMEI() returns the code of another.         *)
LEMMA OwnStep ==
  ASSUME PlacesOK, ValuesOK, FlagsOK, TaskInv, OpInv, LifeInv, OwnInv,
         Next
  PROVE  OwnInv'
<1> USE DEF PlacesOK, ValuesOK, FlagsOK, TaskInv, OpInv, LifeInv,
            OwnInv, NotMisled, OpenFirst, OwnCode, OwnSource, Before,
            Settled, Busy, InDispatch, ReportPlaces, Operations,
            userVars, loopVars, dispVars, histVars, Return
<1>1. CASE StartFails
  BY <1>1 DEF StartFails
<1>2. CASE Start
  BY <1>2 DEF Start
<1>3. CASE Started
  BY <1>3 DEF Started, Ready
<1>4. CASE StartTimesOut
  BY <1>4 DEF StartTimesOut
<1>5. CASE Quit
  BY <1>5 DEF Quit
<1>6. CASE Join
  BY <1>6 DEF Join, Joined
<1>7. CASE DispatchToNowhere
  <2>1. NotMisled'
    BY <1>7 DEF DispatchToNowhere
  <2>2. OpenFirst'
    BY <1>7 DEF DispatchToNowhere
  <2>3. OwnCode'
    BY <1>7 DEF DispatchToNowhere
  <2>4. OwnSource'
    BY <1>7 DEF DispatchToNowhere
  <2> QED
    BY <2>1, <2>2, <2>3, <2>4
<1>8. CASE Dispatch
  BY <1>8 DEF Dispatch
<1>9. CASE ResetCode
  BY <1>9 DEF ResetCode
<1>10. CASE ClearEvent
  BY <1>10 DEF ClearEvent, Cleared
<1>11. CASE Attach
  <2>1. NotMisled'
    BY <1>11 DEF Attach
  <2>2. OpenFirst'
    BY <1>11 DEF Attach
  <2>3. OwnCode'
    BY <1>11 DEF Attach
  <2>4. OwnSource'
    BY <1>11 DEF Attach
  <2> QED
    BY <2>1, <2>2, <2>3, <2>4
<1>12. CASE Woken
  BY <1>12 DEF Woken
<1>13. CASE DispatchTimesOut
  BY <1>13 DEF DispatchTimesOut
<1>14. CASE Answered
  BY <1>14 DEF Answered, DispatchReturns
<1>15. CASE Opened
  BY <1>15 DEF Opened
<1>16. CASE GetIMEI
  BY <1>16 DEF GetIMEI
<1>17. CASE GetScannedCells
  BY <1>17 DEF GetScannedCells
<1>18. CASE Copied
  BY <1>18 DEF Copied
<1>19. CASE Destroy
  BY <1>19 DEF Destroy
<1>20. CASE Free
  BY <1>20 DEF Free
<1>21. CASE LoopInit
  BY <1>21 DEF LoopInit
<1>22. CASE LoopReady
  BY <1>22 DEF LoopReady
<1>23. CASE LoopRun
  BY <1>23 DEF LoopRun
<1>24. CASE LoopExit
  BY <1>24 DEF LoopExit
<1>25. CASE RunSource
  <2>1. NotMisled'
    BY <1>25 DEF RunSource
  <2>2. OpenFirst'
    BY <1>25 DEF RunSource
  <2>3. OwnCode'
    BY <1>25 DEF RunSource
  <2>4. OwnSource'
    BY <1>25 DEF RunSource
  <2> QED
    BY <2>1, <2>2, <2>3, <2>4
<1>26. CASE RunSignal
  BY <1>26 DEF RunSignal
<1>27. CASE StoreRc
  <2>1. NotMisled'
    BY <1>27 DEF StoreRc, CodeOf
  <2>2. OpenFirst'
    BY <1>27 DEF StoreRc, CodeOf
  <2>3. OwnCode'
    BY <1>27 DEF StoreRc, CodeOf
  <2>4. OwnSource'
    BY <1>27 DEF StoreRc, CodeOf
  <2> QED
    BY <2>1, <2>2, <2>3, <2>4
<1>28. CASE SignalAnswer
  BY <1>28 DEF SignalAnswer
<1>29. CASE AdapterOpenFails
  BY <1>29 DEF AdapterOpenFails
<1>30. CASE AdapterOpen
  BY <1>30 DEF AdapterOpen, FirstReport
<1>31. CASE ReportFails
  BY <1>31, ReportReturnsTo DEF ReportFails
<1>32. CASE Report
  BY <1>32, ReportReturnsTo DEF Report
<1>33. CASE NotifyLock
  BY <1>33 DEF NotifyLock
<1>34. CASE Notify
  BY <1>34, ReportReturnsTo DEF Notify, Told
<1>35. CASE ImeiOpenFails
  BY <1>35 DEF ImeiOpenFails
<1>36. CASE ImeiOpen
  BY <1>36 DEF ImeiOpen
<1>37. CASE ImeiCall
  BY <1>37 DEF ImeiCall, WriteIMEI
<1>38. CASE AdapterClose
  BY <1>38 DEF AdapterClose
<1>39. CASE NetworkChanges
  BY <1>39 DEF NetworkChanges
<1> QED
  BY <1>1, <1>2, <1>3, <1>4, <1>5, <1>6, <1>7, <1>8, <1>9, <1>10, <1>11,
     <1>12, <1>13, <1>14, <1>15, <1>16, <1>17, <1>18, <1>19, <1>20, <1>21,
     <1>22, <1>23, <1>24, <1>25, <1>26, <1>27, <1>28, <1>29, <1>30, <1>31,
     <1>32, <1>33, <1>34, <1>35, <1>36, <1>37, <1>38, <1>39
     DEF Next, User, Loop

-----------------------------------------------------------------------------
(* The parts about the context and about what the loop writes to.          *)

(* The context is there as long as the loop's thread uses it.  A thread    *)
(* that has been made ready runs until it is told to quit, which only      *)
(* close() does, unless open() has failed.                                 *)
CtxInv ==
  /\ lpc \notin {"none", "init", "exited"} => context = "live"
  /\ ready => lpc \notin {"none", "init", "initialized"}
  /\ lpc \notin {"none", "init", "initialized", "beforeRun", "exited"}
     /\ ~running => upc = "joining"
  /\ ~failedOpen =>
       /\ upc \notin {"start", "starting"} => lpc \notin {"none", "init"}
       /\ lpc = "exited" => upc \in {"joining", "free", "done"}
       /\ upc \in {"stop", "joining"} => op = "close"
       /\ upc # "undefined" /\ "context" \notin broken

(* Only a change of the network makes the loop report a cell of its own    *)
(* accord, after the operations are over.                                  *)
DangleInv ==
  /\ changed => changes > 0
  /\ lpc \in ReportPlaces /\ task = "signal" => changes > 0
  /\ ~timedOut /\ ("cells" \in broken \/ "copy" \in broken) => changes > 0

(* The context outlives its uses.                                          *)
LEMMA CtxStep ==
  ASSUME PlacesOK, ValuesOK, FlagsOK, TaskInv, OpInv, CtxInv, LifeInv, Next
  PROVE  CtxInv'
<1> USE DEF PlacesOK, ValuesOK, FlagsOK, TaskInv, OpInv, CtxInv, LifeInv,
            ReportPlaces, Operations, userVars, loopVars, thrdVars,
            histVars, Return
<1>1. CASE StartFails
  BY <1>1 DEF StartFails
<1>2. CASE Start
  BY <1>2 DEF Start
<1>3. CASE Started
  BY <1>3 DEF Started, Ready
<1>4. CASE StartTimesOut
  BY <1>4 DEF StartTimesOut
<1>5. CASE Quit
  BY <1>5 DEF Quit
<1>6. CASE Join
  BY <1>6 DEF Join, Joined
<1>7. CASE DispatchToNowhere
  BY <1>7 DEF DispatchToNowhere
<1>8. CASE Dispatch
  BY <1>8 DEF Dispatch
<1>9. CASE ResetCode
  BY <1>9 DEF ResetCode
<1>10. CASE ClearEvent
  BY <1>10 DEF ClearEvent, Cleared
<1>11. CASE Attach
  BY <1>11 DEF Attach
<1>12. CASE Woken
  BY <1>12 DEF Woken
<1>13. CASE DispatchTimesOut
  BY <1>13 DEF DispatchTimesOut
<1>14. CASE Answered
  BY <1>14 DEF Answered, DispatchReturns
<1>15. CASE Opened
  BY <1>15 DEF Opened
<1>16. CASE GetIMEI
  BY <1>16 DEF GetIMEI
<1>17. CASE GetScannedCells
  BY <1>17 DEF GetScannedCells
<1>18. CASE Copied
  BY <1>18 DEF Copied
<1>19. CASE Destroy
  BY <1>19 DEF Destroy
<1>20. CASE Free
  BY <1>20 DEF Free
<1>21. CASE LoopInit
  BY <1>21 DEF LoopInit
<1>22. CASE LoopReady
  BY <1>22 DEF LoopReady
<1>23. CASE LoopRun
  BY <1>23 DEF LoopRun
<1>24. CASE LoopExit
  BY <1>24 DEF LoopExit
<1>25. CASE RunSource
  BY <1>25 DEF RunSource
<1>26. CASE RunSignal
  BY <1>26 DEF RunSignal
<1>27. CASE StoreRc
  BY <1>27 DEF StoreRc, CodeOf
<1>28. CASE SignalAnswer
  BY <1>28 DEF SignalAnswer
<1>29. CASE AdapterOpenFails
  BY <1>29 DEF AdapterOpenFails
<1>30. CASE AdapterOpen
  BY <1>30 DEF AdapterOpen, FirstReport
<1>31. CASE ReportFails
  BY <1>31, ReportReturnsTo DEF ReportFails
<1>32. CASE Report
  BY <1>32, ReportReturnsTo DEF Report
<1>33. CASE NotifyLock
  BY <1>33 DEF NotifyLock
<1>34. CASE Notify
  BY <1>34, ReportReturnsTo DEF Notify, Told
<1>35. CASE ImeiOpenFails
  BY <1>35 DEF ImeiOpenFails
<1>36. CASE ImeiOpen
  BY <1>36 DEF ImeiOpen
<1>37. CASE ImeiCall
  BY <1>37 DEF ImeiCall, WriteIMEI
<1>38. CASE AdapterClose
  BY <1>38 DEF AdapterClose
<1>39. CASE NetworkChanges
  BY <1>39 DEF NetworkChanges
<1> QED
  BY <1>1, <1>2, <1>3, <1>4, <1>5, <1>6, <1>7, <1>8, <1>9, <1>10, <1>11,
     <1>12, <1>13, <1>14, <1>15, <1>16, <1>17, <1>18, <1>19, <1>20, <1>21,
     <1>22, <1>23, <1>24, <1>25, <1>26, <1>27, <1>28, <1>29, <1>30, <1>31,
     <1>32, <1>33, <1>34, <1>35, <1>36, <1>37, <1>38, <1>39
     DEF Next, User, Loop

(* What the loop writes is there, unless the network changes.              *)
LEMMA DangleStep ==
  ASSUME PlacesOK, ValuesOK, FlagsOK, TaskInv, OpInv, PromptInv, DangleInv,
         Next
  PROVE  DangleInv'
<1> USE DEF PlacesOK, ValuesOK, TaskInv, DangleInv, ReportPlaces,
            Operations, userVars, loopVars, netVars, histVars, Return
<1>1. CASE StartFails
  BY <1>1 DEF StartFails
<1>2. CASE Start
  BY <1>2 DEF Start
<1>3. CASE Started
  BY <1>3 DEF Started, Ready
<1>4. CASE StartTimesOut
  BY <1>4 DEF StartTimesOut
<1>5. CASE Quit
  BY <1>5 DEF Quit
<1>6. CASE Join
  BY <1>6 DEF Join, Joined
<1>7. CASE DispatchToNowhere
  BY <1>7 DEF DispatchToNowhere
<1>8. CASE Dispatch
  BY <1>8 DEF Dispatch
<1>9. CASE ResetCode
  BY <1>9 DEF ResetCode
<1>10. CASE ClearEvent
  BY <1>10 DEF ClearEvent, Cleared
<1>11. CASE Attach
  BY <1>11 DEF Attach
<1>12. CASE Woken
  BY <1>12 DEF Woken
<1>13. CASE DispatchTimesOut
  BY <1>13 DEF DispatchTimesOut
<1>14. CASE Answered
  BY <1>14 DEF Answered, DispatchReturns
<1>15. CASE Opened
  BY <1>15 DEF Opened
<1>16. CASE GetIMEI
  BY <1>16 DEF GetIMEI
<1>17. CASE GetScannedCells
  BY <1>17 DEF GetScannedCells
<1>18. CASE Copied
  BY <1>18 DEF Copied
<1>19. CASE Destroy
  BY <1>19 DEF Destroy
<1>20. CASE Free
  BY <1>20 DEF Free
<1>21. CASE LoopInit
  BY <1>21 DEF LoopInit
<1>22. CASE LoopReady
  BY <1>22 DEF LoopReady
<1>23. CASE LoopRun
  BY <1>23 DEF LoopRun
<1>24. CASE LoopExit
  BY <1>24 DEF LoopExit
<1>25. CASE RunSource
  BY <1>25 DEF RunSource
<1>26. CASE RunSignal
  BY <1>26 DEF RunSignal
<1>27. CASE StoreRc
  BY <1>27 DEF StoreRc, CodeOf
<1>28. CASE SignalAnswer
  BY <1>28 DEF SignalAnswer
<1>29. CASE AdapterOpenFails
  BY <1>29 DEF AdapterOpenFails
<1>30. CASE AdapterOpen
  BY <1>30 DEF AdapterOpen, FirstReport
<1>31. CASE ReportFails
  BY <1>31, ReportReturnsTo DEF ReportFails
<1>32. CASE Report
  BY <1>32, ReportReturnsTo DEF Report
<1>33. CASE NotifyLock
  BY <1>33 DEF NotifyLock
<1>34. CASE Notify
  <2>1. task # "signal" /\ ~timedOut =>
          CellsAlive /\ upc # "copying"
    BY <1>34 DEF Notify, CellsAlive, PromptInv, OneSource, Busy
  <2>2. ~timedOut /\ ("cells" \in broken' \/ "copy" \in broken')
          => changes > 0
    BY <1>34, <2>1 DEF Notify
  <2>3. task = "signal" => lpc' = "idle"
    BY <1>34, ReportReturnsTo DEF Notify
  <2>4. UNCHANGED <<task, changed, changes, timedOut>>
    BY <1>34 DEF Notify
  <2> QED
    BY <1>34, <2>2, <2>3, <2>4, ReportReturnsTo DEF Notify
<1>35. CASE ImeiOpenFails
  BY <1>35 DEF ImeiOpenFails
<1>36. CASE ImeiOpen
  BY <1>36 DEF ImeiOpen
<1>37. CASE ImeiCall
  BY <1>37 DEF ImeiCall, WriteIMEI
<1>38. CASE AdapterClose
  BY <1>38 DEF AdapterClose
<1>39. CASE NetworkChanges
  BY <1>39 DEF NetworkChanges
<1> QED
  BY <1>1, <1>2, <1>3, <1>4, <1>5, <1>6, <1>7, <1>8, <1>9, <1>10, <1>11,
     <1>12, <1>13, <1>14, <1>15, <1>16, <1>17, <1>18, <1>19, <1>20, <1>21,
     <1>22, <1>23, <1>24, <1>25, <1>26, <1>27, <1>28, <1>29, <1>30, <1>31,
     <1>32, <1>33, <1>34, <1>35, <1>36, <1>37, <1>38, <1>39
     DEF Next, User, Loop

-----------------------------------------------------------------------------
(* The part about the cell that is reported.                               *)

(* What the wrapper and the adapter hold is the modem's cell, unless a     *)
(* message about a change waits, a report is under way or oFono has not    *)
(* answered the last one; and a report under way knows the cell.           *)
ReportInv ==
  /\ changed => connection
  /\ lpc \in ReportPlaces \union {"imeiCall"} => connection \/ upc = "done"
  /\ scannedCells = lastCell
  /\ connection /\ ~changed /\ ~missed =>
       /\ lpc \notin ReportPlaces => lastCell = cell
       /\ lpc \in {"notify", "notified"} => seen = cell

(* No change of the cell is lost between two steps.                        *)
LEMMA ReportStep ==
  ASSUME PlacesOK, ValuesOK, FlagsOK, TaskInv, LifeInv, ReportInv, Next
  PROVE  ReportInv'
<1> USE DEF PlacesOK, FlagsOK, TaskInv, LifeInv, ReportInv, ReportPlaces,
            Operations, userVars, loopVars, wrapVars, adptVars, netVars,
            histVars, Return
<1>1. CASE StartFails
  BY <1>1 DEF StartFails
<1>2. CASE Start
  BY <1>2 DEF Start
<1>3. CASE Started
  BY <1>3 DEF Started, Ready
<1>4. CASE StartTimesOut
  BY <1>4 DEF StartTimesOut
<1>5. CASE Quit
  BY <1>5 DEF Quit
<1>6. CASE Join
  BY <1>6 DEF Join, Joined
<1>7. CASE DispatchToNowhere
  BY <1>7 DEF DispatchToNowhere
<1>8. CASE Dispatch
  BY <1>8 DEF Dispatch
<1>9. CASE ResetCode
  BY <1>9 DEF ResetCode
<1>10. CASE ClearEvent
  BY <1>10 DEF ClearEvent, Cleared
<1>11. CASE Attach
  BY <1>11 DEF Attach
<1>12. CASE Woken
  BY <1>12 DEF Woken
<1>13. CASE DispatchTimesOut
  BY <1>13 DEF DispatchTimesOut
<1>14. CASE Answered
  BY <1>14 DEF Answered, DispatchReturns
<1>15. CASE Opened
  BY <1>15 DEF Opened
<1>16. CASE GetIMEI
  BY <1>16 DEF GetIMEI
<1>17. CASE GetScannedCells
  BY <1>17 DEF GetScannedCells
<1>18. CASE Copied
  BY <1>18 DEF Copied
<1>19. CASE Destroy
  BY <1>19 DEF Destroy
<1>20. CASE Free
  BY <1>20 DEF Free
<1>21. CASE LoopInit
  BY <1>21 DEF LoopInit
<1>22. CASE LoopReady
  BY <1>22 DEF LoopReady
<1>23. CASE LoopRun
  BY <1>23 DEF LoopRun
<1>24. CASE LoopExit
  BY <1>24 DEF LoopExit
<1>25. CASE RunSource
  BY <1>25 DEF RunSource
<1>26. CASE RunSignal
  BY <1>26 DEF RunSignal
<1>27. CASE StoreRc
  BY <1>27 DEF StoreRc, CodeOf
<1>28. CASE SignalAnswer
  BY <1>28 DEF SignalAnswer
<1>29. CASE AdapterOpenFails
  BY <1>29 DEF AdapterOpenFails
<1>30. CASE AdapterOpen
  BY <1>30 DEF AdapterOpen, FirstReport
<1>31. CASE ReportFails
  BY <1>31, ReportReturnsTo DEF ReportFails
<1>32. CASE Report
  BY <1>32, ReportReturnsTo DEF Report
<1>33. CASE NotifyLock
  BY <1>33 DEF NotifyLock
<1>34. CASE Notify
  BY <1>34, ReportReturnsTo DEF Notify, Told
<1>35. CASE ImeiOpenFails
  BY <1>35 DEF ImeiOpenFails
<1>36. CASE ImeiOpen
  BY <1>36 DEF ImeiOpen
<1>37. CASE ImeiCall
  BY <1>37 DEF ImeiCall, WriteIMEI
<1>38. CASE AdapterClose
  BY <1>38 DEF AdapterClose
<1>39. CASE NetworkChanges
  BY <1>39 DEF NetworkChanges
<1> QED
  BY <1>1, <1>2, <1>3, <1>4, <1>5, <1>6, <1>7, <1>8, <1>9, <1>10, <1>11,
     <1>12, <1>13, <1>14, <1>15, <1>16, <1>17, <1>18, <1>19, <1>20, <1>21,
     <1>22, <1>23, <1>24, <1>25, <1>26, <1>27, <1>28, <1>29, <1>30, <1>31,
     <1>32, <1>33, <1>34, <1>35, <1>36, <1>37, <1>38, <1>39
     DEF Next, User, Loop

-----------------------------------------------------------------------------
(* The inductive invariant.                                                *)
IInv ==
  /\ TypeOK
  /\ TaskInv
  /\ OpInv
  /\ LifeInv
  /\ PromptInv
  /\ OwnInv
  /\ CtxInv
  /\ DangleInv
  /\ ReportInv

(* It holds when SHLC_location is about to open its cell side.             *)
LEMMA InitInv == Init => IInv
<1> SUFFICES ASSUME Init PROVE IInv
  OBVIOUS
<1>1. TypeOK
  BY InitType
<1>2. TaskInv /\ OpInv /\ LifeInv
  BY DEF Init, TaskInv, OpInv, LifeInv, ReportPlaces
<1>3. PromptInv /\ OwnInv
  BY DEF Init, PromptInv, OwnInv, NotMisled, OpenFirst, OwnCode,
         OwnSource, Before, InDispatch, OneSource, Busy, Settled, ReportPlaces
<1>4. CtxInv /\ DangleInv
  BY DEF Init, CtxInv, DangleInv, ReportPlaces
<1>5. ReportInv
  BY DEF Init, ReportInv, ReportPlaces
<1> QED
  BY <1>1, <1>2, <1>3, <1>4, <1>5 DEF IInv

(* Every step preserves it.                                                *)
LEMMA StepInv == IInv /\ [Next]_vars => IInv'
<1> SUFFICES ASSUME IInv, [Next]_vars PROVE IInv'
  OBVIOUS
<1> USE DEF IInv
<1>1. CASE Next
  <2>1. PlacesOK /\ ValuesOK /\ FlagsOK
    BY TypeParts
  <2>2. callback \in Operations
    BY <2>1 DEF PlacesOK
  <2>3. TypeOK'
    BY TypeStep
  <2>4. TaskInv' /\ OpInv' /\ LifeInv'
    BY <1>1, <2>1, <2>2, TaskStep, OpStep, LifeStep
  <2>5. PromptInv' /\ OwnInv'
    BY <1>1, <2>1, PromptStep, OwnStep
  <2>6. CtxInv' /\ DangleInv'
    BY <1>1, <2>1, CtxStep, DangleStep
  <2>7. ReportInv'
    BY <1>1, <2>1, ReportStep
  <2> QED
    BY <2>3, <2>4, <2>5, <2>6, <2>7
<1>2. CASE UNCHANGED vars
  <2> USE <1>2 DEF vars, userVars, loopVars, thrdVars, dispVars, wrapVars,
                   adptVars, netVars, histVars
  <2>1. TypeOK'
    BY TypeStep
  <2>2. TaskInv' /\ OpInv' /\ LifeInv'
    BY DEF TaskInv, OpInv, LifeInv, ReportPlaces
  <2>3. PromptInv' /\ OwnInv'
    BY DEF PromptInv, OwnInv, NotMisled, OpenFirst, OwnCode,
           OwnSource, Before, InDispatch, OneSource, Busy, Settled,
           ReportPlaces
  <2>4. CtxInv' /\ DangleInv'
    BY DEF CtxInv, DangleInv, ReportPlaces
  <2>5. ReportInv'
    BY DEF ReportInv, ReportPlaces
  <2> QED
    BY <2>1, <2>2, <2>3, <2>4, <2>5
<1> QED
  BY <1>1, <1>2

(* The inductive invariant is one.                                         *)
LEMMA Inductive == Spec => []IInv
  BY InitInv, StepInv, PTL DEF Spec

-----------------------------------------------------------------------------
(* The theorems.                                                           *)

(* Every variable of the cell side stays within its type.                  *)
THEOREM TypeCorrect == Spec => []TypeOK
<1>1. IInv => TypeOK
  BY DEF IInv
<1> QED
  BY <1>1, Inductive, PTL

(* Without a timeout a dispatch is woken by its own callback and returns   *)
(* its code.  After one, getIMEI() can be woken by the late signal of an   *)
(* open(), but returns SPI_OK only if its own callback has been run; only  *)
(* the dispatch of close(), whose code nobody uses, can return the SPI_OK  *)
(* of another.                                                             *)
THEOREM DispatchGetsOwnAnswer == Spec => []OwnAnswer
<1>1. IInv => OwnAnswer
  BY DEF IInv, OwnAnswer, PromptInv, OwnInv, NotMisled
<1> QED
  BY <1>1, Inductive, PTL

(* What CellWrapper holds is what the adapter last reported; and when the  *)
(* loop is idle with no message waiting, it is the modem's cell, unless    *)
(* oFono did not answer the last report.                                   *)
THEOREM CellChangesAreReported == Spec => []IdleMeansReported
<1>1. IInv => IdleMeansReported
  BY DEF IInv, IdleMeansReported, ReportMatches, ReportInv, ReportPlaces
<1> QED
  BY <1>1, Inductive, PTL

(* Operations are dispatched to the context of the running loop unless     *)
(* open() has failed; without a timeout the loop writes no IMEI to a       *)
(* caller that has returned, and nothing to a list of cells that is gone   *)
(* or being copied unless the network changes.                             *)
THEOREM NothingDanglesWithoutTimeout == Spec => []NothingDangles
<1>1. IInv => DeadContextOnlyAfterFailedOpen
  BY DEF IInv, CtxInv, DeadContextOnlyAfterFailedOpen
<1>2. IInv => (~timedOut => "imei" \notin broken)
  BY DEF IInv, PromptInv
<1>3. IInv => (~timedOut /\ broken \intersect {"cells", "copy"} # {}
                 => changes > 0)
  BY DEF IInv, DangleInv
<1>4. IInv => NothingDangles
  BY <1>1, <1>2, <1>3 DEF NothingDangles
<1> QED
  BY <1>4, Inductive, PTL

(* The adapter is closed and destroyed by the user thread only when the    *)
(* loop's thread is over, or was given up by start().                      *)
THEOREM AdapterIsConfined == Spec => []LoopConfinesAdapter
<1>1. IInv => LoopConfinesAdapter
  BY DEF IInv, InDispatch, LifeInv, LoopConfinesAdapter
<1> QED
  BY <1>1, Inductive, PTL
=============================================================================
