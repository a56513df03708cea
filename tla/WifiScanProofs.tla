--------------------------- MODULE WifiScanProofs ---------------------------
(***************************************************************************)
(* Theorems about WifiScan, for every set of access points and any number  *)
(* of foreign scans: its type invariant, that the netlink socket stays in  *)
(* step, that nothing of the listener outlives the join, that close() is   *)
(* followed by one callback at most, that a scan which ends with SPI_OK    *)
(* returns a table of the kernel's, and which callback alone can find the  *)
(* wrapper's members gone.                                                 *)
(***************************************************************************)
EXTENDS WifiScan, TLAPS

-----------------------------------------------------------------------------
(* The type invariant.                                                     *)

(* What the three ways of doRequest do to the socket's types.              *)
SockOK ==
  /\ seqNext \in Nat /\ seqExpect \in Nat
  /\ replies \in Seq(Reply)
  /\ awaiting \in SUBSET Threads
  /\ multi \in [Threads -> BOOLEAN]

(* An answer to the request that is sent next is a reply.                  *)
LEMMA AnswerType ==
  ASSUME seqNext \in Nat, NEW kind \in {"data", "done", "ack", "err"},
         NEW aps \in SUBSET APs
  PROVE  /\ Answer(kind, aps) \in Reply
         /\ <<Answer(kind, aps)>> \in Seq(Reply)
  BY DEF Answer, Reply

(* The answer to a dump request is a sequence of replies.                  *)
LEMMA DumpType ==
  ASSUME seqNext \in Nat, table \in SUBSET APs
  PROVE  Dump \in Seq(Reply)
<1>1. Answer("data", table) \in Reply /\ Answer("done", {}) \in Reply
  BY AnswerType
<1> QED
  BY <1>1 DEF Dump

(* Sending keeps the socket's types, whatever becomes of the request.      *)
LEMMA SendType ==
  ASSUME SockOK, NEW t \in Threads, NEW answer \in Seq(Reply),
         SendFails \/ SendLeaves(answer) \/ SendAwaits(t, answer)
  PROVE  SockOK'
<1>1. CASE SendFails
  BY <1>1 DEF SockOK, SendFails, sockVars
<1>2. CASE SendLeaves(answer)
  <2>1. replies \o answer \in Seq(Reply)
    BY DEF SockOK
  <2> QED
    BY <1>2, <2>1 DEF SockOK, SendLeaves, Request
<1>3. CASE SendAwaits(t, answer)
  <2>1. replies \o answer \in Seq(Reply)
    BY DEF SockOK
  <2>2. multi' \in [Threads -> BOOLEAN]
    BY <1>3 DEF SockOK, SendAwaits
  <2> QED
    BY <1>3, <2>1, <2>2 DEF SockOK, SendAwaits, Request
<1> QED
  BY <1>1, <1>2, <1>3

(* Reading one reply keeps them too, and the reply was one.                *)
LEMMA ReceiveType ==
  ASSUME SockOK, NEW t \in Threads, ReceiveReply(t)
  PROVE  SockOK' /\ Head(replies) \in Reply
<1>1. replies \in Seq(Reply) /\ replies # <<>>
  BY DEF SockOK, ReceiveReply
<1>2. Head(replies) \in Reply /\ Tail(replies) \in Seq(Reply)
  BY <1>1
<1>3. multi' \in [Threads -> BOOLEAN]
  BY Zenon DEF SockOK, ReceiveReply
<1>4. awaiting' \in SUBSET Threads
  BY DEF SockOK, ReceiveReply
<1>5. seqExpect' \in Nat
  BY DEF SockOK, ReceiveReply
<1> QED
  BY <1>2, <1>3, <1>4, <1>5 DEF SockOK, ReceiveReply

-----------------------------------------------------------------------------
(* The rest of the type invariant, by the part of the system it is about.  *)
PlacesOK ==
  /\ mpc \in MainPlaces
  /\ lpc \in ListenerPlaces
  /\ code \in {"ok", "error"}
  /\ rc \in {"not_ready", "ok", "error"}
  /\ result \in {"none", "SCANNED", "RADIO_NOT_AVAILABLE", "UNAUTHORIZED"}

CountsOK == foreign \in Nat /\ handled \in Nat /\ late \in Nat

FlagsOK ==
  /\ isOpen \in BOOLEAN /\ cancel \in BOOLEAN /\ subscribed \in BOOLEAN
  /\ signalled \in BOOLEAN /\ scanning \in BOOLEAN
  /\ crossed \in BOOLEAN /\ torn \in BOOLEAN
  /\ failed \in BOOLEAN /\ lateTouch \in BOOLEAN

DataOK ==
  /\ events \in Seq({"results", "aborted"})
  /\ heard \in SUBSET APs
  /\ scan \in SUBSET APs /\ scannedAPs \in SUBSET APs
  /\ table \in SUBSET APs
  /\ snapshots \in SUBSET SUBSET APs

(* The parts make up the type invariant.                                   *)
LEMMA TypeParts ==
  TypeOK <=> SockOK /\ PlacesOK /\ CountsOK /\ FlagsOK /\ DataOK
  BY DEF TypeOK, SockOK, PlacesOK, CountsOK, FlagsOK, DataOK

(* The scan begins within its types.                                       *)
LEMMA InitType == Init => TypeOK
<1> SUFFICES ASSUME Init PROVE TypeOK
  OBVIOUS
<1>1. SockOK
  BY DEF Init, SockOK
<1>2. PlacesOK
  BY DEF Init, PlacesOK, MainPlaces, ListenerPlaces
<1>3. CountsOK
  BY DEF Init, CountsOK
<1>4. FlagsOK
  BY DEF Init, FlagsOK
<1>5. DataOK
  BY DEF Init, DataOK
<1> QED
  BY <1>1, <1>2, <1>3, <1>4, <1>5, TypeParts

(* Each step leaves both threads somewhere in their code.                  *)
LEMMA PlacesStep ==
  ASSUME PlacesOK, Next
  PROVE  PlacesOK'
<1> USE DEF PlacesOK, outVars, lstnVars, wrapVars, MainPlaces,
            ListenerPlaces, Goto, Give, AfterStatement, ScanCode
<1>1. CASE OpenFails
  BY <1>1 DEF OpenFails
<1>2. CASE Open
  BY <1>2 DEF Open
<1>3. CASE PowerUp
  BY <1>3 DEF PowerUp, PowerRequest, SendFails, SendLeaves, SendAwaits
<1>4. CASE PowerUpReply
  BY <1>4 DEF PowerUpReply, PowerReply, ReceiveReply
<1>5. CASE Username
  BY <1>5 DEF Username
<1>6. CASE Clear
  BY <1>6 DEF Clear
<1>7. CASE StartScanGivesUp
  BY <1>7 DEF StartScanGivesUp
<1>8. CASE StartScan
  BY <1>8 DEF StartScan, SendFails, SendLeaves, SendAwaits
<1>9. CASE StartScanReply
  BY <1>9 DEF StartScanReply, ReceiveReply
<1>10. CASE FailRc
  BY <1>10 DEF FailRc
<1>11. CASE FailScan
  BY <1>11 DEF FailScan
<1>12. CASE FailScanEnd
  BY <1>12 DEF FailScanEnd
<1>13. CASE FailSignal
  BY <1>13 DEF FailSignal
<1>14. CASE WaitBlocks
  BY <1>14 DEF WaitBlocks
<1>15. CASE WaitReturns
  BY <1>15 DEF WaitReturns
<1>16. CASE WaitTimesOut
  BY <1>16 DEF WaitTimesOut
<1>17. CASE ReadRc
  BY <1>17 DEF ReadRc
<1>18. CASE Copy
  BY <1>18 DEF Copy
<1>19. CASE CloseNothing
  BY <1>19 DEF CloseNothing
<1>20. CASE Close
  BY <1>20 DEF Close
<1>21. CASE Join
  BY <1>21 DEF Join
<1>22. CASE PowerDown
  BY <1>22 DEF PowerDown, PowerRequest, SendFails, SendLeaves, SendAwaits
<1>23. CASE PowerDownReply
  BY <1>23 DEF PowerDownReply, PowerReply, ReceiveReply
<1>24. CASE Setup
  BY <1>24 DEF Setup
<1>25. CASE SetupFails
  BY <1>25 DEF SetupFails, Exit
<1>26. CASE ListenFails
  BY <1>26 DEF ListenFails, Exit
<1>27. CASE Cancelled
  BY <1>27 DEF Cancelled, Exit
<1>28. CASE Notified
  BY <1>28 DEF Notified
<1>29. CASE GetScan
  BY <1>29 DEF GetScan, SendFails, SendLeaves, SendAwaits
<1>30. CASE GetScanReply
  BY <1>30 DEF GetScanReply, ReceiveReply
<1>31. CASE CallbackRc
  BY <1>31 DEF CallbackRc, Touch
<1>32. CASE CallbackScan
  BY <1>32 DEF CallbackScan, Touch
<1>33. CASE CallbackSignal
  BY <1>33 DEF CallbackSignal, Touch
<1>34. CASE ScanStartsElsewhere
  BY <1>34 DEF ScanStartsElsewhere
<1>35. CASE ScanFinishes
  BY <1>35 DEF ScanFinishes
<1> QED
  BY <1>1, <1>2, <1>3, <1>4, <1>5, <1>6, <1>7, <1>8, <1>9, <1>10, <1>11,
     <1>12, <1>13, <1>14, <1>15, <1>16, <1>17, <1>18, <1>19, <1>20, <1>21,
     <1>22, <1>23, <1>24, <1>25, <1>26, <1>27, <1>28, <1>29, <1>30, <1>31,
     <1>32, <1>33, <1>34, <1>35
     DEF Next, Main, Listener, Kernel

(* Each step leaves the flags Boolean.                                     *)
LEMMA FlagsStep ==
  ASSUME FlagsOK, Next
  PROVE  FlagsOK'
<1> USE DEF FlagsOK, adptVars, histVars, kernVars, wrapVars, MembersAlive
<1>1. CASE OpenFails
  BY <1>1, Zenon DEF OpenFails
<1>2. CASE Open
  BY <1>2, Zenon DEF Open
<1>3. CASE PowerUp
  BY <1>3, Zenon DEF PowerUp, PowerRequest, SendFails, SendLeaves, SendAwaits
<1>4. CASE PowerUpReply
  BY <1>4, Zenon DEF PowerUpReply, PowerReply, ReceiveReply
<1>5. CASE Username
  BY <1>5, Zenon DEF Username
<1>6. CASE Clear
  BY <1>6, Zenon DEF Clear
<1>7. CASE StartScanGivesUp
  BY <1>7, Zenon DEF StartScanGivesUp
<1>8. CASE StartScan
  BY <1>8, Zenon DEF StartScan, SendFails, SendLeaves, SendAwaits
<1>9. CASE StartScanReply
  BY <1>9, Zenon DEF StartScanReply, ReceiveReply
<1>10. CASE FailRc
  BY <1>10, Zenon DEF FailRc
<1>11. CASE FailScan
  BY <1>11, Zenon DEF FailScan
<1>12. CASE FailScanEnd
  BY <1>12, Zenon DEF FailScanEnd
<1>13. CASE FailSignal
  BY <1>13, Zenon DEF FailSignal
<1>14. CASE WaitBlocks
  BY <1>14, Zenon DEF WaitBlocks
<1>15. CASE WaitReturns
  BY <1>15, Zenon DEF WaitReturns
<1>16. CASE WaitTimesOut
  BY <1>16, Zenon DEF WaitTimesOut
<1>17. CASE ReadRc
  BY <1>17, Zenon DEF ReadRc
<1>18. CASE Copy
  BY <1>18, Zenon DEF Copy
<1>19. CASE CloseNothing
  BY <1>19, Zenon DEF CloseNothing
<1>20. CASE Close
  BY <1>20, Zenon DEF Close
<1>21. CASE Join
  BY <1>21, Zenon DEF Join
<1>22. CASE PowerDown
  BY <1>22, Zenon DEF PowerDown, PowerRequest, SendFails, SendLeaves,
     SendAwaits
<1>23. CASE PowerDownReply
  BY <1>23, Zenon DEF PowerDownReply, PowerReply, ReceiveReply
<1>24. CASE Setup
  BY <1>24, Zenon DEF Setup
<1>25. CASE SetupFails
  BY <1>25, Zenon DEF SetupFails, Exit
<1>26. CASE ListenFails
  BY <1>26, Zenon DEF ListenFails, Exit
<1>27. CASE Cancelled
  BY <1>27, Zenon DEF Cancelled, Exit
<1>28. CASE Notified
  BY <1>28, Zenon DEF Notified
<1>29. CASE GetScan
  BY <1>29, Zenon DEF GetScan, SendFails, SendLeaves, SendAwaits
<1>30. CASE GetScanReply
  BY <1>30, Zenon DEF GetScanReply, ReceiveReply
<1>31. CASE CallbackRc
  BY <1>31, Zenon DEF CallbackRc, Touch
<1>32. CASE CallbackScan
  BY <1>32, Zenon DEF CallbackScan, Touch
<1>33. CASE CallbackSignal
  BY <1>33, Zenon DEF CallbackSignal, Touch
<1>34. CASE ScanStartsElsewhere
  BY <1>34, Zenon DEF ScanStartsElsewhere
<1>35. CASE ScanFinishes
  BY <1>35, Zenon DEF ScanFinishes
<1> QED
  BY <1>1, <1>2, <1>3, <1>4, <1>5, <1>6, <1>7, <1>8, <1>9, <1>10, <1>11,
     <1>12, <1>13, <1>14, <1>15, <1>16, <1>17, <1>18, <1>19, <1>20, <1>21,
     <1>22, <1>23, <1>24, <1>25, <1>26, <1>27, <1>28, <1>29, <1>30, <1>31,
     <1>32, <1>33, <1>34, <1>35
     DEF Next, Main, Listener, Kernel

(* Each step leaves the counters natural numbers.                          *)
LEMMA CountsStep ==
  ASSUME CountsOK, Next
  PROVE  CountsOK'
<1> USE DEF CountsOK, histVars, kernVars
<1>1. CASE Main
  BY <1>1 DEF Main, OpenFails, Open, PowerUp, PowerUpReply, Username, Clear,
     StartScanGivesUp, StartScan, StartScanReply, FailRc, FailScan,
     FailScanEnd, FailSignal, WaitBlocks, WaitReturns, WaitTimesOut, ReadRc,
     Copy, CloseNothing, Close, Join, PowerDown, PowerDownReply,
     PowerRequest, PowerReply
<1>2. CASE Listener
  BY <1>2 DEF Listener, Setup, SetupFails, ListenFails, Cancelled, Notified,
     GetScan, GetScanReply, CallbackRc, CallbackScan, CallbackSignal, Exit
<1>3. CASE Kernel
  BY <1>3 DEF Kernel, ScanStartsElsewhere, ScanFinishes
<1> QED
  BY <1>1, <1>2, <1>3 DEF Next

(* Sets of access points stay sets of access points: in the listener's     *)
(* step this takes the type of the reply it has read.                      *)
LEMMA DataStep ==
  ASSUME DataOK, SockOK, Next
  PROVE  DataOK'
<1> USE DEF DataOK, histVars, kernVars, wrapVars, outVars, lstnVars
<1>1. CASE Main
  BY <1>1 DEF Main, OpenFails, Open, PowerUp, PowerUpReply, Username, Clear,
     StartScanGivesUp, StartScan, StartScanReply, FailRc, FailScan,
     FailScanEnd, FailSignal, WaitBlocks, WaitReturns, WaitTimesOut, ReadRc,
     Copy, CloseNothing, Close, Join, PowerDown, PowerDownReply,
     PowerRequest, PowerReply, Give
<1>2. CASE GetScanReply
  <2>1. Head(replies) \in Reply
    BY <1>2, ReceiveType DEF GetScanReply, Threads
  <2>2. Head(replies).aps \in SUBSET APs
    BY <2>1 DEF Reply
  <2> QED
    BY <1>2, <2>2 DEF GetScanReply
<1>3. CASE Notified
  <2>1. Tail(events) \in Seq({"results", "aborted"})
    BY <1>3 DEF Notified, TakesNotification
  <2> QED
    BY <1>3, <2>1 DEF Notified
<1>4. CASE Setup \/ SetupFails \/ ListenFails \/ Cancelled
  <2>1. events' \in {events, <<>>}
    BY <1>4 DEF Setup, SetupFails, ListenFails, Cancelled, Exit
  <2>2. events' \in Seq({"results", "aborted"})
    <3>1. CASE events' = events
      BY <3>1
    <3>2. CASE events' = <<>>
      BY <3>2
    <3> QED
      BY <2>1, <3>1, <3>2
  <2>3. UNCHANGED <<heard, scan, scannedAPs, table, snapshots>>
    BY <1>4 DEF Setup, SetupFails, ListenFails, Cancelled, Exit
  <2> QED
    BY <2>2, <2>3
<1>5. CASE GetScan
  <2>1. snapshots' \in SUBSET SUBSET APs
    BY <1>5 DEF GetScan
  <2> QED
    BY <1>5, <2>1 DEF GetScan
<1>6. CASE CallbackRc \/ CallbackScan \/ CallbackSignal
  <2>1. scan' \in SUBSET APs
    BY <1>6 DEF CallbackRc, CallbackScan, CallbackSignal
  <2> QED
    BY <1>6, <2>1 DEF CallbackRc, CallbackScan, CallbackSignal
<1>7. CASE ScanStartsElsewhere
  BY <1>7 DEF ScanStartsElsewhere
<1>8. CASE ScanFinishes
  BY <1>8 DEF ScanFinishes, Notify
<1> QED
  BY <1>1, <1>2, <1>3, <1>4, <1>5, <1>6, <1>7, <1>8
     DEF Next, Listener, Kernel

(* The netlink socket changes by requests and by replies read only.        *)
LEMMA SockStep ==
  ASSUME SockOK, DataOK, Next
  PROVE  SockOK'
<1>1. Dump \in Seq(Reply)
  BY DumpType DEF SockOK, DataOK
<1>2. <<Answer("ack", {})>> \in Seq(Reply) /\ <<Answer("err", {})>> \in Seq(Reply)
  BY AnswerType DEF SockOK
<1>3. CASE PowerUp \/ PowerDown
  BY <1>1, <1>3, SendType DEF PowerUp, PowerDown, PowerRequest, Threads
<1>4. CASE GetScan
  BY <1>1, <1>4, SendType DEF GetScan, Threads
<1>5. CASE StartScan
  BY <1>2, <1>5, SendType DEF StartScan, Threads
<1>6. CASE PowerUpReply \/ PowerDownReply \/ StartScanReply
  BY <1>6, ReceiveType
     DEF PowerUpReply, PowerDownReply, PowerReply, StartScanReply, Threads
<1>7. CASE GetScanReply
  BY <1>7, ReceiveType DEF GetScanReply, Threads
<1>8. CASE UNCHANGED sockVars
  BY <1>8 DEF SockOK, sockVars
<1>9. \/ PowerUp \/ PowerDown \/ GetScan \/ StartScan
      \/ PowerUpReply \/ PowerDownReply \/ StartScanReply \/ GetScanReply
      \/ UNCHANGED sockVars
  BY DEF Next, Main, Listener, Kernel, OpenFails, Open, Username, Clear,
     StartScanGivesUp, FailRc, FailScan, FailScanEnd, FailSignal,
     WaitBlocks, WaitReturns, WaitTimesOut, ReadRc, Copy, CloseNothing, Close,
     Join, Setup, SetupFails, ListenFails, Cancelled, Exit, Notified,
     CallbackRc, CallbackScan, CallbackSignal, ScanStartsElsewhere,
     ScanFinishes
<1> QED
  BY <1>3, <1>4, <1>5, <1>6, <1>7, <1>8, <1>9

(* Every variable of a Wi-Fi scan keeps its type, in every behaviour of    *)
(* the two threads and the kernel.                                         *)
THEOREM TypeCorrect == Spec => []TypeOK
<1>1. TypeOK /\ [Next]_vars => TypeOK'
  <2> SUFFICES ASSUME TypeOK, [Next]_vars PROVE TypeOK'
    OBVIOUS
  <2>1. CASE Next
    <3>1. SockOK /\ PlacesOK /\ CountsOK /\ FlagsOK /\ DataOK
      BY TypeParts
    <3>2. SockOK' /\ PlacesOK' /\ CountsOK' /\ FlagsOK' /\ DataOK'
      BY <2>1, <3>1, SockStep, PlacesStep, CountsStep, FlagsStep, DataStep
    <3> QED
      BY <3>2 DEF TypeOK, SockOK, PlacesOK, CountsOK, FlagsOK, DataOK
  <2>2. CASE UNCHANGED vars
    BY <2>2 DEF TypeOK, vars, sockVars, wrapVars, kernVars, outVars,
       adptVars, lstnVars, histVars
  <2> QED
    BY <2>1, <2>2
<1> QED
  BY InitType, <1>1, PTL DEF Spec

-----------------------------------------------------------------------------
(* Who is inside doRequest follows from where the threads are.             *)

MainRequests == {"powerUpReply", "startScanReply", "powerDownReply"}

AwaitInv ==
  /\ "main" \in awaiting <=> mpc \in MainRequests
  /\ "listener" \in awaiting <=> lpc = "getScanReply"

(* The listener runs only between open() and the join.                     *)
LifeInv ==
  /\ mpc = "open" => ~isOpen /\ lpc = "none"
  /\ mpc \in {"powerDown", "powerDownReply", "done"} => ~isOpen
  /\ ~isOpen => lpc \in {"none", "exited"}

(* The only callback that can begin after the cancel belongs to the        *)
(* notification taken before it; the listener leaves when it is through.   *)
LateInv ==
  /\ late \in {0, 1}
  /\ late = 1 => lpc \in {"cbScan", "cbSignal", "poll", "exited"}
  /\ late = 1 /\ lpc # "exited" => cancel

(* The replies the kernel has queued on the socket.                        *)
Queued == {replies[i] : i \in DOMAIN replies}

(* What is still to come in answer to the one request that is under way:   *)
(* a dump or its end, an acknowledgement, or an error.                     *)
Pending(t) ==
  /\ seqExpect + 1 = seqNext
  /\ \/ \E a, b \in Queued : /\ replies = <<a, b>>
                            /\ a.kind = "data" /\ a.seq = seqExpect
                            /\ b.kind = "done" /\ b.seq = seqExpect
     \/ \E a \in Queued : /\ replies = <<a>>
                         /\ a.seq = seqExpect
                         /\ \/ a.kind \in {"done", "err"}
                            \/ a.kind = "ack" /\ ~multi[t]

(* A thread sends its request over an empty, synchronised socket, and then *)
(* finds there the answer to that request and nothing else.                *)
SocketInv ==
  ~crossed =>
    /\ awaiting = {} => replies = <<>> /\ seqExpect = seqNext
    /\ \A t \in awaiting : awaiting = {t} /\ Pending(t)

IInv == AwaitInv /\ LifeInv /\ LateInv /\ SocketInv

(* The answers the kernel gives: a dump, an acknowledgement or an error,   *)
(* each under the number of the request it answers.                        *)
Answers == {Dump, <<Answer("ack", {})>>, <<Answer("err", {})>>}

(* A thread that sends its request and goes on to wait for the answer      *)
(* finds the socket in step, or the requests have crossed.                 *)
LEMMA SendKeepsStep ==
  ASSUME SocketInv, SockOK, DataOK, NEW t \in Threads,
         NEW answer \in Answers, SendAwaits(t, answer)
  PROVE  SocketInv'
<1> SUFFICES ASSUME ~crossed'
             PROVE  /\ awaiting' = {} => replies' = <<>> /\ seqExpect' = seqNext'
                    /\ \A s \in awaiting' : awaiting' = {s} /\ Pending(s)'
  BY DEF SocketInv
<1>1. ~crossed /\ awaiting = {} /\ replies = <<>>
  BY DEF SendAwaits
<1>2. awaiting' = {t} /\ seqExpect' = seqExpect /\ seqNext' = seqNext + 1
  BY <1>1 DEF SendAwaits, Request
<1>3. seqExpect = seqNext /\ seqNext \in Nat
  BY <1>1 DEF SocketInv, SockOK
<1>4. multi'[t] = FALSE
  BY DEF SendAwaits, SockOK
<1>5. replies' = answer
  <2>1. answer \in Seq(Reply)
    BY AnswerType, DumpType DEF Answers, SockOK, DataOK
  <2> QED
    BY <1>1, <2>1 DEF SendAwaits, Request
<1>6. Pending(t)'
  <2>1. CASE answer = Dump
    <3>1. Answer("data", table) \in Reply /\ Answer("done", {}) \in Reply
      BY AnswerType DEF SockOK, DataOK
    <3>2. \E a, b \in Queued' : /\ replies' = <<a, b>>
                              /\ a.kind = "data" /\ a.seq = seqExpect'
                              /\ b.kind = "done" /\ b.seq = seqExpect'
      BY <1>2, <1>3, <1>5, <2>1, <3>1 DEF Answer, Dump, Queued
    <3> QED
      BY <1>2, <1>3, <3>2 DEF Pending
  <2>2. ASSUME NEW kind \in {"ack", "err"}, answer = <<Answer(kind, {})>>
        PROVE  Pending(t)'
    <3>1. Answer(kind, {}) \in Reply
      BY AnswerType DEF SockOK
    <3>2. Answer(kind, {}).kind = kind /\ Answer(kind, {}).seq = seqExpect'
      BY <1>2, <1>3 DEF Answer
    <3>3. \E a \in Queued' : /\ replies' = <<a>>
                           /\ a.seq = seqExpect'
                           /\ \/ a.kind \in {"done", "err"}
                              \/ a.kind = "ack" /\ ~multi'[t]
      BY <1>4, <1>5, <2>2, <3>1, <3>2 DEF Queued
    <3> QED
      BY <1>2, <1>3, <3>3 DEF Pending
  <2> QED
    BY <2>1, <2>2 DEF Answers
<1> QED
  BY <1>2, <1>6

(* Reading the last reply of an answer leaves the socket empty and in      *)
(* step; reading an earlier one leaves the rest of the answer.             *)
LEMMA ReceiveKeepsStep ==
  ASSUME SocketInv, SockOK, NEW t \in Threads, ReceiveReply(t)
  PROVE  SocketInv'
<1> SUFFICES ASSUME ~crossed'
             PROVE  /\ awaiting' = {} => replies' = <<>> /\ seqExpect' = seqNext'
                    /\ \A s \in awaiting' : awaiting' = {s} /\ Pending(s)'
  BY DEF SocketInv
<1>1. awaiting = {t} /\ Pending(t) /\ seqNext' = seqNext
  BY DEF ReceiveReply, SocketInv
<1>2. CASE \E a, b \in Queued : /\ replies = <<a, b>>
                               /\ a.kind = "data" /\ a.seq = seqExpect
                               /\ b.kind = "done" /\ b.seq = seqExpect
  <2>1. PICK a \in Queued, b \in Queued :
             /\ replies = <<a, b>>
             /\ a.kind = "data" /\ a.seq = seqExpect
             /\ b.kind = "done" /\ b.seq = seqExpect
    BY <1>2
  <2>2. Head(replies) = a /\ Tail(replies) = <<b>>
    BY <2>1
  <2>3. InStep /\ ReceiveGoesOn(t)
    BY <2>1, <2>2 DEF InStep, ReceiveGoesOn, ReceiveFails
  <2>4. replies' = <<b>> /\ seqExpect' = seqExpect /\ awaiting' = {t}
    BY <1>1, <2>1, <2>2, <2>3 DEF ReceiveReply
  <2>5. Pending(t)'
    <3>1. seqExpect' + 1 = seqNext'
      BY <1>1, <2>4 DEF Pending
    <3> QED
      BY <2>1, <2>4, <3>1 DEF Pending, Queued
  <2> QED
    BY <2>4, <2>5
<1>3. CASE \E a \in Queued : /\ replies = <<a>>
                            /\ a.seq = seqExpect
                            /\ \/ a.kind \in {"done", "err"}
                               \/ a.kind = "ack" /\ ~multi[t]
  <2>1. PICK a \in Queued : /\ replies = <<a>>
                           /\ a.seq = seqExpect
                           /\ \/ a.kind \in {"done", "err"}
                              \/ a.kind = "ack" /\ ~multi[t]
    BY <1>3
  <2>2. Head(replies) = a /\ Tail(replies) = <<>>
    BY <2>1
  <2>3. InStep /\ a.kind # "data" /\ ~ReceiveGoesOn(t)
    BY <2>1, <2>2 DEF InStep, ReceiveGoesOn, ReceiveFails
  <2>4. replies' = <<>> /\ awaiting' = {}
    BY <1>1, <2>2, <2>3 DEF ReceiveReply
  <2>5. seqExpect' = seqNext'
    BY <1>1, <2>2, <2>3 DEF ReceiveReply, Pending
  <2> QED
    BY <2>4, <2>5
<1> QED
  BY <1>1, <1>2, <1>3 DEF Pending

(* One step of the three together: LifeInv is needed by the others.        *)
LEMMA ControlStep ==
  ASSUME AwaitInv, LifeInv, LateInv, Next
  PROVE  AwaitInv' /\ LifeInv' /\ LateInv'
<1> USE DEF AwaitInv, LifeInv, LateInv, MainRequests, sockVars, adptVars,
            lstnVars, histVars, Goto
<1>1. CASE OpenFails
  BY <1>1 DEF OpenFails
<1>2. CASE Open
  BY <1>2 DEF Open
<1>3. CASE PowerUp
  BY <1>3 DEF PowerUp, PowerRequest, SendFails, SendLeaves, SendAwaits
<1>4. CASE PowerUpReply
  BY <1>4 DEF PowerUpReply, PowerReply, ReceiveReply
<1>5. CASE Username
  BY <1>5 DEF Username
<1>6. CASE Clear
  BY <1>6 DEF Clear
<1>7. CASE StartScanGivesUp
  BY <1>7 DEF StartScanGivesUp
<1>8. CASE StartScan
  BY <1>8 DEF StartScan, SendFails, SendLeaves, SendAwaits
<1>9. CASE StartScanReply
  BY <1>9 DEF StartScanReply, ReceiveReply
<1>10. CASE FailRc
  BY <1>10 DEF FailRc
<1>11. CASE FailScan
  BY <1>11 DEF FailScan
<1>12. CASE FailScanEnd
  BY <1>12 DEF FailScanEnd
<1>13. CASE FailSignal
  BY <1>13 DEF FailSignal
<1>14. CASE WaitBlocks
  BY <1>14 DEF WaitBlocks
<1>15. CASE WaitReturns
  BY <1>15 DEF WaitReturns
<1>16. CASE WaitTimesOut
  BY <1>16 DEF WaitTimesOut
<1>17. CASE ReadRc
  BY <1>17 DEF ReadRc
<1>18. CASE Copy
  BY <1>18 DEF Copy
<1>19. CASE CloseNothing
  BY <1>19 DEF CloseNothing
<1>20. CASE Close
  BY <1>20 DEF Close
<1>21. CASE Join
  BY <1>21 DEF Join, Joined
<1>22. CASE PowerDown
  BY <1>22 DEF PowerDown, PowerRequest, SendFails, SendLeaves, SendAwaits
<1>23. CASE PowerDownReply
  BY <1>23 DEF PowerDownReply, PowerReply, ReceiveReply
<1>24. CASE Setup
  BY <1>24 DEF Setup
<1>25. CASE SetupFails
  BY <1>25 DEF SetupFails, Exit
<1>26. CASE ListenFails
  BY <1>26 DEF ListenFails, Exit
<1>27. CASE Cancelled
  BY <1>27 DEF Cancelled, Exit
<1>28. CASE Notified
  BY <1>28 DEF Notified, TakesNotification
<1>29. CASE GetScan
  BY <1>29 DEF GetScan, SendFails, SendLeaves, SendAwaits
<1>30. CASE GetScanReply
  BY <1>30 DEF GetScanReply, ReceiveReply
<1>31. CASE CallbackRc
  BY <1>31 DEF CallbackRc, AfterStatement
<1>32. CASE CallbackScan
  BY <1>32 DEF CallbackScan, AfterStatement
<1>33. CASE CallbackSignal
  BY <1>33 DEF CallbackSignal, AfterStatement
<1>34. CASE ScanStartsElsewhere
  BY <1>34 DEF ScanStartsElsewhere
<1>35. CASE ScanFinishes
  BY <1>35 DEF ScanFinishes
<1> QED
  BY <1>1, <1>2, <1>3, <1>4, <1>5, <1>6, <1>7, <1>8, <1>9, <1>10, <1>11,
     <1>12, <1>13, <1>14, <1>15, <1>16, <1>17, <1>18, <1>19, <1>20, <1>21,
     <1>22, <1>23, <1>24, <1>25, <1>26, <1>27, <1>28, <1>29, <1>30, <1>31,
     <1>32, <1>33, <1>34, <1>35 DEF Next, Main, Listener, Kernel

(* Only requests and replies touch the socket.                             *)
LEMMA SocketStep ==
  ASSUME SocketInv, SockOK, DataOK, Next
  PROVE  SocketInv'
<1>1. ASSUME NEW t \in Threads, NEW answer \in Answers,
             SendFails \/ SendLeaves(answer) \/ SendAwaits(t, answer)
      PROVE  SocketInv'
  <2>1. CASE SendFails
    BY <2>1 DEF SendFails, sockVars, SocketInv, Pending, Queued
  <2>2. CASE SendLeaves(answer)
    BY <2>2 DEF SendLeaves, SocketInv
  <2> QED
    BY <1>1, <2>1, <2>2, SendKeepsStep
<1>2. CASE PowerUp \/ PowerDown
  BY <1>1, <1>2 DEF PowerUp, PowerDown, PowerRequest, Threads, Answers
<1>3. CASE GetScan
  BY <1>1, <1>3 DEF GetScan, Threads, Answers
<1>4. CASE StartScan
  BY <1>1, <1>4 DEF StartScan, Threads, Answers
<1>5. CASE PowerUpReply \/ PowerDownReply \/ StartScanReply
  BY <1>5, ReceiveKeepsStep
     DEF PowerUpReply, PowerDownReply, PowerReply, StartScanReply, Threads
<1>6. CASE GetScanReply
  BY <1>6, ReceiveKeepsStep DEF GetScanReply, Threads
<1>7. CASE UNCHANGED <<sockVars, crossed>>
  BY <1>7 DEF sockVars, SocketInv, Pending, Queued
<1>8. \/ PowerUp \/ PowerDown \/ GetScan \/ StartScan
      \/ PowerUpReply \/ PowerDownReply \/ StartScanReply \/ GetScanReply
      \/ UNCHANGED <<sockVars, crossed>>
  BY DEF Next, Main, Listener, Kernel, OpenFails, Open, Username, Clear,
     StartScanGivesUp, FailRc, FailScan, FailScanEnd, FailSignal,
     WaitBlocks, WaitReturns, WaitTimesOut, ReadRc, Copy, CloseNothing, Close,
     Join, Setup, SetupFails, ListenFails, Cancelled, Exit, Notified,
     CallbackRc, CallbackScan, CallbackSignal, ScanStartsElsewhere,
     ScanFinishes, histVars
<1> QED
  BY <1>2, <1>3, <1>4, <1>5, <1>6, <1>7, <1>8

(* The strengthening of the three invariants below is inductive.           *)
LEMMA Inductive == Spec => []IInv
<1>1. Init => IInv
  BY DEF Init, IInv, AwaitInv, LifeInv, LateInv, SocketInv, MainRequests
<1>2. TypeOK /\ IInv /\ [Next]_vars => IInv'
  <2> SUFFICES ASSUME TypeOK, IInv, [Next]_vars PROVE IInv'
    OBVIOUS
  <2>1. CASE Next
    <3>1. SockOK /\ DataOK
      BY TypeParts
    <3>2. AwaitInv' /\ LifeInv' /\ LateInv'
      BY <2>1, ControlStep DEF IInv
    <3>3. SocketInv'
      BY <2>1, <3>1, SocketStep DEF IInv
    <3> QED
      BY <3>2, <3>3 DEF IInv
  <2>2. CASE UNCHANGED vars
    BY <2>2 DEF vars, sockVars, adptVars, lstnVars, histVars, IInv, AwaitInv,
       LifeInv, LateInv, SocketInv, Pending, Queued
  <2> QED
    BY <2>1, <2>2
<1> QED
  BY <1>1, <1>2, TypeCorrect, PTL DEF Spec

(* doRequest leaves the netlink socket in step, for two threads and any    *)
(* number of notifications, until requests cross on it.                    *)
THEOREM SocketStaysInStep == Spec => []SocketInStep
<1>1. TypeOK /\ IInv => SocketInStep
  <2> SUFFICES ASSUME TypeOK, IInv, ~crossed
               PROVE  /\ \A s, t \in awaiting : s = t
                      /\ \A i \in 1..Len(replies) : replies[i].seq = seqExpect
                      /\ IF awaiting = {}
                         THEN replies = <<>> /\ seqExpect = seqNext
                         ELSE replies # <<>> /\ seqExpect + 1 = seqNext
    BY DEF SocketInStep
  <2>1. CASE awaiting = {}
    BY <2>1 DEF IInv, SocketInv
  <2>2. ASSUME NEW t \in awaiting
        PROVE  /\ awaiting = {t} /\ replies # <<>> /\ seqExpect + 1 = seqNext
               /\ \A i \in 1..Len(replies) : replies[i].seq = seqExpect
    BY DEF IInv, SocketInv, Pending, Queued
  <2> QED
    BY <2>1, <2>2
<1> QED
  BY <1>1, TypeCorrect, Inductive, PTL

(* Once the thread is joined nothing of the listener is left to run, on    *)
(* any path to the destructor.                                             *)
THEOREM ListenerEndsWithClose == Spec => []NoListenerAfterClose
<1>1. IInv => NoListenerAfterClose
  BY DEF IInv, LifeInv, AwaitInv, NoListenerAfterClose
<1> QED
  BY <1>1, Inductive, PTL

(* However many notifications are queued, one callback at most begins      *)
(* after close() has written the cancel.                                   *)
THEOREM AtMostOneLateCallback == Spec => []OneLateCallback
<1>1. IInv => OneLateCallback
  BY DEF IInv, LateInv, OneLateCallback
<1> QED
  BY <1>1, Inductive, PTL

-----------------------------------------------------------------------------
(* What the listener has read, and where it goes.                          *)

(* The listener has its own answer before it: the table the kernel gave    *)
(* it, or the end of it.                                                   *)
TableAhead ==
  \E a, b \in Queued : /\ replies = <<a, b>>
                      /\ a.seq = seqExpect /\ a.kind = "data"
                      /\ b.seq = seqExpect /\ b.kind = "done"
                      /\ a.aps \in snapshots /\ b.aps = {} /\ heard = {}

EndAhead ==
  \E b \in Queued : /\ replies = <<b>>
                    /\ b.seq = seqExpect /\ b.kind = "done"
                    /\ b.aps = {} /\ heard \in snapshots

HeardInv ==
  ~crossed =>
    /\ lpc = "getScanReply" => TableAhead \/ EndAhead
    /\ lpc \in {"cbRc", "cbScan"} /\ code = "ok" => heard \in snapshots

(* As long as there has been no failure, the event is signalled over a     *)
(* _scan that is a table of the kernel's.                                  *)
Clean == ~crossed /\ ~torn /\ ~failed

ScanInv ==
  /\ mpc \in {"failScan", "failScanEnd", "failSignal"} => failed
  /\ Clean =>
       /\ lpc = "cbScan" => code = "ok"
       /\ signalled \/ lpc = "cbSignal" \/ mpc \in {"readRc", "copying"} =>
            scan \in snapshots
       /\ result = "SCANNED" => scannedAPs \in snapshots

(* Where the listener is because of a notification it has taken.           *)
Handling == {"getScan", "getScanReply", "cbRc", "cbScan", "cbSignal"}

(* The event is signalled by a notification that is over.                  *)
HandledInv ==
  /\ lpc \in Handling => handled >= 1
  /\ signalled /\ ~failed =>
       handled >= 1 /\ (lpc \in Handling => handled >= 2)
  /\ mpc \in {"readRc", "copying"} => signalled
  /\ result = "SCANNED" => signalled /\ ~MembersAlive
  /\ lateTouch => ~MembersAlive
  /\ LateTouchByAnotherScan

(* The flags of the hypotheses are never taken back.                       *)
LEMMA FlagsGrow ==
  ASSUME Next
  PROVE  /\ crossed => crossed'
         /\ torn => torn'
         /\ failed => failed'
<1> USE DEF histVars
<1>1. ASSUME NEW t, NEW answer,
             SendFails \/ SendLeaves(answer) \/ SendAwaits(t, answer)
      PROVE  crossed => crossed'
  <2>1. CASE SendFails
    BY <2>1 DEF SendFails
  <2>2. CASE SendLeaves(answer)
    BY <2>2 DEF SendLeaves
  <2>3. CASE SendAwaits(t, answer)
    BY <2>3, Zenon DEF SendAwaits
  <2> QED
    BY <1>1, <2>1, <2>2, <2>3
<1>2. CASE PowerUp \/ PowerDown
  BY <1>1, <1>2 DEF PowerUp, PowerDown, PowerRequest
<1>3. CASE StartScan
  BY <1>1, <1>3 DEF StartScan
<1>8. CASE GetScan
  BY <1>1, <1>8 DEF GetScan
<1>4. CASE CallbackRc
  <2>1. failed => failed'
    BY <1>4, Zenon DEF CallbackRc
  <2> QED
    BY <1>4, <2>1 DEF CallbackRc
<1>5. CASE CallbackScan
  <2>1. torn => torn'
    BY <1>5, Zenon DEF CallbackScan
  <2> QED
    BY <1>5, <2>1 DEF CallbackScan
<1>6. CASE FailRc
  BY <1>6 DEF FailRc
<1>7. \/ PowerUp \/ PowerDown \/ StartScan \/ GetScan \/ CallbackRc
      \/ CallbackScan \/ FailRc \/ UNCHANGED <<crossed, torn, failed>>
  BY DEF Next, Main, Listener, Kernel, OpenFails, Open, PowerUpReply,
     PowerDownReply, PowerReply, ReceiveReply, Username, Clear,
     StartScanGivesUp, StartScanReply, FailScan, FailScanEnd, FailSignal,
     WaitBlocks, WaitReturns, WaitTimesOut, ReadRc, Copy, CloseNothing, Close,
     Join, Setup, SetupFails, ListenFails, Cancelled, Exit, Notified,
     GetScanReply, CallbackSignal, ScanStartsElsewhere, ScanFinishes
<1> QED
  BY <1>2, <1>3, <1>4, <1>5, <1>6, <1>7, <1>8

(* A request of the calling thread crosses one of the listener's, and the  *)
(* answer it reads is not the listener's.                                  *)
LEMMA MainLeavesAnswer ==
  ASSUME IInv, Main, ~crossed', lpc = "getScanReply"
  PROVE  UNCHANGED <<replies, seqExpect>>
<1>1. ~crossed /\ "listener" \in awaiting
  BY FlagsGrow DEF IInv, AwaitInv, Next
<1>2. awaiting = {"listener"} /\ replies # <<>>
  BY <1>1 DEF IInv, SocketInv, Pending
<1>3. ASSUME NEW answer, SendFails \/ SendLeaves(answer)
                         \/ SendAwaits("main", answer)
      PROVE  UNCHANGED <<replies, seqExpect>>
  <2>1. ~SendLeaves(answer)
    BY DEF SendLeaves
  <2>2. ~SendAwaits("main", answer)
    BY <1>2 DEF SendAwaits
  <2> QED
    BY <1>3, <2>1, <2>2 DEF SendFails, sockVars
<1>4. ~ReceiveReply("main")
  BY <1>2 DEF ReceiveReply
<1>5. CASE PowerUp \/ PowerDown
  BY <1>3, <1>5 DEF PowerUp, PowerDown, PowerRequest
<1>6. CASE StartScan
  BY <1>3, <1>6 DEF StartScan
<1>7. ~PowerUpReply /\ ~PowerDownReply /\ ~StartScanReply
  BY <1>4 DEF PowerUpReply, PowerDownReply, PowerReply, StartScanReply
<1>8. CASE UNCHANGED sockVars
  BY <1>8 DEF sockVars
<1>9. PowerUp \/ PowerDown \/ StartScan \/ UNCHANGED sockVars
  BY <1>7 DEF Main, OpenFails, Open, Username, Clear, StartScanGivesUp,
     FailRc, FailScan, FailScanEnd, FailSignal, WaitBlocks, WaitReturns,
     WaitTimesOut, ReadRc, Copy, CloseNothing, Close, Join
<1> QED
  BY <1>5, <1>6, <1>8, <1>9


(* The listener asks for the table over an empty socket.                   *)
LEMMA AskForTable ==
  ASSUME IInv, SockOK, DataOK, GetScan, ~crossed'
  PROVE  \/ lpc' = "getScanReply" /\ TableAhead'
         \/ lpc' = "cbRc" /\ code' = "error"
<1>1. CASE SendAwaits("listener", Dump) /\ lpc' = "getScanReply"
           /\ snapshots' = snapshots \union {table}
  <2>1. ~crossed /\ awaiting = {} /\ replies = <<>>
    BY <1>1 DEF SendAwaits
  <2>2. seqExpect = seqNext /\ seqExpect' = seqExpect
    BY <1>1, <2>1 DEF IInv, SocketInv, SendAwaits
  <2>3. PICK a \in Reply, b \in Reply :
               /\ Dump = <<a, b>>
               /\ a.seq = seqExpect' /\ a.kind = "data" /\ a.aps = table
               /\ b.seq = seqExpect' /\ b.kind = "done" /\ b.aps = {}
    <3>1. Answer("data", table) \in Reply /\ Answer("done", {}) \in Reply
      BY AnswerType DEF SockOK, DataOK
    <3> QED
      BY <2>2, <3>1 DEF Answer, Dump
  <2>4. replies' = <<a, b>>
    BY <1>1, <2>1, <2>3 DEF SendAwaits, Request
  <2>5. heard' = {} /\ a.aps \in snapshots'
    BY <1>1, <2>3 DEF GetScan
  <2>6. TableAhead'
    BY <2>3, <2>4, <2>5 DEF TableAhead, Queued
  <2> QED
    BY <1>1, <2>6
<1> QED
  BY <1>1 DEF GetScan

(* It reads its own answer to the end.                                     *)
LEMMA ReadTable ==
  ASSUME SockOK, GetScanReply, TableAhead \/ EndAhead
  PROVE  \/ lpc' = "getScanReply" /\ EndAhead'
         \/ lpc' = "cbRc" /\ heard' \in snapshots'
<1>1. UNCHANGED snapshots
  BY DEF GetScanReply
<1>2. CASE TableAhead
  <2>1. PICK a \in Queued, b \in Queued :
               /\ replies = <<a, b>>
               /\ a.seq = seqExpect /\ a.kind = "data"
               /\ b.seq = seqExpect /\ b.kind = "done"
               /\ a.aps \in snapshots /\ b.aps = {} /\ heard = {}
    BY <1>2 DEF TableAhead
  <2>2. Head(replies) = a /\ Tail(replies) = <<b>>
    BY <2>1
  <2>3. InStep /\ ReceiveGoesOn("listener")
    BY <2>1, <2>2 DEF InStep, ReceiveGoesOn, ReceiveFails
  <2>4. lpc' = "getScanReply" /\ heard' = a.aps
    BY <2>1, <2>2, <2>3 DEF GetScanReply
  <2>5. replies' = <<b>> /\ seqExpect' = seqExpect
    BY <2>1, <2>2, <2>3 DEF GetScanReply, ReceiveReply
  <2>6. b \in Queued'
    BY <2>5 DEF Queued
  <2> QED
    BY <1>1, <2>1, <2>4, <2>5, <2>6 DEF EndAhead
<1>3. CASE EndAhead
  <2>1. PICK b \in Queued : /\ replies = <<b>>
                           /\ b.seq = seqExpect /\ b.kind = "done"
                           /\ b.aps = {} /\ heard \in snapshots
    BY <1>3 DEF EndAhead
  <2>2. Head(replies) = b
    BY <2>1
  <2>3. InStep /\ ~ReceiveGoesOn("listener")
    BY <2>1, <2>2 DEF InStep, ReceiveGoesOn, ReceiveFails
  <2>4. lpc' = "cbRc" /\ heard' = heard
    BY <2>1, <2>2, <2>3 DEF GetScanReply
  <2> QED
    BY <1>1, <2>1, <2>4
<1> QED
  BY <1>2, <1>3

(* The listener reads its own answers.                                     *)
LEMMA HeardStep ==
  ASSUME IInv, SockOK, DataOK, HeardInv, Next
  PROVE  HeardInv'
<1> SUFFICES ASSUME ~crossed'
             PROVE  /\ lpc' = "getScanReply" => (TableAhead \/ EndAhead)'
                    /\ lpc' \in {"cbRc", "cbScan"} /\ code' = "ok" =>
                         heard' \in snapshots'
  BY DEF HeardInv
<1>1. /\ ~crossed
      /\ lpc = "getScanReply" => TableAhead \/ EndAhead
      /\ lpc \in {"cbRc", "cbScan"} /\ code = "ok" => heard \in snapshots
  BY FlagsGrow DEF HeardInv
<1>2. CASE GetScan
  BY <1>2, AskForTable
<1>3. CASE GetScanReply
  <2>1. TableAhead \/ EndAhead
    BY <1>1, <1>3 DEF GetScanReply
  <2> QED
    BY <1>3, <2>1, ReadTable
<1>4. CASE Listener /\ ~GetScan /\ ~GetScanReply
  <2>1. /\ lpc' \notin {"getScanReply", "cbRc"}
        /\ lpc' = "cbScan" => /\ lpc = "cbRc"
                               /\ UNCHANGED <<heard, code, snapshots>>
    <3>1. CASE Setup \/ SetupFails \/ ListenFails \/ Cancelled \/ Notified
      BY <3>1, <1>1 DEF Setup, SetupFails, ListenFails, Cancelled, Exit,
         Notified
    <3>2. CASE CallbackRc \/ CallbackScan \/ CallbackSignal
      BY <3>2 DEF CallbackRc, CallbackScan, CallbackSignal, AfterStatement
    <3> QED
      BY <1>4, <3>1, <3>2 DEF Listener
  <2> QED
    BY <1>1, <2>1
<1>5. CASE Main
  <2>2. UNCHANGED <<heard, code, snapshots>> /\ (lpc' = lpc \/ lpc' = "setup")
    BY <1>5 DEF Main, OpenFails, Open, PowerUp, PowerUpReply, Username,
     Clear, StartScanGivesUp, StartScan, StartScanReply, FailRc, FailScan,
     FailScanEnd, FailSignal, WaitBlocks, WaitReturns, WaitTimesOut, ReadRc,
     Copy, CloseNothing, Close, Join, PowerDown, PowerDownReply,
     PowerRequest, PowerReply, lstnVars, histVars
  <2>3. lpc = "getScanReply" => UNCHANGED <<replies, seqExpect>>
    BY <1>5, MainLeavesAnswer
  <2> QED
    BY <1>1, <2>2, <2>3 DEF TableAhead, EndAhead, Queued
<1>6. CASE Kernel
  <2>1. UNCHANGED <<heard, code, snapshots, lpc, replies, seqExpect>>
    BY <1>6 DEF Kernel, ScanStartsElsewhere, ScanFinishes, lstnVars, histVars,
       sockVars
  <2> QED
    BY <1>1, <2>1 DEF TableAhead, EndAhead, Queued
<1> QED
  BY <1>2, <1>3, <1>4, <1>5, <1>6 DEF Next

(* What has been heard gets into _scan before the event is signalled.      *)
LEMMA ScanStep ==
  ASSUME PlacesOK, HeardInv, ScanInv, Next
  PROVE  ScanInv'
<1> USE DEF Clean, lstnVars, histVars, wrapVars, outVars, Goto, Give
<1>1. mpc' \in {"failScan", "failScanEnd", "failSignal"} => failed'
  <2>1. CASE FailRc
    BY <2>1 DEF FailRc
  <2>2. CASE ~FailRc
    <3>1. \/ mpc' \notin {"failScan", "failScanEnd", "failSignal"}
          \/ mpc \in {"failScan", "failScanEnd", "failSignal"}
      BY <2>2 DEF Next, Main, Listener, Kernel, OpenFails, Open, PowerUp,
         PowerUpReply, PowerDown, PowerDownReply, PowerRequest, PowerReply,
         Username, Clear, StartScanGivesUp, StartScan, StartScanReply,
         FailScan, FailScanEnd, FailSignal, WaitBlocks, WaitReturns,
         WaitTimesOut, ReadRc, Copy, CloseNothing, Close, Join, Setup,
         SetupFails, ListenFails, Cancelled, Exit, Notified, GetScan,
         GetScanReply, CallbackRc, CallbackScan, CallbackSignal,
         ScanStartsElsewhere, ScanFinishes
    <3> QED
      BY <3>1, FlagsGrow DEF ScanInv
  <2> QED
    BY <2>1, <2>2
<1> DEFINE Told == signalled \/ lpc = "cbSignal" \/ mpc \in {"readRc", "copying"}
<1>2. ASSUME Clean'
      PROVE  /\ lpc' = "cbScan" => code' = "ok"
             /\ Told' => scan' \in snapshots'
             /\ result' = "SCANNED" => scannedAPs' \in snapshots'
  <2>1. Clean
    BY <1>2, FlagsGrow
  <2>2. /\ lpc = "cbScan" => code = "ok" /\ heard \in snapshots
        /\ Told => scan \in snapshots
        /\ result = "SCANNED" => scannedAPs \in snapshots
        /\ mpc \notin {"failScan", "failScanEnd", "failSignal"}
    BY <2>1 DEF ScanInv, HeardInv
  <2>3. CASE Main
    <3>1. UNCHANGED <<lpc, code, snapshots>> \/ lpc' = "setup"
      BY <2>3 DEF Main, OpenFails, Open, PowerUp, PowerUpReply, Username,
         Clear, StartScanGivesUp, StartScan, StartScanReply, FailRc, FailScan,
         FailScanEnd, FailSignal, WaitBlocks, WaitReturns, WaitTimesOut,
         ReadRc, Copy, CloseNothing, Close, Join, PowerDown, PowerDownReply,
         PowerRequest, PowerReply
    <3> QED
      BY <2>1, <2>2, <2>3, <3>1
         DEF Main, OpenFails, Open, PowerUp, PowerUpReply, Username,
         Clear, StartScanGivesUp, StartScan, StartScanReply, FailRc, FailScan,
         FailScanEnd, FailSignal, WaitBlocks, WaitReturns, WaitTimesOut,
         ReadRc, Copy, CloseNothing, Close, Join, PowerDown, PowerDownReply,
         PowerRequest, PowerReply
  <2>4. CASE CallbackScan
    BY <2>2, <2>4 DEF CallbackScan, AfterStatement
  <2>5. CASE CallbackRc
    <3>1. code = "ok"
      <4>1. failed' = (failed \/ code = "error")
        BY <2>5, Zenon DEF CallbackRc
      <4>2. code # "error"
        BY <1>2, <4>1, Zenon
      <4> QED
        BY <4>2 DEF PlacesOK
    <3> QED
      BY <2>2, <2>5, <3>1 DEF CallbackRc, AfterStatement
  <2>6. CASE CallbackSignal
    BY <2>2, <2>6 DEF CallbackSignal, AfterStatement
  <2>7. CASE GetScan \/ GetScanReply
    BY <2>2, <2>7 DEF GetScan, GetScanReply
  <2>8. CASE Setup \/ SetupFails \/ ListenFails \/ Cancelled \/ Notified
    BY <2>2, <2>8 DEF Setup, SetupFails, ListenFails, Cancelled, Exit, Notified
  <2>9. CASE Kernel
    BY <2>2, <2>9 DEF Kernel, ScanStartsElsewhere, ScanFinishes
  <2> QED
    BY <2>3, <2>4, <2>5, <2>6, <2>7, <2>8, <2>9 DEF Next, Listener
<1> QED
  BY <1>1, <1>2 DEF ScanInv

(* A notification is over before the next one is taken.                    *)
LEMMA HandledStep ==
  ASSUME PlacesOK, CountsOK, ScanInv, HandledInv, Next
  PROVE  HandledInv'
<1> USE DEF lstnVars, histVars, wrapVars, outVars, Goto, Give, CountsOK,
            MembersAlive, Handling, LateTouchByAnotherScan
<1>1. CASE Main
  <2>1. /\ UNCHANGED <<lpc, handled>> \/ (lpc' = "setup" /\ UNCHANGED handled)
        /\ UNCHANGED lateTouch
    BY <1>1 DEF Main, OpenFails, Open, PowerUp, PowerUpReply, Username,
       Clear, StartScanGivesUp, StartScan, StartScanReply, FailRc, FailScan,
       FailScanEnd, FailSignal, WaitBlocks, WaitReturns, WaitTimesOut,
       ReadRc, Copy, CloseNothing, Close, Join, PowerDown, PowerDownReply,
       PowerRequest, PowerReply
  <2>2. CASE FailSignal
    <3>1. failed /\ UNCHANGED failed
      BY <2>2 DEF FailSignal, ScanInv
    <3> QED
      BY <2>1, <2>2, <3>1 DEF HandledInv, FailSignal
  <2>3. CASE ~FailSignal
    <3>1. failed => failed'
      BY <1>1, FlagsGrow DEF Next
    <3>2. /\ signalled' => signalled
          /\ mpc' \in {"readRc", "copying"} => signalled'
          /\ ~MembersAlive => ~MembersAlive'
          /\ result' = "SCANNED" => result = "SCANNED" \/ MembersAlive
          /\ result' = "SCANNED" => signalled' /\ ~MembersAlive'
      BY <1>1, <2>3 DEF HandledInv, Main, OpenFails, Open, PowerUp,
         PowerUpReply, Username, Clear, StartScanGivesUp, StartScan,
         StartScanReply, FailRc, FailScan, FailScanEnd, WaitBlocks,
         WaitReturns, WaitTimesOut, ReadRc, Copy, CloseNothing, Close, Join,
         PowerDown, PowerDownReply, PowerRequest, PowerReply
    <3> QED
      BY <2>1, <3>1, <3>2 DEF HandledInv
  <2> QED
    BY <2>2, <2>3
<1>2. CASE Notified
  <2>1. UNCHANGED <<mpc, signalled, failed, result, lateTouch>>
    BY <1>2 DEF Notified
  <2>2. \/ lpc' = "getScan" /\ handled' = handled + 1
        \/ lpc' = "poll" /\ handled' = handled
    BY <1>2 DEF Notified
  <2> QED
    BY <2>1, <2>2 DEF HandledInv
<1>3. CASE CallbackRc \/ CallbackScan \/ CallbackSignal
  <2>1. lateTouch' => lateTouch \/ ~MembersAlive
    <3>1. lateTouch' = (lateTouch \/ ~MembersAlive)
      BY <1>3, Zenon DEF CallbackRc, CallbackScan, CallbackSignal, Touch
    <3> QED
      BY <3>1, Zenon
  <2>2. UNCHANGED <<mpc, handled, result>> /\ (failed => failed')
    BY <1>3, FlagsGrow DEF Next, Listener, CallbackRc, CallbackScan,
       CallbackSignal
  <2>3. \/ lpc \in Handling /\ lpc' \in Handling /\ UNCHANGED signalled
        \/ lpc \in Handling /\ lpc' = "poll" /\ signalled' = TRUE
    BY <1>3 DEF CallbackRc, CallbackScan, CallbackSignal, AfterStatement
  <2> QED
    BY <2>1, <2>2, <2>3 DEF HandledInv
<1>4. CASE GetScan \/ GetScanReply
  BY <1>4 DEF HandledInv, GetScan, GetScanReply
<1>5. CASE Setup \/ SetupFails \/ ListenFails \/ Cancelled
  BY <1>5 DEF HandledInv, Setup, SetupFails, ListenFails, Cancelled, Exit
<1>6. CASE Kernel
  BY <1>6 DEF HandledInv, Kernel, ScanStartsElsewhere, ScanFinishes
<1> QED
  BY <1>1, <1>2, <1>3, <1>4, <1>5, <1>6 DEF Next, Listener

ResultInv == HeardInv /\ ScanInv /\ HandledInv

(* The three together are inductive.                                       *)
LEMMA ResultInductive == Spec => []ResultInv
<1>1. Init => ResultInv
  BY DEF Init, ResultInv, HeardInv, ScanInv, HandledInv, Clean,
     Handling, MembersAlive,
     LateTouchByAnotherScan
<1>2. TypeOK /\ IInv /\ ResultInv /\ [Next]_vars => ResultInv'
  <2> SUFFICES ASSUME TypeOK, IInv, ResultInv, [Next]_vars PROVE ResultInv'
    OBVIOUS
  <2>1. CASE Next
    <3>1. SockOK /\ DataOK /\ PlacesOK /\ CountsOK
      BY TypeParts
    <3> QED
      BY <2>1, <3>1, HeardStep, ScanStep, HandledStep DEF ResultInv
  <2>2. CASE UNCHANGED vars
    BY <2>2 DEF vars, sockVars, wrapVars, outVars, lstnVars, histVars,
       ResultInv, HeardInv, TableAhead, EndAhead, Queued, ScanInv, Clean,
       HandledInv, MembersAlive, LateTouchByAnotherScan
  <2> QED
    BY <2>1, <2>2
<1> QED
  BY <1>1, <1>2, TypeCorrect, Inductive, PTL DEF Spec

(* A scan that ends with SPI_OK returns a table of the kernel's, whole,    *)
(* although the two threads share _scan without a lock, unless something   *)
(* failed on the way, they met in it, or requests crossed.                 *)
THEOREM OkScanIsSnapshot == Spec => []OkResultIsSnapshot
<1>1. ResultInv => OkResultIsSnapshot
  BY DEF ResultInv, ScanInv, Clean, OkResultIsSnapshot
<1> QED
  BY <1>1, ResultInductive, PTL

(* The scan that was waited for never calls back into the members that are *)
(* gone: for that the listener has taken a second notification.            *)
THEOREM LateTouchTakesTwo == Spec => []LateTouchByAnotherScan
<1>1. ResultInv => LateTouchByAnotherScan
  BY DEF ResultInv, HandledInv
<1> QED
  BY <1>1, ResultInductive, PTL

=============================================================================
