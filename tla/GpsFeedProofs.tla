---------------------------- MODULE GpsFeedProofs ----------------------------
(***************************************************************************)
(* Theorems about GpsFeed, for any number of epochs and disturbances and   *)
(* any size of the buffer: its type invariant, that the read thread ends   *)
(* with the destructor and delivers once more at most, and that a          *)
(* disturbance of the line costs one intact sentence; and, within a day,   *)
(* what the fixes say: a position is stamped with the time it was measured *)
(* at or that time of the day before, and the fixes of a call are in the   *)
(* order of their times but for those.                                     *)
(***************************************************************************)
EXTENDS GpsFeed, TLAPS

-----------------------------------------------------------------------------
(* The two threads: a small invariant of its own.                          *)

Places ==
  /\ upc \in {"open", "located", "copying", "destroy", "stop", "join",
              "close", "done"}
  /\ rpc \in {"none", "select", "warned", "deliver", "exited"}
  /\ stop \in BOOLEAN /\ late \in Nat

(* There is a read thread from a successful open() until the destructor,   *)
(* and as long as there is one, its files are open.                        *)
ThreadInv ==
  /\ upc = "open" => rpc = "none"
  /\ rpc \notin {"none", "exited"} =>
       upc \in {"located", "copying", "destroy", "stop", "join"}
  /\ upc \in {"stop", "join"} => rpc # "none"
  /\ rpc # "none" =>
       IF upc = "done" THEN held = {"pipe"}
       ELSE adapter = TRUE /\ held = {"port", "pipe"}

(* Once stop() has written its byte, the thread finds it when it next asks *)
(* for one of the port.                                                    *)
StopInv ==
  /\ upc = "join" => stop \/ rpc = "exited"
  /\ late <= 1
  /\ late # 0 => /\ upc \in {"join", "close", "done"}
                 /\ rpc \in {"select", "exited"}

ControlInv == Places /\ ThreadInv /\ StopInv

(* An attempt to open the port that leaves an adapter leaves its files     *)
(* open.                                                                   *)
LEMMA AdapterHasFiles ==
  ASSUME NEW failing \in Calls \union {"none"}, newInstance(failing).made
  PROVE  newInstance(failing).files = {"port", "pipe"}
<1>1. failing \notin {"getDevice", "getProtocol"}
  BY DEF newInstance
<1>2. newInstance(failing).made = (getById(failing).made
                                    /\ failing # "newProtocol")
  BY <1>1 DEF newInstance
<1>3. getById(failing).made
  BY <1>2
<1>4. failing \notin {"open", "pipe"} /\ setBaudRate(failing)
  BY <1>3 DEF getById
<1>5. getById(failing).files = {"port", "pipe"}
  BY <1>4 DEF getById
<1> QED
  BY <1>1, <1>5 DEF newInstance

(* The control invariant holds when SHLC_location is about to open its GPS *)
(* side.                                                                   *)
LEMMA InitControl == Init => ControlInv
<1> SUFFICES ASSUME Init PROVE ControlInv
  OBVIOUS
<1>1. Places
  BY DEF Init, Places
<1>2. ThreadInv
  BY DEF Init, ThreadInv
<1>3. StopInv
  BY DEF Init, StopInv
<1> QED
  BY <1>1, <1>2, <1>3 DEF ControlInv

(* Every step preserves it.                                                *)
LEMMA StepControl == ControlInv /\ [Next]_vars => ControlInv'
<1> SUFFICES ASSUME ControlInv, [Next]_vars PROVE ControlInv'
  OBVIOUS
<1> USE DEF ControlInv, Places, ThreadInv, StopInv, userVars, fileVars,
            histVars
<1>1. CASE Open
  <2>1. PICK failing \in Calls \union {"none"} :
          /\ adapter' = newInstance(failing).made
          /\ held' = newInstance(failing).files
          /\ rpc' = IF adapter' /\ failing # "pthread_create" THEN "select"
                    ELSE "none"
    BY <1>1 DEF Open
  <2>2. rpc' # "none" => adapter' /\ held' = {"port", "pipe"}
    BY <2>1, AdapterHasFiles
  <2>3. rpc' # "none" => adapter' = TRUE
    BY <2>1, <2>2 DEF newInstance, getById
  <2> QED
    BY <1>1, <2>1, <2>2, <2>3 DEF Open
<1>2. CASE GiveUp
  BY <1>2 DEF GiveUp
<1>3. CASE GetFixes
  BY <1>3 DEF GetFixes
<1>4. CASE Copied
  BY <1>4 DEF Copied
<1>5. CASE Destroy
  BY <1>5 DEF Destroy
<1>6. CASE Stop
  BY <1>6 DEF Stop
<1>7. CASE Join
  BY <1>7 DEF Join, Joined
<1>8. CASE Close
  BY <1>8 DEF Close, PortClosed
<1>9. CASE Stopped
  BY <1>9 DEF Stopped, TakesStop
<1>10. CASE ReadFails
  BY <1>10 DEF ReadFails, TakesStop
<1>11. CASE ReadEof
  BY <1>11 DEF ReadEof, TakesStop
<1>12. CASE Warned
  BY <1>12 DEF Warned
<1>13. CASE Read
<2>1. UNCHANGED late
    BY <1>13 DEF Read
  <2> QED
    BY <1>13, <2>1 DEF Read, TakesStop
<1>14. CASE Deliver
  BY <1>14 DEF Deliver
<1>15. CASE Send
  BY <1>15 DEF Send
<1>16. CASE SendDamaged
  BY <1>16 DEF SendDamaged
<1>17. CASE Disturb
  BY <1>17 DEF Disturb
<1>18. CASE NextEpoch
  BY <1>18 DEF NextEpoch
<1>19. CASE HangUp
  BY <1>19 DEF HangUp
<1>20. CASE UNCHANGED vars
  BY <1>20 DEF vars
<1> QED
  BY <1>1, <1>2, <1>3, <1>4, <1>5, <1>6, <1>7, <1>8, <1>9, <1>10, <1>11,
     <1>12, <1>13, <1>14, <1>15, <1>16, <1>17, <1>18, <1>19, <1>20
     DEF Next, User, Reader, Receiver

(* The control invariant is one.                                           *)
LEMMA ControlHolds == Spec => []ControlInv
  BY InitControl, StepControl, PTL DEF Spec

(* When the destructor is through the read thread is over; it never waits  *)
(* on a closed file; of the files of a port that was read from the pipe to *)
(* stop() stays open, and no other.                                        *)
THEOREM ReaderEnds == Spec => []ReaderEndsWithClose
<1>1. ControlInv => ReaderEndsWithClose
  BY DEF ControlInv, Places, ThreadInv, ReaderEndsWithClose
<1> QED
  BY <1>1, ControlHolds, PTL

(* After stop() has written its byte, data are delivered once more at most.*)
THEOREM AtMostOneLateDelivery == Spec => []OneLateDelivery
<1>1. ControlInv => OneLateDelivery
  BY DEF ControlInv, StopInv, OneLateDelivery
<1> QED
  BY <1>1, ControlHolds, PTL

-----------------------------------------------------------------------------
(* What a step changes, and what only a few actions change.                *)

(* Only reading a byte moves the buffer and the data; only Read and what   *)
(* the receiver sends moves the bytes of the port; only a delivery and the *)
(* destructor change the list of fixes.                                    *)
LEMMA Frame ==
  ASSUME Next
  PROVE  /\ Read \/ UNCHANGED <<size, line, payload, info, updates, fix>>
         /\ \/ Read \/ Send \/ SendDamaged \/ Disturb
            \/ UNCHANGED <<port, lost, nul>>
         /\ Deliver \/ Destroy \/ UNCHANGED fixes
         /\ NextEpoch \/ UNCHANGED <<epoch, located, epochs, lostPosition>>
         /\ NextEpoch \/ Send \/ SendDamaged \/ UNCHANGED todo
         /\ SendDamaged \/ Disturb \/ UNCHANGED noise
         /\ HangUp \/ UNCHANGED eof
         /\ Open \/ Close \/ UNCHANGED <<adapter, held>>
<1> USE DEF userVars, fileVars, portVars, bufVars, dataVars, recvVars,
            histVars
<1>1. CASE Open
  BY <1>1 DEF Open
<1>2. CASE GiveUp
  BY <1>2 DEF GiveUp
<1>3. CASE GetFixes
  BY <1>3 DEF GetFixes
<1>4. CASE Copied
  BY <1>4 DEF Copied
<1>5. CASE Destroy
  BY <1>5 DEF Destroy
<1>6. CASE Stop
  BY <1>6 DEF Stop
<1>7. CASE Join
  BY <1>7 DEF Join
<1>8. CASE Close
  BY <1>8 DEF Close
<1>9. CASE Stopped
  BY <1>9 DEF Stopped
<1>10. CASE ReadFails
  BY <1>10 DEF ReadFails
<1>11. CASE ReadEof
  BY <1>11 DEF ReadEof
<1>12. CASE Warned
  BY <1>12 DEF Warned
<1>13. CASE Read
  BY <1>13 DEF Read, ParseLine, ParseOther
<1>14. CASE Deliver
  BY <1>14 DEF Deliver
<1>15. CASE Send
  BY <1>15 DEF Send
<1>16. CASE SendDamaged
  BY <1>16 DEF SendDamaged
<1>17. CASE Disturb
  BY <1>17 DEF Disturb
<1>18. CASE NextEpoch
  BY <1>18 DEF NextEpoch
<1>19. CASE HangUp
  BY <1>19 DEF HangUp
<1> QED
  BY <1>1, <1>2, <1>3, <1>4, <1>5, <1>6, <1>7, <1>8, <1>9, <1>10, <1>11,
     <1>12, <1>13, <1>14, <1>15, <1>16, <1>17, <1>18, <1>19
     DEF Next, User, Reader, Receiver

(* Reading the last byte of a line parses it; any other is put into the    *)
(* buffer, if it takes it.                                                 *)
LEMMA ReadStep ==
  ASSUME Read
  PROVE  /\ port # <<>> /\ port' = Tail(port)
         /\ \/ Completes(Head(port)) /\ ParseLine
            \/ ~Completes(Head(port)) /\ ParseOther(Head(port))
         /\ UNCHANGED <<epoch, epochs, located, todo, noise, eof, fixes,
                        lostPosition>>
  BY DEF Read, recvVars

-----------------------------------------------------------------------------
(* The type invariant, by the parts of the feed.                           *)
FilesOK == adapter \in BOOLEAN /\ held \subseteq {"port", "pipe"}

RecvOK ==
  /\ eof \in BOOLEAN /\ located \in BOOLEAN /\ lostPosition \in BOOLEAN
  /\ epoch \in Nat /\ epochs \in Nat /\ noise \in Nat
  /\ todo \subseteq Ids

(* What travels is a "$", a payload, a line end, junk or a byte 0.         *)
Pieces == {c \in Line : c.id # "none"}

PortOK == port \in Seq(Pieces) /\ lost \in Nat /\ nul \in BOOLEAN

BufferOK ==
  /\ size \in 0..(BufferSize - 1)
  /\ line \in {"none", "begun", "whole", "broken", "hidden"}
  /\ payload \in Line

Info == [time : Nat, date : Nat \union {NoDate}, pos : Nat,
         quality : BOOLEAN]

DataOK ==
  /\ info \in Info /\ updates \in Nat /\ fix \in Fix
  /\ fixes \in Seq(Fix)

TypeInv ==
  Places /\ FilesOK /\ RecvOK /\ PortOK /\ BufferOK /\ DataOK

(* The parts make up the type invariant.                                   *)
LEMMA TypeParts == TypeInv => TypeOK
<1> SUFFICES ASSUME TypeInv PROVE TypeOK
  OBVIOUS
<1>1. port \in Seq(Line)
  <2>1. Pieces \subseteq Line
    BY DEF Pieces
  <2> QED
    BY <2>1 DEF TypeInv, PortOK
<1> QED
  BY <1>1 DEF TypeInv, TypeOK, Places, FilesOK, RecvOK, PortOK, BufferOK,
              DataOK, Info

(* No line is a line.                                                      *)
LEMMA NoLineType == NoLine \in Line
  BY DEF NoLine, Line

(* A separator travels as one piece.                                       *)
LEMMA PieceType ==
  ASSUME NEW id \in {"$", "junk", "eol", "nul"}
  PROVE  Piece(id) \in Pieces /\ Piece(id).id = id
  BY DEF Piece, NoLine, Line, Pieces

(* So does the payload of a sentence of the present epoch.                 *)
LEMMA SentenceType ==
  ASSUME epoch \in Nat, located \in BOOLEAN, NEW id \in Ids, NEW kind \in Kinds,
         NEW intact \in BOOLEAN
  PROVE  Sentence(id, kind, intact) \in Pieces
<1>1. kind \in {"fix", "void", "blank"}
  BY DEF Kinds
<1> QED
  BY <1>1 DEF Sentence, Line, Pieces, Ids

(* What a sentence is merged into, or replaces, stays of its type.         *)
LEMMA MergedType ==
  ASSUME info \in Info, NEW s \in Line
  PROVE  Merged(s) \in Info
<1>1. s.epoch \div DayLength \in Nat
  BY GpsFeedAssumption DEF Line
<1> QED
  BY <1>1 DEF Merged, Info, Line, NoDate

(* The fix made of the data is one.                                        *)
LEMMA FixOfType ==
  ASSUME NEW i \in Info, updates' \in Nat
  PROVE  FixOf(i) \in Fix
<1>1. CASE ~i.quality
  BY <1>1 DEF FixOf, NoFix, Fix
<1>2. CASE i.quality /\ i.time # 0 /\ i.date # NoDate
  <2>1. i.date \in Nat /\ i.time \in Nat /\ i.pos \in Nat
    BY <1>2 DEF Info
  <2>2. i.time % DayLength \in Nat
    BY <2>1, GpsFeedAssumption
  <2>3. i.date * DayLength \in Nat
    BY <2>1, GpsFeedAssumption
  <2> QED
    BY <1>2, <2>1, <2>2, <2>3 DEF FixOf, Fix
<1>3. CASE i.quality /\ ~(i.time # 0 /\ i.date # NoDate)
  BY <1>3 DEF FixOf, Fix, Info
<1> QED
  BY <1>1, <1>2, <1>3

(* The call begins within its types.                                       *)
LEMMA InitType == Init => TypeInv
<1> SUFFICES ASSUME Init PROVE TypeInv
  OBVIOUS
<1>1. Places /\ FilesOK
  <2>1. Places
    BY DEF Init, Places
  <2>2. FilesOK
    BY DEF Init, FilesOK
  <2> QED
    BY <2>1, <2>2
<1>2. RecvOK
  <2>1. epoch \in Nat
    BY GpsFeedAssumption DEF Init
  <2>2. epochs \in Nat /\ noise \in Nat /\ todo \subseteq Ids
    BY DEF Init
  <2>3. eof \in BOOLEAN /\ located \in BOOLEAN /\ lostPosition \in BOOLEAN
    BY DEF Init
  <2> QED
    BY <2>1, <2>2, <2>3 DEF RecvOK
<1>3. PortOK
  <2>1. port \in Seq(Pieces)
    <3>1. port = <<>>
      BY DEF Init
    <3> HIDE DEF Pieces
    <3> QED
      BY <3>1
  <2>2. lost \in Nat
    BY DEF Init
  <2>3. nul \in BOOLEAN
    <3>1. nul = FALSE
      BY DEF Init
    <3> QED
      BY <3>1, Zenon
  <2> QED
    BY <2>1, <2>2, <2>3, Zenon DEF PortOK
<1>4. BufferOK
  BY GpsFeedAssumption, NoLineType DEF Init, BufferOK
<1>5. DataOK
  BY DEF Init, DataOK, Info, Fix, NoFix
<1> QED
  BY <1>1, <1>2, <1>3, <1>4, <1>5 DEF TypeInv

(* The files are files and the adapter is there or is not.                 *)
LEMMA FilesStep ==
  ASSUME FilesOK, Next
  PROVE  FilesOK'
<1>1. CASE Open
  <2>1. PICK failing \in Calls \union {"none"} :
          /\ adapter' = newInstance(failing).made
          /\ held' = newInstance(failing).files
    BY <1>1 DEF Open
  <2>2. getById(failing).made \in BOOLEAN
    BY DEF getById
  <2>3. newInstance(failing).made \in BOOLEAN
    BY <2>2, Zenon DEF newInstance
  <2>4. newInstance(failing).files \subseteq {"port", "pipe"}
    BY DEF newInstance, getById, PortClosed
  <2> QED
    BY <2>1, <2>3, <2>4 DEF FilesOK
<1>2. CASE Close
  BY <1>2 DEF Close, FilesOK, PortClosed
<1>3. CASE UNCHANGED <<adapter, held>>
  BY <1>3 DEF FilesOK
<1> QED
  BY <1>1, <1>2, <1>3, Frame

(* The receiver stays within its types.                                    *)
LEMMA RecvStep ==
  ASSUME RecvOK, Next
  PROVE  RecvOK'
<1>1. eof' \in BOOLEAN
  BY Frame, Zenon DEF RecvOK, HangUp
<1>2. CASE NextEpoch
  <2>1. lostPosition' \in BOOLEAN
    BY <1>2, Zenon DEF NextEpoch
  <2>2. /\ epoch' \in Nat /\ epochs' \in Nat /\ noise' \in Nat
        /\ located' \in BOOLEAN /\ todo' \subseteq Ids
    BY <1>2 DEF NextEpoch, RecvOK
  <2> QED
    BY <1>1, <2>1, <2>2 DEF RecvOK
<1>3. CASE ~NextEpoch
  <2>1. UNCHANGED <<epoch, located, epochs, lostPosition>>
    BY <1>3, Frame
  <2>2. todo' \subseteq Ids
    BY <1>3, Frame DEF RecvOK, Send, SendDamaged
  <2>3. noise' = noise + 1 \/ UNCHANGED noise
    BY Frame, Zenon DEF SendDamaged, Disturb
  <2> QED
    BY <1>1, <2>1, <2>2, <2>3 DEF RecvOK
<1> QED
  BY <1>2, <1>3

(* A few pieces in a row.                                                  *)
LEMMA FewInSeq ==
  ASSUME NEW S, NEW a \in S, NEW b \in S, NEW c \in S
  PROVE  <<a>> \in Seq(S) /\ <<a, b>> \in Seq(S) /\ <<a, b, c>> \in Seq(S)
  OBVIOUS

(* What travels is pieces of lines.                                        *)
LEMMA PortStep ==
  ASSUME PortOK, RecvOK, Next
  PROVE  PortOK'
<1>1. lost' \in {0, lost, lost + 1}
  BY Frame DEF Read, ParseLine, ParseOther, Send, SendDamaged, Disturb
<1>2. port' \in Seq(Pieces)
  <2>1. Piece("$") \in Pieces /\ Piece("eol") \in Pieces
        /\ Piece("junk") \in Pieces /\ Piece("nul") \in Pieces
    BY PieceType
  <2>2. CASE Read
    <3>1. port # <<>> /\ port' = Tail(port)
      BY <2>2, ReadStep
    <3> QED
      BY <3>1 DEF PortOK
  <2>3. CASE Send
    <3>1. PICK id \in todo, kind \in Kinds :
            port' = <<Piece("$"), Sentence(id, kind, TRUE), Piece("eol")>>
      BY <2>3 DEF Send
    <3>2. Sentence(id, kind, TRUE) \in Pieces
      BY SentenceType DEF RecvOK
    <3> QED
      BY <2>1, <3>1, <3>2, FewInSeq
  <2>4. CASE SendDamaged
    <3>1. PICK id \in todo, kind \in Kinds :
            port' \in
              {<<Piece("$"), Sentence(id, kind, FALSE), Piece("eol")>>,
               <<Piece("$"), Piece("nul"), Piece("eol")>>,
               <<Piece("$"), Sentence(id, kind, TRUE)>>,
               <<Sentence(id, kind, TRUE), Piece("eol")>>}
      BY <2>4 DEF SendDamaged
    <3>2. Sentence(id, kind, TRUE) \in Pieces
          /\ Sentence(id, kind, FALSE) \in Pieces
      BY SentenceType DEF RecvOK
    <3>3. CASE port' = <<Piece("$"), Sentence(id, kind, FALSE), Piece("eol")>>
      BY <2>1, <3>2, <3>3, FewInSeq
    <3>4. CASE port' = <<Piece("$"), Sentence(id, kind, TRUE)>>
      BY <2>1, <3>2, <3>4, FewInSeq
    <3>5. CASE port' = <<Sentence(id, kind, TRUE), Piece("eol")>>
      BY <2>1, <3>2, <3>5, FewInSeq
    <3>6. CASE port' = <<Piece("$"), Piece("nul"), Piece("eol")>>
      BY <2>1, <3>6, FewInSeq
    <3> QED
      BY <3>1, <3>3, <3>4, <3>5, <3>6
  <2>5. CASE Disturb
    <3>1. PICK id \in {"$", "junk", "eol", "nul"} : port' = <<Piece(id)>>
      BY <2>5 DEF Disturb
    <3> QED
      BY <2>1, <3>1, FewInSeq
  <2>6. CASE UNCHANGED port
    BY <2>6 DEF PortOK
  <2> QED
    BY <2>2, <2>3, <2>4, <2>5, <2>6, Frame
<1>3. nul' \in BOOLEAN
  BY Frame, Zenon DEF Read, ParseLine, ParseOther, Send, SendDamaged, Disturb,
                      PortOK
<1> QED
  BY <1>1, <1>2, <1>3 DEF PortOK

(* The next byte is one of the pieces.                                     *)
LEMMA HeadType ==
  ASSUME PortOK, port # <<>>
  PROVE  /\ Head(port) \in Line
         /\ Head(port).id \in Ids \union {"$", "junk", "eol", "nul"}
  BY DEF PortOK, Pieces, Line

(* Whatever comes, the buffer holds no line, the beginning of one, or one. *)
LEMMA ExtendedType ==
  ASSUME NEW c, c.id \in Ids \union {"$", "junk", "eol", "nul"},
         line \in {"none", "begun", "whole", "broken", "hidden"}
  PROVE  Extended(c) \in {"none", "begun", "whole", "broken", "hidden"}
<1>1. CASE c.id = "$"
  BY <1>1 DEF Extended, Ids
<1>2. CASE c.id \in Ids
  BY <1>2 DEF Extended, Ids
<1>3. CASE c.id = "junk"
  BY <1>3 DEF Extended, Ids
<1>4. CASE c.id = "eol"
  BY <1>4 DEF Extended, Ids
<1>5. CASE c.id = "nul"
  BY <1>5 DEF Extended
<1> QED
  BY <1>1, <1>2, <1>3, <1>4, <1>5

(* The buffer stays below its limit.                                       *)
LEMMA BufferStep ==
  ASSUME BufferOK, PortOK, Next
  PROVE  BufferOK'
<1> USE DEF BufferOK
<1>1. CASE Read
  <2>1. /\ Head(port) \in Line
        /\ Head(port).id \in Ids \union {"$", "junk", "eol", "nul"}
    BY <1>1, ReadStep, HeadType
  <2>2. CASE ParseLine
    BY <2>2, NoLineType, GpsFeedAssumption DEF ParseLine
  <2>3. CASE ParseOther(Head(port)) /\ Full
    BY <2>3, NoLineType, GpsFeedAssumption DEF ParseOther
  <2>4. CASE ParseOther(Head(port)) /\ ~Full
    <3>1. size' \in 0..(BufferSize - 1)
      BY <2>4, GpsFeedAssumption DEF ParseOther, Full
    <3>2. payload' \in Line
      BY <2>1, <2>4, NoLineType DEF ParseOther
    <3>3. line' \in {"none", "begun", "whole", "broken", "hidden"}
      BY <2>1, <2>4, ExtendedType DEF ParseOther
    <3> QED
      BY <3>1, <3>2, <3>3
  <2> QED
    BY <1>1, <2>2, <2>3, <2>4, ReadStep
<1>2. CASE UNCHANGED <<size, line, payload>>
  BY <1>2
<1> QED
  BY <1>1, <1>2, Frame

(* The data and the fixes made of them stay of their types.                *)
LEMMA DataStep ==
  ASSUME DataOK, BufferOK, PortOK, Next
  PROVE  DataOK'
<1> USE DEF DataOK
<1>1. info' \in Info /\ updates' \in Nat /\ fix' \in Fix
  <2>1. CASE Read /\ ParseLine
    <3>1. info' \in Info
      BY <2>1, MergedType DEF ParseLine, BufferOK
    <3>2. updates' \in Nat
      BY <2>1 DEF ParseLine
    <3>3. fix' = FixOf(info')
      BY <2>1 DEF ParseLine
    <3> QED
      BY <3>1, <3>2, <3>3, FixOfType
  <2>2. CASE Read /\ ParseOther(Head(port))
    BY <2>2 DEF ParseOther, dataVars
  <2>3. CASE UNCHANGED <<info, updates, fix>>
    BY <2>3
  <2> QED
    BY <2>1, <2>2, <2>3, Frame, ReadStep
<1>2. fixes' \in Seq(Fix)
  <2>1. CASE Deliver
    BY <2>1 DEF Deliver
  <2>2. CASE Destroy
    BY <2>2 DEF Destroy
  <2>3. CASE UNCHANGED fixes
    BY <2>3
  <2> QED
    BY <2>1, <2>2, <2>3, Frame
<1> QED
  BY <1>1, <1>2

(* Every step preserves the types.                                         *)
LEMMA StepType == TypeInv /\ ControlInv /\ [Next]_vars => TypeInv'
<1> SUFFICES ASSUME TypeInv, ControlInv, [Next]_vars PROVE TypeInv'
  OBVIOUS
<1>1. Places'
  BY StepControl DEF ControlInv
<1>2. CASE Next
  BY <1>1, <1>2, FilesStep, RecvStep, PortStep, BufferStep, DataStep
     DEF TypeInv
<1>3. CASE UNCHANGED vars
  BY <1>1, <1>3 DEF TypeInv, FilesOK, RecvOK, PortOK, BufferOK, DataOK, vars,
              userVars, portVars, bufVars, dataVars, recvVars, histVars
<1> QED
  BY <1>2, <1>3

(* The types are invariant.                                                *)
LEMMA TypesHold == Spec => []TypeInv
  BY InitType, StepType, ControlHolds, PTL DEF Spec

(* Every variable of the feed stays within its type, and the buffer below  *)
(* its limit.                                                              *)
THEOREM TypeCorrect == Spec => []TypeOK
  BY TypesHold, TypeParts, PTL

-----------------------------------------------------------------------------
(* Framing: what a disturbance can leave in the buffer, and how an intact  *)
(* sentence that follows gets through it.                                  *)

Intact(c) == c.id \in Ids /\ c.intact = TRUE

(* What is still to come of an intact sentence.                            *)
WholeAhead ==
  Len(port) = 3 /\ port[1].id = "$" /\ Intact(port[2]) /\ port[3].id = "eol"

PayloadAhead == Len(port) = 2 /\ Intact(port[1]) /\ port[2].id = "eol"

EndAhead == Len(port) = 1 /\ port[1].id = "eol"

Room(n) == size + n <= BufferSize

(* A byte 0 hides the buffer until it is given up, and a line end is the   *)
(* last that is sent at a time.                                            *)
NulInv ==
  /\ line = "hidden" => nul = TRUE /\ size >= 1
  /\ \A i \in 1..Len(port) : /\ port[i].id = "nul" => nul = TRUE
                             /\ port[i].id = "eol" => i = Len(port)

(* n sentences are not too many to lose.                                   *)
Bearable(n) == IF nul = TRUE THEN 3 * n <= BufferSize + 1 ELSE n <= 1

(* Behind a byte 0 every sentence fills the buffer by its three pieces.    *)
HiddenInv == line = "hidden" /\ 3 * lost + 1 <= size + Len(port)

(* The first sentence after a disturbance, or after the buffer is given up,*)
(* empties the buffer, or nearly so, whether it is recognised or not.      *)
FirstInv ==
  /\ line # "hidden" /\ Bearable(lost)
  /\ port = <<>> => line = "none" /\ Room(3)
  /\ PayloadAhead => \/ line \in {"begun", "broken"}
                     \/ line = "none" /\ size = 0
  /\ EndAhead => \/ line = "whole" /\ payload.intact = TRUE
                 \/ line = "broken"
                 \/ line = "none" /\ size <= 1

(* The second finds the room it needs and no line begun.                   *)
SecondInv ==
  /\ line # "hidden"
  /\ port # <<>>
  /\ WholeAhead => line = "none" /\ Room(3)
  /\ PayloadAhead => line = "begun" /\ Room(2)
  /\ EndAhead => line = "whole" /\ payload.intact = TRUE

FrameInv ==
  /\ NulInv
  /\ lost # 0 => port = <<>> \/ WholeAhead \/ PayloadAhead \/ EndAhead
  /\ lost # 0 => HiddenInv \/ FirstInv \/ SecondInv

(* What is read was the first piece to come.                               *)
LEMMA ReadFirst ==
  ASSUME PortOK, Read
  PROVE  /\ Head(port) = port[1]
         /\ Len(port') = Len(port) - 1
         /\ \A i \in 1..Len(port') : port'[i] = port[i + 1]
<1>1. port \in Seq(Pieces) /\ port # <<>> /\ port' = Tail(port)
  BY ReadStep DEF PortOK
<1> QED
  BY <1>1

(* Reading leaves the byte 0 where it is, and a parsed line is without.    *)
LEMMA ReadNul ==
  ASSUME TypeInv, NulInv, Read
  PROVE  NulInv'
<1>1. /\ Head(port) = port[1] /\ Len(port') = Len(port) - 1
      /\ \A i \in 1..Len(port') : port'[i] = port[i + 1]
      /\ Len(port) \in Nat \ {0}
  BY ReadStep, ReadFirst DEF TypeInv, PortOK
<1>2. CASE ParseLine /\ Completes(port[1])
  <2>1. Len(port') = 0
    BY <1>1, <1>2 DEF Completes, NulInv
  <2>2. line' = "none"
    BY <1>2 DEF ParseLine
  <2> QED
    BY <2>1, <2>2 DEF NulInv
<1>3. CASE ParseOther(port[1])
  <2>1. UNCHANGED nul
    BY <1>3 DEF ParseOther
  <2>2. line' = "hidden" => nul = TRUE /\ size' >= 1
    <3>1. CASE Full
      BY <1>3, <3>1 DEF ParseOther
    <3>2. CASE ~Full
      <4>1. size' = size + 1 /\ line' = Extended(port[1])
        BY <1>3, <3>2 DEF ParseOther
      <4>2. line' = "hidden" => line = "hidden" \/ port[1].id = "nul"
        <5>1. port[1].id \in Ids \union {"$", "junk", "eol", "nul"}
          BY <1>1, ReadStep, HeadType DEF TypeInv
        <5> QED
          BY <4>1, <5>1 DEF Extended, Ids
      <4> QED
        BY <1>1, <4>1, <4>2 DEF NulInv, TypeInv, BufferOK
    <3> QED
      BY <3>1, <3>2
  <2>3. \A i \in 1..Len(port') : /\ port'[i].id = "nul" => nul = TRUE
                                 /\ port'[i].id = "eol" => i = Len(port')
    BY <1>1 DEF NulInv
  <2> QED
    BY <2>1, <2>2, <2>3 DEF NulInv
<1> QED
  BY <1>1, <1>2, <1>3, ReadStep

(* Behind a byte 0 the pieces of a sentence fill the buffer, until it is   *)
(* given up.                                                               *)
LEMMA ReadHidden ==
  ASSUME TypeInv, NulInv, HiddenInv, Read, lost # 0, NEW n \in 1..3,
         Len(port) = n, Len(port') = n - 1, ParseOther(port[1])
  PROVE  /\ UNCHANGED lost
         /\ \/ HiddenInv'
            \/ line' = "none" /\ size' = 0 /\ Bearable(lost)'
<1>1. UNCHANGED <<lost, nul>> /\ nul = TRUE
  BY DEF ParseOther, NulInv, HiddenInv
<1>2. CASE Full
  <2>1. 3 * lost <= BufferSize + 1
    BY GpsFeedAssumption DEF HiddenInv, TypeInv, BufferOK, PortOK
  <2> QED
    BY <1>1, <1>2, <2>1 DEF ParseOther, Bearable
<1>3. CASE ~Full
  <2>1. size' = size + 1 /\ line' = "hidden"
    BY <1>3 DEF ParseOther, Extended, HiddenInv
  <2> QED
    BY <1>1, <2>1 DEF HiddenInv, TypeInv, BufferOK, PortOK
<1> QED
  BY <1>2, <1>3

(* The "$" of an intact sentence is read.                                  *)
LEMMA ReadBegin ==
  ASSUME TypeInv, FrameInv, Read, lost # 0, WholeAhead
  PROVE  FrameInv'
<1>1. ParseOther(port[1]) /\ PayloadAhead' /\ ~EndAhead' /\ ~WholeAhead'
      /\ port' # <<>>
  <2>1. Len(port') = 2 /\ port'[1] = port[2] /\ port'[2] = port[3]
    BY ReadFirst DEF WholeAhead, TypeInv
  <2>2. ~Completes(port[1])
    BY DEF Completes, WholeAhead
  <2>3. ParseOther(port[1])
    BY <2>2, ReadStep, ReadFirst DEF TypeInv
  <2> QED
    BY <2>1, <2>3 DEF WholeAhead, PayloadAhead, EndAhead
<1>2. UNCHANGED <<lost, nul>> /\ NulInv'
  BY <1>1, ReadNul DEF ParseOther, FrameInv
<1>3. CASE HiddenInv
  <2>1. HiddenInv' \/ (line' = "none" /\ size' = 0 /\ Bearable(lost)')
    BY <1>1, <1>3, ReadHidden DEF FrameInv, WholeAhead, PayloadAhead
  <2> QED
    BY <1>1, <1>2, <2>1 DEF FrameInv, FirstInv
<1>4. CASE FirstInv /\ Full
  <2>1. size' = 0 /\ line' = "none"
    BY <1>1, <1>4 DEF ParseOther
  <2> QED
    BY <1>1, <1>2, <1>4, <2>1 DEF FrameInv, FirstInv, Bearable
<1>5. CASE SecondInv /\ Full
  BY <1>5, GpsFeedAssumption DEF Full, SecondInv, Room, TypeInv, BufferOK
<1>6. CASE ~HiddenInv /\ ~Full
  <2>1. size' = size + 1 /\ line' = Extended(port[1]) /\ line # "hidden"
    BY <1>1, <1>6 DEF ParseOther, FrameInv, FirstInv, SecondInv
  <2>2. line' = IF line = "none" THEN "begun" ELSE "broken"
    BY <2>1 DEF Extended, WholeAhead, Ids
  <2>3. SecondInv => line' = "begun" /\ Room(2)'
    BY <2>1, <2>2, GpsFeedAssumption DEF SecondInv, Room, TypeInv, BufferOK
  <2> QED
    BY <1>1, <1>2, <1>6, <2>2, <2>3 DEF FrameInv, FirstInv, SecondInv, Bearable
<1> QED
  BY <1>3, <1>4, <1>5, <1>6 DEF FrameInv

(* Its payload is read.                                                    *)
LEMMA ReadPayload ==
  ASSUME TypeInv, FrameInv, Read, lost # 0, PayloadAhead
  PROVE  FrameInv'
<1>1. ParseOther(port[1]) /\ EndAhead' /\ ~PayloadAhead' /\ ~WholeAhead'
      /\ port' # <<>>
  <2>1. Len(port') = 1 /\ port'[1] = port[2]
    BY ReadFirst DEF PayloadAhead, TypeInv
  <2>2. ~Completes(port[1])
    BY DEF Completes, PayloadAhead, Intact, Ids
  <2>3. ParseOther(port[1])
    BY <2>2, ReadStep, ReadFirst DEF TypeInv
  <2> QED
    BY <2>1, <2>3 DEF WholeAhead, PayloadAhead, EndAhead
<1>2. UNCHANGED <<lost, nul>> /\ NulInv'
  BY <1>1, ReadNul DEF ParseOther, FrameInv
<1>3. CASE HiddenInv
  <2>1. HiddenInv' \/ (line' = "none" /\ size' = 0 /\ Bearable(lost)')
    BY <1>1, <1>3, ReadHidden DEF FrameInv, EndAhead, PayloadAhead
  <2> QED
    BY <1>1, <1>2, <2>1 DEF FrameInv, FirstInv
<1>4. CASE FirstInv /\ Full
  <2>1. size' = 0 /\ line' = "none"
    BY <1>1, <1>4 DEF ParseOther
  <2> QED
    BY <1>1, <1>2, <1>4, <2>1 DEF FrameInv, FirstInv, Bearable
<1>5. CASE SecondInv /\ Full
  BY <1>5, GpsFeedAssumption DEF Full, SecondInv, Room, TypeInv, BufferOK
<1>6. CASE ~HiddenInv /\ ~Full
  <2>1. size' = size + 1 /\ line' = Extended(port[1]) /\ line # "hidden"
    BY <1>1, <1>6 DEF ParseOther, FrameInv, FirstInv, SecondInv
  <2>2. line' = IF line = "begun" THEN "whole"
                ELSE IF line = "none" THEN "none" ELSE "broken"
    BY <2>1 DEF Extended, PayloadAhead, Intact, Ids
  <2>3. line' = "whole" => payload'.intact = TRUE
    BY <1>1, <1>6, <2>1 DEF ParseOther, PayloadAhead, Intact
  <2>4. SecondInv => line' = "whole"
    BY <2>2 DEF SecondInv
  <2>5. FirstInv => line' # "none" \/ size' <= 1
    BY <2>1, <2>2 DEF FirstInv
  <2>6. line' \in {"whole", "broken", "none"}
    BY <2>2
  <2> QED
    BY <1>1, <1>2, <1>6, <2>3, <2>4, <2>5, <2>6
       DEF FrameInv, FirstInv, SecondInv, Bearable
<1> QED
  BY <1>3, <1>4, <1>5, <1>6 DEF FrameInv

(* Its line end is read.                                                   *)
LEMMA ReadEnd ==
  ASSUME TypeInv, FrameInv, Read, lost # 0, EndAhead
  PROVE  FrameInv'
<1>1. /\ port' = <<>> /\ ~PayloadAhead' /\ ~WholeAhead' /\ ~EndAhead'
      /\ port[1].id = "eol" /\ Head(port) = port[1]
      /\ Len(port) = 1 /\ Len(port') = 0
  BY ReadStep DEF WholeAhead, PayloadAhead, EndAhead, TypeInv, PortOK
<1>2. NulInv'
  BY ReadNul DEF FrameInv
<1>3. CASE HiddenInv
  <2>1. ParseOther(port[1])
    BY <1>1, <1>3, ReadStep DEF Completes, HiddenInv
  <2>2. UNCHANGED lost
        /\ (HiddenInv' \/ (line' = "none" /\ size' = 0 /\ Bearable(lost)'))
    BY <1>1, <1>3, <2>1, ReadHidden DEF FrameInv
  <2>3. size' = 0 => Room(3)'
    BY GpsFeedAssumption DEF Room
  <2> QED
    BY <1>1, <1>2, <2>2, <2>3 DEF FrameInv, FirstInv
<1>4. CASE ~HiddenInv /\ line # "none"
  <2>1. ParseLine
    BY <1>1, <1>4, ReadStep DEF Completes, FrameInv, FirstInv, SecondInv
  <2>2. line' = "none" /\ Room(3)'
    BY <2>1, GpsFeedAssumption DEF ParseLine, Room
  <2>3. IF line = "whole" /\ payload.intact THEN lost' = 0
        ELSE UNCHANGED <<lost, nul>>
    BY <2>1 DEF ParseLine
  <2>4. SecondInv => lost' = 0
    BY <2>3 DEF SecondInv
  <2> QED
    BY <1>1, <1>2, <1>4, <2>2, <2>3, <2>4 DEF FrameInv, FirstInv, Bearable
<1>5. CASE ~HiddenInv /\ line = "none"
  <2>1. FirstInv /\ size <= 1
    BY <1>5 DEF FrameInv, FirstInv, SecondInv
  <2>2. ParseOther(port[1])
    BY <1>1, <1>5, ReadStep DEF Completes
  <2>3. ~Full
    BY <2>1, GpsFeedAssumption DEF Full, TypeInv, BufferOK
  <2>4. size' = size + 1 /\ line' = Extended(port[1])
        /\ UNCHANGED <<lost, nul>>
    BY <2>2, <2>3 DEF ParseOther
  <2>5. line' = "none"
    BY <1>1, <1>5, <2>4 DEF Extended, Ids
  <2>6. Room(3)'
    BY <2>1, <2>4, GpsFeedAssumption DEF Room, TypeInv, BufferOK
  <2> QED
    BY <1>1, <1>2, <2>1, <2>4, <2>5, <2>6 DEF FrameInv, FirstInv, Bearable
<1> QED
  BY <1>3, <1>4, <1>5

(* A sentence whose checksum is right is intact.                           *)
LEMMA SentenceIntact ==
  ASSUME NEW id \in Ids, NEW kind
  PROVE  Intact(Sentence(id, kind, TRUE))
  BY DEF Intact, Sentence

(* An intact sentence is sent.                                             *)
LEMMA SendWhole ==
  ASSUME TypeInv, FrameInv, Send
  PROVE  FrameInv'
<1>1. PICK s : Intact(s) /\ port' = <<Piece("$"), s, Piece("eol")>>
  <2>1. PICK id \in todo, kind \in Kinds :
          port' = <<Piece("$"), Sentence(id, kind, TRUE), Piece("eol")>>
    BY DEF Send
  <2>2. id \in Ids
    BY DEF TypeInv, RecvOK
  <2> QED
    BY <2>1, <2>2, SentenceIntact, Zenon
<1>2. Piece("$").id = "$" /\ Piece("eol").id = "eol"
  BY PieceType
<1>3. /\ Len(port') = 3 /\ port'[1] = Piece("$")
      /\ port'[2] = s /\ port'[3] = Piece("eol")
  BY <1>1
<1>4. WholeAhead' /\ ~PayloadAhead' /\ ~EndAhead' /\ port' # <<>>
  BY <1>1, <1>2, <1>3 DEF WholeAhead, PayloadAhead, EndAhead
<1>5. lost' = lost + 1 /\ port = <<>> /\ lost \in Nat /\ UNCHANGED nul
  BY DEF Send, TypeInv, PortOK
<1>6. UNCHANGED <<line, size>>
  BY DEF Send, bufVars
<1>7. NulInv'
  <2>1. \A i \in 1..3 : i = 1 \/ i = 2 \/ i = 3
    OBVIOUS
  <2>2. port'[2].id \notin {"nul", "eol"}
    BY <1>1, <1>3 DEF Intact, Ids
  <2> QED
    BY <1>2, <1>3, <1>5, <1>6, <2>1, <2>2 DEF NulInv, FrameInv
<1>8. CASE line = "hidden"
  <2>1. 3 * lost' + 1 <= size + 3
    BY <1>5, <1>8 DEF FrameInv, NulInv, HiddenInv, FirstInv, SecondInv,
                      TypeInv, BufferOK
  <2> QED
    BY <1>3, <1>4, <1>6, <1>7, <1>8, <2>1 DEF FrameInv, HiddenInv
<1>9. CASE line # "hidden" /\ lost = 0
  <2>1. Bearable(lost)'
    BY <1>5, <1>9, GpsFeedAssumption DEF Bearable
  <2> QED
    BY <1>4, <1>6, <1>7, <1>9, <2>1 DEF FrameInv, FirstInv
<1>10. CASE line # "hidden" /\ lost # 0
  <2>1. line = "none" /\ Room(3)
    BY <1>5, <1>10 DEF FrameInv, HiddenInv, FirstInv, SecondInv
  <2> QED
    BY <1>4, <1>6, <1>7, <2>1 DEF FrameInv, SecondInv, Room
<1> QED
  BY <1>8, <1>9, <1>10

(* A disturbance sends a byte 0 or does not.                               *)
LEMMA SendNul ==
  ASSUME TypeInv, NulInv, SendDamaged \/ Disturb
  PROVE  NulInv'
<1> DEFINE d == Piece("$")
           e == Piece("eol")
           z == Piece("nul")
<1>1. /\ d.id = "$" /\ e.id = "eol" /\ z.id = "nul"
      /\ Piece("junk").id = "junk"
  BY PieceType
<1>2. nul' = (nul \/ CarriesNul(port')) /\ UNCHANGED <<line, size>>
  BY DEF SendDamaged, Disturb, bufVars
<1>3. CASE SendDamaged
  <2>1. PICK id \in todo, kind \in Kinds :
          port' \in {<<d, Sentence(id, kind, FALSE), e>>, <<d, z, e>>,
                     <<d, Sentence(id, kind, TRUE)>>,
                     <<Sentence(id, kind, TRUE), e>>}
    BY <1>3 DEF SendDamaged
  <2> DEFINE s == Sentence(id, kind, FALSE)
             t == Sentence(id, kind, TRUE)
  <2>2. s.id \in Ids /\ t.id \in Ids
    BY DEF Sentence, TypeInv, RecvOK
  <2>3. s.id # "eol" /\ t.id # "eol"
    BY <2>2 DEF Ids
  <2>4. port' \in {<<d, s, e>>, <<d, z, e>>, <<d, t>>, <<t, e>>}
    BY <2>1
  <2> HIDE DEF d, e, z, s, t
  <2>5. \A i \in 1..Len(port') : port'[i].id = "eol" => i = Len(port')
    BY <1>1, <2>3, <2>4
  <2> QED
    BY <1>2, <2>5 DEF NulInv, CarriesNul
<1>4. CASE Disturb
  <2>1. PICK id \in {"$", "junk", "eol", "nul"} : port' = <<Piece(id)>>
    BY <1>4 DEF Disturb
  <2> DEFINE q == Piece(id)
  <2>2. q.id = id
    BY PieceType
  <2>3. port' = <<q>>
    BY <2>1
  <2> HIDE DEF q
  <2>4. Len(port') = 1 /\ port'[1] = q
    BY <2>3
  <2>5. \A i \in 1..Len(port') : port'[i].id = "eol" => i = Len(port')
    BY <2>4
  <2> QED
    BY <1>2, <2>5 DEF NulInv, CarriesNul
<1> QED
  BY <1>3, <1>4

(* Every step preserves the framing invariant.                             *)
LEMMA StepFrame ==
  ASSUME TypeInv, FrameInv, [Next]_vars
  PROVE  FrameInv'
<1>1. CASE Read
  <2>1. CASE lost = 0
    <3>1. lost' = 0 /\ NulInv'
      BY <1>1, <2>1, ReadStep, ReadNul DEF ParseLine, ParseOther, FrameInv
    <3> QED
      BY <3>1 DEF FrameInv
  <2>2. CASE lost # 0
    <3>1. port # <<>>
      BY <1>1, ReadStep
    <3> QED
      BY <1>1, <2>2, <3>1, ReadBegin, ReadPayload, ReadEnd DEF FrameInv
  <2> QED
    BY <2>1, <2>2
<1>2. CASE Send
  BY <1>2, SendWhole
<1>3. CASE SendDamaged \/ Disturb
  <2>1. lost' = 0 /\ NulInv'
    BY <1>3, SendNul DEF SendDamaged, Disturb, FrameInv
  <2> QED
    BY <2>1 DEF FrameInv
<1>4. CASE UNCHANGED <<port, lost, nul, size, line, payload>>
  BY <1>4 DEF FrameInv, NulInv, HiddenInv, FirstInv, SecondInv, Bearable,
              Room, WholeAhead, PayloadAhead, EndAhead, Intact
<1>5. CASE UNCHANGED vars
  BY <1>4, <1>5 DEF vars, portVars, bufVars, histVars
<1> QED
  BY <1>1, <1>2, <1>3, <1>4, <1>5, Frame

(* The framing invariant is one.                                           *)
LEMMA FrameHolds == Spec => []FrameInv
<1>1. Init => FrameInv
  BY DEF Init, FrameInv, NulInv
<1> QED
  BY <1>1, StepFrame, TypesHold, PTL DEF Spec

(* A disturbance of the line costs one intact sentence after it at most,   *)
(* whatever it leaves in the buffer; a byte 0 costs those that fill the    *)
(* buffer and the one that giving it up cuts.  This is so for every size   *)
(* of the buffer that takes a sentence and what is left of another.        *)
THEOREM FramingRecoversAlways == Spec => []FramingRecovers
<1>1. ASSUME TypeInv, TypeOK, FrameInv PROVE FramingRecovers
  <2> SUFFICES ASSUME port = <<>> PROVE lost <= MayBeLost
    BY <1>1 DEF FramingRecovers
  <2>1. (BufferSize + 1) \div 3 \in Nat
        /\ \A n \in Nat : 3 * n <= BufferSize + 1
                            => n <= (BufferSize + 1) \div 3
    BY GpsFeedAssumption
  <2>2. lost \in Nat /\ nul \in BOOLEAN /\ size \in 0..(BufferSize - 1)
    BY <1>1 DEF TypeInv, PortOK, BufferOK
  <2>3. CASE lost = 0
    BY <2>1, <2>2, <2>3 DEF MayBeLost
  <2>4. CASE HiddenInv
    <3>1. 3 * lost <= BufferSize + 1 /\ nul = TRUE
      BY <1>1, <2>2, <2>4, GpsFeedAssumption
         DEF HiddenInv, FrameInv, NulInv
    <3> QED
      BY <2>1, <2>2, <3>1 DEF MayBeLost
  <2>5. CASE FirstInv
    BY <2>1, <2>2, <2>5 DEF FirstInv, Bearable, MayBeLost
  <2> QED
    BY <1>1, <2>3, <2>4, <2>5 DEF FrameInv, SecondInv
<1> QED
  BY <1>1, TypesHold, TypeCorrect, FrameHolds, PTL

-----------------------------------------------------------------------------
(* Days and times of day.                                                  *)

Day(e) == e \div DayLength

(* The stamp a fix gets: a time of day t, on day d.                        *)
Stamp(d, t) == d * DayLength + (t % DayLength)

(* What division says of a time.                                           *)
LEMMA DayDef ==
  ASSUME NEW e \in Nat
  PROVE  /\ Day(e) \in Nat
         /\ e % DayLength \in 0..(DayLength - 1)
         /\ Stamp(Day(e), e) = e
  BY GpsFeedAssumption DEF Day, Stamp

(* A product of days is a natural number of epochs.                        *)
LEMMA DaysLong ==
  ASSUME NEW d \in Nat
  PROVE  d * DayLength \in Nat
  BY GpsFeedAssumption

(* A day begins before its times and ends after them.                      *)
LEMMA DayBounds ==
  ASSUME NEW e \in Nat
  PROVE  Day(e) * DayLength <= e /\ e < Day(e) * DayLength + DayLength
<1> DEFINE b == Day(e) * DayLength
           r == e % DayLength
<1>1. b \in Nat
  BY DayDef, DaysLong
<1>2. r \in 0..(DayLength - 1) /\ b + r = e
  BY DayDef DEF Stamp
<1> HIDE DEF b, r
<1>3. b <= e /\ e < b + DayLength
  BY <1>1, <1>2, GpsFeedAssumption
<1> QED
  BY <1>3 DEF b

(* Days follow each other.                                                 *)
LEMMA LaterDays ==
  ASSUME NEW d \in Nat, NEW f \in Nat, d < f
  PROVE  d * DayLength + DayLength <= f * DayLength
<1>1. PICK k \in Nat : f = d + 1 + k
  <2>1. f - d - 1 \in Nat /\ f = d + 1 + (f - d - 1)
    OBVIOUS
  <2> QED
    BY <2>1
<1>2. f * DayLength = d * DayLength + DayLength + k * DayLength
  BY <1>1, GpsFeedAssumption
<1>3. k * DayLength \in Nat /\ d * DayLength \in Nat
  BY DaysLong
<1> QED
  BY <1>2, <1>3, GpsFeedAssumption

(* A later time is on the same day or a later one.                         *)
LEMMA DayMonotone ==
  ASSUME NEW a \in Nat, NEW b \in Nat, a <= b
  PROVE  Day(a) <= Day(b)
<1> DEFINE p == Day(a) * DayLength
           q == Day(b) * DayLength
<1>1. Day(a) \in Nat /\ Day(b) \in Nat /\ p \in Nat /\ q \in Nat
  BY DayDef, DaysLong
<1>2. p <= a /\ b < q + DayLength
  BY DayBounds
<1>3. Day(b) < Day(a) => q + DayLength <= p
  BY <1>1, LaterDays
<1> HIDE DEF p, q
<1> QED
  BY <1>1, <1>2, <1>3, GpsFeedAssumption

(* Less than a day later it is the next day at most.                       *)
LEMMA DayNext ==
  ASSUME NEW a \in Nat, NEW b \in Nat, b < a + DayLength
  PROVE  Day(b) <= Day(a) + 1
<1> DEFINE p == Day(a) * DayLength
           q == Day(b) * DayLength
           n == Day(a) + 1
<1>1. Day(a) \in Nat /\ Day(b) \in Nat /\ p \in Nat /\ q \in Nat
  BY DayDef, DaysLong
<1>2. a < p + DayLength /\ q <= b
  BY DayBounds
<1>3. n * DayLength = p + DayLength
  BY <1>1, GpsFeedAssumption
<1>4. n \in Nat /\ (n < Day(b) => n * DayLength + DayLength <= q)
  BY <1>1, LaterDays
<1> HIDE DEF p, q
<1> QED
  BY <1>1, <1>2, <1>3, <1>4, GpsFeedAssumption

(* A time of day on the day before is a day earlier.                       *)
LEMMA DayBefore ==
  ASSUME NEW e \in Nat
  PROVE  Stamp(Day(e) - 1, e) = e - DayLength
<1> DEFINE b == Day(e) * DayLength
           r == e % DayLength
<1>1. (Day(e) - 1) * DayLength = b - DayLength
  BY DayDef, GpsFeedAssumption
<1>2. b \in Nat /\ r \in Nat /\ b + r = e
  BY DayDef, DaysLong DEF Stamp
<1>3. Stamp(Day(e) - 1, e) = b - DayLength + r
  BY <1>1 DEF Stamp
<1> HIDE DEF b, r
<1> QED
  BY <1>2, <1>3, GpsFeedAssumption

-----------------------------------------------------------------------------
(* The sentences that can still be parsed: the one the buffer holds, the   *)
(* one on the line, and those of the present epoch that are still to be    *)
(* sent.                                                                   *)

InBuffer(s) == line = "whole" /\ s = payload
OnLine(s) == s.id \in Ids /\ \E i \in 1..Len(port) : s = port[i]
ToSend(s) == s.id \in todo /\ s.epoch = epoch /\ s.kind \in Kinds

Pending == {s \in Line : InBuffer(s) \/ OnLine(s) \/ ToSend(s)}

First == epoch - epochs + 1

SameSentence(s, z) == s.id = z.id /\ s.epoch = z.epoch

(* Every sentence is pending once, they are of the epochs so far, those of *)
(* one epoch agree whether there is a position, and the one in the buffer  *)
(* is the oldest.                                                          *)
OnceInv ==
  /\ \A i, j \in 1..Len(port) : port[i].id \in Ids /\ port[j].id \in Ids
       => i = j
  /\ \A i \in 1..Len(port) : port[i].id \in Ids /\ port[i].epoch = epoch
       => port[i].id \notin todo
  /\ line = "whole" =>
       /\ payload.id \in Ids
       /\ payload.epoch = epoch => payload.id \notin todo
       /\ \A i \in 1..Len(port) : ~SameSentence(port[i], payload)

QueueInv ==
  /\ epochs >= 1 /\ First >= 1 /\ epoch < First + DayLength
  /\ \A s \in Pending : s.epoch \in First..epoch
  /\ \A s, z \in Pending : s.epoch = z.epoch =>
       (s.kind = "fix" <=> z.kind = "fix")
  /\ line = "whole" => \A s \in Pending : payload.epoch <= s.epoch

(* A separator is no sentence.                                             *)
LEMMA PieceNoSentence ==
  ASSUME NEW id \in {"$", "junk", "eol", "nul"}
  PROVE  Piece(id).id \notin Ids
  BY PieceType DEF Ids

(* What is sent puts one sentence on the line at most, which was to send.  *)
LEMMA SendPuts ==
  ASSUME TypeInv, Send \/ SendDamaged \/ Disturb
  PROVE  /\ \A i \in 1..Len(port') : port'[i].id \in Ids =>
              ToSend(port'[i]) /\ port'[i].id \notin todo'
         /\ \A i, j \in 1..Len(port') :
              port'[i].id \in Ids /\ port'[j].id \in Ids => i = j
         /\ port = <<>> /\ todo' \subseteq todo
         /\ UNCHANGED <<line, payload, epoch, epochs, located>>
<1> DEFINE d == Piece("$")
           e == Piece("eol")
           k == Piece("junk")
           z == Piece("nul")
<1>1. /\ d.id \notin Ids /\ e.id \notin Ids
      /\ k.id \notin Ids /\ z.id \notin Ids
  BY PieceNoSentence
<1>2. port = <<>> /\ todo' \subseteq todo
  BY DEF Send, SendDamaged, Disturb
<1>3. UNCHANGED <<line, payload, epoch, epochs, located>>
  BY DEF Send, SendDamaged, Disturb, bufVars
<1>4. CASE Disturb
  <2>1. port' \in {<<d>>, <<k>>, <<e>>, <<z>>}
    BY <1>4 DEF Disturb
  <2> HIDE DEF d, e, k, z
  <2> QED
    BY <1>1, <1>2, <1>3, <2>1
<1>5. CASE Send \/ SendDamaged
  <2>1. PICK id \in todo, kind \in Kinds, intact \in BOOLEAN :
          /\ todo' = todo \ {id}
          /\ port' \in {<<d, Sentence(id, kind, intact), e>>, <<d, z, e>>,
                        <<d, Sentence(id, kind, intact)>>,
                        <<Sentence(id, kind, intact), e>>}
    <3>1. CASE Send
      BY <3>1, Zenon DEF Send
    <3>2. CASE SendDamaged
      BY <3>2, Zenon DEF SendDamaged
    <3> QED
      BY <1>5, <3>1, <3>2
  <2> DEFINE s == Sentence(id, kind, intact)
  <2>2. s.id = id /\ ToSend(s)
    BY DEF Sentence, ToSend
  <2>3. port' \in {<<d, s, e>>, <<d, z, e>>, <<d, s>>, <<s, e>>}
    BY <2>1
  <2>4. s.id \notin todo'
    BY <2>1, <2>2
  <2> HIDE DEF d, e, k, z, s
  <2>5. \A i \in 1..Len(port') : port'[i].id \in Ids => port'[i] = s
    BY <1>1, <2>3
  <2>6. \A i, j \in 1..Len(port') :
          port'[i].id \in Ids /\ port'[j].id \in Ids => i = j
    BY <1>1, <2>3
  <2> QED
    BY <1>2, <1>3, <2>2, <2>4, <2>5, <2>6
<1> QED
  BY <1>4, <1>5

(* A line is whole in the buffer only when its payload has just been read. *)
LEMMA WholeIsRead ==
  ASSUME TypeInv, Read, line' = "whole"
  PROVE  /\ port # <<>> /\ port[1].id \in Ids
         /\ payload' = port[1]
<1>1. port # <<>> /\ Head(port) = port[1]
  BY ReadStep, ReadFirst DEF TypeInv
<1>2. ~Completes(port[1]) /\ ParseOther(port[1])
  BY <1>1, ReadStep DEF ParseLine
<1>3. ~Full /\ line' = Extended(port[1])
  BY <1>2 DEF ParseOther
<1>4. payload' = port[1]
  BY <1>2, <1>3 DEF ParseOther
<1>5. port[1].id \in Ids \union {"$", "junk", "eol", "nul"}
  BY <1>1, HeadType DEF TypeInv
<1>6. port[1].id \in Ids
  <2>1. CASE port[1].id = "$"
    BY <1>3, <2>1 DEF Extended, Ids
  <2>2. CASE port[1].id = "junk"
    BY <1>3, <2>2 DEF Extended, Ids
  <2>3. CASE port[1].id = "eol"
    BY <1>2, <1>3, <2>3 DEF Extended, Ids, Completes
  <2>4. CASE port[1].id = "nul"
    BY <1>3, <2>4 DEF Extended
  <2> QED
    BY <1>5, <2>1, <2>2, <2>3, <2>4
<1> QED
  BY <1>1, <1>4, <1>6

(* Sentences stay pending once.                                            *)
LEMMA StepOnce ==
  ASSUME TypeInv, OnceInv, QueueInv, Next
  PROVE  OnceInv'
<1>1. CASE Send \/ SendDamaged \/ Disturb
  <2>1. \A i \in 1..Len(port') : port'[i].id \in Ids =>
          port'[i].id \in todo /\ port'[i].epoch = epoch
    BY <1>1, SendPuts DEF ToSend
  <2> QED
    BY <1>1, <2>1, SendPuts DEF OnceInv, SameSentence
<1>2. CASE Read
  <2>1. /\ Len(port') = Len(port) - 1
        /\ \A i \in 1..Len(port') : port'[i] = port[i + 1]
        /\ Len(port) \in Nat
    BY <1>2, ReadFirst DEF TypeInv, PortOK
  <2>2. UNCHANGED <<epoch, todo>>
    BY <1>2, ReadStep
  <2>3. \A i, j \in 1..Len(port') :
          port'[i].id \in Ids /\ port'[j].id \in Ids => i = j
    BY <2>1 DEF OnceInv
  <2>4. \A i \in 1..Len(port') : port'[i].id \in Ids /\ port'[i].epoch = epoch
          => port'[i].id \notin todo
    BY <2>1 DEF OnceInv
  <2>5. CASE line' = "whole"
    <3>1. port # <<>> /\ port[1].id \in Ids /\ payload' = port[1]
      BY <1>2, <2>5, WholeIsRead
    <3>2. 1 \in 1..Len(port)
      BY <3>1 DEF TypeInv, PortOK
    <3>3. \A i \in 1..Len(port') : port'[i].id \notin Ids
      BY <2>1, <3>1, <3>2 DEF OnceInv
    <3> QED
      BY <2>2, <2>3, <2>4, <3>1, <3>2, <3>3 DEF OnceInv, SameSentence
  <2> QED
    BY <2>2, <2>3, <2>4, <2>5 DEF OnceInv
<1>3. CASE NextEpoch
  <2>1. /\ todo = {} /\ epoch' = epoch + 1
        /\ UNCHANGED <<port, line, payload>>
    BY <1>3 DEF NextEpoch, portVars, bufVars
  <2>2. \A i \in 1..Len(port) : port[i].id \in Ids => port[i].epoch # epoch'
    <3>1. \A i \in 1..Len(port) : port[i] \in Line
      BY DEF TypeInv, PortOK, Pieces
    <3>2. \A i \in 1..Len(port) : port[i].id \in Ids => port[i] \in Pending
      BY <3>1 DEF Pending, OnLine
    <3> QED
      BY <2>1, <3>2 DEF QueueInv, TypeInv, RecvOK
  <2>3. line = "whole" => payload.epoch # epoch'
    <3>1. line = "whole" => payload \in Pending
      BY DEF Pending, InBuffer, TypeInv, BufferOK
    <3> QED
      BY <2>1, <3>1 DEF QueueInv, TypeInv, RecvOK
  <2> QED
    BY <2>1, <2>2, <2>3 DEF OnceInv, SameSentence
<1>4. CASE UNCHANGED <<port, line, payload, epoch, todo>>
  BY <1>4 DEF OnceInv, SameSentence
<1> QED
  BY <1>1, <1>2, <1>3, <1>4, Frame

-----------------------------------------------------------------------------
(* How the pending sentences change.                                       *)

(* What is pending is of the type of a sentence.                           *)
LEMMA PendingType ==
  ASSUME NEW s \in Pending
  PROVE  s \in Line /\ s.epoch \in Nat
  BY DEF Pending, Line

(* The payload in the buffer and a sentence on the line are pending.       *)
LEMMA HeldPending ==
  ASSUME TypeInv
  PROVE  /\ line = "whole" => payload \in Pending
         /\ \A i \in 1..Len(port) : port[i].id \in Ids => port[i] \in Pending
<1>1. line = "whole" => payload \in Pending
  BY DEF Pending, InBuffer, TypeInv, BufferOK
<1>2. \A i \in 1..Len(port) : port[i] \in Line
  BY DEF TypeInv, PortOK, Pieces
<1> QED
  BY <1>1, <1>2 DEF Pending, OnLine

(* Within an epoch nothing is pending that was not.                        *)
LEMMA PendingShrinks ==
  ASSUME TypeInv, Next, ~NextEpoch, NEW s \in Pending'
  PROVE  s \in Pending
<1>1. s \in Line /\ (InBuffer(s)' \/ OnLine(s)' \/ ToSend(s)')
  BY DEF Pending
<1>2. UNCHANGED <<epoch, located>>
  BY Frame
<1>3. CASE Send \/ SendDamaged \/ Disturb
  <2>1. InBuffer(s)' => InBuffer(s)
    BY <1>3, SendPuts DEF InBuffer
  <2>2. OnLine(s)' => ToSend(s)
    BY <1>3, SendPuts DEF OnLine
  <2>3. ToSend(s)' => ToSend(s)
    BY <1>2, <1>3, SendPuts DEF ToSend, Kinds
  <2> QED
    BY <1>1, <2>1, <2>2, <2>3 DEF Pending
<1>4. CASE Read
  <2>1. UNCHANGED todo
    BY <1>4, ReadStep
  <2>2. ToSend(s)' => ToSend(s)
    BY <1>2, <2>1 DEF ToSend, Kinds
  <2>3. InBuffer(s)' => OnLine(s)
    <3>1. CASE line' = "whole"
      <4>1. port # <<>> /\ port[1].id \in Ids /\ payload' = port[1]
        BY <1>4, <3>1, WholeIsRead
      <4>2. 1 \in 1..Len(port)
        BY <4>1 DEF TypeInv, PortOK
      <4> QED
        BY <4>1, <4>2 DEF InBuffer, OnLine
    <3> QED
      BY <3>1 DEF InBuffer
  <2>4. OnLine(s)' => OnLine(s)
    <3>1. /\ Len(port') = Len(port) - 1
          /\ \A i \in 1..Len(port') : port'[i] = port[i + 1]
          /\ Len(port) \in Nat
      BY <1>4, ReadFirst DEF TypeInv, PortOK
    <3> QED
      BY <3>1 DEF OnLine
  <2> QED
    BY <1>1, <2>2, <2>3, <2>4 DEF Pending
<1>5. CASE UNCHANGED <<line, payload, port, todo>>
  BY <1>1, <1>2, <1>5 DEF Pending, InBuffer, OnLine, ToSend, Kinds
<1> QED
  BY <1>3, <1>4, <1>5, Frame

(* A new epoch adds its sentences.                                         *)
LEMMA PendingNext ==
  ASSUME TypeInv, NextEpoch, NEW s \in Pending'
  PROVE  \/ s \in Pending
         \/ /\ s.id \in Ids /\ s.epoch = epoch'
            /\ s.kind = "fix" <=> located'
<1>1. s \in Line /\ (InBuffer(s)' \/ OnLine(s)' \/ ToSend(s)')
  BY DEF Pending
<1>2. UNCHANGED <<line, payload, port>> /\ todo' = Ids
  BY DEF NextEpoch, bufVars, portVars
<1>3. CASE InBuffer(s)' \/ OnLine(s)'
  BY <1>1, <1>2, <1>3 DEF Pending, InBuffer, OnLine
<1>4. CASE ToSend(s)'
  <2>1. s.kind \in Kinds'
    BY <1>4 DEF ToSend
  <2>2. s.kind = "fix" <=> located'
    BY <2>1 DEF Kinds
  <2> QED
    BY <1>2, <1>4, <2>2 DEF ToSend
<1> QED
  BY <1>1, <1>3, <1>4

(* A sentence that is parsed is not pending any more.                      *)
LEMMA ParsedIsGone ==
  ASSUME TypeInv, OnceInv, Read, ParseLine, line = "whole",
         NEW z \in Pending'
  PROVE  z \in Pending /\ ~SameSentence(z, payload)
<1>1. Next /\ ~NextEpoch
  <2>1. port # port'
    <3>1. Len(port) \in Nat /\ Len(port') = Len(port) - 1
      BY ReadFirst DEF TypeInv, PortOK
    <3> QED
      BY <3>1
  <2>2. NextEpoch => port' = port
    BY DEF NextEpoch, portVars
  <2> QED
    BY <2>1, <2>2 DEF Next, Reader
<1>2. z \in Pending
  BY <1>1, PendingShrinks
<1>3. line' = "none" /\ UNCHANGED <<epoch, todo>>
  BY ReadStep DEF ParseLine
<1>4. OnLine(z)' \/ ToSend(z)'
  BY <1>3 DEF Pending, InBuffer
<1>5. CASE OnLine(z)'
  <2>1. /\ Len(port') = Len(port) - 1
        /\ \A i \in 1..Len(port') : port'[i] = port[i + 1]
        /\ Len(port) \in Nat
    BY ReadFirst, ReadStep DEF TypeInv, PortOK
  <2>2. OnLine(z)
    BY <1>5, <2>1 DEF OnLine
  <2> QED
    BY <1>2, <2>2 DEF OnLine, OnceInv
<1>6. CASE ToSend(z)'
  <2>1. z.id \in todo /\ z.epoch = epoch
    BY <1>3, <1>6 DEF ToSend
  <2> QED
    BY <1>2, <2>1 DEF OnceInv, SameSentence
<1> QED
  BY <1>4, <1>5, <1>6

(* What is pending stays in the order of the epochs.                       *)
LEMMA StepQueue ==
  ASSUME TypeInv, OnceInv, QueueInv, Next
  PROVE  QueueInv'
<1>1. epochs' >= 1 /\ First' >= 1 /\ epoch' < First' + DayLength
  <2>1. CASE NextEpoch
    <3>1. epochs < MaxEpochs /\ epochs' = epochs + 1 /\ epoch' = epoch + 1
      BY <2>1 DEF NextEpoch
    <3> QED
      BY <3>1, GpsFeedAssumption, CallWithinADay
         DEF QueueInv, First, TypeInv, RecvOK
  <2>2. CASE ~NextEpoch
    BY <2>2, Frame DEF QueueInv, First
  <2> QED
    BY <2>1, <2>2
<1>2. CASE NextEpoch
  <2>1. First' = First /\ epoch' = epoch + 1 /\ epoch \in Nat /\ First \in Int
    BY <1>2 DEF NextEpoch, First, TypeInv, RecvOK
  <2>2. \A s \in Pending' : s \in Pending
          \/ (s.epoch = epoch' /\ (s.kind = "fix" <=> located'))
    BY <1>2, PendingNext
  <2>3. \A s \in Pending : s.epoch \in First..epoch
    BY DEF QueueInv
  <2>4. \A s \in Pending' : s.epoch \in First'..epoch'
    <3>1. epoch' \in First'..epoch'
      BY <2>1 DEF QueueInv, First, TypeInv, RecvOK
    <3> QED
      BY <2>1, <2>2, <2>3, <3>1
  <2>5. \A s, z \in Pending' : s.epoch = z.epoch =>
          (s.kind = "fix" <=> z.kind = "fix")
    <3> TAKE s, z \in Pending'
    <3> HAVE s.epoch = z.epoch
    <3>1. s \in Pending <=> z \in Pending
      BY <2>1, <2>2, <2>3
    <3> QED
      BY <2>2, <3>1 DEF QueueInv
  <2>6. line' = "whole" => \A s \in Pending' : payload'.epoch <= s.epoch
    <3>1. line' = line /\ payload' = payload
      BY <1>2 DEF NextEpoch, bufVars
    <3>2. line = "whole" => payload.epoch \in First..epoch
      BY <2>3, HeldPending
    <3> QED
      BY <2>1, <2>2, <3>1, <3>2 DEF QueueInv
  <2> QED
    BY <1>1, <2>4, <2>5, <2>6 DEF QueueInv
<1>3. CASE ~NextEpoch
  <2>1. \A s \in Pending' : s \in Pending
    BY <1>3, PendingShrinks
  <2>2. First' = First /\ epoch' = epoch
    BY <1>3, Frame DEF First
  <2>3. line' = "whole" => \A s \in Pending' : payload'.epoch <= s.epoch
    <3> SUFFICES ASSUME line' = "whole", NEW s \in Pending'
                 PROVE  payload'.epoch <= s.epoch
      OBVIOUS
    <3>1. CASE Read
      <4>1. port # <<>> /\ port[1].id \in Ids /\ payload' = port[1]
        BY <3>1, WholeIsRead
      <4>2. 1 \in 1..Len(port)
        BY <4>1 DEF TypeInv, PortOK
      <4>3. port[1] \in Pending
        BY <4>1, <4>2, HeldPending
      <4>4. payload'.epoch \in First..epoch
        BY <4>1, <4>3 DEF QueueInv
      <4>5. CASE InBuffer(s)'
        BY <4>4, <4>5 DEF InBuffer
      <4>6. CASE ToSend(s)'
        BY <2>2, <4>4, <4>6 DEF ToSend
      <4>7. ~OnLine(s)'
        <5>1. /\ Len(port') = Len(port) - 1
              /\ \A i \in 1..Len(port') : port'[i] = port[i + 1]
              /\ Len(port) \in Nat
          BY <3>1, ReadFirst DEF TypeInv, PortOK
        <5>2. \A i \in 1..Len(port') : port'[i].id \notin Ids
          BY <4>1, <4>2, <5>1 DEF OnceInv
        <5> QED
          BY <5>2 DEF OnLine
      <4> QED
        BY <4>5, <4>6, <4>7 DEF Pending
    <3>2. CASE ~Read
      <4>1. UNCHANGED <<line, payload>>
        BY <3>2, Frame
      <4> QED
        BY <2>1, <4>1 DEF QueueInv
    <3> QED
      BY <3>1, <3>2
  <2> QED
    BY <1>1, <2>1, <2>2, <2>3 DEF QueueInv
<1> QED
  BY <1>2, <1>3

(* A call begins with the sentences of one epoch to send.                  *)
LEMMA InitQueue == Init => OnceInv /\ QueueInv
<1> SUFFICES ASSUME Init PROVE OnceInv /\ QueueInv
  OBVIOUS
<1>1. port = <<>> /\ line = "none" /\ epochs = 1
  BY DEF Init
<1>2. epoch \in Nat /\ epoch >= 1
  BY GpsFeedAssumption DEF Init
<1>3. \A s \in Pending : s.epoch = epoch /\ (s.kind = "fix" <=> located)
  <2>1. \A s \in Pending : ToSend(s)
    BY <1>1 DEF Pending, InBuffer, OnLine
  <2> QED
    BY <2>1 DEF ToSend, Kinds
<1>4. OnceInv
  BY <1>1 DEF OnceInv
<1>5. QueueInv
  BY <1>1, <1>2, <1>3, GpsFeedAssumption DEF QueueInv, First
<1> QED
  BY <1>4, <1>5

-----------------------------------------------------------------------------
(* What the protocol has merged, and the fix it makes of it.               *)

(* A fix can be given the receiver's time.                                 *)
GpsAble(i) == i.quality /\ i.time # 0 /\ i.date # NoDate

(* The data are of the epochs so far; a position is of the time told with  *)
(* it, a date not of a later day; and the quality outlives the position in *)
(* an RMC only, which has told its date.                                   *)
Told(i) ==
  /\ i.time # 0 => i.time \in First..epoch
  /\ i.pos \in {0, i.time}
  /\ i.date # NoDate => i.date \in Day(First)..Day(epoch)
  /\ i.date # NoDate /\ i.time # 0 => i.date <= Day(i.time)
  /\ GpsAble(i) /\ i.pos = 0 => i.date = Day(i.time)

(* The data are of before the sentence s, which is pending.                *)
Before(i, s) ==
  /\ i.time <= s.epoch
  /\ i.date # NoDate => i.date <= Day(s.epoch)
  /\ i.pos = s.epoch => s.kind = "fix"
  /\ GpsAble(i) /\ i.pos = 0 => ~(s.id = "RMC" /\ s.epoch = i.time)

InfoInv == Told(info) /\ \A s \in Pending : Before(info, s)

(* The fix is the one of the data.                                         *)
FixInfo ==
  /\ GpsAble(info) => fix = [clock |-> "gps",
                             at |-> Stamp(info.date, info.time),
                             pos |-> info.pos]
  /\ info.quality /\ ~GpsAble(info) => fix.clock = "host" /\ fix.pos = info.pos
  /\ ~info.quality => fix = NoFix

(* The four fields after a sentence.                                       *)
LEMMA MergedFields ==
  ASSUME NEW s \in Line, s.id \in Ids, info \in Info
  PROVE  /\ Merged(s).time = IF s.kind = "blank" THEN 0 ELSE s.epoch
         /\ Merged(s).pos = IF s.kind = "fix" THEN s.epoch ELSE 0
         /\ s.id = "GGA" => /\ Merged(s).date = info.date
                            /\ Merged(s).quality <=> s.kind = "fix"
         /\ s.id = "RMC" => /\ Merged(s).date = IF s.kind = "blank" THEN NoDate
                                                ELSE Day(s.epoch)
                            /\ Merged(s).quality <=> info.quality
<1>1. Merged(s).time = IF s.kind = "blank" THEN 0 ELSE s.epoch
  BY Zenon DEF Merged
<1>2. Merged(s).pos = IF s.kind = "fix" THEN s.epoch ELSE 0
  BY Zenon DEF Merged
<1>3. Merged(s).date = IF s.id # "RMC" THEN info.date
                       ELSE IF s.kind = "blank" THEN NoDate ELSE Day(s.epoch)
  BY Zenon DEF Merged, Day
<1>4. Merged(s).quality = IF s.id = "GGA" THEN s.kind = "fix" ELSE info.quality
  BY Zenon DEF Merged
<1>5. s.id = "GGA" => (Merged(s).quality <=> s.kind = "fix")
  BY <1>4, Zenon
<1>6. s.id = "RMC" => (Merged(s).quality <=> info.quality)
  <2>1. "RMC" # "GGA"
    OBVIOUS
  <2> QED
    BY <1>4, <2>1, Zenon
<1>7. s.id = "GGA" => Merged(s).date = info.date
  BY <1>3
<1>8. s.id = "RMC" => Merged(s).date = IF s.kind = "blank" THEN NoDate
                                       ELSE Day(s.epoch)
  BY <1>3
<1> QED
  BY <1>1, <1>2, <1>5, <1>6, <1>7, <1>8

(* The oldest pending sentence is merged into older data.                  *)
LEMMA MergedTold ==
  ASSUME TypeInv, QueueInv, InfoInv, NEW s \in Pending, s.id \in Ids
  PROVE  Told(Merged(s))
<1> DEFINE m == Merged(s)
<1>1. /\ m.time = IF s.kind = "blank" THEN 0 ELSE s.epoch
      /\ m.pos = IF s.kind = "fix" THEN s.epoch ELSE 0
      /\ s.id = "GGA" => m.date = info.date /\ (m.quality <=> s.kind = "fix")
      /\ s.id = "RMC" => m.date = IF s.kind = "blank" THEN NoDate
                                  ELSE Day(s.epoch)
  BY MergedFields, PendingType DEF TypeInv, DataOK
<1>2. s.epoch \in First..epoch /\ First \in Nat /\ epoch \in Nat
      /\ s.epoch \in Nat /\ First >= 1
  BY PendingType DEF QueueInv, First, TypeInv, RecvOK
<1>3. /\ Day(First) <= Day(s.epoch) /\ Day(s.epoch) <= Day(epoch)
      /\ Day(s.epoch) \in Nat /\ Day(First) \in Nat /\ Day(epoch) \in Nat
  BY <1>2, DayMonotone, DayDef
<1>4. /\ info.date # NoDate => info.date \in Day(First)..Day(epoch)
      /\ info.date # NoDate => info.date <= Day(s.epoch)
  BY DEF InfoInv, Told, Before
<1> HIDE DEF m
<1>5. m.time # 0 => m.time \in First..epoch
  BY <1>1, <1>2
<1>6. m.pos \in {0, m.time}
  BY <1>1
<1>7. m.date # NoDate => m.date \in Day(First)..Day(epoch)
  BY <1>1, <1>3, <1>4 DEF Ids
<1>8. m.date # NoDate /\ m.time # 0 => m.date <= Day(m.time)
  BY <1>1, <1>3, <1>4 DEF Ids
<1>9. GpsAble(m) /\ m.pos = 0 => m.date = Day(m.time)
  BY <1>1, <1>2 DEF GpsAble, Ids
<1>10. Told(m)
  BY <1>5, <1>6, <1>7, <1>8, <1>9 DEF Told
<1> QED
  BY <1>10 DEF m

(* It is of before those that remain.                                      *)
LEMMA MergedBefore ==
  ASSUME TypeInv, QueueInv, InfoInv, NEW s \in Pending, s.id \in Ids,
         NEW z \in Pending, s.epoch <= z.epoch, ~SameSentence(z, s)
  PROVE  Before(Merged(s), z)
<1> DEFINE m == Merged(s)
<1>1. /\ m.time = IF s.kind = "blank" THEN 0 ELSE s.epoch
      /\ m.pos = IF s.kind = "fix" THEN s.epoch ELSE 0
      /\ s.id = "GGA" => m.date = info.date /\ (m.quality <=> s.kind = "fix")
      /\ s.id = "RMC" => m.date = IF s.kind = "blank" THEN NoDate
                                  ELSE Day(s.epoch)
  BY MergedFields, PendingType DEF TypeInv, DataOK
<1>2. s.epoch \in Nat /\ z.epoch \in Nat /\ s.epoch >= 1
  BY PendingType DEF QueueInv, First, TypeInv, RecvOK
<1>3. /\ Day(s.epoch) <= Day(z.epoch)
      /\ Day(s.epoch) \in Nat /\ Day(z.epoch) \in Nat
  BY <1>2, DayMonotone, DayDef
<1>4. info.date # NoDate => info.date <= Day(z.epoch)
  BY DEF InfoInv, Before
<1>5. s.epoch = z.epoch => (s.kind = "fix" <=> z.kind = "fix")
  BY DEF QueueInv
<1> HIDE DEF m
<1>6. m.time <= z.epoch
  BY <1>1, <1>2
<1>7. m.date # NoDate => m.date <= Day(z.epoch)
  BY <1>1, <1>3, <1>4 DEF Ids
<1>8. m.pos = z.epoch => z.kind = "fix"
  BY <1>1, <1>2, <1>5
<1>9. GpsAble(m) /\ m.pos = 0 => ~(z.id = "RMC" /\ z.epoch = m.time)
  BY <1>1, <1>2 DEF GpsAble, Ids, SameSentence
<1>10. Before(m, z)
  BY <1>6, <1>7, <1>8, <1>9 DEF Before
<1> QED
  BY <1>10 DEF m

(* A line is parsed, or the data stay as they are.                         *)
LEMMA InfoChanges ==
  ASSUME TypeInv, OnceInv, Next, info' # info
  PROVE  /\ Read /\ ParseLine /\ line = "whole"
         /\ payload \in Pending /\ payload.id \in Ids
         /\ info' = Merged(payload)
         /\ UNCHANGED <<epoch, epochs>>
<1>1. Read
  BY Frame
<1>2. ParseLine
  BY <1>1, ReadStep DEF ParseOther, dataVars
<1>3. line = "whole" /\ info' = Merged(payload)
  BY <1>2 DEF ParseLine
<1>4. payload \in Pending /\ payload.id \in Ids
  BY <1>3, HeldPending DEF OnceInv
<1> QED
  BY <1>1, <1>2, <1>3, <1>4, ReadStep

(* The data stay behind what is pending.                                   *)
LEMMA StepInfo ==
  ASSUME TypeInv, OnceInv, QueueInv, InfoInv, Next
  PROVE  InfoInv'
<1>1. CASE info' # info
  <2>1. /\ Read /\ ParseLine /\ line = "whole"
        /\ payload \in Pending /\ payload.id \in Ids
        /\ info' = Merged(payload)
        /\ UNCHANGED <<epoch, epochs>>
    BY <1>1, InfoChanges
  <2>2. Told(info')
    BY <2>1, MergedTold
  <2>3. Told(info)'
    BY <2>1, <2>2 DEF Told, First, Day, GpsAble
  <2>4. \A z \in Pending' : Before(info', z)
    <3> TAKE z \in Pending'
    <3>1. z \in Pending /\ ~SameSentence(z, payload)
      BY <2>1, ParsedIsGone
    <3>2. payload.epoch <= z.epoch
      BY <2>1, <3>1 DEF QueueInv
    <3> QED
      BY <2>1, <3>1, <3>2, MergedBefore
  <2> QED
    BY <2>3, <2>4 DEF InfoInv, Before, Day, GpsAble
<1>2. CASE info' = info /\ ~NextEpoch
  <2>1. UNCHANGED <<epoch, epochs>>
    BY <1>2, Frame
  <2>2. Told(info)'
    BY <1>2, <2>1 DEF InfoInv, Told, First, Day, GpsAble
  <2>3. \A s \in Pending' : Before(info, s)
    BY <1>2, PendingShrinks DEF InfoInv
  <2> QED
    BY <1>2, <2>2, <2>3 DEF InfoInv, Before, Day, GpsAble
<1>3. CASE info' = info /\ NextEpoch
  <2>1. epoch' = epoch + 1 /\ First' = First /\ epoch \in Nat /\ First \in Nat
    BY <1>3 DEF NextEpoch, First, TypeInv, RecvOK, QueueInv
  <2>2. Told(info) /\ info \in Info
    BY DEF InfoInv, TypeInv, DataOK
  <2>3. Day(epoch) <= Day(epoch') /\ Day(epoch) \in Nat /\ Day(epoch') \in Nat
        /\ Day(First) \in Nat
    BY <2>1, DayMonotone, DayDef
  <2>4. Told(info)'
    <3>1. Day(First)' = Day(First')
      BY DEF Day
    <3>2. Day(epoch)' = Day(epoch')
      BY DEF Day
    <3>3. GpsAble(info)' <=> GpsAble(info)
      BY <1>3 DEF GpsAble
    <3>4. Day(info.time)' = Day(info.time)
      BY <1>3 DEF Day
    <3>5. info.time # 0 => info.time \in First..epoch'
      BY <2>1, <2>2 DEF Told
    <3>6. info.date # NoDate => info.date \in Day(First)..Day(epoch')
      BY <2>2, <2>3 DEF Told
    <3> QED
      BY <1>3, <2>1, <2>2, <3>1, <3>2, <3>3, <3>4, <3>5, <3>6 DEF Told
  <2>5. \A s \in Pending' : Before(info, s)
    <3> TAKE s \in Pending'
    <3>1. CASE s \in Pending
      BY <3>1 DEF InfoInv
    <3>2. CASE s.epoch = epoch'
      <4>1. info.time <= epoch
        BY <2>1, <2>2 DEF Told, Info
      <4>2. info.pos <= epoch
        BY <2>1, <2>2, <4>1 DEF Told, Info
      <4>3. info.date # NoDate => info.date <= Day(s.epoch)
        BY <2>2, <2>3, <3>2 DEF Told
      <4> QED
        BY <2>1, <2>2, <3>2, <4>1, <4>2, <4>3 DEF Before, Info
    <3> QED
      BY <1>3, <3>1, <3>2, PendingNext
  <2> QED
    BY <1>3, <2>4, <2>5 DEF InfoInv, Before, Day, GpsAble
<1> QED
  BY <1>1, <1>2, <1>3

(* The fix is made anew with every line.                                   *)
LEMMA StepFix ==
  ASSUME TypeInv, FixInfo, Next
  PROVE  FixInfo'
<1>1. CASE Read /\ ParseLine
  <2>1. fix' = FixOf(info')
    BY <1>1 DEF ParseLine
  <2>2. GpsAble(info') => FixOf(info') = [clock |-> "gps",
                                          at |-> Stamp(info'.date, info'.time),
                                          pos |-> info'.pos]
    BY DEF FixOf, GpsAble, Stamp
  <2>3. info'.quality /\ ~GpsAble(info') =>
          FixOf(info').clock = "host" /\ FixOf(info').pos = info'.pos
    BY DEF FixOf, GpsAble
  <2>4. ~info'.quality => FixOf(info') = NoFix
    BY DEF FixOf
  <2> QED
    BY <2>1, <2>2, <2>3, <2>4 DEF FixInfo, GpsAble, Stamp
<1>2. CASE UNCHANGED <<info, fix>>
  BY <1>2 DEF FixInfo, GpsAble, Stamp
<1>3. CASE Read /\ ~ParseLine
  <2>1. UNCHANGED <<info, fix>>
    BY <1>3, ReadStep DEF ParseOther, dataVars
  <2> QED
    BY <1>2, <2>1
<1> QED
  BY <1>1, <1>2, <1>3, Frame

(* The stamp is the time of the last sentence, or that of the day before.  *)
LEMMA StampOfData ==
  ASSUME TypeInv, QueueInv, InfoInv, GpsAble(info)
  PROVE  /\ info.time \in First..epoch
         /\ info.date \in {Day(info.time), Day(info.time) - 1}
         /\ info.date = Day(info.time) => Stamp(info.date, info.time) = info.time
         /\ info.date # Day(info.time) =>
              Stamp(info.date, info.time) = info.time - DayLength
<1> DEFINE t == info.time
           d == info.date
<1>1. t \in First..epoch /\ d >= Day(First) /\ d <= Day(t) /\ d \in Int
  BY DEF InfoInv, Told, GpsAble
<1>2. First \in Nat /\ t \in Nat /\ t < First + DayLength
  BY <1>1, GpsFeedAssumption DEF QueueInv, First, TypeInv, RecvOK
<1>3. Day(t) <= Day(First) + 1 /\ Day(t) \in Nat /\ Day(First) \in Nat
  BY <1>2, DayNext, DayDef
<1>4. d \in {Day(t), Day(t) - 1}
  BY <1>1, <1>3
<1>5. Stamp(Day(t), t) = t /\ Stamp(Day(t) - 1, t) = t - DayLength
  BY <1>2, DayDef, DayBefore
<1> QED
  BY <1>1, <1>4, <1>5

(* A delivery appends the fix or leaves the list, and the destructor       *)
(* empties it.                                                             *)
LEMMA FixesStep ==
  ASSUME TypeInv, Next
  PROVE  \/ fixes' = fixes
         \/ fixes' = <<>>
         \/ /\ Deliver /\ IsNew /\ fixes' = Append(fixes, fix)
            /\ Len(fixes') = Len(fixes) + 1 /\ Len(fixes) \in Nat
            /\ fixes'[Len(fixes')] = fix
            /\ \A i \in 1..Len(fixes) : fixes'[i] = fixes[i]
            /\ UNCHANGED <<port, line, payload, info, fix, epoch, epochs,
                           located, todo, lostPosition>>
<1>1. CASE Deliver
  <2>1. fixes' = fixes \/ (IsNew /\ fixes' = Append(fixes, fix))
    BY <1>1 DEF Deliver
  <2>2. fixes \in Seq(Fix) /\ fix \in Fix
    BY DEF TypeInv, DataOK
  <2>3. UNCHANGED <<port, line, payload, info, fix, epoch, epochs, located,
                    todo, lostPosition>>
    BY <1>1 DEF Deliver, portVars, bufVars, dataVars, recvVars
  <2>4. LET app == Append(fixes, fix)
        IN  /\ Len(app) = Len(fixes) + 1 /\ Len(fixes) \in Nat
            /\ app[Len(app)] = fix
            /\ \A i \in 1..Len(fixes) : app[i] = fixes[i]
    BY <2>2
  <2> QED
    BY <1>1, <2>1, <2>3, <2>4
<1>2. CASE Destroy
  BY <1>2 DEF Destroy
<1> QED
  BY <1>1, <1>2, Frame

-----------------------------------------------------------------------------
(* As long as the receiver has not lost its position, all its sentences    *)
(* have one from some time on, and with the quality there is a position.   *)
LossInv ==
  ~lostPosition =>
    /\ info.quality => info.pos # 0
    /\ info.quality \/ info.pos # 0 =>
         located /\ \A s \in Pending : s.kind = "fix"
    /\ \A s \in Pending : s.kind = "fix" =>
         /\ located
         /\ \A z \in Pending : z.epoch >= s.epoch => z.kind = "fix"
    /\ NullFixNeedsLoss

(* A call begins without a fix.                                            *)
LEMMA InitLoss == Init => LossInv
<1> SUFFICES ASSUME Init PROVE LossInv
  OBVIOUS
<1>1. fixes = <<>> /\ info.pos = 0 /\ ~info.quality
  BY DEF Init
<1>2. \A s \in Pending : s.kind = "fix" <=> located
  <2>1. port = <<>> /\ line = "none"
    BY DEF Init
  <2>2. \A s \in Pending : ToSend(s)
    BY <2>1 DEF Pending, InBuffer, OnLine
  <2> QED
    BY <2>2 DEF ToSend, Kinds
<1>3. NullFixNeedsLoss
  BY <1>1 DEF NullFixNeedsLoss
<1> QED
  BY <1>1, <1>2, <1>3 DEF LossInv

(* It remains so.                                                          *)
LEMMA StepLoss ==
  ASSUME TypeInv, OnceInv, QueueInv, InfoInv, FixInfo, LossInv, Next
  PROVE  LossInv'
<1> SUFFICES ASSUME ~lostPosition' PROVE LossInv'
  BY DEF LossInv
<1>1. ~lostPosition /\ (NextEpoch => (located => located'))
  <2>1. CASE NextEpoch
    <3>1. lostPosition' = (lostPosition \/ (located /\ ~located'))
      BY <2>1, Zenon DEF NextEpoch
    <3> QED
      BY <3>1, Zenon
  <2>2. CASE ~NextEpoch
    BY <2>2, Frame
  <2> QED
    BY <2>1, <2>2
<1>2. /\ info.quality => info.pos # 0
      /\ info.quality \/ info.pos # 0 =>
           located /\ \A s \in Pending : s.kind = "fix"
      /\ \A s \in Pending : s.kind = "fix" =>
           /\ located
           /\ \A z \in Pending : z.epoch >= s.epoch => z.kind = "fix"
      /\ \A i \in 1..Len(fixes) : fixes[i].pos # 0
  BY <1>1 DEF LossInv, NullFixNeedsLoss
<1>3. \A i \in 1..Len(fixes') : fixes'[i].pos # 0
  <2>1. CASE fixes' = fixes \/ fixes' = <<>>
    BY <1>2, <2>1
  <2>2. CASE /\ IsNew
             /\ Len(fixes') = Len(fixes) + 1 /\ Len(fixes) \in Nat
             /\ fixes'[Len(fixes')] = fix
             /\ \A i \in 1..Len(fixes) : fixes'[i] = fixes[i]
    <3>1. fix.pos # 0
      <4>1. info.quality
        BY <2>2 DEF IsNew, FixInfo
      <4>2. fix.pos = info.pos
        BY <4>1 DEF FixInfo
      <4> QED
        BY <1>2, <4>1, <4>2
    <3> QED
      BY <1>2, <2>2, <3>1
  <2> QED
    BY <2>1, <2>2, FixesStep
<1>4. NullFixNeedsLoss'
  BY <1>3 DEF NullFixNeedsLoss
<1>5. CASE info' # info
  <2>1. /\ Read /\ ParseLine /\ line = "whole"
        /\ payload \in Pending /\ payload.id \in Ids
        /\ info' = Merged(payload)
        /\ UNCHANGED <<epoch, epochs>>
    BY <1>5, InfoChanges
  <2>2. UNCHANGED located
    BY <2>1, ReadStep
  <2>3. \A z \in Pending' : z \in Pending /\ payload.epoch <= z.epoch
                            /\ z.epoch \in Nat /\ payload.epoch \in Nat
    BY <2>1, ParsedIsGone, PendingType DEF QueueInv
  <2>4. /\ info'.pos = IF payload.kind = "fix" THEN payload.epoch ELSE 0
        /\ payload.id = "GGA" => (info'.quality <=> payload.kind = "fix")
        /\ payload.id = "RMC" => (info'.quality <=> info.quality)
    BY <2>1, MergedFields, PendingType DEF TypeInv, DataOK
  <2>5. payload.epoch # 0
    BY <2>1 DEF QueueInv, First, TypeInv, RecvOK
  <2>6. CASE payload.kind = "fix"
    <3>1. info'.pos # 0
      BY <2>4, <2>5, <2>6
    <3>2. located' /\ \A z \in Pending' : z.kind = "fix"
      BY <1>2, <2>1, <2>2, <2>3, <2>6
    <3> QED
      BY <1>4, <3>1, <3>2 DEF LossInv
  <2>7. CASE payload.kind # "fix"
    <3>1. ~info'.quality /\ info'.pos = 0
      BY <1>2, <2>1, <2>4, <2>7 DEF Ids
    <3>2. \A s \in Pending' : s.kind = "fix" =>
            /\ located'
            /\ \A z \in Pending' : z.epoch >= s.epoch => z.kind = "fix"
      BY <1>2, <2>2, <2>3
    <3> QED
      BY <1>4, <3>1, <3>2 DEF LossInv
  <2> QED
    BY <2>6, <2>7
<1>6. CASE info' = info /\ ~NextEpoch
  <2>1. \A s \in Pending' : s \in Pending
    BY <1>6, PendingShrinks
  <2>2. UNCHANGED located
    BY <1>6, Frame
  <2> QED
    BY <1>2, <1>4, <1>6, <2>1, <2>2 DEF LossInv
<1>7. CASE info' = info /\ NextEpoch
  <2>1. \A s \in Pending' : s \in Pending
          \/ (s.epoch = epoch' /\ (s.kind = "fix" <=> located'))
    BY <1>7, PendingNext
  <2>2. \A s \in Pending : s.epoch < epoch' /\ s.epoch \in Nat /\ epoch' \in Nat
    BY <1>7, PendingType DEF QueueInv, TypeInv, RecvOK, NextEpoch
  <2>3. info'.quality \/ info'.pos # 0 =>
          located' /\ \A s \in Pending' : s.kind = "fix"
    BY <1>1, <1>2, <1>7, <2>1
  <2>4. \A s \in Pending' : s.kind = "fix" =>
          /\ located'
          /\ \A z \in Pending' : z.epoch >= s.epoch => z.kind = "fix"
    BY <1>1, <1>2, <1>7, <2>1, <2>2
  <2> QED
    BY <1>2, <1>4, <1>7, <2>3, <2>4 DEF LossInv
<1> QED
  BY <1>5, <1>6, <1>7

-----------------------------------------------------------------------------
(* The times of the fixes against the data and against what is pending.    *)

(* The data carry their own date.                                          *)
Current == GpsAble(info) /\ info.date = Day(info.time)

(* The sentence s cannot bring about a second fix of its time: there has   *)
(* been one of that time, or there is none without a position.             *)
Settled(s) ==
  \/ /\ info.time = s.epoch /\ info.date = Day(s.epoch)
     /\ s.kind = "fix" \/ s.id = "GGA"
  \/ ~info.quality /\ s.kind # "fix"

(* What is so of the fix i: no data to come are of an earlier time; of its *)
(* own time only if it is the last one, which is the one a new fix is      *)
(* compared with.                                                          *)
FixOK(i) ==
  LET f == fixes[i] IN
  /\ f.at <= epoch
  /\ f.pos # 0 => f.at \in {f.pos, f.pos - DayLength}
  /\ Current => f.at <= info.time /\ (f.at = info.time => i = Len(fixes))
  /\ \A s \in Pending :
       /\ f.at <= s.epoch
       /\ f.at = s.epoch => i = Len(fixes) /\ Settled(s)

FixInv ==
  /\ \A i \in 1..Len(fixes) : fixes[i].clock = "gps" => FixOK(i)
  /\ FixesInOrder

(* A call begins without fixes.                                            *)
LEMMA InitFixes == Init => FixInv
<1> SUFFICES ASSUME Init PROVE FixInv
  OBVIOUS
<1>1. fixes = <<>>
  BY DEF Init
<1> QED
  BY <1>1 DEF FixInv, FixesInOrder

(* A fix that is new is not of the time of the last one.                   *)
LEMMA NewIsNotLast ==
  ASSUME TypeInv, FixInfo, IsNew, Current, fixes # <<>>,
         fixes[Len(fixes)].clock = "gps"
  PROVE  fixes[Len(fixes)].at # info.time
<1>1. fix = [clock |-> "gps", at |-> Stamp(info.date, info.time),
             pos |-> info.pos]
  BY DEF FixInfo, Current
<1>2. info.time \in Nat
  BY DEF TypeInv, DataOK, Info
<1>3. Stamp(info.date, info.time) = info.time
  BY <1>2, DayDef DEF Current
<1> QED
  BY <1>1, <1>3 DEF IsNew

(* Of those collected none has the time of a new fix, or of what is still  *)
(* pending.                                                                *)
LEMMA OldBeforeNew ==
  ASSUME TypeInv, QueueInv, FixInfo, FixInv, IsNew,
         NEW i \in 1..Len(fixes), fixes[i].clock = "gps"
  PROVE  /\ Current => fixes[i].at < info.time
         /\ \A s \in Pending : fixes[i].at < s.epoch
<1>1. fixes[i] \in Fix /\ fixes # <<>> /\ info \in Info
  BY DEF TypeInv, DataOK
<1>2. FixOK(i)
  BY DEF FixInv
<1>3. Current => fixes[i].at < info.time
  BY <1>1, <1>2, NewIsNotLast DEF FixOK, Fix, Info
<1>4. ASSUME NEW s \in Pending PROVE fixes[i].at < s.epoch
  <2>1. s.epoch \in Nat /\ s.epoch # 0
    BY PendingType DEF QueueInv, First, TypeInv, RecvOK
  <2>2. info.quality
    BY DEF IsNew, FixInfo
  <2>3. fixes[i].at = s.epoch => Settled(s)
    BY <1>2 DEF FixOK
  <2>4. Settled(s) => Current /\ info.time = s.epoch
    <3>1. Day(s.epoch) # NoDate
      BY <2>1, DayDef DEF NoDate
    <3> QED
      BY <2>1, <2>2, <3>1 DEF Settled, Current, GpsAble
  <2>5. fixes[i].at <= s.epoch
    BY <1>2 DEF FixOK
  <2> QED
    BY <1>1, <1>3, <2>1, <2>3, <2>4, <2>5 DEF Fix
<1> QED
  BY <1>3, <1>4

(* What is so of a new fix with the receiver's time.                       *)
LEMMA NewFix ==
  ASSUME TypeInv, OnceInv, QueueInv, InfoInv, FixInfo, GpsAble(info)
  PROVE  /\ fix.clock = "gps" /\ fix.pos = info.pos
         /\ fix.at \in Nat /\ fix.pos \in Nat
         /\ fix.at <= epoch
         /\ fix.pos # 0 => fix.at \in {fix.pos, fix.pos - DayLength}
         /\ Current => fix.at = info.time
         /\ ~Current => fix.at + DayLength = fix.pos
         /\ \A s \in Pending : /\ fix.at <= s.epoch
                               /\ fix.at = s.epoch => Settled(s)
<1>1. fix = [clock |-> "gps", at |-> Stamp(info.date, info.time),
             pos |-> info.pos]
  BY DEF FixInfo
<1>2. fix \in Fix /\ info \in Info
  BY DEF TypeInv, DataOK
<1>3. /\ info.time \in First..epoch
      /\ info.date \in {Day(info.time), Day(info.time) - 1}
      /\ info.date = Day(info.time) => fix.at = info.time
      /\ info.date # Day(info.time) => fix.at = info.time - DayLength
  BY <1>1, StampOfData
<1>4. First \in Int /\ epoch \in Nat /\ First >= 1
  BY DEF QueueInv, First, TypeInv, RecvOK
<1>5. /\ info.pos \in {0, info.time}
      /\ info.pos = 0 => info.date = Day(info.time)
  BY DEF InfoInv, Told
<1>6. Current <=> info.date = Day(info.time)
  BY DEF Current
<1>7. fix.at <= info.time /\ (fix.at = info.time => Current)
  BY <1>2, <1>3, <1>6, GpsFeedAssumption DEF Info
<1>8. ASSUME NEW s \in Pending
      PROVE  fix.at <= s.epoch /\ (fix.at = s.epoch => Settled(s))
  <2>1. Before(info, s) /\ s.epoch \in Nat
    BY PendingType DEF InfoInv
  <2>2. fix.at <= s.epoch
    BY <1>2, <1>7, <2>1 DEF Before, Info, Fix
  <2>3. fix.at = s.epoch => info.time = s.epoch /\ Current
    BY <1>2, <1>7, <2>1 DEF Before, Info, Fix
  <2>4. s.id \in Ids
    BY DEF Pending, InBuffer, OnLine, ToSend, OnceInv, TypeInv, RecvOK
  <2>5. info.time = s.epoch => s.kind = "fix" \/ s.id = "GGA"
    BY <1>5, <2>1, <2>4 DEF Before, Ids
  <2> QED
    BY <1>6, <2>2, <2>3, <2>5 DEF Settled
<1>9. fix.at <= epoch
  BY <1>2, <1>3, <1>4, <1>7 DEF Fix, Info
<1>10. fix.pos # 0 => fix.at \in {fix.pos, fix.pos - DayLength}
  BY <1>1, <1>3, <1>5
<1>11. ~Current => fix.at + DayLength = fix.pos
  BY <1>1, <1>2, <1>3, <1>5, <1>6, GpsFeedAssumption DEF Info
<1> QED
  BY <1>1, <1>2, <1>3, <1>6, <1>8, <1>9, <1>10, <1>11 DEF Fix

(* A delivery puts a fix where it belongs.                                 *)
LEMMA DeliverFix ==
  ASSUME TypeInv, OnceInv, QueueInv, InfoInv, FixInfo, FixInv,
         IsNew, Len(fixes') = Len(fixes) + 1, Len(fixes) \in Nat,
         fixes'[Len(fixes')] = fix,
         \A i \in 1..Len(fixes) : fixes'[i] = fixes[i],
         Pending' = Pending,
         UNCHANGED <<info, epoch>>
  PROVE  FixInv'
<1>1. Current' <=> Current
  BY DEF Current, GpsAble, Day
<1>2. \A s \in Pending : Settled(s)' <=> Settled(s)
  BY DEF Settled, Day
<1>3. ASSUME NEW i \in 1..Len(fixes), fixes[i].clock = "gps"
      PROVE  FixOK(i)'
  <2>1. fixes[i] \in Fix /\ info \in Info
    BY DEF TypeInv, DataOK
  <2>2. FixOK(i) /\ fixes'[i] = fixes[i]
    BY <1>3 DEF FixInv
  <2>3. /\ Current => fixes[i].at < info.time
        /\ \A s \in Pending : fixes[i].at < s.epoch
    BY <1>3, OldBeforeNew
  <2>4. \A s \in Pending : s.epoch \in Nat
    BY PendingType
  <2> QED
    BY <1>1, <2>1, <2>2, <2>3, <2>4 DEF FixOK, Fix, Info
<1>4. ASSUME fix.clock = "gps" PROVE FixOK(Len(fixes))' /\ GpsAble(info)
  <2>1. GpsAble(info)
    BY <1>4 DEF FixInfo, NoFix
  <2>2. /\ fix.at <= epoch
        /\ fix.pos # 0 => fix.at \in {fix.pos, fix.pos - DayLength}
        /\ Current => fix.at = info.time
        /\ \A s \in Pending : /\ fix.at <= s.epoch
                              /\ fix.at = s.epoch => Settled(s)
    BY <2>1, NewFix
  <2>3. info.time \in Nat
    BY DEF TypeInv, DataOK, Info
  <2>4. FixOK(Len(fixes))'
    BY <1>1, <1>2, <2>2, <2>3 DEF FixOK
  <2> QED
    BY <2>1, <2>4
<1>5. ASSUME NEW i \in 1..Len(fixes'), fixes'[i].clock = "gps"
      PROVE  FixOK(i)'
  <2>1. CASE i \in 1..Len(fixes)
    BY <1>3, <1>5, <2>1
  <2>2. CASE i = Len(fixes')
    BY <1>4, <1>5, <2>2
  <2> QED
    BY <2>1, <2>2
<1>6. FixesInOrder'
  <2> SUFFICES ASSUME NEW i \in 1..Len(fixes'), NEW j \in 1..Len(fixes'), i < j,
                      fixes'[i].clock = "gps", fixes'[j].clock = "gps"
               PROVE  \/ fixes'[i].at < fixes'[j].at
                      \/ fixes'[j].at + DayLength = fixes'[j].pos
    BY DEF FixesInOrder
  <2>1. i \in 1..Len(fixes) /\ fixes'[i] = fixes[i]
    OBVIOUS
  <2>2. CASE j \in 1..Len(fixes)
    BY <2>1, <2>2 DEF FixInv, FixesInOrder
  <2>3. CASE j = Len(fixes')
    <3>1. fixes'[j] = fix /\ GpsAble(info)
      BY <1>4, <2>3
    <3>2. /\ Current => fix.at = info.time
          /\ ~Current => fix.at + DayLength = fix.pos
      BY <3>1, NewFix
    <3>3. Current => fixes[i].at < info.time
      BY <2>1, OldBeforeNew
    <3> QED
      BY <2>1, <3>1, <3>2, <3>3
  <2> QED
    BY <2>2, <2>3
<1> QED
  BY <1>5, <1>6 DEF FixInv

(* Parsing a sentence keeps the fixes behind the data.                     *)
LEMMA ParseFix ==
  ASSUME TypeInv, OnceInv, QueueInv, InfoInv, FixInv, Next, info' # info,
         fixes' = fixes
  PROVE  FixInv'
<1> DEFINE p == payload
<1>1. /\ Read /\ ParseLine /\ line = "whole"
      /\ p \in Pending /\ p.id \in Ids
      /\ info' = Merged(p)
      /\ UNCHANGED <<epoch, epochs>>
  BY InfoChanges
<1>2. \A z \in Pending' : z \in Pending /\ p.epoch <= z.epoch
  BY <1>1, ParsedIsGone DEF QueueInv
<1>3. /\ info'.time = IF p.kind = "blank" THEN 0 ELSE p.epoch
      /\ p.id = "GGA" => /\ info'.date = info.date
                         /\ info'.quality <=> p.kind = "fix"
      /\ p.id = "RMC" => /\ info'.date = IF p.kind = "blank" THEN NoDate
                                         ELSE Day(p.epoch)
                         /\ info'.quality <=> info.quality
  BY <1>1, MergedFields, PendingType DEF TypeInv, DataOK
<1>4. p.epoch \in Nat
  BY <1>1, PendingType
<1>5. ASSUME NEW i \in 1..Len(fixes), fixes[i].clock = "gps"
      PROVE  FixOK(i)'
  <2>1. FixOK(i) /\ fixes[i] \in Fix
    BY <1>5 DEF FixInv, TypeInv, DataOK
  <2>2. /\ fixes[i].at <= p.epoch
        /\ fixes[i].at = p.epoch => i = Len(fixes) /\ Settled(p)
    BY <1>1, <2>1 DEF FixOK
  <2>3. Current' => /\ fixes[i].at <= info'.time
                    /\ fixes[i].at = info'.time => i = Len(fixes)
    BY <1>3, <2>2 DEF Current, GpsAble
  <2>4. ASSUME NEW z \in Pending', fixes[i].at = z.epoch
        PROVE  i = Len(fixes) /\ Settled(z)'
    <3>1. z \in Pending /\ p.epoch <= z.epoch /\ z.epoch \in Nat
      BY <1>2, PendingType
    <3>2. p.epoch = z.epoch
      BY <1>4, <2>2, <2>4, <3>1
    <3>3. p.kind = "fix" <=> z.kind = "fix"
      BY <1>1, <3>1, <3>2 DEF QueueInv
    <3>4. i = Len(fixes) /\ Settled(z) /\ Settled(p)
      BY <2>1, <2>2, <2>4, <3>1, <3>2 DEF FixOK
    <3>5. CASE p.kind = "fix"
      <4>1. info'.time = z.epoch
        BY <1>3, <3>2, <3>5
      <4>2. info'.date = Day(z.epoch)
        BY <1>1, <1>3, <3>2, <3>3, <3>4, <3>5 DEF Settled, Ids
      <4> QED
        BY <3>3, <3>4, <3>5, <4>1, <4>2 DEF Settled, Day
    <3>6. CASE p.kind # "fix"
      <4>1. ~info'.quality
        BY <1>1, <1>3, <3>4, <3>6 DEF Settled, Ids
      <4> QED
        BY <3>3, <3>4, <3>6, <4>1 DEF Settled
    <3> QED
      BY <3>5, <3>6
  <2>5. \A z \in Pending' : fixes[i].at <= z.epoch
    BY <1>2, <2>1 DEF FixOK
  <2> QED
    BY <1>1, <2>1, <2>3, <2>4, <2>5 DEF FixOK
<1>6. FixesInOrder'
  BY DEF FixInv, FixesInOrder
<1> QED
  BY <1>5, <1>6 DEF FixInv

(* The fixes stay in the order of their times.                             *)
LEMMA StepFixes ==
  ASSUME TypeInv, OnceInv, QueueInv, InfoInv, FixInfo, FixInv, Next
  PROVE  FixInv'
<1>1. CASE info' # info
  <2>1. fixes' = fixes
    BY <1>1, InfoChanges, ReadStep
  <2> QED
    BY <1>1, <2>1, ParseFix
<1>2. CASE fixes' = <<>>
  BY <1>2 DEF FixInv, FixesInOrder
<1>3. CASE fixes' = fixes /\ info' = info
  <2>1. /\ epoch <= epoch' /\ epoch \in Nat
        /\ \A s \in Pending' : s \in Pending \/ s.epoch > epoch
    <3>1. CASE NextEpoch
      <4>1. epoch' = epoch + 1 /\ epoch \in Nat
        BY <3>1 DEF NextEpoch, TypeInv, RecvOK
      <4>2. \A s \in Pending' : s \in Pending \/ s.epoch = epoch'
        BY <3>1, PendingNext
      <4> QED
        BY <4>1, <4>2
    <3>2. CASE ~NextEpoch
      <4>1. epoch' = epoch /\ epoch \in Nat
        BY <3>2, Frame DEF TypeInv, RecvOK
      <4> QED
        BY <3>2, <4>1, PendingShrinks
    <3> QED
      BY <3>1, <3>2
  <2>2. Current' <=> Current
    BY <1>3 DEF Current, GpsAble, Day
  <2>3. \A s \in Pending : Settled(s)' <=> Settled(s)
    BY <1>3 DEF Settled, Day
  <2>4. ASSUME NEW i \in 1..Len(fixes), fixes[i].clock = "gps"
        PROVE  FixOK(i)'
    <3>1. FixOK(i) /\ fixes[i] \in Fix
      BY <2>4 DEF FixInv, TypeInv, DataOK
    <3>2. fixes[i].at <= epoch /\ fixes[i].at \in Nat /\ epoch' \in Nat
      BY <2>1, <3>1, Frame DEF FixOK, Fix, NextEpoch
    <3>3. \A s \in Pending' :
            /\ fixes[i].at <= s.epoch
            /\ fixes[i].at = s.epoch => i = Len(fixes) /\ Settled(s)'
      <4> TAKE s \in Pending'
      <4>1. CASE s \in Pending
        BY <2>3, <3>1, <4>1 DEF FixOK
      <4>2. CASE s.epoch > epoch
        <5>1. s.epoch \in Nat
          BY DEF Pending, Line
        <5> QED
          BY <2>1, <3>2, <4>2, <5>1
      <4> QED
        BY <2>1, <4>1, <4>2
    <3> QED
      BY <1>3, <2>1, <2>2, <3>1, <3>2, <3>3 DEF FixOK
  <2>5. FixesInOrder'
    BY <1>3 DEF FixInv, FixesInOrder
  <2> QED
    BY <1>3, <2>4, <2>5 DEF FixInv
<1>4. CASE /\ Deliver /\ IsNew /\ fixes' = Append(fixes, fix)
           /\ Len(fixes') = Len(fixes) + 1 /\ Len(fixes) \in Nat
           /\ fixes'[Len(fixes')] = fix
           /\ \A i \in 1..Len(fixes) : fixes'[i] = fixes[i]
           /\ UNCHANGED <<port, line, payload, info, fix, epoch, epochs,
                          located, todo, lostPosition>>
  <2>1. Pending' = Pending
    BY <1>4 DEF Pending, InBuffer, OnLine, ToSend, Kinds
  <2> QED
    BY <1>4, <2>1, DeliverFix
<1> QED
  BY <1>1, <1>2, <1>3, <1>4, FixesStep

-----------------------------------------------------------------------------
(* Theorems.                                                               *)

(* What holds of the data and of the fixes collected so far.               *)
DataInv == OnceInv /\ QueueInv /\ InfoInv /\ FixInfo /\ LossInv /\ FixInv

(* It holds when the call begins.                                          *)
LEMMA InitData == Init => DataInv
<1> SUFFICES ASSUME Init PROVE DataInv
  OBVIOUS
<1>1. OnceInv /\ QueueInv /\ LossInv /\ FixInv
  BY InitQueue, InitLoss, InitFixes
<1>2. info.time = 0 /\ info.date = NoDate /\ info.pos = 0 /\ ~info.quality
      /\ fix = NoFix
  BY DEF Init
<1>3. FixInfo
  BY <1>2 DEF FixInfo, GpsAble
<1>4. InfoInv
  <2>1. Told(info)
    BY <1>2 DEF Told, GpsAble
  <2>2. \A s \in Pending : Before(info, s)
    <3> TAKE s \in Pending
    <3>1. s.epoch \in Nat /\ s.epoch # 0
      BY <1>1, PendingType, InitType DEF QueueInv, First, TypeInv, RecvOK
    <3> QED
      BY <1>2, <3>1 DEF Before, GpsAble
  <2> QED
    BY <2>1, <2>2 DEF InfoInv
<1> QED
  BY <1>1, <1>3, <1>4 DEF DataInv

(* Every step preserves it.                                                *)
LEMMA StepData == TypeInv /\ DataInv /\ [Next]_vars => DataInv'
<1> SUFFICES ASSUME TypeInv, DataInv, [Next]_vars PROVE DataInv'
  OBVIOUS
<1>1. CASE Next
  BY <1>1, StepOnce, StepQueue, StepInfo, StepFix, StepLoss, StepFixes
     DEF DataInv
<1>2. CASE UNCHANGED vars
  <2>1. UNCHANGED <<port, line, payload, info, fix, fixes, epoch, epochs,
                    located, todo, lostPosition>>
    BY <1>2 DEF vars, portVars, bufVars, dataVars, recvVars, histVars
  <2>2. Pending' = Pending /\ First' = First
    BY <2>1 DEF Pending, InBuffer, OnLine, ToSend, Kinds, First
  <2>3. OnceInv' /\ QueueInv'
    BY <2>1, <2>2 DEF DataInv, OnceInv, QueueInv, SameSentence
  <2>4. InfoInv' /\ FixInfo'
    BY <2>1, <2>2 DEF DataInv, InfoInv, Told, Before, FixInfo, GpsAble, Day,
                      Stamp
  <2>5. LossInv'
    BY <2>1, <2>2 DEF DataInv, LossInv, NullFixNeedsLoss
  <2>6. FixInv'
    BY <2>1, <2>2 DEF DataInv, FixInv, FixOK, FixesInOrder, Settled, Current,
                      GpsAble, Day
  <2> QED
    BY <2>3, <2>4, <2>5, <2>6 DEF DataInv
<1> QED
  BY <1>1, <1>2

(* It is an invariant.                                                     *)
LEMMA DataHolds == Spec => []DataInv
  BY InitData, StepData, TypesHold, PTL DEF Spec

(* A position is stamped with the time it was measured at or with that     *)
(* time of the day before, however the sentences of the receiver are       *)
(* damaged or lost, and a fix has one unless the receiver has lost it.     *)
THEOREM PositionsKeepTheirTime == Spec => []PositionAtItsTime
<1>1. DataInv => PositionAtItsTime
  <2> SUFFICES ASSUME DataInv PROVE PositionAtItsTime
    OBVIOUS
  <2>1. NullFixNeedsLoss
    BY DEF DataInv, LossInv, NullFixNeedsLoss
  <2>2. \A i \in 1..Len(fixes) :
          fixes[i].clock = "gps" /\ fixes[i].pos # 0
            => fixes[i].at \in {fixes[i].pos, fixes[i].pos - DayLength}
    BY DEF DataInv, FixInv, FixOK
  <2> QED
    BY <2>1, <2>2 DEF PositionAtItsTime
<1> QED
  BY <1>1, DataHolds, PTL

(* No two fixes of a call have the same time of the receiver, and they are *)
(* in the order of those but for the ones stamped with the day before,     *)
(* although a fix is compared with the last one only.                      *)
THEOREM FixesAreInOrder == Spec => []FixesInOrder
<1>1. DataInv => FixesInOrder
  BY DEF DataInv, FixInv
<1> QED
  BY <1>1, DataHolds, PTL
=============================================================================
