------------------------------ MODULE GpsFeed ------------------------------
(***************************************************************************)
(* The GPS side of one SHLC_location call: the NMEA receiver on a serial   *)
(* port, the thread of UnixSerialPort that reads the port byte by byte,    *)
(* the protocol that finds sentences in the bytes and merges them into     *)
(* fixes, and the GpsWrapper of the API that collects the fixes.           *)
(*                                                                         *)
(* Time is counted in epochs of the receiver; DayLength of them make a     *)
(* day.  A position is named by the epoch it was measured in, 0 is "no     *)
(* position" (which the code reads as 0 degrees north, 0 degrees east).    *)
(* A sentence travels as three pieces: "$", its payload and the line end.  *)
(***************************************************************************)
EXTENDS Integers, Sequences

CONSTANTS
  DayLength,     \* epochs in a day
  MaxEpochs,     \* bound: epochs the receiver lives through
  MaxNoise,      \* bound: disturbances of the serial line
  BufferSize     \* MAX_BUF_SIZE, counted in pieces

(* The buffer takes a sentence and, before it, what can be left of another *)
ASSUME GpsFeedAssumption ==
  /\ DayLength \in Nat /\ DayLength > 1 /\ MaxEpochs \in Nat /\ MaxNoise \in Nat
  /\ BufferSize \in Nat /\ BufferSize >= 5

(* The receiver is listened to for the length of one call of SHLC_location,*)
(* which is shorter than a day.                                            *)
ASSUME CallWithinADay == MaxEpochs <= DayLength

NoDate == -1
NoFix == [clock |-> "none", at |-> 0, pos |-> 0]
NoLine == [id |-> "none", epoch |-> 0, kind |-> "none", intact |-> FALSE]

VARIABLES
  upc,           \* where the thread of SHLC_location is
  rpc,           \* where the read thread is
  stop,          \* the byte stop() writes is in the pipe
  adapter,       \* GpsWrapper::_gps is not NULL
  held,          \* which of the port and the pipe to stop() are open files
  port,          \* pieces not yet read from the port
  eof,           \* the device is gone: read() returns 0
  size,          \* pieces in _parseBuffer
  line,          \* the line _parseBuffer has begun: "none" (no "$" yet),
                 \* "begun", "whole" (a payload and no more), "broken", or
                 \* "hidden" (a byte 0 has come: see Extended)
  payload,       \* the payload of a "whole" line
  info,          \* _info: time, date, position and whether the quality is
                 \* other than FIX_QUALITY_BAD
  updates,       \* calls of updateGPSData(), standing for the host's clock
  fix,           \* _data.fix
  fixes,         \* GpsWrapper::_fixes
  epoch,         \* the receiver's present epoch
  located,       \* the receiver knows its position
  todo,          \* sentences it has not yet sent in this epoch
  epochs,        \* epochs it has been through
  noise          \* disturbances so far

(* History: none of the steps reads these.                                 *)
VARIABLES
  lost,          \* intact sentences sent since the last disturbance or the
                 \* last sentence that was parsed
  nul,           \* the line has carried a byte 0 since a sentence was parsed
  lostPosition,  \* the receiver has lost its position
  late           \* data handed to the wrapper after stop()'s byte was written

userVars == <<upc, stop, adapter, held>>
fileVars == <<adapter, held>>
portVars == <<port, eof>>
bufVars  == <<size, line, payload>>
dataVars == <<info, updates, fix>>
recvVars == <<epoch, located, todo, epochs, noise>>
histVars == <<lost, nul, lostPosition, late>>

vars == <<userVars, rpc, portVars, bufVars, dataVars, fixes, recvVars,
          histVars>>

Ids == {"GGA", "RMC"}

-----------------------------------------------------------------------------
(* The thread of SHLC_location.                                            *)

(* What can fail on the way to a read thread, by the call that fails.      *)
Calls ==
  {"getDevice", "getProtocol", "open", "pipe", "tcflush", "tcgetattr",
   "tcsetattr", "F_GETFL", "F_SETFL", "newProtocol", "pthread_create"}

setBaudRate(failing) ==
  failing \notin {"tcflush", "tcgetattr", "tcsetattr", "F_GETFL", "F_SETFL"}

(* ~UnixSerialPort after stop(): the two ends of the pipe stay open.       *)
PortClosed(files) == files \ {"port"}

(* The port, opened and set up, or what is left of the attempt.            *)
getById(failing) ==
  IF failing \in {"open", "pipe"} THEN [made |-> FALSE, files |-> {}]
  ELSE IF setBaudRate(failing) THEN [made |-> TRUE, files |-> {"port", "pipe"}]
  ELSE [made |-> FALSE, files |-> PortClosed({"port", "pipe"})]

(* The adapter.  A port whose protocol turns out to be unknown is dropped  *)
(* without being closed.                                                   *)
newInstance(failing) ==
  IF failing \in {"getDevice", "getProtocol"}
  THEN [made |-> FALSE, files |-> {}]
  ELSE [made  |-> getById(failing).made /\ failing # "newProtocol",
        files |-> getById(failing).files]

(* GpsWrapper::open(), whose code SHLC_location does not look at.  An      *)
(* adapter whose thread could not be created is kept.                      *)
Open ==
  /\ upc = "open"
  /\ \E failing \in Calls \union {"none"} :
       /\ adapter' = newInstance(failing).made
       /\ held' = newInstance(failing).files
       /\ rpc' = IF adapter' /\ failing # "pthread_create" THEN "select"
                 ELSE "none"
  /\ upc' = "located"
  /\ UNCHANGED <<stop, portVars, bufVars, dataVars, fixes, recvVars, histVars>>

(* What goes on meanwhile on the Wi-Fi and the cell side may end the call. *)
GiveUp ==
  /\ upc = "located"
  /\ upc' = "destroy"
  /\ UNCHANGED <<stop, fileVars, rpc, portVars, bufVars, dataVars, fixes,
                 recvVars, histVars>>

(* getFixes() returns a reference: the copy is made without the mutex.     *)
GetFixes ==
  /\ upc = "located"
  /\ upc' = "copying"
  /\ UNCHANGED <<stop, fileVars, rpc, portVars, bufVars, dataVars, fixes,
                 recvVars, histVars>>

Copied ==
  /\ upc = "copying"
  /\ upc' = "destroy"
  /\ UNCHANGED <<stop, fileVars, rpc, portVars, bufVars, dataVars, fixes,
                 recvVars, histVars>>

(* ~GpsWrapper: _fixes, the last member, goes first; then the adapter, if  *)
(* there is one, which stops the port if it was started and closes it.     *)
Destroy ==
  /\ upc = "destroy"
  /\ fixes' = <<>>
  /\ upc' = IF ~adapter THEN "done"
            ELSE IF rpc = "none" THEN "close" ELSE "stop"
  /\ UNCHANGED <<stop, fileVars, rpc, portVars, bufVars, dataVars, recvVars,
                 histVars>>

Stop ==
  /\ upc = "stop"
  /\ stop' = TRUE
  /\ upc' = "join"
  /\ UNCHANGED <<fileVars, rpc, portVars, bufVars, dataVars, fixes, recvVars,
                 histVars>>

(* Faulty variant: the read thread is told to stop but not joined.         *)
NotJoined == TRUE

Joined == rpc = "exited"

Join ==
  /\ upc = "join"
  /\ Joined
  /\ upc' = "close"
  /\ UNCHANGED <<stop, fileVars, rpc, portVars, bufVars, dataVars, fixes,
                 recvVars, histVars>>

Close ==
  /\ upc = "close"
  /\ upc' = "done"
  /\ adapter' = FALSE
  /\ held' = PortClosed(held)
  /\ UNCHANGED <<stop, rpc, portVars, bufVars, dataVars, fixes, recvVars,
                 histVars>>

User ==
  \/ Open \/ GiveUp \/ GetFixes \/ Copied \/ Destroy \/ Stop \/ Join \/ Close

-----------------------------------------------------------------------------
(* The protocol.                                                           *)

(* The piece c after what the buffer holds: a line begins at the first "$" *)
(* and what precedes it is skipped.  The search is one in a C string: a    *)
(* byte 0, wherever it is, hides what comes after it until the buffer is   *)
(* given up.                                                               *)
Extended(c) ==
  IF line = "hidden" \/ c.id = "nul" THEN "hidden"
  ELSE
  CASE c.id = "$"     -> IF line = "none" THEN "begun" ELSE "broken"
    [] c.id \in Ids   -> IF line = "begun" THEN "whole"
                         ELSE IF line = "none" THEN "none" ELSE "broken"
    [] c.id = "junk"  -> IF line = "none" THEN "none" ELSE "broken"
    [] c.id = "eol"   -> line

(* parsePayload: the fields of the sentence s replace those of info; an    *)
(* empty field removes the one there was.  GGA has no date, RMC no quality.*)
(* Faulty variant: an empty field leaves the one there was.                *)
MergedKept(s) ==
  [time    |-> IF s.kind = "blank" THEN info.time ELSE s.epoch,
   date    |-> IF s.id = "RMC" /\ s.kind # "blank"
               THEN s.epoch \div DayLength ELSE info.date,
   pos     |-> IF s.kind = "fix" THEN s.epoch ELSE info.pos,
   quality |-> IF s.id = "GGA" THEN s.kind = "fix" ELSE info.quality]

Merged(s) ==
  [time    |-> IF s.kind = "blank" THEN 0 ELSE s.epoch,
   date    |-> IF s.id # "RMC" THEN info.date
               ELSE IF s.kind = "blank" THEN NoDate ELSE s.epoch \div DayLength,
   pos     |-> IF s.kind = "fix" THEN s.epoch ELSE 0,
   quality |-> IF s.id = "GGA" THEN s.kind = "fix" ELSE info.quality]

(* updateGPSData(): the fix is stamped with the date of the last RMC and   *)
(* the time of the last sentence, or with the host's time.                 *)
FixOf(i) ==
  IF ~i.quality THEN NoFix
  ELSE IF i.time # 0 /\ i.date # NoDate
  THEN [clock |-> "gps", at |-> i.date * DayLength + (i.time % DayLength),
        pos |-> i.pos]
  ELSE [clock |-> "host", at |-> updates', pos |-> i.pos]

(* A line is complete.  Whether or not a sentence was recognised in it,    *)
(* the data are updated and the buffer is emptied.                         *)
ParseLine ==
  /\ info' = IF line = "whole" /\ payload.intact THEN Merged(payload) ELSE info
  /\ IF line = "whole" /\ payload.intact
     THEN lost' = 0 /\ nul' = FALSE
     ELSE UNCHANGED <<lost, nul>>
  /\ updates' = updates + 1
  /\ fix' = FixOf(info')
  /\ size' = 0
  /\ line' = "none"
  /\ payload' = NoLine

Full == size + 1 >= BufferSize

(* parse(): the piece c does not complete a line; a full buffer is cleared.*)
ParseOther(c) ==
  /\ IF Full
     THEN size' = 0 /\ line' = "none" /\ payload' = NoLine
     ELSE /\ size' = size + 1
          /\ line' = Extended(c)
          /\ payload' = IF Extended(c) = "whole" THEN c ELSE NoLine
  /\ UNCHANGED <<dataVars, lost, nul>>

(* Faulty variant: a line no sentence is recognised in stays in the buffer.*)
CompletesKnown(c) == c.id = "eol" /\ line = "whole" /\ payload.intact

(* find(): the piece c ends the line that has begun in the buffer.         *)
Completes(c) == c.id = "eol" /\ line \notin {"none", "hidden"}

-----------------------------------------------------------------------------
(* The read thread.                                                        *)

(* Faulty variant: the port is looked at before the pipe.                  *)
PortFirst == stop /\ port = <<>> /\ ~eof

TakesStop == stop

Stopped ==
  /\ rpc = "select"
  /\ TakesStop
  /\ stop' = FALSE
  /\ rpc' = "exited"
  /\ UNCHANGED <<upc, fileVars, portVars, bufVars, dataVars, fixes, recvVars,
                 histVars>>

(* select() or read() fails: the thread ends; onError() is not called.     *)
ReadFails ==
  /\ rpc = "select"
  /\ ~TakesStop
  /\ rpc' = "exited"
  /\ UNCHANGED <<userVars, portVars, bufVars, dataVars, fixes, recvVars,
                 histVars>>

(* End of file is only warned of: the thread goes round at full speed.     *)
ReadEof ==
  /\ rpc = "select"
  /\ ~TakesStop
  /\ port = <<>>
  /\ eof
  /\ rpc' = "warned"
  /\ UNCHANGED <<userVars, portVars, bufVars, dataVars, fixes, recvVars,
                 histVars>>

Warned ==
  /\ rpc = "warned"
  /\ rpc' = "select"
  /\ UNCHANGED <<userVars, portVars, bufVars, dataVars, fixes, recvVars,
                 histVars>>

Read ==
  /\ rpc = "select"
  /\ ~TakesStop
  /\ port # <<>>
  /\ port' = Tail(port)
  /\ IF Completes(Head(port))
     THEN ParseLine
     ELSE ParseOther(Head(port))
  /\ rpc' = "deliver"
  /\ UNCHANGED <<userVars, eof, fixes, recvVars, lostPosition, late>>

FixesAlive == upc \in {"open", "located", "copying", "destroy"}

(* Faulty variant: every fix is collected, new or not.                     *)
AlwaysNew == fix # NoFix

(* A fix is new unless it has the time of the last one.                    *)
IsNew ==
  /\ fix # NoFix
  /\ fixes = <<>> \/ fixes[Len(fixes)].clock # fix.clock
                  \/ fixes[Len(fixes)].at # fix.at

(* GpsWrapper::onGpsData, after every byte.  Once _fixes is destroyed, what*)
(* it does with the list is undefined and of no consequence to the call.   *)
Deliver ==
  /\ rpc = "deliver"
  /\ fixes' = IF IsNew /\ FixesAlive THEN Append(fixes, fix) ELSE fixes
  /\ late' = IF upc = "join" THEN late + 1 ELSE late
  /\ rpc' = "select"
  /\ UNCHANGED <<userVars, portVars, bufVars, dataVars, recvVars, lost, nul,
                 lostPosition>>

Reader == Stopped \/ ReadFails \/ ReadEof \/ Warned \/ Read \/ Deliver

-----------------------------------------------------------------------------
(* The receiver and the serial line (external).                            *)

Piece(id) == [NoLine EXCEPT !.id = id]

(* An unlocated receiver leaves the position empty and may leave the time  *)
(* and the date empty as well.                                             *)
Kinds == IF located THEN {"fix"} ELSE {"void", "blank"}

Sentence(id, kind, intact) ==
  [id |-> id, epoch |-> epoch, kind |-> kind, intact |-> intact]

Send ==
  /\ port = <<>> /\ ~eof
  /\ \E id \in todo, kind \in Kinds :
       /\ todo' = todo \ {id}
       /\ port' = <<Piece("$"), Sentence(id, kind, TRUE), Piece("eol")>>
  /\ lost' = lost + 1
  /\ UNCHANGED <<userVars, rpc, eof, bufVars, dataVars, fixes, epoch, located,
                 epochs, noise, nul, lostPosition, late>>

CarriesNul(pieces) == \E i \in 1..Len(pieces) : pieces[i].id = "nul"

(* A sentence is damaged, by a byte 0 or otherwise, or loses its "$" or    *)
(* its line end.                                                           *)
SendDamaged ==
  /\ port = <<>> /\ ~eof
  /\ noise < MaxNoise
  /\ noise' = noise + 1
  /\ \E id \in todo, kind \in Kinds :
       /\ todo' = todo \ {id}
       /\ port' \in
            {<<Piece("$"), Sentence(id, kind, FALSE), Piece("eol")>>,
             <<Piece("$"), Piece("nul"), Piece("eol")>>,
             <<Piece("$"), Sentence(id, kind, TRUE)>>,
             <<Sentence(id, kind, TRUE), Piece("eol")>>}
  /\ lost' = 0
  /\ nul' = (nul \/ CarriesNul(port'))
  /\ UNCHANGED <<userVars, rpc, eof, bufVars, dataVars, fixes, epoch, located,
                 epochs, lostPosition, late>>

Disturb ==
  /\ port = <<>> /\ ~eof
  /\ noise < MaxNoise
  /\ noise' = noise + 1
  /\ port' \in {<<Piece(id)>> : id \in {"$", "junk", "eol", "nul"}}
  /\ lost' = 0
  /\ nul' = (nul \/ CarriesNul(port'))
  /\ UNCHANGED <<userVars, rpc, eof, bufVars, dataVars, fixes, epoch, located,
                 todo, epochs, lostPosition, late>>

NextEpoch ==
  /\ todo = {}
  /\ epochs < MaxEpochs
  /\ epochs' = epochs + 1
  /\ epoch' = epoch + 1
  /\ todo' = Ids
  /\ located' \in BOOLEAN
  /\ lostPosition' = (lostPosition \/ (located /\ ~located'))
  /\ UNCHANGED <<userVars, rpc, portVars, bufVars, dataVars, fixes, noise,
                 lost, nul, late>>

HangUp ==
  /\ ~eof
  /\ eof' = TRUE
  /\ UNCHANGED <<userVars, rpc, port, bufVars, dataVars, fixes, recvVars,
                 histVars>>

Receiver == Send \/ SendDamaged \/ Disturb \/ NextEpoch \/ HangUp

-----------------------------------------------------------------------------
Init ==
  /\ upc = "open"
  /\ rpc = "none"
  /\ stop = FALSE
  /\ adapter = FALSE
  /\ held = {}
  /\ port = <<>>
  /\ eof = FALSE
  /\ size = 0
  /\ line = "none"
  /\ payload = NoLine
  /\ info = [time |-> 0, date |-> NoDate, pos |-> 0, quality |-> FALSE]
  /\ updates = 0
  /\ fix = NoFix
  /\ fixes = <<>>
  /\ epoch \in {1, DayLength - 1}
  /\ located \in BOOLEAN
  /\ todo = Ids
  /\ epochs = 1
  /\ noise = 0
  /\ lost = 0
  /\ nul = FALSE
  /\ lostPosition = FALSE
  /\ late = 0

Next == User \/ Reader \/ Receiver

(* Both threads are scheduled; nothing is assumed of the receiver.         *)
Fairness == WF_vars(User) /\ WF_vars(Reader)

Spec == Init /\ [][Next]_vars /\ Fairness

-----------------------------------------------------------------------------
(* Properties.                                                             *)

Line == [id : Ids \union {"none", "$", "junk", "eol", "nul"},
         epoch : Nat, kind : {"none", "fix", "void", "blank"},
         intact : BOOLEAN]

Fix == [clock : {"none", "gps", "host"}, at : Nat, pos : Nat]

(* Every variable of the feed stays within its type, and the buffer below  *)
(* its limit.                                                              *)
TypeOK ==
  /\ upc \in {"open", "located", "copying", "destroy", "stop", "join", "close",
             "done"}
  /\ adapter \in BOOLEAN /\ held \subseteq {"port", "pipe"}
  /\ rpc \in {"none", "select", "warned", "deliver", "exited"}
  /\ stop \in BOOLEAN /\ eof \in BOOLEAN /\ located \in BOOLEAN
  /\ port \in Seq(Line)
  /\ size \in 0..(BufferSize - 1)
  /\ line \in {"none", "begun", "whole", "broken", "hidden"}
  /\ payload \in Line
  /\ info \in [time : Nat, date : Nat \union {NoDate}, pos : Nat,
               quality : BOOLEAN]
  /\ updates \in Nat /\ epoch \in Nat /\ epochs \in Nat /\ noise \in Nat
  /\ fix \in Fix /\ fixes \in Seq(Fix)
  /\ todo \subseteq Ids
  /\ lost \in Nat /\ nul \in BOOLEAN /\ lostPosition \in BOOLEAN
  /\ late \in Nat

(* A fix without a position is collected only if the receiver has lost its *)
(* position: the quality, which only GGA carries, then outlives it.        *)
NullFixNeedsLoss ==
  (\E i \in 1..Len(fixes) : fixes[i].pos = 0) => lostPosition

(* The fixes collected carry each other's data only in one way: a position *)
(* measured at one time is stamped with that time, or with that time of    *)
(* the day before, never with another.                                     *)
PositionAtItsTime ==
  /\ NullFixNeedsLoss
  /\ \A i \in 1..Len(fixes) :
       fixes[i].clock = "gps" /\ fixes[i].pos # 0
         => fixes[i].at \in {fixes[i].pos, fixes[i].pos - DayLength}

(* Although a fix is compared with the last one only, no two fixes of a    *)
(* call have the same time, and they are in the order of their times but   *)
(* for those stamped with the day before.                                  *)
FixesInOrder ==
  \A i, j \in 1..Len(fixes) :
    i < j /\ fixes[i].clock = "gps" /\ fixes[j].clock = "gps"
      => \/ fixes[i].at < fixes[j].at
         \/ fixes[j].at + DayLength = fixes[j].pos

(* A disturbance of the line costs one intact sentence after it at most,   *)
(* whatever it leaves in the buffer and whenever the buffer is given up,   *)
(* which it is before it reaches its limit; except for a byte 0, behind    *)
(* which every sentence is lost until the buffer is given up, and the one  *)
(* that this cuts.                                                         *)
MayBeLost == IF nul THEN (BufferSize + 1) \div 3 ELSE 1

FramingRecovers == TypeOK /\ (port = <<>> => lost <= MayBeLost)

(* When the destructor is through, the read thread is over.  The thread    *)
(* never waits on a file that has been closed and whose number may be      *)
(* another's by then; of the files of a port that was read from, the port  *)
(* is closed in the end, and the pipe to stop() never.                     *)
ReaderEndsWithClose ==
  /\ upc = "done" => rpc \in {"none", "exited"}
  /\ rpc \notin {"none", "exited"} => held = {"port", "pipe"}
  /\ upc = "done" /\ rpc = "exited" => held = {"pipe"}

(* After stop() has written its byte, the reader hands over the data of one*)
(* more byte at most, the one it had read: a device that keeps sending     *)
(* cannot hold up the destructor, which is waiting in pthread_join.        *)
OneLateDelivery == late <= 1

(* What GPSData.h says of gpsTime: it is the GPS time of the fix.  Between *)
(* the first GGA and the first RMC after midnight it is a day off.         *)
GpsTimeOfFix ==
  \A i \in 1..Len(fixes) :
    fixes[i].clock = "gps" /\ fixes[i].pos # 0 => fixes[i].at = fixes[i].pos

(* SHLC_location gets out of the GPS adapter, even if the port is at its   *)
(* end of file and the read thread never blocks.                           *)
UserReturns == <>(upc = "done")
=============================================================================
