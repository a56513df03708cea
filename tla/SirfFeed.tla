------------------------------ MODULE SirfFeed ------------------------------
(***************************************************************************)
(* The SiRF protocol between a receiver on a serial line and the data of   *)
(* the GPS adapter: the bytes are put into _parseBuffer one by one, and    *)
(* after each of them the whole buffer is searched for messages.  The read *)
(* thread and the collection of the fixes are modelled in GpsFeed.         *)
(*                                                                         *)
(* A message is its header, the length of its payload, the payload, its    *)
(* checksum and its footer, all but the payload two bytes each.  What      *)
(* looks like a header may be none, and the length that follows it may     *)
(* reach over messages that come later.                                    *)
(***************************************************************************)
EXTENDS Integers, Sequences, SequencesExt

CONSTANTS
  H1, H2,        \* the bytes of SIRF_HEADER, 160 and 162
  F1, F2,        \* the bytes of SIRF_FOOTER, 176 and 179
  Payloads,      \* what the receiver says: byte sequences
  BufferSize,    \* MAX_BUF_SIZE
  MaxSent,       \* bound: messages sent
  MaxNoise       \* bound: disturbances of the serial line

ASSUME SirfFeedAssumption ==
  /\ {H1, H2, F1, F2} \subseteq 0..255
  /\ Payloads \subseteq Seq(0..255)
  /\ MaxSent \in Nat /\ MaxNoise \in Nat /\ BufferSize \in Nat

VARIABLES
  port,          \* bytes not yet read from the port
  buffer,        \* _parseBuffer
  state,         \* _state: the last parse() recognised a message or gave up
  fix,           \* _data.fix: of a payload, or none
  sats,          \* _data.satellites: of a payload, or none
  sent,          \* messages sent so far
  noise          \* disturbances so far

(* History: none of the steps reads these.                                 *)
VARIABLES
  said,          \* what the receiver's messages have said of fix and sats
  lost           \* intact messages sent since the last disturbance or the
                 \* last message that was recognised

vars == <<port, buffer, state, fix, sats, sent, noise, said, lost>>

None == <<>>

-----------------------------------------------------------------------------
(* Messages.                                                               *)

(* Two bytes, the high one first.                                          *)
Word(a, b) == a * 256 + b

Checksum(payload) == FoldLeft(+, 0, payload) % 2^15

Message(payload) ==
  LET n == Len(payload)
      c == Checksum(payload)
  IN  <<H1, H2, n \div 256, n % 256>> \o payload
        \o <<c \div 256, c % 256, F1, F2>>

AuxSize == 8            \* SIRF_AUX_SIZE
MinSize == AuxSize + 2  \* SIRF_MIN_SIZE

(* The length of the payload claimed by what begins after i bytes of b.    *)
Length(b, i) == Word(b[i + 3], b[i + 4])

IsHeader(b, i) == b[i + 1] = H1 /\ b[i + 2] = H2

(* The claimed message is in the buffer up to its end.                     *)
Fits(b, i) == Length(b, i) > 0 /\ i + AuxSize + Length(b, i) <= Len(b)

PayloadAt(b, i) == SubSeq(b, i + 5, i + 4 + Length(b, i))

(* Faulty variant: the checksum is not compared.                           *)
ValidFooter(b, i) ==
  LET e == i + 4 + Length(b, i)
  IN  b[e + 3] = F1 /\ b[e + 4] = F2

Valid(b, i) ==
  LET e == i + 4 + Length(b, i)
  IN  /\ b[e + 3] = F1 /\ b[e + 4] = F2
      /\ Word(b[e + 1], b[e + 2]) = Checksum(PayloadAt(b, i))

(* Faulty variant: the claimed message is waited for.                      *)
AwaitRest(b, i) == Len(b)

(* The search goes on behind the length of a message that is not there.    *)
SkipClaim(b, i) == i + 4

(* tryParse: where the messages begin that are recognised in b.  A claimed *)
(* message that is in the buffer is passed over as a whole, valid or not;  *)
(* where no header is, the search goes on a byte further.                  *)
Found(b) ==
  LET from[i \in 0..Len(b)] ==
        IF Len(b) - i < MinSize THEN <<>>
        ELSE IF ~IsHeader(b, i) THEN from[i + 1]
        ELSE IF ~Fits(b, i) THEN from[SkipClaim(b, i)]
        ELSE (IF Valid(b, i) THEN <<i>> ELSE <<>>)
               \o from[i + AuxSize + Length(b, i)]
  IN  from[0]

-----------------------------------------------------------------------------
(* GPSProtocol::parse and SirfProtocol::tryParse, on the read thread.      *)

(* A message 41 says where the receiver is, or that it does not know; a    *)
(* message 4 says which satellites it hears.  Others are skipped.          *)
FixMessage == 41
SatMessage == 4

(* parseFix: a payload of another size, or without a fix, says none.       *)
FixIn(p) == IF Len(p) # 2 \/ p[2] = 0 THEN None ELSE p

(* parseSatellites: the number of satellites has to go with the size; a    *)
(* satellite is one byte here.                                             *)
SatsIn(p) == IF Len(p) # 2 + p[2] THEN None ELSE p

(* The last of the payloads of messages id, or none.                       *)
Latest(payloads, id) ==
  LET mine == SelectSeq(payloads, LAMBDA p : p[1] = id)
  IN  IF mine = <<>> THEN None ELSE Last(mine)

(* Messages are recognised: they and all before them leave the buffer.     *)
Recognise(b) ==
  /\ Found(b) # <<>>
  /\ LET found == Found(b)
         payloads == [k \in DOMAIN found |-> PayloadAt(b, found[k])]
         newFix == Latest(payloads, FixMessage)
         newSats == Latest(payloads, SatMessage)
         end == Last(found) + AuxSize + Length(b, Last(found))
     IN  /\ buffer' = SubSeq(b, end + 1, Len(b))
         /\ fix' = IF newFix = None THEN fix ELSE FixIn(newFix)
         /\ sats' = IF newSats = None THEN sats ELSE SatsIn(newSats)
  /\ state' = "ok"
  /\ lost' = 0

Full(b) == Len(b) >= BufferSize

Continue(b) ==
  /\ Found(b) = <<>>
  /\ ~Full(b)
  /\ buffer' = b
  /\ UNCHANGED <<state, fix, sats, lost>>

(* A full buffer without a message is cleared.                             *)
ClearBuffer(b) ==
  /\ Found(b) = <<>>
  /\ Full(b)
  /\ buffer' = <<>>
  /\ state' = "failure"
  /\ UNCHANGED <<fix, sats, lost>>

Parse ==
  /\ port # <<>>
  /\ port' = Tail(port)
  /\ LET b == Append(buffer, Head(port))
     IN  Recognise(b) \/ Continue(b) \/ ClearBuffer(b)
  /\ UNCHANGED <<sent, noise, said>>

-----------------------------------------------------------------------------
(* The receiver and the serial line (external).                            *)

Say(p) ==
  said' = [fix  |-> IF p[1] = FixMessage THEN FixIn(p) ELSE said.fix,
           sats |-> IF p[1] = SatMessage THEN SatsIn(p) ELSE said.sats,
           all  |-> said.all \union {p}]

Send ==
  /\ port = <<>>
  /\ sent < MaxSent
  /\ sent' = sent + 1
  /\ \E p \in Payloads : port' = Message(p) /\ Say(p)
  /\ lost' = lost + 1
  /\ UNCHANGED <<buffer, state, fix, sats, noise>>

(* What becomes of a message m on a disturbed line: it begins late, breaks *)
(* off, or one byte of it is another.                                      *)
Damaged(m) ==
  {SubSeq(m, k, Len(m)) : k \in 2..Len(m)}
    \union {SubSeq(m, 1, k) : k \in 1..(Len(m) - 1)}
    \union ({[m EXCEPT ![k] = c] : k \in DOMAIN m, c \in {0, H1, H2}} \ {m})

SendDamaged ==
  /\ port = <<>>
  /\ noise < MaxNoise
  /\ noise' = noise + 1
  /\ \E p \in Payloads : port' \in Damaged(Message(p)) /\ Say(p)
  /\ lost' = 0
  /\ UNCHANGED <<buffer, state, fix, sats, sent>>

Receiver == Send \/ SendDamaged

-----------------------------------------------------------------------------
Init ==
  /\ port = <<>>
  /\ buffer = <<>>
  /\ state = "unknown"
  /\ fix = None
  /\ sats = None
  /\ sent = 0
  /\ noise = 0
  /\ said = [fix |-> None, sats |-> None, all |-> {}]
  /\ lost = 0

Next == Parse \/ Receiver

Spec == Init /\ [][Next]_vars

-----------------------------------------------------------------------------
(* Properties.                                                             *)

Bytes == 0..255

(* Every variable stays within its type, and the buffer below its limit.   *)
TypeOK ==
  /\ port \in Seq(Bytes)
  /\ buffer \in Seq(Bytes) /\ Len(buffer) < BufferSize
  /\ state \in {"unknown", "ok", "failure"}
  /\ {fix, sats} \subseteq Payloads \union {None}
  /\ sent \in 0..MaxSent /\ noise \in 0..MaxNoise
  /\ lost \in 0..MaxSent

HeaderFree(p) == \A i \in 1..(Len(p) - 1) : p[i] # H1 \/ p[i + 1] # H2

(* After a disturbance of the line two intact messages are lost at most:   *)
(* the one whose header is taken for the length of a message that never    *)
(* came, and the one in which that false message ends.  A third is lost    *)
(* only if the buffer is given up meanwhile, in the middle of it.  This is *)
(* so as long as no payload has the header in it: such a payload can go on *)
(* to claim the start of the message after it.  The buffer never gets to   *)
(* its limit meanwhile.                                                    *)
MessagesRecovered ==
  /\ TypeOK
  /\ port = <<>> /\ (\A p \in Payloads : HeaderFree(p))
       => lost <= IF state = "failure" THEN 3 ELSE 2

(* The fix and the satellites handed to the adapter are what one message   *)
(* said, never put together from pieces of several or from damaged bytes;  *)
(* and on an undisturbed line they are what the receiver said last.        *)
DataAsSent ==
  /\ {fix, sats} \subseteq said.all \union {None}
  /\ port = <<>> /\ noise = 0 => fix = said.fix /\ sats = said.sats
=============================================================================
