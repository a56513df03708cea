------------------------- MODULE LocationCallProofs -------------------------
(***************************************************************************)
(* Theorems about LocationCall, for all sets of beacons and positions and  *)
(* any clock: its type invariant, its safety properties, and that it       *)
(* implements LocationApi.                                                 *)
(***************************************************************************)
EXTENDS LocationCall, SequenceTheorems, TLAPS

Gathering == {"open", "wifi", "username", "scan", "gps", "cells", "beacons"}
Asking == {"perform", "judge", "parse"}

(* The scan is filled in one list after the other.                         *)
ScanInv ==
  /\ pc \in {"open", "wifi", "username", "scan"} => scan = Empty
  /\ pc = "gps" => scan.gps = {} /\ scan.cells = {}
  /\ pc = "cells" => scan.cells = {}
  /\ pc \in Asking => scan # Empty

(* The fixes reported in time are in the wrapper, then in the scan.        *)
HeardInv ==
  /\ pc \in {"open", "wifi", "username", "scan", "gps"} =>
       heard \subseteq fixes
  /\ pc \in {"cells", "beacons"} \union Asking => heard \subseteq scan.gps

(* Before the request there is nothing to show of an exchange, during it   *)
(* there is no result, and after it there is one.                          *)
CallInv ==
  /\ pc \in Gathering =>
       phase = "idle" /\ status = NoStatus /\ text = "none" /\ reply = NoReply
  /\ pc \in Asking => phase # "idle" /\ known
  /\ pc \in {"judge", "parse"} => phase = "over"
  /\ pc = "parse" => status = 200
  /\ pc # "done" => result = "none" /\ location = NoLocation
  /\ result = "none" => pc # "done"
  /\ pc \in {"scan", "gps", "cells", "beacons"} => known
  /\ pc \in {"open", "wifi", "username"} => ~known

(* The Wi-Fi adapter is there from its opening on.                         *)
RadiosInv ==
  /\ pc = "open" => radios = {}
  /\ pc = "wifi" => "wifi" \notin radios
  /\ pc \notin {"open", "wifi", "done"} => "wifi" \in radios

(* What libcurl has handed over is from the answer, if there is one, but   *)
(* for the status if its line is not full.                                 *)
NetInv ==
  /\ phase \in {"idle", "connecting", "tunnel", "refused", "sent"}
       => reply = NoReply
  /\ phase = "answering" => reply # NoReply
  /\ reply = NoReply => text = "none" /\ status # 401
  /\ reply # NoReply =>
       IF reply.full THEN status = reply.status ELSE status # 401
  /\ curl # "none" => phase = "over"

(* The call ends with UNAUTHORIZED if that is the status.                  *)
ToldInv == pc = "done" /\ known => (result = "UNAUTHORIZED" <=> status = 401)

IInv ==
  /\ TypeOK /\ ScanInv /\ HeardInv /\ CallInv /\ RadiosInv /\ NetInv
  /\ OkIsAnswered /\ AgeOfFirstLocation /\ ToldInv

-----------------------------------------------------------------------------
(* What an answer is made of.                                              *)
LEMMA ReplyIs ==
  ASSUME NEW r \in Replies
  PROVE  /\ r.status \in {200, 401, 500} /\ r.full \in BOOLEAN
         /\ \E n \in 0..MaxNodes : r.nodes \in [1..n -> Nodes]
<1>1. PICK xml \in BOOLEAN :
        r \in [status : {200, 401, 500}, full : BOOLEAN, xml : {xml},
              nodes : NodeLists(xml)]
  BY DEF Replies
<1>2. r.nodes \in NodeLists(xml)
  BY <1>1
<1>3. CASE xml
  <2>1. r.nodes \in UNION {[1..n -> Nodes] : n \in 0..MaxNodes}
    BY <1>2, <1>3, Zenon DEF NodeLists
  <2>2. \E n \in 0..MaxNodes : r.nodes \in [1..n -> Nodes]
    BY <2>1, Zenon
  <2> QED
    BY <1>1, <2>2
<1>4. CASE ~xml
  <2>1. r.nodes = <<>> /\ 0 \in 0..MaxNodes
    BY <1>2, <1>4, LocationCallAssumption DEF NodeLists
  <2>2. <<>> \in [1..0 -> Nodes]
    OBVIOUS
  <2>3. \E n \in 0..MaxNodes : r.nodes \in [1..n -> Nodes]
    BY <2>1, <2>2
  <2> QED
    BY <1>1, <2>3
<1> QED
  BY <1>1, <1>3, <1>4

(* An answer is distinguished from none by its status.                     *)
LEMMA RepliesAreReal == NoReply \notin Replies
<1>1. NoReply.status \notin {200, 401, 500}
  BY DEF NoReply, NoStatus
<1> QED
  BY <1>1, ReplyIs

(* A delay is a number of milliseconds.                                    *)
LEMMA DeltaType ==
  ASSUME NEW now \in Nat, NEW rqtime \in Nat
  PROVE  Delta(now, rqtime) \in Nat
  BY DEF Delta

(* The nodes of an answer are a sequence of nodes.                         *)
LEMMA NodesType ==
  ASSUME NEW r \in Replies
  PROVE  /\ r.nodes \in Seq(Nodes)
         /\ \A i \in 1..Len(r.nodes) : r.nodes[i] \in Nodes
<1>1. PICK n \in 0..MaxNodes : r.nodes \in [1..n -> Nodes]
  BY ReplyIs
<1>2. n \in Nat
  BY LocationCallAssumption
<1>3. r.nodes \in Seq(Nodes)
  BY <1>1, <1>2, SeqDef
<1> QED
  BY <1>3

(* The difference of the clocks that the first location is aged by is its  *)
(* own: none if it names no request time.                                  *)
LEMMA FrontDelta ==
  ASSUME NEW r \in Replies, NEW now \in Nat, NEW i \in Located(r.nodes),
         IsFront(i, r.nodes)
  PROVE  /\ TimeDelta(r.nodes, i, now) \in Nat
         /\ r.nodes[i].rqtime = 0 => TimeDelta(r.nodes, i, now) = 0
<1> DEFINE J == {j \in Located(r.nodes) : j <= i /\ r.nodes[j].rqtime > 0}
<1>1. i \in 1..Len(r.nodes) /\ r.nodes[i] \in Nodes
  BY NodesType DEF Located
<1>2. r.nodes[i].rqtime \in {0, 1}
  BY <1>1 DEF Nodes
<1>3. Located(r.nodes) \subseteq Nat
  BY NodesType DEF Located
<1>4. \A j \in J : j = i
  BY <1>1, <1>3 DEF IsFront
<1>5. CASE J = {}
  BY <1>5 DEF TimeDelta
<1>6. CASE J # {}
  <2>1. J = {i} /\ r.nodes[i].rqtime > 0
    BY <1>4, <1>6
  <2>2. (CHOOSE j \in J : \A k \in J : k <= j) = i
    BY <2>1, <1>1
  <2>3. TimeDelta(r.nodes, i, now) = Delta(now, r.nodes[i].rqtime)
    BY <1>6, <2>2 DEF TimeDelta
  <2>4. r.nodes[i].rqtime \in Nat /\ r.nodes[i].rqtime # 0
    BY <2>1, <1>2
  <2>5. Delta(now, r.nodes[i].rqtime) \in Nat
    BY <2>4, DeltaType
  <2> HIDE DEF J
  <2> QED
    BY <2>3, <2>4, <2>5
<1> QED
  BY <1>5, <1>6

-----------------------------------------------------------------------------
(* The call begins within the invariant.                                   *)
LEMMA InitInv == Init => IInv
<1> SUFFICES ASSUME Init PROVE IInv
  OBVIOUS
<1>1. TypeOK
  BY DEF Init, TypeOK, Empty, NoStatus, NoLocation, Codes
<1>2. ScanInv /\ HeardInv
  BY DEF Init, ScanInv, HeardInv, Asking
<1>3. CallInv /\ RadiosInv /\ NetInv
  BY DEF Init, CallInv, RadiosInv, NetInv, Gathering, Asking, NoStatus
<1>4. OkIsAnswered /\ AgeOfFirstLocation /\ ToldInv
  BY DEF Init, OkIsAnswered, AgeOfFirstLocation, ToldInv
<1> QED
  BY <1>1, <1>2, <1>3, <1>4 DEF IInv

(* A node of an answer has a position and an age.                          *)
LEMMA LocatedType ==
  ASSUME NEW r \in Replies, NEW i \in Located(r.nodes)
  PROVE  /\ i \in 1..Len(r.nodes)
         /\ r.nodes[i].pos \in Positions /\ r.nodes[i].age \in Nat
<1>1. i \in 1..Len(r.nodes)
  BY DEF Located
<1>2. r.nodes[i] \in Nodes
  BY <1>1, NodesType
<1> QED
  BY <1>1, <1>2 DEF Nodes

(* A body can be parsed only if the server has answered.                   *)
LEMMA ParsedIsReply ==
  ASSUME IInv, Parses
  PROVE  reply \in Replies
  BY DEF IInv, Parses, NetInv, TypeOK

(* Every step keeps the type invariant.                                    *)
LEMMA NextType ==
  ASSUME IInv, [Next]_vars
  PROVE  TypeOK'
<1> USE DEF IInv, TypeOK, Codes, NoStatus
<1>1. CASE OpenRadios
  BY <1>1 DEF OpenRadios, airVars, recvVars, netVars
<1>2. CASE OpenWifi
  <2>1. radios' \in SUBSET {"gps", "cell", "wifi"}
    BY <1>2 DEF OpenWifi
  <2>2. /\ pc' \in {"username", "done"} /\ result' \in Codes
        /\ location' = location
    BY <1>2 DEF OpenWifi, Return
  <2> QED
    BY <1>2, <2>1, <2>2 DEF OpenWifi, airVars, recvVars, netVars
<1>3. CASE Username
  BY <1>3 DEF Username, Return, airVars, recvVars, netVars
<1>4. CASE ScanFails
  BY <1>4 DEF ScanFails, Return, airVars, recvVars, netVars
<1>5. CASE Scans
  BY <1>5 DEF Scans, airVars, recvVars, netVars
<1>6. CASE GatherGps
  BY <1>6 DEF GatherGps, airVars, recvVars, netVars
<1>7. CASE GatherCells
  BY <1>7 DEF GatherCells, airVars, recvVars, netVars
<1>8. CASE NoBeacons
  BY <1>8 DEF NoBeacons, Return, airVars, recvVars, netVars
<1>9. CASE Send
  BY <1>9 DEF Send, airVars, recvVars
<1>10. CASE Performed
  BY <1>10 DEF Performed, Return, airVars, recvVars, netVars
<1>11. CASE Judge
  <2>1. Verdict(status) \in Codes
    BY DEF Verdict
  <2> QED
    BY <1>11, <2>1 DEF Judge, Return, airVars, recvVars, netVars
<1>12. CASE ParseFails
  BY <1>12 DEF ParseFails, Return, airVars, recvVars, netVars
<1>13. CASE Parse
  <2>1. reply \in Replies
    BY <1>13, ParsedIsReply DEF Parse
  <2>2. PICK i \in Located(reply.nodes), now \in 0..MaxTime :
          /\ IsFront(i, reply.nodes)
          /\ location' = [pos |-> {reply.nodes[i].pos},
                          age |-> reply.nodes[i].age
                                    + TimeDelta(reply.nodes, i, now)]
    BY <1>13 DEF Parse
  <2>3. now \in Nat
    BY LocationCallAssumption
  <2>4. TimeDelta(reply.nodes, i, now) \in Nat
    BY <2>1, <2>2, <2>3, FrontDelta
  <2>5. location' \in [pos : SUBSET Positions, age : Nat]
    BY <2>1, <2>2, <2>4, LocatedType
  <2> QED
    BY <1>13, <2>5 DEF Parse, airVars, recvVars, netVars
<1>14. CASE OnGpsData
  BY <1>14 DEF OnGpsData, Collected, recvVars, netVars
<1>15. CASE OnCellChanged
  BY <1>15 DEF OnCellChanged, recvVars, netVars
<1>16. CASE ProxyAnswers \/ ServerContinues \/ BodyArrives
  <2>1. CASE ProxyAnswers
    BY <2>1 DEF ProxyAnswers, NetStep, Header, airVars
  <2>2. CASE ServerContinues
    BY <2>2 DEF ServerContinues, NetStep, Header, airVars, netVars
  <2>3. CASE BodyArrives
    BY <2>3 DEF BodyArrives, NetStep, Body, airVars, netVars
  <2> QED
    BY <1>16, <2>1, <2>2, <2>3
<1>17. CASE Connected \/ Finishes \/ Breaks \/ Expires
  <2>1. CASE Connected
    BY <2>1 DEF Connected, NetStep, airVars, recvVars
  <2>2. CASE Finishes
    BY <2>2 DEF Finishes, NetStep, airVars, recvVars
  <2>3. CASE Breaks
    BY <2>3 DEF Breaks, NetStep, airVars, recvVars
  <2>4. CASE Expires
    BY <2>4 DEF Expires, NetStep, airVars, recvVars
  <2> QED
    BY <1>17, <2>1, <2>2, <2>3, <2>4
<1>18. CASE ServerAnswers
  <2>1. PICK r \in Replies : reply' = r /\ Header(r.status, r.full)
    BY <1>18 DEF ServerAnswers
  <2>2. status' \in {status, 200, 401, 500}
    BY <2>1, ReplyIs DEF Header
  <2> QED
    BY <1>18, <2>1, <2>2 DEF ServerAnswers, NetStep, airVars
<1>19. CASE UNCHANGED vars
  BY <1>19 DEF vars, airVars, recvVars, netVars
<1> QED
  BY <1>1, <1>2, <1>3, <1>4, <1>5, <1>6, <1>7, <1>8, <1>9, <1>10, <1>11, <1>12,
     <1>13, <1>14, <1>15, <1>16, <1>17, <1>18, <1>19
  DEF Next, Main, Listeners, Net

(* Every step keeps the invariant of the scan.                             *)
LEMMA NextScan ==
  ASSUME IInv, [Next]_vars
  PROVE  ScanInv'
<1> USE DEF IInv, ScanInv, Asking
<1>1. CASE OpenRadios
  BY <1>1 DEF OpenRadios, airVars, recvVars, netVars
<1>2. CASE OpenWifi
  BY <1>2 DEF OpenWifi, Return, airVars, recvVars, netVars
<1>3. CASE Username
  BY <1>3 DEF Username, Return, airVars, recvVars, netVars
<1>4. CASE ScanFails
  BY <1>4 DEF ScanFails, Return, airVars, recvVars, netVars
<1>5. CASE Scans
  BY <1>5 DEF Scans, Empty, airVars, recvVars, netVars
<1>6. CASE GatherGps
  BY <1>6 DEF GatherGps, TypeOK, airVars, recvVars, netVars
<1>7. CASE GatherCells
  BY <1>7 DEF GatherCells, TypeOK, airVars, recvVars, netVars
<1>8. CASE NoBeacons
  BY <1>8 DEF NoBeacons, Return, airVars, recvVars, netVars
<1>9. CASE Send
  BY <1>9 DEF Send, HasBeacons, Empty, airVars, recvVars
<1>10. CASE Performed
  BY <1>10 DEF Performed, Return, airVars, recvVars, netVars
<1>11. CASE Judge
  BY <1>11 DEF Judge, Return, airVars, recvVars, netVars
<1>12. CASE ParseFails
  BY <1>12 DEF ParseFails, Return, airVars, recvVars, netVars
<1>13. CASE Parse
  BY <1>13 DEF Parse, airVars, recvVars, netVars
<1>14. CASE OnGpsData
  BY <1>14 DEF OnGpsData, Listening, recvVars, netVars
<1>15. CASE OnCellChanged
  BY <1>15 DEF OnCellChanged, Listening, recvVars, netVars
<1>16. CASE Net
  BY <1>16 DEF Net, ProxyAnswers, Connected, ServerContinues, ServerAnswers,
                BodyArrives, Finishes, Breaks, Expires, NetStep, Header, Body,
                airVars, recvVars, netVars
<1>17. CASE UNCHANGED vars
  BY <1>17 DEF vars, airVars, recvVars, netVars
<1> QED
  BY <1>1, <1>2, <1>3, <1>4, <1>5, <1>6, <1>7, <1>8, <1>9, <1>10, <1>11,
     <1>12, <1>13, <1>14, <1>15, <1>16, <1>17
  DEF Next, Main, Listeners

(* Every step keeps the fixes that were reported in time.                  *)
LEMMA NextHeard ==
  ASSUME IInv, [Next]_vars
  PROVE  HeardInv'
<1> USE DEF IInv, HeardInv, Asking
<1>1. CASE OpenRadios
  BY <1>1 DEF OpenRadios, airVars, recvVars, netVars
<1>2. CASE OpenWifi
  BY <1>2 DEF OpenWifi, Return, airVars, recvVars, netVars
<1>3. CASE Username
  BY <1>3 DEF Username, Return, airVars, recvVars, netVars
<1>4. CASE ScanFails
  BY <1>4 DEF ScanFails, Return, airVars, recvVars, netVars
<1>5. CASE Scans
  BY <1>5 DEF Scans, airVars, recvVars, netVars
<1>6. CASE GatherGps
  BY <1>6 DEF GatherGps, TypeOK, airVars, recvVars, netVars
<1>7. CASE GatherCells
  BY <1>7 DEF GatherCells, TypeOK, airVars, recvVars, netVars
<1>8. CASE NoBeacons
  BY <1>8 DEF NoBeacons, Return, airVars, recvVars, netVars
<1>9. CASE Send
  BY <1>9 DEF Send, airVars, recvVars
<1>10. CASE Performed
  BY <1>10 DEF Performed, Return, airVars, recvVars, netVars
<1>11. CASE Judge
  BY <1>11 DEF Judge, Return, airVars, recvVars, netVars
<1>12. CASE ParseFails
  BY <1>12 DEF ParseFails, Return, airVars, recvVars, netVars
<1>13. CASE Parse
  BY <1>13 DEF Parse, airVars, recvVars, netVars
<1>14. CASE OnGpsData
  BY <1>14 DEF OnGpsData, Collected, Listening, TypeOK, recvVars, netVars
<1>15. CASE OnCellChanged
  BY <1>15 DEF OnCellChanged, Listening, recvVars, netVars
<1>16. CASE Net
  BY <1>16 DEF Net, ProxyAnswers, Connected, ServerContinues, ServerAnswers,
                BodyArrives, Finishes, Breaks, Expires, NetStep, Header, Body,
                airVars, recvVars, netVars
<1>17. CASE UNCHANGED vars
  BY <1>17 DEF vars, airVars, recvVars, netVars
<1> QED
  BY <1>1, <1>2, <1>3, <1>4, <1>5, <1>6, <1>7, <1>8, <1>9, <1>10, <1>11,
     <1>12, <1>13, <1>14, <1>15, <1>16, <1>17
  DEF Next, Main, Listeners

(* Every step keeps the order of the call.                                 *)
LEMMA NextCall ==
  ASSUME IInv, [Next]_vars
  PROVE  CallInv'
<1> USE DEF IInv, CallInv, Gathering, Asking
<1>1. CASE OpenRadios
  BY <1>1 DEF OpenRadios, airVars, recvVars, netVars
<1>2. CASE OpenWifi
  BY <1>2 DEF OpenWifi, Return, airVars, recvVars, netVars
<1>3. CASE Username
  BY <1>3 DEF Username, Return, TypeOK, airVars, recvVars, netVars
<1>4. CASE ScanFails
  BY <1>4 DEF ScanFails, Return, airVars, recvVars, netVars
<1>5. CASE Scans
  BY <1>5 DEF Scans, airVars, recvVars, netVars
<1>6. CASE GatherGps
  BY <1>6 DEF GatherGps, airVars, recvVars, netVars
<1>7. CASE GatherCells
  BY <1>7 DEF GatherCells, airVars, recvVars, netVars
<1>8. CASE NoBeacons
  BY <1>8 DEF NoBeacons, Return, airVars, recvVars, netVars
<1>9. CASE Send
  BY <1>9 DEF Send, airVars, recvVars
<1>10. CASE Performed
  BY <1>10 DEF Performed, Return, airVars, recvVars, netVars
<1>11. CASE Judge
  BY <1>11 DEF Judge, Verdict, Return, airVars, recvVars, netVars
<1>12. CASE ParseFails
  BY <1>12 DEF ParseFails, Return, airVars, recvVars, netVars
<1>13. CASE Parse
  BY <1>13 DEF Parse, airVars, recvVars, netVars
<1>14. CASE OnGpsData
  BY <1>14 DEF OnGpsData, Listening, recvVars, netVars
<1>15. CASE OnCellChanged
  BY <1>15 DEF OnCellChanged, Listening, recvVars, netVars
<1>16. CASE Net
  BY <1>16 DEF Net, ProxyAnswers, Connected, ServerContinues, ServerAnswers,
                BodyArrives, Finishes, Breaks, Expires, NetStep, Header, Body,
                airVars, recvVars, netVars
<1>17. CASE UNCHANGED vars
  BY <1>17 DEF vars, airVars, recvVars, netVars
<1> QED
  BY <1>1, <1>2, <1>3, <1>4, <1>5, <1>6, <1>7, <1>8, <1>9, <1>10, <1>11,
     <1>12, <1>13, <1>14, <1>15, <1>16, <1>17
  DEF Next, Main, Listeners

(* Every step keeps what is known of the radios.                           *)
LEMMA NextRadios ==
  ASSUME IInv, [Next]_vars
  PROVE  RadiosInv'
<1> USE DEF IInv, RadiosInv
<1>1. CASE OpenRadios
  BY <1>1 DEF OpenRadios
<1>2. CASE OpenWifi
  BY <1>2 DEF OpenWifi, Return
<1>3. CASE Username \/ ScanFails \/ Scans \/ GatherGps \/ GatherCells
  BY <1>3 DEF Username, ScanFails, Scans, GatherGps, GatherCells, Return
<1>4. CASE NoBeacons \/ Send \/ Performed \/ Judge \/ ParseFails \/ Parse
  BY <1>4 DEF NoBeacons, Send, Performed, Judge, ParseFails, Parse, Return
<1>5. CASE Listeners
  BY <1>5 DEF Listeners, OnGpsData, OnCellChanged
<1>6. CASE Net
  BY <1>6 DEF Net, ProxyAnswers, Connected, ServerContinues, ServerAnswers,
               BodyArrives, Finishes, Breaks, Expires, NetStep
<1>7. CASE UNCHANGED vars
  BY <1>7 DEF vars
<1> QED
  BY <1>1, <1>2, <1>3, <1>4, <1>5, <1>6, <1>7 DEF Next, Main

(* Every step keeps what was received to its answer.                       *)
LEMMA NextNet ==
  ASSUME IInv, [Next]_vars
  PROVE  NetInv'
<1> USE DEF IInv, NetInv, CallInv, Gathering
<1>1. CASE OpenRadios
  BY <1>1 DEF OpenRadios, airVars, recvVars, netVars
<1>2. CASE OpenWifi
  BY <1>2 DEF OpenWifi, Return, airVars, recvVars, netVars
<1>3. CASE Username
  BY <1>3 DEF Username, Return, airVars, recvVars, netVars
<1>4. CASE ScanFails
  BY <1>4 DEF ScanFails, Return, airVars, recvVars, netVars
<1>5. CASE Scans
  BY <1>5 DEF Scans, airVars, recvVars, netVars
<1>6. CASE GatherGps
  BY <1>6 DEF GatherGps, airVars, recvVars, netVars
<1>7. CASE GatherCells
  BY <1>7 DEF GatherCells, airVars, recvVars, netVars
<1>8. CASE NoBeacons
  BY <1>8 DEF NoBeacons, Return, airVars, recvVars, netVars
<1>9. CASE Send
  BY <1>9 DEF Send, airVars, recvVars
<1>10. CASE Performed
  BY <1>10 DEF Performed, Return, airVars, recvVars, netVars
<1>11. CASE Judge
  BY <1>11 DEF Judge, Return, airVars, recvVars, netVars
<1>12. CASE ParseFails
  BY <1>12 DEF ParseFails, Return, airVars, recvVars, netVars
<1>13. CASE Parse
  BY <1>13 DEF Parse, airVars, recvVars, netVars
<1>14. CASE OnGpsData
  BY <1>14 DEF OnGpsData, Listening, recvVars, netVars
<1>15. CASE OnCellChanged
  BY <1>15 DEF OnCellChanged, Listening, recvVars, netVars
<1>16. CASE Net
  <2>1. CASE ServerAnswers
    <3>1. PICK r \in Replies : reply' = r /\ Header(r.status, r.full)
      BY <2>1 DEF ServerAnswers
    <3>2. r # NoReply
      BY RepliesAreReal
    <3>3. IF r.full THEN status' = r.status ELSE status' = status
      BY <3>1 DEF Header
    <3>4. status # 401 /\ phase' = "answering" /\ curl' = curl
          /\ phase = "sent"
      BY <2>1 DEF ServerAnswers
    <3> QED
      BY <3>1, <3>2, <3>3, <3>4
  <2>2. CASE ProxyAnswers \/ Connected \/ ServerContinues \/ BodyArrives
    BY <2>2 DEF ProxyAnswers, Connected, ServerContinues, BodyArrives, NetStep,
                Header, Body, NoReply, recvVars, netVars
  <2>3. CASE Finishes \/ Breaks \/ Expires
    BY <2>3 DEF Finishes, Breaks, Expires, NetStep, recvVars
  <2> QED
    BY <1>16, <2>1, <2>2, <2>3 DEF Net
<1>17. CASE UNCHANGED vars
  BY <1>17 DEF vars, airVars, recvVars, netVars
<1> QED
  BY <1>1, <1>2, <1>3, <1>4, <1>5, <1>6, <1>7, <1>8, <1>9, <1>10, <1>11,
     <1>12, <1>13, <1>14, <1>15, <1>16, <1>17
  DEF Next, Main, Listeners

(* Only Parse returns SHLC_OK; nothing changes what it is returned for.    *)
LEMMA NextOk ==
  ASSUME IInv, [Next]_vars
  PROVE  OkIsAnswered' /\ AgeOfFirstLocation'
<1>1. CASE Parse
  <2>1. reply \in Replies /\ text = "whole" /\ status = 200
    BY <1>1, ParsedIsReply DEF Parse, Parses, IInv, CallInv
  <2>2. reply.full => reply.status = 200
    BY <2>1, RepliesAreReal DEF IInv, NetInv
  <2>3. PICK i \in Located(reply.nodes), now \in 0..MaxTime :
          /\ IsFront(i, reply.nodes)
          /\ location' = [pos |-> {reply.nodes[i].pos},
                          age |-> reply.nodes[i].age
                                    + TimeDelta(reply.nodes, i, now)]
    BY <1>1 DEF Parse
  <2>4. now \in Nat
    BY LocationCallAssumption
  <2>5. /\ TimeDelta(reply.nodes, i, now) \in Nat
        /\ reply.nodes[i].rqtime = 0 => TimeDelta(reply.nodes, i, now) = 0
    BY <2>1, <2>3, <2>4, FrontDelta
  <2>6. i \in 1..Len(reply.nodes) /\ reply.nodes[i].age \in Nat
    BY <2>1, LocatedType
  <2>7. reply.nodes \in Seq(Nodes)
    BY <2>1, NodesType
  <2>8. \A j \in 1..(i - 1) : reply.nodes[j].name # "location"
    <3> SUFFICES ASSUME NEW j \in 1..(i - 1), reply.nodes[j].name = "location"
                 PROVE  FALSE
      OBVIOUS
    <3>1. j \in Located(reply.nodes)
      BY <2>6, <2>7 DEF Located
    <3> QED
      BY <3>1, <2>3, <2>6 DEF IsFront
  <2>9. reply' = reply /\ text' = text /\ status' = status
    BY <1>1 DEF Parse, netVars, recvVars
  <2>10. /\ location'.pos = {reply.nodes[i].pos}
         /\ location'.age = reply.nodes[i].age + TimeDelta(reply.nodes, i, now)
    BY <2>3
  <2>11. OkIsAnswered'
    BY <2>1, <2>2, <2>8, <2>9, <2>10 DEF OkIsAnswered
  <2>12. /\ location'.age >= reply.nodes[i].age
         /\ reply.nodes[i].rqtime = 0 => location'.age = reply.nodes[i].age
    BY <2>5, <2>6, <2>10
  <2> QED
    BY <2>8, <2>9, <2>11, <2>12 DEF AgeOfFirstLocation
<1>2. CASE result' # "OK"
  BY <1>2 DEF OkIsAnswered, AgeOfFirstLocation
<1>3. CASE result' = "OK" /\ ~Parse
  <2>1. \A c \in {"RADIO_NOT_AVAILABLE", "UNAUTHORIZED", "NO_BEACONS_IN_RANGE",
                  "SERVER_UNAVAILABLE", "LOCATION_CANNOT_BE_DETERMINED"} :
          ~Return(c)
    BY <1>3 DEF Return
  <2>2. ~(Judge /\ Return(Verdict(status)) /\ Verdict(status) # "OK")
    BY <1>3 DEF Return
  <2>3. Next \/ UNCHANGED vars
    OBVIOUS
  <2>4. UNCHANGED <<result, location, reply, text, status>>
    <3>1. CASE Main
      BY <3>1, <1>3, <2>1, <2>2 DEF Main, OpenRadios, OpenWifi, Username,
         ScanFails, Scans, GatherGps, GatherCells, NoBeacons, Send, Performed,
         Judge, ParseFails, recvVars, netVars
    <3>2. CASE Listeners
      BY <3>2 DEF Listeners, OnGpsData, OnCellChanged, recvVars, netVars
    <3>3. CASE Net
      <4>1. pc = "perform" /\ result' = result
        BY <3>3 DEF Net, NetStep, ProxyAnswers, Connected, ServerContinues,
           ServerAnswers, BodyArrives, Finishes, Breaks, Expires
      <4> QED
        BY <4>1, <1>3 DEF IInv, CallInv
    <3>4. CASE UNCHANGED vars
      BY <3>4 DEF vars, recvVars, netVars
    <3> QED
      BY <2>3, <3>1, <3>2, <3>3, <3>4 DEF Next
  <2> QED
    BY <1>3, <2>4 DEF IInv, OkIsAnswered, AgeOfFirstLocation
<1> QED
  BY <1>1, <1>2, <1>3

(* A call that ends says UNAUTHORIZED for the reasons it should.           *)
LEMMA NextUnauthorized ==
  ASSUME IInv, [Next]_vars
  PROVE  ToldInv'
<1> USE DEF IInv, CallInv, NetInv, ToldInv, Gathering, Asking, NoStatus
<1>1. CASE Main
  <2>1. CASE OpenRadios \/ Scans \/ GatherGps \/ GatherCells \/ Send
    BY <2>1 DEF OpenRadios, Scans, GatherGps, GatherCells, Send
  <2>2. CASE OpenWifi \/ Username \/ ScanFails \/ NoBeacons
    BY <2>2 DEF OpenWifi, Username, ScanFails, NoBeacons, Return, recvVars
  <2>3. CASE Performed
    BY <2>3 DEF Performed, SendCode, Return, recvVars
  <2>4. CASE Judge
    BY <2>4 DEF Judge, Verdict, Return, recvVars
  <2>5. CASE ParseFails \/ Parse
    <3>1. status' = 200 /\ result' # "UNAUTHORIZED"
      BY <2>5 DEF ParseFails, Parse, Return, recvVars
    <3> QED
      BY <3>1
  <2> QED
    BY <1>1, <2>1, <2>2, <2>3, <2>4, <2>5 DEF Main
<1>2. CASE Listeners
  <2>1. UNCHANGED <<pc, known, result, status>>
    BY <1>2 DEF Listeners, OnGpsData, OnCellChanged, recvVars
  <2> QED
    BY <2>1
<1>3. CASE Net
  <2>1. pc' = "perform"
    BY <1>3 DEF Net, NetStep, ProxyAnswers, Connected, ServerContinues,
       ServerAnswers, BodyArrives, Finishes, Breaks, Expires
  <2> QED
    BY <2>1
<1>4. CASE UNCHANGED vars
  BY <1>4 DEF vars, recvVars
<1> QED
  BY <1>1, <1>2, <1>3, <1>4 DEF Next

(* The invariant is inductive.                                             *)
LEMMA Invariance == Spec => []IInv
<1>1. IInv /\ [Next]_vars => IInv'
  BY NextType, NextScan, NextHeard, NextCall, NextRadios, NextNet, NextOk,
     NextUnauthorized
  DEF IInv
<1> QED
  BY <1>1, InitInv, PTL DEF Spec

(* Every variable of the call keeps its type.                              *)
THEOREM TypeCorrect == Spec => []TypeOK
<1>1. IInv => TypeOK
  BY DEF IInv
<1> QED
  BY <1>1, Invariance, PTL

(* Every fix reported before the Wi-Fi scan is over is in the request.     *)
THEOREM RequestIsComplete == Spec => []RequestHasWhatWasHeard
<1>1. IInv => RequestHasWhatWasHeard
  BY DEF IInv, HeardInv, RequestHasWhatWasHeard, Asking
<1> QED
  BY <1>1, Invariance, PTL

(* SHLC_OK is returned for the first location of a whole answer only.      *)
THEOREM OkNeedsAnswer == Spec => []OkIsAnswered
<1>1. IInv => OkIsAnswered
  BY DEF IInv
<1> QED
  BY <1>1, Invariance, PTL

(* The age of the returned location is its own.                            *)
THEOREM AgeIsItsOwn == Spec => []AgeOfFirstLocation
<1>1. IInv => AgeOfFirstLocation
  BY DEF IInv
<1> QED
  BY <1>1, Invariance, PTL

(* A user is told UNAUTHORIZED if and only if the server has said so, in a *)
(* status line that is full.                                               *)
THEOREM StatusOutranksError == Spec => []UnauthorizedIsTold
<1>1. ASSUME IInv
      PROVE  status = 401 <=> reply.status = 401 /\ reply.full
  <2>1. CASE reply = NoReply
    BY <1>1, <2>1 DEF IInv, NetInv, NoReply
  <2>2. CASE reply # NoReply
    BY <1>1, <2>2 DEF IInv, NetInv
  <2> QED
    BY <2>1, <2>2
<1>2. IInv => UnauthorizedIsTold
  BY <1>1 DEF IInv, ToldInv, UnauthorizedIsTold
<1> QED
  BY <1>2, Invariance, PTL

-----------------------------------------------------------------------------
(* The refinement: what the server has offered are the positions of its    *)
(* answer.                                                                 *)
Offered == {reply.nodes[i].pos : i \in 1..Len(reply.nodes)}

apiVars == <<radios, scan, phase, curl, reply, result, location>>

(* A call that begins has promised nothing yet.                            *)
LEMMA InitApi == Init => Api!Init
  BY DEF Init, Api!Init, NoReply, NoLocation

(* A step that leaves alone what the API speaks of is a stuttering step.   *)
LEMMA Stutter ==
  ASSUME UNCHANGED apiVars
  PROVE  UNCHANGED Api!vars
  BY DEF apiVars, Api!vars

(* The call ends without a location, before the server is asked.           *)
LEMMA RefuseStep ==
  ASSUME result = "none", phase = "idle",
         \/ Return("RADIO_NOT_AVAILABLE") /\ "wifi" \notin radios
         \/ Return("RADIO_NOT_AVAILABLE") /\ "wifi" \in radios /\ scan = Empty
         \/ Return("UNAUTHORIZED")
         \/ Return("NO_BEACONS_IN_RANGE") /\ scan = Empty,
         UNCHANGED <<radios, scan, phase, curl, reply>>
  PROVE  Api!Refuse
  BY DEF Api!Refuse, Api!Unavailable, Return

(* The call ends without a location, after the server is asked.            *)
LEMMA FailStep ==
  ASSUME result = "none", phase # "idle",
         \/ Return("SERVER_UNAVAILABLE")
         \/ Return("LOCATION_CANNOT_BE_DETERMINED")
         \/ Return("UNAUTHORIZED") /\ reply # NoReply,
         UNCHANGED <<radios, scan, phase, curl, reply>>
  PROVE  Api!Fail
  BY DEF Api!Fail, Return

(* An adapter is there, or none.                                           *)
LEMMA DetectStep ==
  ASSUME result = "none", phase = "idle", scan = Empty,
         \E found \in SUBSET {"wifi", "cell", "gps"} :
           radios' = radios \union found,
         UNCHANGED <<scan, phase, curl, reply, result, location>>
  PROVE  Api!Detect
  BY DEF Api!Detect

(* Something is heard, or nothing new.                                     *)
LEMMA HearStep ==
  ASSUME result = "none", phase = "idle", scan = Empty \/ scan' # Empty,
         "wifi" \in radios,
         UNCHANGED <<radios, phase, curl, reply, result, location>>
  PROVE  Api!Hear \/ UNCHANGED Api!vars
<1>1. CASE scan' = Empty
  BY <1>1 DEF Api!vars
<1>2. CASE scan' # Empty
  BY <1>2 DEF Api!Hear
<1> QED
  BY <1>1, <1>2

(* Each step of the call is a step of the API or none.                     *)
LEMMA NextApi ==
  ASSUME IInv, [Next]_vars
  PROVE  [Api!Next]_(Api!vars)
<1> USE DEF IInv, CallInv, RadiosInv, Gathering, Asking
<1> SUFFICES Api!Next \/ UNCHANGED Api!vars
  OBVIOUS
<1>1. CASE OpenRadios
  <2>1. \E found \in SUBSET {"wifi", "cell", "gps"} :
          radios' = radios \union found
    <3>1. radios = {} /\ radios' \in SUBSET {"gps", "cell"}
      BY <1>1 DEF OpenRadios
    <3> QED
      BY <3>1
  <2> QED
    BY <1>1, <2>1, DetectStep DEF OpenRadios, ScanInv, netVars, Api!Next
<1>2. CASE OpenWifi
  <2>1. CASE Return("RADIO_NOT_AVAILABLE") /\ UNCHANGED radios
    BY <1>2, <2>1, RefuseStep DEF OpenWifi, netVars, Api!Next
  <2>2. CASE radios' = radios \union {"wifi"} /\ UNCHANGED <<result, location>>
    <3>1. \E found \in SUBSET {"wifi", "cell", "gps"} :
            radios' = radios \union found
      BY <2>2
    <3> QED
      BY <1>2, <2>2, <3>1, DetectStep DEF OpenWifi, ScanInv, netVars, Api!Next
  <2> QED
    BY <1>2, <2>1, <2>2 DEF OpenWifi
<1>3. CASE Username
  <2>1. CASE Return("UNAUTHORIZED")
    BY <1>3, <2>1, RefuseStep DEF Username, netVars, Api!Next
  <2> QED
    BY <1>3, <2>1, Stutter DEF Username, netVars, apiVars
<1>4. CASE ScanFails
  BY <1>4, RefuseStep DEF ScanFails, ScanInv, netVars, Api!Next
<1>5. CASE Scans
  BY <1>5, HearStep DEF Scans, ScanInv, netVars, Api!Next
<1>6. CASE GatherGps
  <2>1. scan = Empty \/ scan' # Empty
    BY <1>6 DEF GatherGps, ScanInv, TypeOK, Empty
  <2> QED
    BY <1>6, <2>1, HearStep DEF GatherGps, netVars, Api!Next
<1>7. CASE GatherCells
  <2>1. scan = Empty \/ scan' # Empty
    BY <1>7 DEF GatherCells, ScanInv, TypeOK, Empty
  <2> QED
    BY <1>7, <2>1, HearStep DEF GatherCells, netVars, Api!Next
<1>8. CASE NoBeacons
  <2>1. scan = Empty
    BY <1>8 DEF NoBeacons, HasBeacons, TypeOK, Empty
  <2> QED
    BY <1>8, <2>1, RefuseStep DEF NoBeacons, netVars, Api!Next
<1>9. CASE Send
  <2>1. scan # Empty
    BY <1>9 DEF Send, HasBeacons, Empty
  <2> QED
    BY <1>9, <2>1 DEF Send, Api!Next, Api!Ask
<1>10. CASE Performed
  <2>1. CASE Return("SERVER_UNAVAILABLE")
    BY <1>10, <2>1, FailStep DEF Performed, netVars, Api!Next
  <2> QED
    BY <1>10, <2>1, Stutter DEF Performed, netVars, apiVars
<1>11. CASE Judge
  <2>1. CASE Verdict(status) = "OK"
    BY <1>11, <2>1, Stutter DEF Judge, netVars, apiVars
  <2>2. CASE Verdict(status) # "OK"
    <3>1. \/ Return("UNAUTHORIZED") /\ status = 401
          \/ Return("SERVER_UNAVAILABLE")
      BY <1>11, <2>2 DEF Judge, Verdict
    <3>2. status = 401 => reply # NoReply
      BY DEF NetInv
    <3> QED
      BY <1>11, <3>1, <3>2, FailStep DEF Judge, netVars, Api!Next
  <2> QED
    BY <2>1, <2>2
<1>12. CASE ParseFails
  BY <1>12, FailStep DEF ParseFails, netVars, Api!Next
<1>13. CASE Parse
  <2>1. reply \in Replies
    BY <1>13, ParsedIsReply DEF Parse
  <2>2. PICK i \in Located(reply.nodes) : location'.pos = {reply.nodes[i].pos}
    BY <1>13 DEF Parse
  <2>3. i \in 1..Len(reply.nodes)
    BY <2>1, LocatedType
  <2>4. \E p \in Offered : location'.pos = {p}
    BY <2>2, <2>3 DEF Offered
  <2>5. result = "none" /\ phase # "idle" /\ result' = "OK"
    BY <1>13 DEF Parse
  <2>6. UNCHANGED <<radios, scan, phase, curl, reply>>
    BY <1>13 DEF Parse, netVars
  <2>7. /\ radios' = radios /\ (scan # Empty)' = (scan # Empty)
        /\ (phase # "idle")' = (phase # "idle")
        /\ (curl = "timed_out")' = (curl = "timed_out")
        /\ (reply # NoReply)' = (reply # NoReply) /\ Offered' = Offered
    BY <2>6 DEF Offered
  <2>8. Api!Locate
    BY <2>4, <2>5, <2>7, Zenon DEF Api!Locate, Offered
  <2> QED
    BY <2>8 DEF Api!Next
<1>14. CASE Listeners
  BY <1>14, Stutter DEF Listeners, OnGpsData, OnCellChanged, netVars, apiVars
<1>15. CASE ServerAnswers
  <2>1. PICK r \in Replies : reply' = r
    BY <1>15 DEF ServerAnswers
  <2>2. Offered' \in SUBSET Positions
    <3>1. \A j \in 1..Len(r.nodes) : r.nodes[j] \in Nodes
      BY NodesType
    <3>2. \A j \in 1..Len(r.nodes) : r.nodes[j].pos \in Positions
      BY <3>1 DEF Nodes
    <3> QED
      BY <2>1, <3>2 DEF Offered
  <2>3. reply = NoReply /\ reply' # NoReply
    BY <1>15, <2>1, RepliesAreReal DEF ServerAnswers, NetInv
  <2>4. /\ pc = "perform" /\ phase = "sent" /\ phase' = "answering"
        /\ curl # "timed_out"
        /\ UNCHANGED <<radios, scan, curl, result, location>>
    BY <1>15 DEF ServerAnswers, NetStep, NetInv
  <2>5. Api!Offer
    BY <2>2, <2>3, <2>4 DEF Api!Offer, Offered
  <2> QED
    BY <2>5 DEF Api!Next
<1>16. CASE Net /\ ~ServerAnswers
  <2>1. /\ UNCHANGED <<radios, scan, reply, result, location>>
        /\ phase # "idle" /\ phase' # "idle" /\ result = "none"
    BY <1>16 DEF Net, NetStep, ProxyAnswers, Connected, ServerContinues,
       BodyArrives, Finishes, Breaks, Expires, netVars
  <2>2. CASE Expires
    <3>1. curl' = "timed_out"
      BY <2>2 DEF Expires
    <3>2. Api!TimeOut
      BY <2>1, <3>1 DEF Api!TimeOut
    <3> QED
      BY <3>2 DEF Api!Next
  <2>3. CASE ~Expires
    <3>1. curl # "timed_out" /\ curl' # "timed_out"
      BY <1>16, <2>3 DEF Net, ProxyAnswers, Connected, ServerContinues,
         BodyArrives, Finishes, Breaks, NetInv, netVars
    <3> QED
      BY <2>1, <3>1 DEF Api!vars
  <2> QED
    BY <2>2, <2>3
<1>17. CASE UNCHANGED vars
  BY <1>17, Stutter DEF vars, netVars, apiVars
<1> QED
  BY <1>1, <1>2, <1>3, <1>4, <1>5, <1>6, <1>7, <1>8, <1>9, <1>10, <1>11, <1>12,
     <1>13, <1>14, <1>15, <1>16, <1>17 DEF Next, Main

(* SHLC_location keeps what its header promises of the return codes but    *)
(* for four departures: RADIO_NOT_AVAILABLE while there are other radios   *)
(* than Wi-Fi or after a scan that failed, no TIMEOUT for a network that   *)
(* timed out, and a location that cannot be determined for a server that   *)
(* has not answered.                                                       *)
THEOREM CallImplementsApi == Spec => ImplementsApi
<1>1. IInv /\ [Next]_vars => [Api!Next]_(Api!vars)
  BY NextApi
<1> QED
  BY <1>1, InitApi, Invariance, PTL DEF Spec, ImplementsApi, Api!Spec
=============================================================================
