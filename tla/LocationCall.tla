---------------------------- MODULE LocationCall ----------------------------
(***************************************************************************)
(* One call of SHLC_location from end to end: the radios are opened, a     *)
(* user name is found, Wi-Fi is scanned while cells and GPS fixes come in, *)
(* what was heard is sent to the server with libcurl, and the answer is    *)
(* made into a location or an error code.                                  *)
(*                                                                         *)
(* The radios are taken here by their outcome; WifiScan, CellLoop and      *)
(* GpsFeed say how it comes about.  libcurl hands over the pieces of the   *)
(* exchange one by one, and the exchange can break off after each.         *)
(***************************************************************************)
EXTENDS Integers, Sequences

CONSTANTS
  APs, Cells, Fixes,   \* what the radios can hear
  Positions,           \* the positions the server can offer
  MaxNodes,            \* bound: nodes of an answer
  MaxTime              \* bound: the device's clock, in seconds

ASSUME LocationCallAssumption == MaxNodes \in Nat /\ MaxTime \in Nat

NoStatus == -1
NoReply ==
  [status |-> NoStatus, full |-> FALSE, xml |-> FALSE, nodes |-> <<>>]
NoLocation == [pos |-> {}, age |-> 0]
Empty == [aps |-> {}, gps |-> {}, cells |-> {}]

VARIABLES
  pc,         \* where SHLC_location is
  radios,     \* the adapters that were there to open
  fixes,      \* GpsWrapper::_fixes
  cells,      \* CellWrapper::_scannedCells
  scan,       \* the Scan of SHLC_location
  status,     \* CurlXmlHttpRequest::_statusCode
  text,       \* _responseText: "none", "part" or "whole" of a body
  result,     \* the return code, "none" before the return
  location,   \* what *location is set to
  phase,      \* libcurl: how far the exchange has come
  curl,       \* libcurl: the code of curl_easy_perform
  reply       \* the server's answer, once it has begun to answer

(* History: none of the steps reads these.                                 *)
VARIABLES
  heard,      \* the fixes reported before the Wi-Fi scan was over
  known       \* a user name was found

recvVars == <<status, text>>
netVars  == <<phase, curl, reply>>
airVars  == <<fixes, cells, heard>>

vars ==
  <<pc, radios, airVars, scan, recvVars, result, location, netVars, known>>

-----------------------------------------------------------------------------
(* SHLC_location.                                                          *)

(* The call ends with a return code and no location.                       *)
Return(c) ==
  /\ pc' = "done"
  /\ result' = c
  /\ UNCHANGED location

(* The codes of gps.open() and cell.open() are not looked at.              *)
OpenRadios ==
  /\ pc = "open"
  /\ pc' = "wifi"
  /\ radios' \in SUBSET {"gps", "cell"}
  /\ UNCHANGED <<airVars, scan, recvVars, result, location, netVars, known>>

OpenWifi ==
  /\ pc = "wifi"
  /\ \/ /\ pc' = "username"
        /\ radios' = radios \union {"wifi"}
        /\ UNCHANGED <<result, location>>
     \/ Return("RADIO_NOT_AVAILABLE") /\ UNCHANGED radios
  /\ UNCHANGED <<airVars, scan, recvVars, netVars, known>>

(* There is a hardware address, or an IMEI, or neither.                    *)
Username ==
  /\ pc = "username"
  /\ known' \in BOOLEAN
  /\ IF known' THEN pc' = "scan" /\ UNCHANGED <<result, location>>
     ELSE Return("UNAUTHORIZED")
  /\ UNCHANGED <<radios, airVars, scan, recvVars, netVars>>

ScanFails ==
  /\ pc = "scan"
  /\ Return("RADIO_NOT_AVAILABLE")
  /\ UNCHANGED <<radios, airVars, scan, recvVars, netVars, known>>

Scans ==
  /\ pc = "scan"
  /\ pc' = "gps"
  /\ \E aps \in SUBSET APs : scan' = [scan EXCEPT !.aps = aps]
  /\ UNCHANGED <<radios, airVars, recvVars, result, location, netVars, known>>

GatherGps ==
  /\ pc = "gps"
  /\ pc' = "cells"
  /\ scan' = [scan EXCEPT !.gps = fixes]
  /\ UNCHANGED <<radios, airVars, recvVars, result, location, netVars, known>>

GatherCells ==
  /\ pc = "cells"
  /\ pc' = "beacons"
  /\ scan' = [scan EXCEPT !.cells = cells]
  /\ UNCHANGED <<radios, airVars, recvVars, result, location, netVars, known>>

(* Faulty variant: a GPS fix alone is not worth a request.                 *)
BeaconsWithoutGps(s) == s.aps # {} \/ s.cells # {}

HasBeacons(s) == s.aps # {} \/ s.cells # {} \/ s.gps # {}

NoBeacons ==
  /\ pc = "beacons"
  /\ ~HasBeacons(scan)
  /\ Return("NO_BEACONS_IN_RANGE")
  /\ UNCHANGED <<radios, airVars, scan, recvVars, netVars, known>>

(* send(): libcurl is set up and takes over.                               *)
Send ==
  /\ pc = "beacons"
  /\ HasBeacons(scan)
  /\ pc' = "perform"
  /\ phase' = "connecting"
  /\ UNCHANGED <<radios, airVars, scan, recvVars, result, location, curl,
                 reply, known>>

(* Faulty variant: an error of libcurl hides the status that was received. *)
CurlCodeFirst == curl

(* send() reports an error of libcurl only if there is no status.          *)
SendCode == IF status = NoStatus THEN curl ELSE "ok"

Performed ==
  /\ pc = "perform"
  /\ phase = "over"
  /\ IF SendCode = "ok" THEN pc' = "judge" /\ UNCHANGED <<result, location>>
     ELSE Return("SERVER_UNAVAILABLE")
  /\ UNCHANGED <<radios, airVars, scan, recvVars, netVars, known>>

(* Faulty variant: a status other than 401 is taken for 200.               *)
JudgeLax(s) == IF s = 401 THEN "UNAUTHORIZED" ELSE "OK"

(* The switch over the status.                                             *)
Verdict(s) ==
  CASE s = 200 -> "OK"
    [] s = 401 -> "UNAUTHORIZED"
    [] OTHER   -> "SERVER_UNAVAILABLE"

Judge ==
  /\ pc = "judge"
  /\ IF Verdict(status) = "OK"
     THEN pc' = "parse" /\ UNCHANGED <<result, location>>
     ELSE Return(Verdict(status))
  /\ UNCHANGED <<radios, airVars, scan, recvVars, netVars, known>>

(* The body is parsed whole or not at all.                                 *)
Parses == text = "whole" /\ reply.xml

(* Faulty variant: the clock of the server may be ahead of the device's.   *)
UnclippedDelta(now, rqtime) == (now - rqtime) * 1000

(* The milliseconds since the request the location was calculated for.     *)
Delta(now, rqtime) == IF now > rqtime THEN (now - rqtime) * 1000 ELSE 0

(* parseLocationRS: the nodes that are locations.                          *)
Located(nodes) == {i \in 1..Len(nodes) : nodes[i].name = "location"}

(* timeDelta of the location i: that of the last location up to it that    *)
(* names a request time, 0 if there is none.                               *)
TimeDelta(nodes, i, now) ==
  LET J == {j \in Located(nodes) : j <= i /\ nodes[j].rqtime > 0}
  IN  IF J = {} THEN 0
      ELSE Delta(now, nodes[CHOOSE j \in J : \A k \in J : k <= j].rqtime)

ParseFails ==
  /\ pc = "parse"
  /\ ~Parses \/ Located(reply.nodes) = {}
  /\ Return("LOCATION_CANNOT_BE_DETERMINED")
  /\ UNCHANGED <<radios, airVars, scan, recvVars, netVars, known>>

(* Faulty variant: the last location is returned.                          *)
IsBack(i, nodes) == \A j \in Located(nodes) : j <= i

(* locations.front().                                                      *)
IsFront(i, nodes) == \A j \in Located(nodes) : i <= j

Parse ==
  /\ pc = "parse"
  /\ Parses
  /\ \E i \in Located(reply.nodes), now \in 0..MaxTime :
       /\ IsFront(i, reply.nodes)
       /\ location' = [pos |-> {reply.nodes[i].pos},
                       age |-> reply.nodes[i].age
                                 + TimeDelta(reply.nodes, i, now)]
  /\ pc' = "done"
  /\ result' = "OK"
  /\ UNCHANGED <<radios, airVars, scan, recvVars, netVars, known>>

Main ==
  \/ OpenRadios \/ OpenWifi \/ Username \/ ScanFails \/ Scans \/ GatherGps
  \/ GatherCells \/ NoBeacons \/ Send \/ Performed \/ Judge \/ ParseFails
  \/ Parse

-----------------------------------------------------------------------------
(* The listeners, called from threads of their own.                        *)

Listening == pc \notin {"open", "done"}

(* Faulty variant: a new fix takes the place of the others.                *)
LatestOnly(f) == {f}

Collected(f) == fixes \union {f}

OnGpsData ==
  /\ Listening /\ "gps" \in radios
  /\ \E f \in Fixes :
       /\ fixes' = Collected(f)
       /\ heard' = IF pc \in {"wifi", "username", "scan"}
                   THEN heard \union {f} ELSE heard
  /\ UNCHANGED <<pc, radios, cells, scan, recvVars, result, location,
                 netVars, known>>

OnCellChanged ==
  /\ Listening /\ "cell" \in radios
  /\ cells' \in {{}} \union {{c} : c \in Cells}
  /\ UNCHANGED <<pc, radios, fixes, heard, scan, recvVars, result, location,
                 netVars, known>>

Listeners == OnGpsData \/ OnCellChanged

-----------------------------------------------------------------------------
(* libcurl, the proxy and the server (external), with the callbacks.       *)

(* headerCallback: a status line is taken, whoever it is from, if it is    *)
(* full, that is of 15 characters at least; that of HTTP/1.1 without the   *)
(* space before the reason is shorter, and so is libcurl's of HTTP/2.      *)
Header(s, full) == status' = IF full THEN s ELSE status

(* writeCallback: the pieces of a body are put together.                   *)
Body(t) == text' = t

NetStep ==
  /\ pc = "perform"
  /\ UNCHANGED <<pc, radios, airVars, scan, result, location, known>>

(* A proxy is asked for a tunnel first, and may refuse.                    *)
ProxyAnswers ==
  /\ NetStep
  /\ phase = "connecting"
  /\ \E s \in {200, 407}, full \in BOOLEAN :
       /\ Header(s, full)
       /\ phase' = IF s = 200 THEN "tunnel" ELSE "refused"
  /\ UNCHANGED <<text, curl, reply>>

Connected ==
  /\ NetStep
  /\ phase \in {"connecting", "tunnel"}
  /\ phase' = "sent"
  /\ UNCHANGED <<recvVars, curl, reply>>

ServerContinues ==
  /\ NetStep
  /\ phase = "sent"
  /\ \E full \in BOOLEAN : Header(100, full)
  /\ UNCHANGED <<text, netVars>>

(* A node is a millisecond old and may name a request time, second 1; the  *)
(* device's clock can be behind that, at it or ahead of it.                *)
Nodes ==
  [name : {"location", "error"}, pos : Positions, age : {1},
   rqtime : {0, 1}]

(* An answer of some nodes, if it is well-formed XML, after a status line  *)
(* that is full or not.                                                    *)
NodeLists(xml) ==
  IF xml THEN UNION {[1..n -> Nodes] : n \in 0..MaxNodes} ELSE {<<>>}

Replies ==
  UNION {[status : {200, 401, 500}, full : BOOLEAN, xml : {xml},
          nodes : NodeLists(xml)] : xml \in BOOLEAN}

ServerAnswers ==
  /\ NetStep
  /\ phase = "sent"
  /\ \E r \in Replies : reply' = r /\ Header(r.status, r.full)
  /\ phase' = "answering"
  /\ UNCHANGED <<text, curl>>

BodyArrives ==
  /\ NetStep
  /\ phase = "answering"
  /\ \/ text = "none" /\ Body("part")
     \/ text = "part" /\ Body("whole")
  /\ UNCHANGED <<status, netVars>>

Finishes ==
  /\ NetStep
  /\ phase = "answering"
  /\ text = "whole"
  /\ phase' = "over"
  /\ curl' = "ok"
  /\ UNCHANGED <<recvVars, reply>>

Breaks ==
  /\ NetStep
  /\ phase # "over"
  /\ phase' = "over"
  /\ curl' = "error"
  /\ UNCHANGED <<recvVars, reply>>

(* Faulty variant: no CURLOPT_TIMEOUT is set.                              *)
NeverExpires == FALSE /\ UNCHANGED vars

(* CURLOPT_TIMEOUT ends the exchange wherever it is.                       *)
Expires ==
  /\ NetStep
  /\ phase # "over"
  /\ phase' = "over"
  /\ curl' = "timed_out"
  /\ UNCHANGED <<recvVars, reply>>

Net ==
  \/ ProxyAnswers \/ Connected \/ ServerContinues \/ ServerAnswers
  \/ BodyArrives \/ Finishes \/ Breaks \/ Expires

-----------------------------------------------------------------------------
Init ==
  /\ pc = "open"
  /\ radios = {}
  /\ fixes = {}
  /\ cells = {}
  /\ scan = Empty
  /\ status = NoStatus
  /\ text = "none"
  /\ result = "none"
  /\ location = NoLocation
  /\ phase = "idle"
  /\ curl = "none"
  /\ reply = NoReply
  /\ heard = {}
  /\ known = FALSE

Next == Main \/ Listeners \/ Net

(* The caller's thread runs, and libcurl keeps to its timeout.  Neither    *)
(* the listeners nor the server need ever do anything.                     *)
Fairness == WF_vars(Main) /\ WF_vars(Expires)

Spec == Init /\ [][Next]_vars /\ Fairness

-----------------------------------------------------------------------------
(* Properties.                                                             *)

Codes == {"none", "OK", "RADIO_NOT_AVAILABLE", "NO_BEACONS_IN_RANGE",
          "UNAUTHORIZED", "SERVER_UNAVAILABLE",
          "LOCATION_CANNOT_BE_DETERMINED"}

(* Every variable of the call stays within its type.                       *)
TypeOK ==
  /\ pc \in {"open", "wifi", "username", "scan", "gps", "cells", "beacons",
             "perform", "judge", "parse", "done"}
  /\ radios \in SUBSET {"gps", "cell", "wifi"}
  /\ fixes \in SUBSET Fixes /\ heard \in SUBSET Fixes
  /\ cells \in SUBSET Cells
  /\ scan \in [aps : SUBSET APs, gps : SUBSET Fixes, cells : SUBSET Cells]
  /\ status \in {NoStatus, 100, 200, 401, 407, 500}
  /\ text \in {"none", "part", "whole"}
  /\ result \in Codes
  /\ location \in [pos : SUBSET Positions, age : Nat]
  /\ phase \in {"idle", "connecting", "tunnel", "refused", "sent",
                "answering", "over"}
  /\ curl \in {"none", "ok", "error", "timed_out"}
  /\ reply \in Replies \union {NoReply}
  /\ known \in BOOLEAN

(* README.md: cells and fixes are collected while the Wi-Fi scan is in     *)
(* progress.  Every fix reported by the end of the scan is in the request. *)
RequestHasWhatWasHeard ==
  pc \in {"beacons", "perform", "judge", "parse"} => heard \subseteq scan.gps

(* SHLC_OK is returned for a whole answer of status 200 only, with the     *)
(* first of its locations; an answer that was cut off or an error document *)
(* never leads to it, and the status line of a proxy only if the server's  *)
(* own is not full.                                                        *)
OkIsAnswered ==
  result = "OK" =>
    /\ reply.full => reply.status = 200
    /\ status = 200 /\ text = "whole"
    /\ \E i \in Located(reply.nodes) :
         /\ location.pos = {reply.nodes[i].pos}
         /\ \A j \in 1..(i - 1) : reply.nodes[j].name # "location"

(* The returned location is not younger than the server has said, and has  *)
(* the very age it said if no request time came with it: the difference of *)
(* the clocks that parseLocationRS carries on from location to location    *)
(* does not reach the one that is returned.                                *)
AgeOfFirstLocation ==
  result = "OK" =>
    \E i \in Located(reply.nodes) :
      /\ \A j \in 1..(i - 1) : reply.nodes[j].name # "location"
      /\ location.age >= reply.nodes[i].age
      /\ reply.nodes[i].rqtime = 0 => location.age = reply.nodes[i].age

(* A status outranks an error of libcurl: a user the server has turned     *)
(* down, in a status line that is full, is told so although the connection *)
(* broke after that; and UNAUTHORIZED never has another reason once a user *)
(* name is found.                                                          *)
UnauthorizedIsTold ==
  pc = "done" /\ known =>
    /\ result = "UNAUTHORIZED" <=> status = 401
    /\ status = 401 <=> reply.status = 401 /\ reply.full

(* skyhookliteclient.h says of SERVER_UNAVAILABLE: "The server is          *)
(* unavailable."  It is the code for a server that did not answer.  But    *)
(* the status line of a proxy that grants a tunnel passes for the server's.*)
ServerUnavailableIsTold ==
  pc = "done" /\ phase = "over" /\ reply = NoReply
    => result = "SERVER_UNAVAILABLE"

(* The call implements the API, but for the ways it departs from the       *)
(* header in: see LocationApi.  It is not without any one of the four.     *)
Api == INSTANCE LocationApi WITH
  Departures <- {"other_radios", "failed_scan", "timeout", "unanswered"},
  beacons    <- scan # Empty,
  asked      <- phase # "idle",
  late       <- curl = "timed_out",
  answered   <- reply # NoReply,
  offered    <- {reply.nodes[i].pos : i \in 1..Len(reply.nodes)},
  position   <- location.pos

ImplementsApi == Api!Spec

(* SHLC_location returns, whatever the network and the server do.          *)
CallReturns == <>(pc = "done")
=============================================================================
