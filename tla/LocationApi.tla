---------------------------- MODULE LocationApi ----------------------------
(***************************************************************************)
(* What skyhookliteclient.h promises of SHLC_location: one return code,    *)
(* which says truly how far the call came, and with SHLC_OK a location     *)
(* that the server has offered for what the radios have heard.             *)
(*                                                                         *)
(* With no departures this is what the header says.  The code departs from *)
(* it in the ways that can be named in Departures, each of which allows a  *)
(* return code the header does not:                                        *)
(*   "other_radios"  RADIO_NOT_AVAILABLE though other radios are there     *)
(*   "failed_scan"   RADIO_NOT_AVAILABLE for a scan that failed            *)
(*   "timeout"       other codes than TIMEOUT for a network that timed out *)
(*   "unanswered"    LOCATION_CANNOT_BE_DETERMINED without an answer       *)
(***************************************************************************)
EXTENDS Naturals

CONSTANTS
  Positions,   \* what a location can say
  Departures   \* how the promise is departed from

VARIABLES
  radios,     \* the radio adapters that were detected
  beacons,    \* something was heard that a location can be asked for
  asked,      \* the server may have been asked
  late,       \* the network operation has timed out
  answered,   \* the server has answered
  offered,    \* the positions it has offered
  result,     \* the return code, "none" before the return
  position    \* the position returned, a set of one or none

vars == <<radios, beacons, asked, late, answered, offered, result, position>>

Init ==
  /\ radios = {} /\ beacons = FALSE
  /\ asked = FALSE /\ late = FALSE /\ answered = FALSE
  /\ offered = {}
  /\ result = "none"
  /\ position = {}

Detect ==
  /\ result = "none" /\ ~asked /\ ~beacons
  /\ \E found \in SUBSET {"wifi", "cell", "gps"} :
       radios' = radios \union found
  /\ UNCHANGED <<beacons, asked, late, answered, offered, result, position>>

(* No radio, no beacons.                                                   *)
Hear ==
  /\ result = "none" /\ ~asked /\ radios # {}
  /\ beacons' = TRUE
  /\ UNCHANGED <<radios, asked, late, answered, offered, result, position>>

(* Nobody is asked about nothing.                                          *)
Ask ==
  /\ result = "none" /\ ~asked /\ beacons
  /\ asked' = TRUE
  /\ UNCHANGED <<radios, beacons, late, answered, offered, result, position>>

Offer ==
  /\ result = "none" /\ asked /\ ~late /\ ~answered
  /\ answered' = TRUE
  /\ offered' \in SUBSET Positions
  /\ UNCHANGED <<radios, beacons, asked, late, result, position>>

TimeOut ==
  /\ result = "none" /\ asked
  /\ late' = TRUE
  /\ UNCHANGED <<radios, beacons, asked, answered, offered, result, position>>

(* "No radio adapters were detected."                                      *)
Unavailable ==
  \/ radios = {}
  \/ "other_radios" \in Departures /\ "wifi" \notin radios
  \/ "failed_scan" \in Departures /\ "wifi" \in radios /\ ~beacons

(* The call ends before the server is asked: there are no radios, there is *)
(* no user, nothing is heard, or it is "some other error".                 *)
Refuse ==
  /\ result = "none" /\ ~asked
  /\ \/ Unavailable /\ result' = "RADIO_NOT_AVAILABLE"
     \/ ~beacons /\ result' = "NO_BEACONS_IN_RANGE"
     \/ result' \in {"UNAUTHORIZED", "ERROR"}
  /\ UNCHANGED <<radios, beacons, asked, late, answered, offered, position>>

(* The server has been asked in vain.  A network operation that has timed  *)
(* out is told as such, unless the server has turned the user down before. *)
Fail ==
  /\ result = "none" /\ asked
  /\ \/ late /\ result' = "TIMEOUT"
     \/ answered /\ result' = "UNAUTHORIZED"
     \/ /\ late => "timeout" \in Departures
        /\ \/ result' \in {"SERVER_UNAVAILABLE", "ERROR"}
           \/ /\ answered \/ "unanswered" \in Departures
              /\ result' = "LOCATION_CANNOT_BE_DETERMINED"
  /\ UNCHANGED <<radios, beacons, asked, late, answered, offered, position>>

Locate ==
  /\ result = "none" /\ asked
  /\ \E p \in offered : position' = {p}
  /\ result' = "OK"
  /\ UNCHANGED <<radios, beacons, asked, late, answered, offered>>

Next ==
  Detect \/ Hear \/ Ask \/ Offer \/ TimeOut \/ Refuse \/ Fail \/ Locate

Spec == Init /\ [][Next]_vars
=============================================================================
