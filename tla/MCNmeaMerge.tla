----------------------------- MODULE MCNmeaMerge ----------------------------
EXTENDS NmeaMerge

(* The receivers of the tests: a plain one, the Samsung i780 with a newer  *)
(* RMC, and one that leaves out what it can.                               *)
MCDialects ==
  {[gsa1 |-> FALSE, rmc1 |-> FALSE, padded |-> TRUE, gll |-> TRUE, time |-> 9],
   [gsa1 |-> TRUE, rmc1 |-> TRUE, padded |-> FALSE, gll |-> FALSE, time |-> 10],
   [gsa1 |-> FALSE, rmc1 |-> TRUE, padded |-> FALSE, gll |-> TRUE, time |-> 6]}

MCJunk == {0, 250}
=============================================================================
