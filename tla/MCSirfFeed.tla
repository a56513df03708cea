----------------------------- MODULE MCSirfFeed -----------------------------
(* A receiver that has a fix or none and hears one satellite or two.  The  *)
(* bytes of the header are small numbers, so that a false length reaches   *)
(* into the messages that follow, as 160 does among real ones of 99 bytes. *)
EXTENDS SirfFeed

MCPayloads == {<<41, 0>>, <<41, 1>>, <<4, 1, 2>>}
=============================================================================
