----------------------------- MODULE MCWifiScan -----------------------------
(* One call of SHLC_location with one access point, in range or not, and   *)
(* one scan started by another program.  The module of the proofs is       *)
(* extended so that their inductive invariants can be checked here too.    *)
EXTENDS WifiScanProofs
=============================================================================
