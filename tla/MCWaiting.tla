----------------------------- MODULE MCWaiting ------------------------------
(* Small instances of Waiting for TLC. *)
EXTENDS Waiting

CONSTANTS c1, c2, a1
=============================================================================
