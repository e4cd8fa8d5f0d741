---------------------------- MODULE MCSlackQueue ----------------------------
(* A small instance of SlackQueue for TLC. *)
EXTENDS SlackQueue
CONSTANTS m1, m2
=============================================================================
