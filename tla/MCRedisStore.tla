---------------------------- MODULE MCRedisStore ----------------------------
(* Small instances of RedisStore for TLC. *)
EXTENDS RedisStore, TLC

CONSTANTS u1, u2, p1, p2, pod1

\* Neither approvers nor personas are told apart by the model.
Symmetry == Permutations(Users) \cup Permutations(Personas)
=============================================================================
