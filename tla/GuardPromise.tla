---------------------------- MODULE GuardPromise ----------------------------
(***************************************************************************)
(* What the approval service promises whoever waits on a request, with     *)
(* nothing of how it keeps the promise: a request is open until it is      *)
(* decided, it is decided at most once, it is approved by the vote that    *)
(* brings the number of different voters to the quorum and by nothing      *)
(* else, and a decision is never revised, only forgotten.                  *)
(***************************************************************************)
EXTENDS Naturals, FiniteSets

CONSTANTS Requests, Users

VARIABLES
  phase,    \* "none", "open", "approved", "denied", "expired", "gone"
  votes,    \* the users who approved
  quorum    \* the number of votes the request still has to reach

vars == <<phase, votes, quorum>>

Decided == {"approved", "denied", "expired"}

Init ==
  /\ phase = [r \in Requests |-> "none"]
  /\ votes = [r \in Requests |-> {}]
  /\ quorum = [r \in Requests |-> 0]

Ask(r) ==
  /\ phase[r] = "none"
  /\ phase' = [phase EXCEPT ![r] = "open"]
  /\ quorum'[r] \in Nat
  /\ quorum' = [quorum EXCEPT ![r] = quorum'[r]]
  /\ UNCHANGED votes

Vote(r, u) ==
  /\ phase[r] = "open"
  /\ u \notin votes[r]
  /\ votes' = [votes EXCEPT ![r] = @ \cup {u}]
  /\ phase' = IF Cardinality(votes[r] \cup {u}) >= quorum[r]
              THEN [phase EXCEPT ![r] = "approved"] ELSE phase
  /\ UNCHANGED quorum

Reject(r) ==
  /\ phase[r] = "open"
  /\ \/ phase' = [phase EXCEPT ![r] = "denied"]
     \/ phase' = [phase EXCEPT ![r] = "expired"]
  /\ UNCHANGED <<votes, quorum>>

\* An open request may come to need more votes, never fewer.
Raise(r) ==
  /\ phase[r] = "open"
  /\ quorum'[r] \in Nat
  /\ quorum'[r] > quorum[r]
  /\ quorum' = [quorum EXCEPT ![r] = quorum'[r]]
  /\ UNCHANGED <<phase, votes>>

Forget(rs) ==
  /\ \A r \in rs : phase[r] \in Decided
  /\ phase' = [r \in Requests |-> IF r \in rs THEN "gone" ELSE phase[r]]
  /\ UNCHANGED <<votes, quorum>>

Next ==
  \/ \E r \in Requests : Ask(r) \/ Reject(r) \/ Raise(r)
  \/ \E r \in Requests, u \in Users : Vote(r, u)
  \/ \E rs \in SUBSET Requests : Forget(rs)

Spec == Init /\ [][Next]_vars
=============================================================================
