-------------------------- MODULE MCGuardRequests --------------------------
(* Small instances of GuardRequests for TLC. *)
EXTENDS GuardRequests, TLC

CONSTANTS u1, u2, u3, outsider, p1, p2, v1, v2, s1, s2

Team == {u1, u2, u3}

Policy(min, personas, timeout, before, escalated, overrides) ==
  [minApprovals |-> min, approvers |-> Team \cap Users,
   personasRequired |-> personas \cap Personas, timeoutSec |-> timeout,
   escalateBeforeSec |-> before, escalateMinApprovals |-> escalated,
   overrides |-> overrides, allowReRequest |-> TRUE, reRequestCooldownSec |-> 1]

\* One request at a time: a quorum of two with overrides and an escalation, two personas
\* before a single approval, and a policy whose escalation section is refused.
DecisionPolicies ==
  {Policy(2, {}, 3, 2, 0, TRUE), Policy(1, {p1, p2}, 3, 1, 0, FALSE),
   Policy(1, {}, 2, 2, 0, FALSE)}

\* Two requests that scheduler passes escalate, refresh and expire, of a policy that asks for
\* more approvals than it has approvers: they can only be denied or expire.
PassPolicies == {[Policy(2, {}, 2, 1, 0, FALSE) EXCEPT !.allowReRequest = FALSE]}

\* One policy with a persona, for lineages of re-requests.
LineagePolicies == {Policy(1, {p1}, 3, 0, 0, FALSE)}

\* The policy file gains a required persona while requests are about.
ReloadedPolicies == {Policy(1, {}, 3, 0, 0, FALSE), Policy(1, {p1}, 3, 0, 0, FALSE)}

\* A single approval that may come with overrides.
OverridePolicies == {Policy(1, {}, 3, 0, 0, TRUE), Policy(2, {p1}, 3, 1, 0, TRUE)}

\* Approvers are alike, and so are the personas; a policy names all of them or none.
Symmetry == Permutations(Team) \cup Permutations({p1, p2})
=============================================================================
