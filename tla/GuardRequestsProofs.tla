------------------------ MODULE GuardRequestsProofs ------------------------
(***************************************************************************)
(* Theorems about GuardRequests, for every value of its constants.         *)
(***************************************************************************)
EXTENDS GuardRequests, FiniteSetTheorems, TLAPS

-----------------------------------------------------------------------------
(* Type correctness *)

\* What a policy the file may hold is made of.
LEMMA PolicyFields ==
  ASSUME NEW p \in Policies
  PROVE  /\ p.minApprovals \in Nat
         /\ p.approvers \in SUBSET Users
         /\ p.personasRequired \in SUBSET Personas
         /\ p.timeoutSec \in Nat \ {0}
         /\ p.escalateBeforeSec \in Nat
  BY PoliciesAssumption DEF PolicyType

\* What the fixed terms of a record are made of.
LEMMA TermsFields ==
  ASSUME TypeOK, NEW r \in Requests
  PROVE  /\ terms[r].policy \in Policies
         /\ terms[r].created_at \in Nat
         /\ terms[r].lineage_id \in Nat
         /\ terms[r].escalate_min_approvals \in Nat
         /\ Required(r) \in SUBSET Personas
         /\ Allowed(r) \in SUBSET Users
         /\ ExpiresAt(r) \in Nat
         /\ EscalateAt(r) \in Int
<1>1. terms[r] \in TermsType
  BY DEF TypeOK
<1>2. /\ terms[r].policy \in Policies
      /\ terms[r].created_at \in Nat
      /\ terms[r].lineage_id \in Nat
      /\ terms[r].escalate_min_approvals \in Nat
  BY <1>1, RecordsAssumption DEF TermsType
<1>3. QED
  BY <1>2, PolicyFields DEF Required, Allowed, ExpiresAt, EscalateAt

\* The initial state is well typed.
LEMMA TypeInit == Init => TypeOK
<1> SUFFICES ASSUME Init PROVE TypeOK
  OBVIOUS
<1>1. (CHOOSE p \in Policies : TRUE) \in Policies
  BY PoliciesAssumption
<1>2. (CHOOSE v \in ParamValues : TRUE) \in ParamValues
  BY RecordsAssumption
<1>3. terms \in [Requests -> TermsType]
  BY <1>1, RecordsAssumption DEF Init, TermsType
<1>4. pass \in [Passes -> PassType]
  BY DEF Init, PassType, IdlePass
<1>5. redacted_params \in [Requests -> ParamValues]
  BY <1>2 DEF Init
<1>6. counters \in CounterType
  BY DEF Init, CounterType
<1>7. QED
  BY <1>3, <1>4, <1>5, <1>6 DEF Init, TypeOK, Open, Terminal, NoBucket

\* A newly stored record is well typed.
LEMMA TypeStore ==
  ASSUME TypeOK, NEW r \in Requests, NEW first \in Open, NEW params \in ParamValues,
         NEW lineage \in Nat, NEW m \in EscalateMins,
         Store(r, first, params, lineage, m)
  PROVE  TypeOK'
<1>1. policy.minApprovals \in Nat
  BY PolicyFields DEF TypeOK
<1>2. [policy |-> policy, created_at |-> clock, lineage_id |-> lineage,
       escalate_min_approvals |-> m] \in TermsType
  BY DEF TypeOK, TermsType
<1>3. terms' \in [Requests -> TermsType]
  BY <1>2 DEF TypeOK, Store
<1>4. min_approvals' \in [Requests -> Nat]
  BY <1>1 DEF TypeOK, Store
<1>5. status' \in [Requests -> {"none"} \cup Open \cup Terminal]
  BY DEF TypeOK, Store
<1>6. redacted_params' \in [Requests -> ParamValues]
  BY DEF TypeOK, Store
<1>7. QED
  BY <1>3, <1>4, <1>5, <1>6 DEF TypeOK, Store, clockVars, persona, reminders

\* A counter that is bumped keeps its type.
LEMMA TypeBump ==
  ASSUME TypeOK,
         NEW counter \in {"approvals_total", "denies_total", "expired_total",
                          "escalations_total"},
         Bump(counter)
  PROVE  counters' \in CounterType
<1>1. counters \in CounterType
  BY DEF TypeOK
<1>2. CASE counter = "approvals_total"
  BY <1>1, <1>2 DEF Bump, CounterType
<1>3. CASE counter = "denies_total"
  BY <1>1, <1>3 DEF Bump, CounterType
<1>4. CASE counter = "expired_total"
  BY <1>1, <1>4 DEF Bump, CounterType
<1>5. CASE counter = "escalations_total"
  BY <1>1, <1>5 DEF Bump, CounterType
<1>6. QED
  BY <1>2, <1>3, <1>4, <1>5

\* Deciding a request keeps the types of what it writes.
LEMMA TypeDecide ==
  ASSUME TypeOK, NEW r \in Requests, NEW outcome \in Terminal,
         NEW counter \in {"approvals_total", "denies_total", "expired_total",
                          "escalations_total"},
         NEW observed \in Nat,
         Decide(r, outcome, counter, observed)
  PROVE  /\ status' \in [Requests -> {"none"} \cup Open \cup Terminal]
         /\ decided_at' \in [Requests -> Nat]
         /\ counters' \in CounterType
         /\ latencies' \in [Requests -> Nat]
<1>1. status' \in [Requests -> {"none"} \cup Open \cup Terminal]
  BY DEF TypeOK, Decide
<1>2. decided_at' \in [Requests -> Nat]
  BY DEF TypeOK, Decide
<1>3. counters' \in CounterType
  BY TypeBump DEF Decide
<1>4. latencies' \in [Requests -> Nat]
  BY DEF TypeOK, Decide
<1>5. QED
  BY <1>1, <1>2, <1>3, <1>4

\* Only requests are announced.
LEMMA TypeBroadcast ==
  ASSUME TypeOK, NEW r \in Requests, Broadcast(r)
  PROVE  announced' \in SUBSET Requests
  BY DEF TypeOK, Broadcast

\* Recording an approval keeps the types of what it writes.
LEMMA TypeRecordApproval ==
  ASSUME TypeOK, NEW r \in Requests, NEW u \in Users, NEW observed \in Nat,
         RecordApproval(r, u, observed)
  PROVE  /\ approvals' \in [Requests -> Seq(Users)]
         /\ approvals_count' \in [Requests -> Nat]
         /\ status' \in [Requests -> {"none"} \cup Open \cup Terminal]
         /\ decided_at' \in [Requests -> Nat]
         /\ counters' \in CounterType
         /\ latencies' \in [Requests -> Nat]
         /\ announced' \in SUBSET Requests
<1>1. approvals[r] \in Seq(Users)
  BY DEF TypeOK
<1>2. /\ Append(approvals[r], u) \in Seq(Users)
      /\ Len(Append(approvals[r], u)) \in Nat
  BY <1>1
<1>3. approvals' \in [Requests -> Seq(Users)] /\ approvals_count' \in [Requests -> Nat]
  BY <1>2 DEF TypeOK, RecordApproval
<1>4. announced' \in SUBSET Requests
  BY TypeBroadcast DEF RecordApproval
<1>5. CASE Decide(r, "approved", "approvals_total", observed)
  BY <1>3, <1>4, <1>5, TypeDecide DEF Terminal
<1>6. CASE UNCHANGED <<status, decided_at, counters, latencies>>
  BY <1>3, <1>4, <1>6 DEF TypeOK
<1>7. QED
  BY <1>5, <1>6 DEF RecordApproval

\* What a pass writes about itself when it comes to a request, or ends, is well typed.
LEMMA TypePass ==
  ASSUME TypeOK, NEW p \in Passes
  PROVE  /\ pass[p] \in PassType
         /\ [pass EXCEPT ![p] = IdlePass] \in [Passes -> PassType]
         /\ [pass EXCEPT ![p].pc = "visit", ![p].at = 0] \in [Passes -> PassType]
         /\ pass[p].pc = "escalating" =>
              [pass EXCEPT ![p].pc = "refreshing"] \in [Passes -> PassType]
         /\ \A r \in Requests, pc \in {"escalating", "refreshing", "expiring"} :
              AwaitAt(p, r, pc) => pass' \in [Passes -> PassType]
<1>1. pass \in [Passes -> PassType]
  BY DEF TypeOK
<1>2. [pass EXCEPT ![p] = IdlePass] \in [Passes -> PassType]
  BY <1>1 DEF PassType, IdlePass
<1>3. /\ [pass EXCEPT ![p].pc = "visit", ![p].at = 0] \in [Passes -> PassType]
      /\ pass[p].pc = "escalating" =>
           [pass EXCEPT ![p].pc = "refreshing"] \in [Passes -> PassType]
  BY <1>1 DEF PassType
<1>4. ASSUME NEW r \in Requests, NEW pc \in {"escalating", "refreshing", "expiring"},
             AwaitAt(p, r, pc)
      PROVE  pass' \in [Passes -> PassType]
  <2>1. r \in Nat /\ {q \in pass[p].todo : q > r} \in SUBSET Requests
    BY <1>1, ConstantsAssumption DEF PassType, Requests
  <2>2. QED
    BY <1>1, <1>4, <2>1 DEF AwaitAt, PassType
<1>5. QED
  BY <1>1, <1>2, <1>3, <1>4

\* A remaining-time bucket is an integer.
LEMMA TypeBucket ==
  ASSUME TypeOK, NEW r \in Requests, NEW now \in Nat, SetBucket(r, now)
  PROVE  last_remaining_bucket' \in [Requests -> Int]
<1>1. BucketAt(r, now) \in Int
  BY TermsFields, ConstantsAssumption DEF BucketAt
<1>2. QED
  BY <1>1 DEF TypeOK, SetBucket

\* Every step of the service keeps the types.
LEMMA TypeStep == TypeOK /\ [Next]_vars => TypeOK'
<1> SUFFICES ASSUME TypeOK, [Next]_vars PROVE TypeOK'
  OBVIOUS
<1>1. ASSUME NEW r \in Requests, NEW params \in ParamValues, NEW m \in EscalateMins,
             Create(r, params, m)
      PROVE  TypeOK'
  BY <1>1, TypeStore DEF Create, FirstStatus, Open
<1>2. ASSUME NEW orig \in Requests, NEW r \in Requests, Rerequest(orig, r)
      PROVE  TypeOK'
  <2>1. LineageOf(orig) \in Nat
    BY TermsFields, ConstantsAssumption DEF LineageOf, Requests
  <2>2. redacted_params[orig] \in ParamValues /\ 0 \in EscalateMins
    BY RecordsAssumption DEF TypeOK
  <2>3. FirstStatus(Required(orig)) \in Open
    BY DEF FirstStatus, Open
  <2>4. QED
    BY <1>2, <2>1, <2>2, <2>3, TypeStore DEF Rerequest
<1>3. CASE ReloadPolicy
  BY <1>3 DEF ReloadPolicy, TypeOK, decision, tally, persona, reminders
<1>4. ASSUME NEW r \in Requests, NEW p \in Personas, PersonaAck(r, p)
      PROVE  TypeOK'
  BY <1>4 DEF PersonaAck, TypeOK, clockVars, decision, tally, reminders
<1>5. ASSUME NEW r \in Requests, NEW p \in Personas, PersonaSettle(r, p)
      PROVE  TypeOK'
  BY <1>5, TypeBroadcast DEF PersonaSettle, TypeOK, clockVars, tally, reminders, Open
<1>6. ASSUME NEW r \in Requests, NEW u \in Users, Approve(r, u)
      PROVE  TypeOK'
  BY <1>6, TypeRecordApproval DEF Approve, TypeOK, clockVars, persona, reminders
<1>7. ASSUME NEW r \in Requests, NEW u \in Users, Deny(r, u)
      PROVE  TypeOK'
  BY <1>7, TypeDecide, TypeBroadcast
  DEF Deny, TypeOK, clockVars, tally, persona, reminders, Terminal
<1>8. ASSUME NEW r \in Requests, NEW u \in Users, NEW params \in ParamValues,
             OverrideSubmit(r, u, params)
      PROVE  TypeOK'
  <2>1. redacted_params' \in [Requests -> ParamValues]
    BY <1>8 DEF OverrideSubmit, TypeOK
  <2>2. CASE RecordApproval(r, u, 1)
    BY <1>8, <2>1, <2>2, TypeRecordApproval
    DEF OverrideSubmit, TypeOK, clockVars, persona, reminders
  <2>3. CASE UNCHANGED <<decision, approvals, approvals_count>>
    BY <1>8, <2>1, <2>3
    DEF OverrideSubmit, TypeOK, clockVars, decision, persona, reminders
  <2>4. QED
    BY <1>8, <2>2, <2>3 DEF OverrideSubmit
<1>9. ASSUME NEW p \in Passes, PassStep(p)
      PROVE  TypeOK'
  <2>1. CASE PassStart(p)
    <3>1. [pc |-> "visit", now |-> clock,
           todo |-> {r \in Requests : IsOpen(r)}, at |-> 0] \in PassType
      BY DEF TypeOK, PassType
    <3>2. pass' \in [Passes -> PassType]
      BY <2>1, <3>1 DEF PassStart, TypeOK
    <3>3. QED
      BY <2>1, <3>2
      DEF PassStart, TypeOK, clockVars, decision, tally, persona, reminders
  <2>2. ASSUME NEW r \in Requests, Escalate(p, r)
        PROVE  TypeOK'
    <3>1. RaisedMin(r) \in Nat
      BY TermsFields DEF RaisedMin, TypeOK
    <3>2. counters' \in CounterType
      BY <2>2, TypeBump DEF Escalate
    <3>3. pass' \in [Passes -> PassType]
      BY <2>2, TypePass DEF Escalate
    <3>4. /\ min_approvals' \in [Requests -> Nat]
          /\ escalation_fired' \in [Requests -> BOOLEAN]
      BY <2>2, <3>1 DEF Escalate, TypeOK
    <3>5. QED
      BY <2>2, <3>2, <3>3, <3>4 DEF Escalate, TypeOK, clockVars, persona
  <2>3. ASSUME NEW r \in Requests, Refresh(p, r)
        PROVE  TypeOK'
    <3>1. pass[p].now \in Nat
      BY TypePass DEF PassType
    <3>2. last_remaining_bucket' \in [Requests -> Int] /\ pass' \in [Passes -> PassType]
      BY <2>3, <3>1, TypeBucket, TypePass DEF Refresh
    <3>3. QED
      BY <2>3, <3>2 DEF Refresh, TypeOK, clockVars, decision, tally, persona
  <2>4. ASSUME NEW r \in Requests, Expire(p, r)
        PROVE  TypeOK'
    <3>1. pass' \in [Passes -> PassType]
      BY <2>4, TypePass DEF Expire
    <3>2. QED
      BY <2>4, <3>1, TypeDecide
      DEF Expire, TypeOK, clockVars, tally, persona, reminders, Terminal
  <2>5. CASE EscalationPosted(p)
    <3>1. pass[p].now \in Nat
      BY TypePass DEF PassType
    <3>2. pass' \in [Passes -> PassType]
      BY <2>5, TypePass DEF EscalationPosted
    <3>3. pass[p].at \in Requests
      BY <2>5, TypePass DEF EscalationPosted, PassType
    <3>4. last_remaining_bucket' \in [Requests -> Int]
      BY <2>5, <3>1, <3>3, TypeBucket DEF EscalationPosted, TypeOK
    <3>5. announced' \in SUBSET Requests
      BY <2>5, <3>3, TypeBroadcast DEF EscalationPosted
    <3>6. QED
      BY <2>5, <3>2, <3>4, <3>5 DEF EscalationPosted, TypeOK, clockVars, tally, persona
  <2>6. CASE SlackUpdated(p)
    <3>1. pass' \in [Passes -> PassType]
      BY <2>6, TypePass DEF SlackUpdated
    <3>2. pass[p].pc = "expiring" => pass[p].at \in Requests
      BY TypePass DEF PassType
    <3>3. announced' \in SUBSET Requests
      BY <2>6, <3>2, TypeBroadcast DEF SlackUpdated, TypeOK
    <3>4. QED
      BY <2>6, <3>1, <3>3
      DEF SlackUpdated, TypeOK, clockVars, tally, persona, reminders
  <2>7. CASE SlackFailed(p) \/ PassEnd(p)
    <3>1. pass' \in [Passes -> PassType]
      BY <2>7, TypePass DEF SlackFailed, PassEnd
    <3>2. QED
      BY <2>7, <3>1
      DEF SlackFailed, PassEnd, TypeOK, clockVars, decision, tally, persona, reminders
  <2>8. QED
    BY <1>9, <2>1, <2>2, <2>3, <2>4, <2>5, <2>6, <2>7 DEF PassStep
<1>10. ASSUME Sweep
       PROVE  TypeOK'
  BY <1>10 DEF Sweep, TypeOK, clockVars, decision, tally, persona, reminders
<1>11. CASE Tick
  BY <1>11 DEF Tick, TypeOK, decision, tally, persona, reminders
<1>12. CASE UNCHANGED vars
  BY <1>12 DEF vars, TypeOK, clockVars, decision, tally, persona, reminders
<1>13. QED
  BY <1>1, <1>2, <1>3, <1>4, <1>5, <1>6, <1>7, <1>8, <1>9, <1>10, <1>11, <1>12 DEF Next

\* Every variable keeps its type, whatever the policies, the users, the bounds and the
\* number of overlapping passes.
THEOREM TypeCorrect == Spec => []TypeOK
<1>1. QED
  BY TypeInit, TypeStep, PTL DEF Spec

-----------------------------------------------------------------------------
(* The quorum *)

\* A list that names nobody twice names as many as it is long.
LEMMA DistinctCount ==
  ASSUME NEW S, NEW s \in Seq(S),
         \A i, j \in DOMAIN s : s[i] = s[j] => i = j
  PROVE  Cardinality({s[i] : i \in DOMAIN s}) = Len(s)
<1> DEFINE named == {s[i] : i \in DOMAIN s}
<1>1. Len(s) \in Nat /\ DOMAIN s = 1 .. Len(s)
  OBVIOUS
<1>2. IsFiniteSet(1 .. Len(s)) /\ Cardinality(1 .. Len(s)) = Len(s)
  BY <1>1, FS_Interval
<1>3. [i \in 1 .. Len(s) |-> s[i]] \in Bijection(1 .. Len(s), named)
  BY <1>1 DEF Bijection, Injection, Surjection, IsInjective
<1>4. ExistsBijection(1 .. Len(s), named)
  BY <1>3 DEF ExistsBijection
<1>5. QED
  BY <1>2, <1>4, FS_Bijection

\* What holds of the approvals of one request.
Tallied(r) ==
  /\ status[r] = "none" => approvals[r] = <<>>
  /\ Voters(r) \subseteq Allowed(r)
  /\ \A i, j \in DOMAIN approvals[r] : approvals[r][i] = approvals[r][j] => i = j
  /\ approvals_count[r] = Len(approvals[r])
  /\ status[r] = "approved" => Len(approvals[r]) >= min_approvals[r]
  /\ IsOpen(r) /\ approvals[r] # <<>> => Len(approvals[r]) < min_approvals[r]

QuorumInv == \A r \in Requests : Tallied(r)

\* A step that leaves the record of a request alone keeps what holds of it.
LEMMA TalliedFrame ==
  ASSUME NEW r \in Requests, Tallied(r),
         terms'[r] = terms[r], status'[r] = status[r], approvals'[r] = approvals[r],
         approvals_count'[r] = approvals_count[r], min_approvals'[r] = min_approvals[r]
  PROVE  Tallied(r)'
  BY DEF Tallied, Voters, Allowed, IsOpen

\* A new record has no approvals yet.
LEMMA TalliedStore ==
  ASSUME TypeOK, QuorumInv, NEW r \in Requests, NEW first \in Open, NEW params, NEW lineage,
         NEW m, Store(r, first, params, lineage, m)
  PROVE  QuorumInv'
<1> SUFFICES ASSUME NEW q \in Requests PROVE Tallied(q)'
  BY DEF QuorumInv
<1>1. CASE q = r
  <2>1. approvals'[q] = <<>> /\ approvals_count'[q] = 0
    BY <1>1 DEF Store, NextId, QuorumInv, Tallied
  <2>2. status'[q] = first
    BY <1>1 DEF Store, TypeOK
  <2>3. QED
    BY <2>1, <2>2 DEF Tallied, Voters, Open
<1>2. CASE q # r
  BY <1>2, TalliedFrame DEF Store, TypeOK, QuorumInv
<1>3. QED
  BY <1>1, <1>2

\* An approval by somebody new, which decides the request exactly when it makes the quorum.
LEMMA TalliedApproval ==
  ASSUME TypeOK, QuorumInv, NEW r \in Requests, NEW u \in Users, NEW observed \in Nat,
         Approvable(r, u), RecordApproval(r, u, observed), UNCHANGED <<terms, min_approvals>>
  PROVE  QuorumInv'
<1> SUFFICES ASSUME NEW q \in Requests PROVE Tallied(q)'
  BY DEF QuorumInv
<1> DEFINE list == Append(approvals[r], u)
<1>1. CASE q = r
  <2>1. approvals[r] \in Seq(Users) /\ min_approvals[r] \in Nat
    BY DEF TypeOK
  <2>2. approvals'[r] = list /\ approvals_count'[r] = Len(list)
    BY DEF RecordApproval, TypeOK
  <2>3. /\ Len(list) = Len(approvals[r]) + 1
        /\ DOMAIN list = 1 .. Len(approvals[r]) + 1
        /\ \A i \in 1 .. Len(approvals[r]) : list[i] = approvals[r][i]
        /\ list[Len(approvals[r]) + 1] = u
        /\ list # <<>>
    BY <2>1
  <2>4. /\ Voters(r) \subseteq Allowed(r)
        /\ \A i, j \in DOMAIN approvals[r] : approvals[r][i] = approvals[r][j] => i = j
    BY DEF QuorumInv, Tallied
  <2>5. \A i \in 1 .. Len(approvals[r]) : approvals[r][i] # u
    BY <2>1 DEF Approvable, Voters
  <2>6. \A i, j \in DOMAIN list : list[i] = list[j] => i = j
    BY <2>1, <2>3, <2>4, <2>5
  <2>7. Voters(r)' \subseteq Allowed(r)'
    BY <2>1, <2>2, <2>3, <2>4 DEF Voters, Allowed, Approvable
  <2>8. status'[r] = IF Len(list) >= min_approvals[r] THEN "approved" ELSE "ready_for_approval"
    BY DEF RecordApproval, Quorum, Decide, decision, Approvable, TypeOK
  <2>9. QED
    BY <1>1, <2>1, <2>2, <2>3, <2>6, <2>7, <2>8 DEF Tallied, IsOpen, Open
<1>2. CASE q # r
  BY <1>2, TalliedFrame DEF RecordApproval, Decide, decision, TypeOK, QuorumInv
<1>3. QED
  BY <1>1, <1>2

\* The approvals are in order initially.
LEMMA QuorumInit == Init => QuorumInv
  BY DEF Init, QuorumInv, Tallied, Voters, IsOpen, Open

\* Every step keeps the approvals in order.
LEMMA QuorumStep == TypeOK /\ QuorumInv /\ [Next]_vars => QuorumInv'
<1> SUFFICES ASSUME TypeOK, QuorumInv, [Next]_vars PROVE QuorumInv'
  OBVIOUS
<1> DEFINE record == <<terms, status, approvals, approvals_count, min_approvals>>
<1>1. ASSUME UNCHANGED record
      PROVE  QuorumInv'
  BY <1>1, TalliedFrame DEF QuorumInv
<1>2. ASSUME NEW r \in Requests, NEW params \in ParamValues, NEW m \in EscalateMins,
             Create(r, params, m)
      PROVE  QuorumInv'
  BY <1>2, TalliedStore DEF Create, FirstStatus, Open
<1>3. ASSUME NEW orig \in Requests, NEW r \in Requests, Rerequest(orig, r)
      PROVE  QuorumInv'
  <2>1. FirstStatus(Required(orig)) \in Open
    BY DEF FirstStatus, Open
  <2>2. QED
    BY <1>3, <2>1, TalliedStore DEF Rerequest
<1>4. CASE ReloadPolicy
  BY <1>4, <1>1 DEF ReloadPolicy, decision, tally
<1>5. ASSUME NEW r \in Requests, NEW p \in Personas, PersonaAck(r, p)
      PROVE  QuorumInv'
  BY <1>5, <1>1 DEF PersonaAck, decision, tally
<1>6. ASSUME NEW r \in Requests, NEW p \in Personas, PersonaSettle(r, p)
      PROVE  QuorumInv'
  <2>1. ASSUME NEW q \in Requests PROVE Tallied(q)'
    <3>1. Tallied(q)
      BY DEF QuorumInv
    <3>2. \/ status'[q] = status[q]
          \/ status[q] = "awaiting_personas" /\ status'[q] = "ready_for_approval"
      BY <1>6 DEF PersonaSettle, TypeOK
    <3>3. QED
      BY <1>6, <3>1, <3>2
      DEF PersonaSettle, tally, Tallied, Voters, Allowed, IsOpen, Open
  <2>2. QED
    BY <2>1 DEF QuorumInv
<1>7. ASSUME NEW r \in Requests, NEW u \in Users, Approve(r, u)
      PROVE  QuorumInv'
  BY <1>7, TalliedApproval DEF Approve
<1>8. ASSUME NEW r \in Requests, NEW outcome \in {"denied", "expired"},
             status' = [status EXCEPT ![r] = outcome],
             UNCHANGED <<terms, tally>>
      PROVE  QuorumInv'
  <2>1. ASSUME NEW q \in Requests PROVE Tallied(q)'
    <3>1. Tallied(q)
      BY DEF QuorumInv
    <3>2. status'[q] = status[q] \/ status'[q] \in {"denied", "expired"}
      BY <1>8 DEF TypeOK
    <3>3. QED
      BY <1>8, <3>1, <3>2 DEF tally, Tallied, Voters, Allowed, IsOpen, Open
  <2>2. QED
    BY <2>1 DEF QuorumInv
<1>9. ASSUME NEW r \in Requests, NEW u \in Users, Deny(r, u)
      PROVE  QuorumInv'
  BY <1>9, <1>8 DEF Deny, Decide
<1>10. ASSUME NEW r \in Requests, NEW u \in Users, NEW params \in ParamValues,
              OverrideSubmit(r, u, params)
       PROVE  QuorumInv'
  <2>1. CASE Approvable(r, u)
    BY <1>10, <2>1, TalliedApproval DEF OverrideSubmit
  <2>2. CASE ~Approvable(r, u)
    BY <1>10, <2>2, <1>1 DEF OverrideSubmit, decision
  <2>3. QED
    BY <2>1, <2>2
<1>11. ASSUME NEW p \in Passes, NEW r \in Requests, Escalate(p, r)
       PROVE  QuorumInv'
  <2>1. ASSUME NEW q \in Requests PROVE Tallied(q)'
    <3>1. Tallied(q) /\ Tallied(r)
      BY DEF QuorumInv
    <3>2. CASE q = r
      <4>1. IsOpen(r) /\ status[r] # "approved" /\ status[r] # "none"
        BY <1>11 DEF Escalate, EscalationDue, IsOpen, Open
      <4>2. min_approvals[r] \in Nat /\ approvals[r] \in Seq(Users)
        BY DEF TypeOK
      <4>3. RaisedMin(r) \in Nat /\ RaisedMin(r) >= min_approvals[r]
        BY <4>2, TermsFields DEF RaisedMin
      <4>4. min_approvals'[r] = RaisedMin(r)
        BY <1>11 DEF Escalate, TypeOK
      <4>5. Len(approvals[r]) \in Nat
        BY <4>2
      <4>6. QED
        BY <1>11, <3>1, <3>2, <4>1, <4>2, <4>3, <4>4, <4>5
        DEF Escalate, Tallied, Voters, Allowed, IsOpen
    <3>3. CASE q # r
      BY <1>11, <3>1, <3>3, TalliedFrame DEF Escalate, TypeOK
    <3>4. QED
      BY <3>2, <3>3
  <2>2. QED
    BY <2>1 DEF QuorumInv
<1>12. ASSUME NEW p \in Passes, NEW r \in Requests, Expire(p, r)
       PROVE  QuorumInv'
  BY <1>12, <1>8 DEF Expire, Decide
<1>13. ASSUME NEW p \in Passes, NEW r \in Requests, Refresh(p, r)
       PROVE  QuorumInv'
  BY <1>13, <1>1 DEF Refresh, decision, tally
<1>14. ASSUME NEW p \in Passes,
              \/ PassStart(p) \/ EscalationPosted(p) \/ SlackUpdated(p)
              \/ SlackFailed(p) \/ PassEnd(p)
       PROVE  QuorumInv'
  BY <1>14, <1>1
  DEF PassStart, EscalationPosted, SlackUpdated, SlackFailed, PassEnd, decision, tally
<1>15. ASSUME Sweep
       PROVE  QuorumInv'
  BY <1>15, <1>1 DEF Sweep, decision, tally
<1>16. CASE Tick \/ UNCHANGED vars
  BY <1>16, <1>1 DEF Tick, vars, decision, tally
<1>17. QED
  BY <1>2, <1>3, <1>4, <1>5, <1>6, <1>7, <1>9, <1>10, <1>11, <1>12, <1>13, <1>14, <1>15,
     <1>16
  DEF Next, PassStep

\* The approvals of every request are always in order.
LEMMA QuorumInvariant == Spec => [](TypeOK /\ QuorumInv)
<1>1. QED
  BY TypeInit, TypeStep, QuorumInit, QuorumStep, PTL DEF Spec

\* An approved request has min_approvals different approvers behind it.
THEOREM QuorumCorrect == Spec => []QuorumMet
<1>1. ASSUME TypeOK, QuorumInv
      PROVE  QuorumMet
  <2>1. SUFFICES ASSUME NEW r \in Requests, status[r] = "approved"
                 PROVE  Cardinality(Voters(r) \cap Allowed(r)) >= min_approvals[r]
    BY DEF QuorumMet
  <2>2. Tallied(r) /\ approvals[r] \in Seq(Users)
    BY <1>1 DEF TypeOK, QuorumInv
  <2>3. Voters(r) \cap Allowed(r) = Voters(r)
    BY <2>2 DEF Tallied
  <2>4. Cardinality(Voters(r)) = Len(approvals[r])
    BY <2>2, DistinctCount DEF Tallied, Voters
  <2>5. QED
    BY <2>1, <2>2, <2>3, <2>4 DEF Tallied
<1>2. QED
  BY <1>1, QuorumInvariant, PTL

\* No open request has reached its quorum.
THEOREM NobodyWaitsAtQuorum == Spec => []NoQuorumWaiting
<1>1. QuorumInv => NoQuorumWaiting
  BY DEF QuorumInv, Tallied, NoQuorumWaiting
<1>2. QED
  BY <1>1, QuorumInvariant, PTL

\* The approvals list names nobody twice and is what the counter says.
THEOREM ApprovalsCorrect == Spec => []ApprovalsConsistent
<1>1. QuorumInv => ApprovalsConsistent
  BY DEF QuorumInv, Tallied, ApprovalsConsistent
<1>2. QED
  BY <1>1, QuorumInvariant, PTL

-----------------------------------------------------------------------------
(* The persona gate.  A re-request takes its first status from the personas *)
(* of the original request and its personas from the policy in force, so    *)
(* the gate stands only as long as no reload turns a policy without         *)
(* personas into one with some, or back.                                    *)

PersonasAlike ==
  \A p, q \in Policies : p.personasRequired = {} => q.personasRequired = {}

\* What holds of the personas of one request.
Gated(r) ==
  /\ status[r] = "none" => acked[r] = {}
  /\ status[r] \in {"ready_for_approval", "approved"} => Required(r) \subseteq acked[r]
  /\ status[r] = "awaiting_personas" /\ Required(r) \subseteq acked[r] =>
       \E p \in Personas : <<r, p>> \in settling

PersonaInv == \A r \in Requests : Gated(r)

\* A step that changes nothing the gate looks at.
LEMMA GatedFrame ==
  ASSUME NEW r \in Requests, Gated(r),
         terms'[r] = terms[r], status'[r] = status[r], acked'[r] = acked[r],
         \A p \in Personas : <<r, p>> \in settling => <<r, p>> \in settling'
  PROVE  Gated(r)'
  BY DEF Gated, Required

\* A new record waits for its personas exactly when it has some.
LEMMA GatedStore ==
  ASSUME TypeOK, PersonaInv, NEW r \in Requests, NEW required,
         required = {} <=> policy.personasRequired = {},
         NEW params, NEW lineage, NEW m, Store(r, FirstStatus(required), params, lineage, m)
  PROVE  PersonaInv'
<1> SUFFICES ASSUME NEW q \in Requests PROVE Gated(q)'
  BY DEF PersonaInv
<1>1. CASE q = r
  <2>1. acked'[q] = {}
    BY <1>1 DEF Store, NextId, PersonaInv, Gated, persona
  <2>2. status'[q] = FirstStatus(required)
    BY <1>1 DEF Store, TypeOK
  <2>3. Required(q)' = policy.personasRequired
    BY <1>1 DEF Store, TypeOK, Required
  <2>4. QED
    BY <2>1, <2>2, <2>3 DEF Gated, FirstStatus
<1>2. CASE q # r
  BY <1>2, GatedFrame DEF Store, TypeOK, PersonaInv, persona
<1>3. QED
  BY <1>1, <1>2

\* Deciding a request keeps its gate.
LEMMA GatedDecision ==
  ASSUME TypeOK, PersonaInv, NEW r \in Requests, NEW outcome \in Terminal,
         outcome = "approved" => status[r] = "ready_for_approval",
         status' = [status EXCEPT ![r] = outcome], UNCHANGED <<terms, persona>>
  PROVE  PersonaInv'
<1> SUFFICES ASSUME NEW q \in Requests PROVE Gated(q)'
  BY DEF PersonaInv
<1>1. Gated(q)
  BY DEF PersonaInv
<1>2. CASE q = r
  BY <1>1, <1>2 DEF Gated, Required, persona, Terminal, TypeOK
<1>3. CASE q # r
  BY <1>1, <1>3, GatedFrame DEF TypeOK, persona
<1>4. QED
  BY <1>2, <1>3

\* So does recording an approval.
LEMMA GatedApproval ==
  ASSUME TypeOK, PersonaInv, NEW r \in Requests, NEW u \in Users, NEW observed,
         Approvable(r, u), RecordApproval(r, u, observed), UNCHANGED <<terms, persona>>
  PROVE  PersonaInv'
<1>1. CASE UNCHANGED status
  BY <1>1, GatedFrame DEF PersonaInv, persona
<1>2. CASE status' = [status EXCEPT ![r] = "approved"]
  BY <1>2, GatedDecision DEF Terminal, Approvable
<1>3. QED
  BY <1>1, <1>2 DEF RecordApproval, Decide, decision

\* No request exists initially.
LEMMA PersonaInit == Init => PersonaInv
  BY DEF Init, PersonaInv, Gated

\* Every step keeps the gate.
LEMMA PersonaStep ==
  ASSUME PersonasAlike
  PROVE  TypeOK /\ PersonaInv /\ [Next]_vars => PersonaInv'
<1> SUFFICES ASSUME TypeOK, PersonaInv, [Next]_vars PROVE PersonaInv'
  OBVIOUS
<1>1. ASSUME UNCHANGED <<terms, status, acked, settling>>
      PROVE  PersonaInv'
  BY <1>1, GatedFrame DEF PersonaInv
<1>2. ASSUME NEW r \in Requests, NEW params \in ParamValues, NEW m \in EscalateMins,
             Create(r, params, m)
      PROVE  PersonaInv'
  BY <1>2, GatedStore DEF Create
<1>3. ASSUME NEW orig \in Requests, NEW r \in Requests, Rerequest(orig, r)
      PROVE  PersonaInv'
  <2>1. terms[orig].policy \in Policies /\ policy \in Policies
    BY TermsFields DEF TypeOK
  <2>2. Required(orig) = {} <=> policy.personasRequired = {}
    BY <2>1 DEF PersonasAlike, Required
  <2>3. QED
    BY <1>3, <2>2, GatedStore DEF Rerequest
<1>4. ASSUME NEW r \in Requests, NEW p \in Personas, PersonaAck(r, p)
      PROVE  PersonaInv'
  <2>1. ASSUME NEW q \in Requests PROVE Gated(q)'
    <3>1. Gated(q)
      BY DEF PersonaInv
    <3>2. CASE q = r
      <4>1. /\ status[r] # "none" /\ status'[r] = status[r] /\ Required(r)' = Required(r)
            /\ acked[r] \subseteq acked'[r] /\ <<r, p>> \in settling'
        BY <1>4 DEF PersonaAck, Exists, decision, Required, TypeOK
      <4>2. QED
        BY <3>1, <3>2, <4>1 DEF Gated
    <3>3. CASE q # r
      BY <1>4, <3>1, <3>3, GatedFrame DEF PersonaAck, decision, TypeOK
    <3>4. QED
      BY <3>2, <3>3
  <2>2. QED
    BY <2>1 DEF PersonaInv
<1>5. ASSUME NEW r \in Requests, NEW p \in Personas, PersonaSettle(r, p)
      PROVE  PersonaInv'
  <2>1. ASSUME NEW q \in Requests PROVE Gated(q)'
    <3>1. Gated(q)
      BY DEF PersonaInv
    <3>2. CASE q = r
      <4>1. /\ Required(r)' = Required(r) /\ acked'[r] = acked[r]
            /\ status'[r] = IF status[r] = "awaiting_personas" /\ Required(r) \subseteq acked[r]
                            THEN "ready_for_approval" ELSE status[r]
        BY <1>5 DEF PersonaSettle, Required, TypeOK
      <4>2. QED
        BY <3>1, <3>2, <4>1 DEF Gated
    <3>3. CASE q # r
      BY <1>5, <3>1, <3>3, GatedFrame DEF PersonaSettle, TypeOK
    <3>4. QED
      BY <3>2, <3>3
  <2>2. QED
    BY <2>1 DEF PersonaInv
<1>6. ASSUME NEW r \in Requests, NEW u \in Users, Approve(r, u)
      PROVE  PersonaInv'
  BY <1>6, GatedApproval DEF Approve
<1>7. ASSUME NEW r \in Requests, NEW u \in Users, Deny(r, u)
      PROVE  PersonaInv'
  BY <1>7, GatedDecision DEF Deny, Decide, Terminal
<1>8. ASSUME NEW r \in Requests, NEW u \in Users, NEW params \in ParamValues,
             OverrideSubmit(r, u, params)
      PROVE  PersonaInv'
  <2>1. CASE Approvable(r, u)
    BY <1>8, <2>1, GatedApproval DEF OverrideSubmit
  <2>2. CASE ~Approvable(r, u)
    BY <1>1, <1>8, <2>2 DEF OverrideSubmit, decision, persona
  <2>3. QED
    BY <2>1, <2>2
<1>9. ASSUME NEW p \in Passes, NEW r \in Requests, Expire(p, r)
      PROVE  PersonaInv'
  BY <1>9, GatedDecision DEF Expire, Decide, Terminal
<1>10. ASSUME NEW p \in Passes,
              \/ \E r \in Requests : Escalate(p, r) \/ Refresh(p, r)
              \/ PassStart(p) \/ EscalationPosted(p) \/ SlackUpdated(p)
              \/ SlackFailed(p) \/ PassEnd(p)
       PROVE  PersonaInv'
  BY <1>1, <1>10
  DEF Escalate, Refresh, PassStart, EscalationPosted, SlackUpdated, SlackFailed, PassEnd,
      decision, persona
<1>11. ASSUME Sweep
       PROVE  PersonaInv'
  BY <1>1, <1>11 DEF Sweep, decision, persona
<1>12. CASE ReloadPolicy \/ Tick \/ UNCHANGED vars
  BY <1>1, <1>12 DEF ReloadPolicy, Tick, vars, decision, persona
<1>13. QED
  BY <1>2, <1>3, <1>4, <1>5, <1>6, <1>7, <1>8, <1>9, <1>10, <1>11, <1>12 DEF Next, PassStep

\* The personas of every request are always in order.
LEMMA PersonaInvariant ==
  ASSUME PersonasAlike
  PROVE  Spec => [](TypeOK /\ PersonaInv)
<1>1. TypeOK /\ PersonaInv /\ [Next]_vars => PersonaInv'
  BY PersonaStep
<1>2. QED
  BY <1>1, TypeInit, TypeStep, PersonaInit, PTL DEF Spec

\* Under policies that all ask for personas, or none does, no request opens for approval, or
\* is approved, without the acknowledgement of every persona it requires.
THEOREM PersonaGateStands ==
  ASSUME PersonasAlike
  PROVE  Spec => []PersonaGate
<1>1. PersonaInv => PersonaGate
  BY DEF PersonaInv, Gated, PersonaGate
<1>2. QED
  BY <1>1, PersonaInvariant, PTL

\* Under the same policies a request whose personas have all acknowledged has a handler under
\* way that opens it.
THEOREM NobodyStranded ==
  ASSUME PersonasAlike
  PROVE  Spec => []NotStranded
<1>1. PersonaInv => NotStranded
  BY DEF PersonaInv, Gated, NotStranded
<1>2. QED
  BY <1>1, PersonaInvariant, PTL
=============================================================================
