-------------------------- MODULE GuardCountProofs --------------------------
(***************************************************************************)
(* Theorems about what GuardRequests counts: the metrics agree with the    *)
(* records, and a lineage of re-requests keeps to its limit.               *)
(***************************************************************************)
EXTENDS GuardDecisionProofs

-----------------------------------------------------------------------------
(* Counting requests *)

\* Requests can be counted, and one more is one more.
LEMMA RequestsCounted ==
  ASSUME NEW S \in SUBSET Requests
  PROVE  /\ IsFiniteSet(S)
         /\ Cardinality(S) \in Nat
         /\ \A r \in Requests \ S : Cardinality(S \cup {r}) = Cardinality(S) + 1
<1>1. IsFiniteSet(Requests)
  BY FS_Interval, ConstantsAssumption DEF Requests
<1>2. IsFiniteSet(S)
  BY <1>1, FS_Subset
<1>3. QED
  BY <1>2, FS_CardinalityType, FS_AddElement

-----------------------------------------------------------------------------
(* The counters *)

With(s) == {q \in Requests : status[q] = s}
Fired   == {q \in Requests : escalation_fired[q]}

\* CountersAgree, with the part about one counter of decisions by name.
Counted(name, s) == counters[name] = Cardinality(With(s))

CountersInParts ==
  /\ Counted("denies_total", "denied")
  /\ Counted("expired_total", "expired")
  /\ counters.escalations_total = Cardinality(Fired)
  /\ \A r \in Requests : latencies[r] > 0 <=> status[r] \in Terminal

LEMMA CountersParts ==
  (CountersAgree <=> CountersInParts) /\ (CountersAgree' <=> CountersInParts')
BY DEF CountersAgree, CountersInParts, Counted, With, Fired

\* What neither decides nor escalates leaves every count alone.
LEMMA CountersFrame ==
  ASSUME CountersAgree, UNCHANGED <<counters, latencies, escalation_fired>>,
         \A q \in Requests : status'[q] = status[q] \/ {status[q], status'[q]} \cap Terminal = {}
  PROVE  CountersAgree'
<1>1. \A s \in Terminal : With(s)' = With(s)
  BY DEF With
<1>2. /\ With("approved")' = With("approved")
      /\ With("denied")' = With("denied")
      /\ With("expired")' = With("expired")
  BY <1>1 DEF Terminal
<1>3. Fired' = Fired
  BY DEF Fired
<1>4. \A r \in Requests : status'[r] \in Terminal <=> status[r] \in Terminal
  OBVIOUS
<1>5. \A r \in Requests : latencies'[r] > 0 <=> status'[r] \in Terminal
  BY <1>4, CountersParts DEF CountersInParts
<1> QED
  BY <1>2, <1>3, <1>5, CountersParts DEF CountersInParts, Counted

\* The counter that goes with a decision.
Tally(outcome, counter) ==
  <<outcome, counter>> \in {<<"approved", "approvals_total">>, <<"denied", "denies_total">>,
                            <<"expired", "expired_total">>}

\* A decision on an open request adds one to its own counter, and to no other, and is observed.
LEMMA CountersDecide ==
  ASSUME TypeOK, CountersAgree, NEW r \in Requests, IsOpen(r),
         NEW outcome, NEW counter, Tally(outcome, counter), NEW observed \in Nat \ {0},
         Decide(r, outcome, counter, observed), UNCHANGED escalation_fired
  PROVE  CountersAgree'
<1>1. /\ outcome \in Terminal
      /\ status' = [status EXCEPT ![r] = outcome]
      /\ counters' = [counters EXCEPT ![counter] = @ + 1]
      /\ latencies' = [latencies EXCEPT ![r] = @ + observed]
  BY DEF Decide, Bump, Tally, Terminal
<1>2. /\ status \in [Requests -> {"none"} \cup Open \cup Terminal]
      /\ latencies \in [Requests -> Nat]
      /\ counters \in CounterType
  BY DEF TypeOK
<1>3. status[r] \notin Terminal
  BY DEF IsOpen, Open, Terminal
<1>4. With(outcome)' = With(outcome) \cup {r} /\ r \notin With(outcome)
  BY <1>1, <1>2, <1>3 DEF With
<1>5. \A s \in Terminal \ {outcome} : With(s)' = With(s)
  BY <1>1, <1>2, <1>3 DEF With
<1>6. Cardinality(With(outcome)') = Cardinality(With(outcome)) + 1
  BY <1>4, RequestsCounted DEF With
<1>7. Fired' = Fired
  BY DEF Fired
<1>8. \A q \in Requests : latencies'[q] > 0 <=> status'[q] \in Terminal
  BY <1>1, <1>2, CountersParts DEF CountersInParts
<1>9. CASE outcome = "approved" /\ counter = "approvals_total"
  BY <1>1, <1>2, <1>5, <1>6, <1>7, <1>8, <1>9, CountersParts
  DEF CountersInParts, Counted, CounterType, Terminal
<1>10. CASE outcome = "denied" /\ counter = "denies_total"
  BY <1>1, <1>2, <1>5, <1>6, <1>7, <1>8, <1>10, CountersParts
  DEF CountersInParts, Counted, CounterType, Terminal
<1>11. CASE outcome = "expired" /\ counter = "expired_total"
  BY <1>1, <1>2, <1>5, <1>6, <1>7, <1>8, <1>11, CountersParts
  DEF CountersInParts, Counted, CounterType, Terminal
<1> QED
  BY <1>9, <1>10, <1>11 DEF Tally

\* An approval either leaves the request open or decides it.
LEMMA CountersApproval ==
  ASSUME TypeOK, CountersAgree, NEW r \in Requests, NEW u \in Users,
         NEW observed \in Nat \ {0}, Approvable(r, u), RecordApproval(r, u, observed),
         UNCHANGED escalation_fired
  PROVE  CountersAgree'
<1>1. IsOpen(r)
  BY DEF Approvable, IsOpen, Open
<1>2. CASE Decide(r, "approved", "approvals_total", observed)
  BY <1>1, <1>2, CountersDecide DEF Tally
<1>3. CASE UNCHANGED <<status, decided_at, counters, latencies>>
  BY <1>3, CountersFrame
<1> QED
  BY <1>2, <1>3 DEF RecordApproval

\* An escalation adds one to its counter, once for a request.
LEMMA CountersEscalate ==
  ASSUME TypeOK, CountersAgree, NEW p \in Passes, NEW r \in Requests, Escalate(p, r)
  PROVE  CountersAgree'
<1>1. /\ ~escalation_fired[r]
      /\ escalation_fired' = [escalation_fired EXCEPT ![r] = TRUE]
      /\ counters' = [counters EXCEPT !["escalations_total"] = @ + 1]
      /\ UNCHANGED <<status, latencies>>
  BY DEF Escalate, EscalationDue, Bump
<1>2. escalation_fired \in [Requests -> BOOLEAN] /\ counters \in CounterType
  BY DEF TypeOK
<1>3. Fired' = Fired \cup {r} /\ r \notin Fired
  BY <1>1, <1>2 DEF Fired
<1>4. Cardinality(Fired') = Cardinality(Fired) + 1
  BY <1>3, RequestsCounted DEF Fired
<1>5. \A s \in Terminal : With(s)' = With(s)
  BY <1>1 DEF With
<1> QED
  BY <1>1, <1>2, <1>4, <1>5, CountersParts DEF CountersInParts, Counted, CounterType, Terminal

\* Every step keeps the counters in agreement.
LEMMA CountersStep == TypeOK /\ CountersAgree /\ [Next]_vars => CountersAgree'
<1> SUFFICES ASSUME TypeOK, CountersAgree, [Next]_vars PROVE CountersAgree'
  OBVIOUS
<1>1. ASSUME NEW r \in Requests, NEW first \in Open, NEW params, NEW lineage, NEW m,
             Store(r, first, params, lineage, m)
      PROVE  CountersAgree'
  <2>1. \A q \in Requests : status'[q] = status[q] \/ {status[q], status'[q]} \cap Terminal = {}
    BY <1>1 DEF Store, NextId, TypeOK, Open, Terminal
  <2> QED
    BY <1>1, <2>1, CountersFrame DEF Store, reminders
<1>2. ASSUME NEW r \in Requests, NEW params \in ParamValues, NEW m \in EscalateMins,
             Create(r, params, m)
      PROVE  CountersAgree'
  BY <1>1, <1>2 DEF Create, FirstStatus, Open
<1>3. ASSUME NEW orig \in Requests, NEW r \in Requests, Rerequest(orig, r)
      PROVE  CountersAgree'
  <2>1. FirstStatus(Required(orig)) \in Open
    BY DEF FirstStatus, Open
  <2> QED
    BY <1>1, <1>3, <2>1 DEF Rerequest
<1>4. ASSUME NEW r \in Requests, NEW p \in Personas, PersonaSettle(r, p)
      PROVE  CountersAgree'
  <2>1. \A q \in Requests : status'[q] = status[q] \/ {status[q], status'[q]} \cap Terminal = {}
    BY <1>4 DEF PersonaSettle, TypeOK, Terminal
  <2> QED
    BY <1>4, <2>1, CountersFrame DEF PersonaSettle, reminders
<1>5. ASSUME NEW r \in Requests, NEW u \in Users, Approve(r, u)
      PROVE  CountersAgree'
  BY <1>5, CountersApproval DEF Approve, reminders
<1>6. ASSUME NEW r \in Requests, NEW u \in Users, Deny(r, u)
      PROVE  CountersAgree'
  <2>1. status[r] \in {"none"} \cup Open \cup Terminal
    BY DEF TypeOK
  <2>2. IsOpen(r)
    BY <1>6, <2>1 DEF Deny, Deniable, Exists, IsOpen
  <2> QED
    BY <1>6, <2>2, CountersDecide DEF Deny, reminders, Tally
<1>7. ASSUME NEW r \in Requests, NEW u \in Users, NEW params \in ParamValues,
             OverrideSubmit(r, u, params)
      PROVE  CountersAgree'
  <2>1. CASE Approvable(r, u)
    BY <1>7, <2>1, CountersApproval DEF OverrideSubmit, reminders
  <2>2. CASE ~Approvable(r, u)
    BY <1>7, <2>2, CountersFrame DEF OverrideSubmit, decision, reminders
  <2> QED
    BY <2>1, <2>2
<1>8. ASSUME NEW p \in Passes, NEW r \in Requests, Expire(p, r)
      PROVE  CountersAgree'
  BY <1>8, CountersDecide DEF Expire, ExpiryDue, reminders, Tally
<1>9. ASSUME NEW p \in Passes,
             \/ \E r \in Requests : Refresh(p, r)
             \/ PassStart(p) \/ EscalationPosted(p) \/ SlackUpdated(p)
             \/ SlackFailed(p) \/ PassEnd(p)
      PROVE  CountersAgree'
  BY <1>9, CountersFrame
  DEF Refresh, PassStart, EscalationPosted, SlackUpdated, SlackFailed, PassEnd, decision,
      reminders
<1>10. ASSUME \/ ReloadPolicy \/ Sweep \/ Tick \/ UNCHANGED vars
              \/ \E r \in Requests, p \in Personas : PersonaAck(r, p)
       PROVE  CountersAgree'
  BY <1>10, CountersFrame DEF ReloadPolicy, Sweep, Tick, PersonaAck, vars, decision, reminders
<1> QED
  BY <1>2, <1>3, <1>4, <1>5, <1>6, <1>7, <1>8, <1>9, <1>10, CountersEscalate DEF Next, PassStep

\* Each denial, expiry and escalation was counted once, and a latency was observed exactly for
\* what was decided, whatever the passes, the late buttons and the sweeps did in between.
THEOREM CountersCorrect == Spec => []CountersAgree
<1>1. Init => CountersAgree
  <2> SUFFICES ASSUME Init PROVE CountersAgree
    OBVIOUS
  <2>1. \A s \in Terminal : With(s) = {}
    BY DEF Init, With, Terminal
  <2>2. Fired = {}
    BY DEF Init, Fired
  <2>3. \A r \in Requests : ~(latencies[r] > 0) /\ status[r] \notin Terminal
    BY DEF Init, Terminal
  <2> QED
    BY <2>1, <2>2, <2>3, FS_EmptySet, CountersParts DEF CountersInParts, Counted, Init, Terminal
<1> QED
  BY <1>1, TypeInit, TypeStep, CountersStep, PTL DEF Spec

-----------------------------------------------------------------------------
(* The lineages *)

Stored(r) == status[r] # "none"

\* The re-requests of the window, purged ones included.
InWindow(id) == {q \in Requests : /\ Stored(q)
                                  /\ terms[q].lineage_id = id
                                  /\ terms[q].created_at >= clock - RerequestWindow}

\* Nothing was stored, or decided, ahead of time, and only what was decided a retention ago
\* was purged.
Timely ==
  /\ \A r \in Requests : Stored(r) => terms[r].created_at <= clock
  /\ \A r \in Requests : status[r] \in Terminal => terms[r].created_at <= decided_at[r]
  /\ \A r \in deleted : /\ status[r] \in Terminal
                        /\ Retention > 0
                        /\ decided_at[r] <= clock - Retention

\* What a step that stores no request does to the ones that are stored.
Aged ==
  /\ clock <= clock'
  /\ terms' = terms
  /\ \A r \in Requests :
       /\ Stored(r)' <=> Stored(r)
       /\ status[r] \in Terminal => status'[r] = status[r] /\ decided_at'[r] = decided_at[r]
       /\ status[r] \notin Terminal /\ status'[r] \in Terminal =>
            Stored(r) /\ decided_at'[r] = clock
  /\ \A r \in deleted' \ deleted :
       status[r] \in Terminal /\ Retention > 0 /\ decided_at[r] <= clock - Retention

\* What storing a request does.
Added(r, lineage) ==
  /\ ~Stored(r)
  /\ status'[r] \in Open
  /\ terms'[r].created_at = clock
  /\ terms'[r].lineage_id = lineage
  /\ \A q \in Requests \ {r} : status'[q] = status[q] /\ terms'[q] = terms[q]
  /\ UNCHANGED <<clock, deleted, decided_at>>

LEMMA StoreAdds ==
  ASSUME TypeOK, NEW r \in Requests, NEW first \in Open, NEW params, NEW lineage, NEW m,
         Store(r, first, params, lineage, m)
  PROVE  Added(r, lineage)
BY DEF Store, NextId, Added, Stored, TypeOK, clockVars

\* What touches neither the records nor the statuses ages them at most.
LEMMA AgedFrame ==
  ASSUME TypeOK, UNCHANGED <<terms, status, decided_at, deleted>>, clock' \in {clock, clock + 1}
  PROVE  Aged
BY DEF Aged, Stored, TypeOK

\* A decision is dated.
LEMMA AgedDecide ==
  ASSUME TypeOK, NEW r \in Requests, IsOpen(r), NEW outcome \in Terminal, NEW counter,
         NEW observed, Decide(r, outcome, counter, observed), UNCHANGED <<clock, terms, deleted>>
  PROVE  Aged
<1>1. /\ status'[r] = outcome /\ decided_at'[r] = clock
      /\ \A q \in Requests \ {r} : status'[q] = status[q] /\ decided_at'[q] = decided_at[q]
  BY DEF Decide, TypeOK
<1>2. status[r] \notin Terminal /\ Stored(r) /\ Stored(r)'
  BY <1>1 DEF IsOpen, Open, Terminal, Stored
<1>3. clock <= clock' /\ terms' = terms /\ deleted' \ deleted = {}
  BY DEF TypeOK
<1>4. ASSUME NEW q \in Requests
      PROVE  /\ Stored(q)' <=> Stored(q)
             /\ status[q] \in Terminal => status'[q] = status[q] /\ decided_at'[q] = decided_at[q]
             /\ status[q] \notin Terminal /\ status'[q] \in Terminal =>
                  Stored(q) /\ decided_at'[q] = clock
  <2>1. CASE q = r
    BY <1>1, <1>2, <2>1
  <2>2. CASE q # r
    BY <1>1, <2>2 DEF Stored
  <2> QED
    BY <2>1, <2>2
<1> QED
  BY <1>3, <1>4 DEF Aged

LEMMA AgedApproval ==
  ASSUME TypeOK, NEW r \in Requests, NEW u \in Users, NEW observed,
         Approvable(r, u), RecordApproval(r, u, observed), UNCHANGED <<clock, terms, deleted>>
  PROVE  Aged
<1>1. IsOpen(r)
  BY DEF Approvable, IsOpen, Open
<1>2. CASE Decide(r, "approved", "approvals_total", observed)
  BY <1>1, <1>2, AgedDecide DEF Terminal
<1>3. CASE UNCHANGED <<status, decided_at, counters, latencies>>
  BY <1>3, AgedFrame
<1> QED
  BY <1>2, <1>3 DEF RecordApproval

\* A step stores a request, outside any lineage or as an allowed re-request, or ages them.
LEMMA StepAges ==
  ASSUME TypeOK, [Next]_vars
  PROVE  \/ Aged
         \/ \E r \in Requests : Added(r, 0)
         \/ \E orig, r \in Requests : RerequestAllowed(orig) /\ Added(r, LineageOf(orig))
<1>1. ASSUME NEW r \in Requests, NEW params \in ParamValues, NEW m \in EscalateMins,
             Create(r, params, m)
      PROVE  Added(r, 0)
  BY <1>1, StoreAdds DEF Create, FirstStatus, Open
<1>2. ASSUME NEW orig \in Requests, NEW r \in Requests, Rerequest(orig, r)
      PROVE  RerequestAllowed(orig) /\ Added(r, LineageOf(orig))
  <2>1. FirstStatus(Required(orig)) \in Open
    BY DEF FirstStatus, Open
  <2> QED
    BY <1>2, <2>1, StoreAdds DEF Rerequest
<1>3. ASSUME NEW r \in Requests, NEW p \in Personas, PersonaSettle(r, p)
      PROVE  Aged
  <2>1. \/ status' = status
        \/ /\ status[r] = "awaiting_personas"
           /\ status' = [status EXCEPT ![r] = "ready_for_approval"]
    BY <1>3 DEF PersonaSettle
  <2>2. UNCHANGED <<clock, terms, decided_at, deleted>>
    BY <1>3 DEF PersonaSettle, clockVars
  <2>3. \A q \in Requests :
          \/ status'[q] = status[q]
          \/ status[q] = "awaiting_personas" /\ status'[q] = "ready_for_approval"
    BY <2>1 DEF TypeOK
  <2>4. clock <= clock' /\ terms' = terms /\ deleted' \ deleted = {}
    BY <2>2 DEF TypeOK
  <2>5. \A q \in Requests :
          /\ Stored(q)' <=> Stored(q)
          /\ status[q] \in Terminal => status'[q] = status[q] /\ decided_at'[q] = decided_at[q]
          /\ status[q] \notin Terminal => status'[q] \notin Terminal
    BY <2>2, <2>3 DEF Stored, Terminal
  <2> QED
    BY <2>4, <2>5 DEF Aged
<1>4. ASSUME NEW r \in Requests, NEW u \in Users, Approve(r, u)
      PROVE  Aged
  BY <1>4, AgedApproval DEF Approve, clockVars
<1>5. ASSUME NEW r \in Requests, NEW u \in Users, Deny(r, u)
      PROVE  Aged
  <2>1. status[r] \in {"none"} \cup Open \cup Terminal
    BY DEF TypeOK
  <2>2. IsOpen(r)
    BY <1>5, <2>1 DEF Deny, Deniable, Exists, IsOpen
  <2> QED
    BY <1>5, <2>2, AgedDecide DEF Deny, clockVars, Terminal
<1>6. ASSUME NEW r \in Requests, NEW u \in Users, NEW params \in ParamValues,
             OverrideSubmit(r, u, params)
      PROVE  Aged
  <2>1. CASE Approvable(r, u)
    BY <1>6, <2>1, AgedApproval DEF OverrideSubmit, clockVars
  <2>2. CASE ~Approvable(r, u)
    BY <1>6, <2>2, AgedFrame DEF OverrideSubmit, decision, clockVars
  <2> QED
    BY <2>1, <2>2
<1>7. ASSUME NEW p \in Passes, NEW r \in Requests, Expire(p, r)
      PROVE  Aged
  BY <1>7, AgedDecide DEF Expire, ExpiryDue, clockVars, Terminal
<1>8. ASSUME NEW p \in Passes,
             \/ \E r \in Requests : Refresh(p, r) \/ Escalate(p, r)
             \/ PassStart(p) \/ EscalationPosted(p) \/ SlackUpdated(p)
             \/ SlackFailed(p) \/ PassEnd(p)
      PROVE  Aged
  BY <1>8, AgedFrame
  DEF Refresh, Escalate, PassStart, EscalationPosted, SlackUpdated, SlackFailed, PassEnd,
      decision, clockVars
<1>9. ASSUME Sweep
      PROVE  Aged
  <2>1. /\ UNCHANGED <<clock, terms, status, decided_at>>
        /\ Retention > 0
        /\ deleted' = deleted \cup {r \in Requests : Purgeable(r)}
    BY <1>9 DEF Sweep, clockVars, decision
  <2> QED
    BY <2>1 DEF Aged, Stored, Purgeable, TypeOK
<1>10. ASSUME \/ ReloadPolicy \/ Tick \/ UNCHANGED vars
              \/ \E r \in Requests, p \in Personas : PersonaAck(r, p)
       PROVE  Aged
  BY <1>10, AgedFrame DEF ReloadPolicy, Tick, PersonaAck, vars, decision, clockVars
<1> QED
  BY <1>1, <1>2, <1>3, <1>4, <1>5, <1>6, <1>7, <1>8, <1>9, <1>10 DEF Next, PassStep

-----------------------------------------------------------------------------
(* The limit of a lineage *)

LEMMA LimitParts ==
  /\ LineageLimit <=> (RerequestLimit > 0 =>
                         \A id \in Requests : Cardinality(InWindow(id)) < RerequestLimit)
  /\ LineageLimit' <=> (RerequestLimit > 0 =>
                          \A id \in Requests : Cardinality(InWindow(id)') < RerequestLimit)
BY DEF LineageLimit, InWindow, Stored

\* As time passes the window only loses re-requests.
LEMMA AgedKeeps ==
  ASSUME TypeOK, TypeOK', Timely, RerequestBound, Aged
  PROVE  Timely' /\ RerequestBound'
<1>1. clock \in Nat /\ clock' \in Nat /\ clock <= clock' /\ terms' = terms
      /\ decided_at \in [Requests -> Nat] /\ decided_at' \in [Requests -> Nat]
      /\ deleted' \in SUBSET Requests
      /\ RerequestWindow \in Nat /\ Retention \in Nat /\ RerequestLimit \in Nat
  BY ConstantsAssumption DEF TypeOK, Aged
<1>2. \A r \in Requests : terms[r].created_at \in Nat
  BY TermsFields
<1>3. Timely'
  <2>1. \A r \in Requests : Stored(r)' => terms'[r].created_at <= clock'
    BY <1>1, <1>2 DEF Timely, Aged
  <2>2. ASSUME NEW r \in Requests, status'[r] \in Terminal
        PROVE  terms'[r].created_at <= decided_at'[r]
    BY <1>1, <2>2 DEF Timely, Aged
  <2>3. ASSUME NEW r \in deleted'
        PROVE  /\ status'[r] \in Terminal
               /\ Retention > 0
               /\ decided_at'[r] <= clock' - Retention
    <3>1. /\ status[r] \in Terminal
          /\ Retention > 0
          /\ decided_at[r] <= clock - Retention
      BY <2>3 DEF Timely, Aged
    <3>2. status'[r] = status[r] /\ decided_at'[r] = decided_at[r] /\ decided_at[r] \in Nat
      BY <1>1, <2>3, <3>1 DEF Aged
    <3> QED
      BY <1>1, <3>1, <3>2
  <2> QED
    BY <2>1, <2>2, <2>3 DEF Timely
<1>4. ASSUME NEW id \in Requests, Cardinality(InWindow(id)) < RerequestLimit
      PROVE  Cardinality(InWindow(id)') < RerequestLimit
  <2>1. InWindow(id)' \subseteq InWindow(id)
    BY <1>1, <1>2 DEF InWindow, Aged
  <2>2. InWindow(id) \in SUBSET Requests
    BY DEF InWindow
  <2>3. /\ Cardinality(InWindow(id)) \in Nat /\ Cardinality(InWindow(id)') \in Nat
        /\ Cardinality(InWindow(id)') <= Cardinality(InWindow(id))
    <3>1. IsFiniteSet(InWindow(id)) /\ Cardinality(InWindow(id)) \in Nat
      BY <2>2, RequestsCounted
    <3> QED
      BY <2>1, <3>1, FS_Subset, FS_CardinalityType
  <2> QED
    BY <1>1, <1>4, <2>3
<1>5. RerequestBound'
  BY <1>4, LimitParts DEF RerequestBound
<1> QED
  BY <1>3, <1>5

\* A new request joins the window of its own lineage only.
LEMMA AddedJoins ==
  ASSUME TypeOK, NEW r \in Requests, NEW lineage, Added(r, lineage), NEW id \in Requests
  PROVE  InWindow(id)' = IF id = lineage THEN InWindow(id) \cup {r} ELSE InWindow(id)
<1>1. /\ Stored(r)' /\ ~Stored(r)
      /\ terms'[r].created_at >= clock' - RerequestWindow
      /\ terms'[r].lineage_id = lineage
  BY ConstantsAssumption DEF Added, Stored, TypeOK, Open
<1>2. \A q \in Requests \ {r} :
        (Stored(q)' <=> Stored(q)) /\ terms'[q] = terms[q] /\ clock' = clock
  BY DEF Added, Stored
<1> QED
  BY <1>1, <1>2 DEF InWindow

LEMMA AddedTimely ==
  ASSUME TypeOK, Timely, NEW r \in Requests, NEW lineage, Added(r, lineage)
  PROVE  Timely'
<1>1. /\ terms'[r].created_at <= clock' /\ status'[r] \notin Terminal
      /\ status[r] \notin Terminal
  BY DEF Added, TypeOK, Open, Terminal, Stored
<1>2. \A q \in Requests \ {r} : /\ Stored(q)' <=> Stored(q)
                                /\ status'[q] = status[q]
                                /\ terms'[q] = terms[q]
  BY DEF Added, Stored
<1>3. deleted' = deleted /\ clock' = clock /\ decided_at' = decided_at
      /\ deleted \in SUBSET Requests
  BY DEF Added, TypeOK
<1> QED
  BY <1>1, <1>2, <1>3 DEF Timely

\* What is purged is out of the window, so the handler sees all of it.
LEMMA WindowSeen ==
  ASSUME TypeOK, Timely, Retention = 0 \/ Retention > RerequestWindow, NEW id
  PROVE  InWindow(id) \subseteq Recent(id)
<1> SUFFICES ASSUME NEW q \in InWindow(id) PROVE q \in Recent(id)
  OBVIOUS
<1>1. /\ q \in Requests /\ Stored(q) /\ terms[q].lineage_id = id
      /\ terms[q].created_at >= clock - RerequestWindow
  BY DEF InWindow
<1>2. q \notin deleted
  <2> SUFFICES ASSUME q \in deleted PROVE FALSE
    OBVIOUS
  <2>1. /\ Retention > 0 /\ decided_at[q] <= clock - Retention
        /\ terms[q].created_at <= decided_at[q]
    BY <1>1 DEF Timely
  <2>2. /\ clock \in Nat /\ decided_at[q] \in Nat /\ terms[q].created_at \in Nat
        /\ Retention \in Nat /\ RerequestWindow \in Nat
    BY <1>1, TermsFields, ConstantsAssumption DEF TypeOK
  <2> QED
    BY <1>1, <2>1, <2>2
<1> QED
  BY <1>1, <1>2 DEF Recent, Lineage, Exists, Stored

\* An allowed re-request leaves room for the original, which is not in the window.
LEMMA RerequestKeeps ==
  ASSUME TypeOK, Timely, RerequestBound, NEW orig \in Requests, NEW r \in Requests,
         RerequestAllowed(orig), Added(r, LineageOf(orig))
  PROVE  RerequestBound'
<1> SUFFICES ASSUME Retention = 0 \/ Retention > RerequestWindow, RerequestLimit > 0,
                    NEW id \in Requests
             PROVE  Cardinality(InWindow(id)') < RerequestLimit
  BY LimitParts DEF RerequestBound
<1>1. Cardinality(InWindow(id)) < RerequestLimit
  BY LimitParts DEF RerequestBound
<1>2. CASE id # LineageOf(orig)
  BY <1>1, <1>2, AddedJoins
<1>3. CASE id = LineageOf(orig)
  <2>1. Recent(id) \in SUBSET Requests /\ InWindow(id) \in SUBSET Requests
    BY DEF Recent, Lineage, InWindow
  <2>2. /\ Cardinality(Recent(id)) \in Nat /\ Cardinality(InWindow(id)) \in Nat
        /\ Cardinality(InWindow(id)) <= Cardinality(Recent(id))
    BY <2>1, RequestsCounted, WindowSeen, FS_Subset
  <2>3. r \in Requests \ InWindow(id) /\ InWindow(id)' = InWindow(id) \cup {r}
    BY <1>3, AddedJoins DEF Added, InWindow
  <2>4. Cardinality(InWindow(id)') = Cardinality(InWindow(id)) + 1
    BY <2>1, <2>3, RequestsCounted
  <2>5. Cardinality(Recent(id)) + 1 < RerequestLimit
    BY <1>3 DEF RerequestAllowed
  <2>6. RerequestLimit \in Nat
    BY ConstantsAssumption
  <2> QED
    BY <2>2, <2>4, <2>5, <2>6
<1> QED
  BY <1>2, <1>3

\* A request made outside any lineage joins none.
LEMMA CreateKeeps ==
  ASSUME TypeOK, RerequestBound, NEW r \in Requests, Added(r, 0)
  PROVE  RerequestBound'
<1>1. \A id \in Requests : id # 0
  BY DEF Requests
<1>2. \A id \in Requests : InWindow(id)' = InWindow(id)
  BY <1>1, AddedJoins
<1> QED
  BY <1>2, LimitParts DEF RerequestBound

\* In any window a lineage gets fewer than RerequestLimit re-requests, the purged ones
\* included, whenever nothing is purged before the window has passed it.
THEOREM RerequestsBounded == Spec => []RerequestBound
<1> DEFINE Inv == TypeOK /\ Timely /\ RerequestBound
<1>1. Init => Inv
  <2> SUFFICES ASSUME Init PROVE Timely /\ RerequestBound
    BY TypeInit
  <2>1. \A r \in Requests : ~Stored(r) /\ status[r] \notin Terminal
    BY DEF Init, Stored, Terminal
  <2>2. deleted = {} /\ \A id \in Requests : InWindow(id) = {}
    BY <2>1 DEF Init, InWindow
  <2>3. Cardinality({}) = 0 /\ RerequestLimit \in Nat
    BY FS_EmptySet, ConstantsAssumption
  <2> QED
    BY <2>1, <2>2, <2>3, LimitParts DEF Timely, RerequestBound
<1>2. Inv /\ [Next]_vars => Inv'
  <2> SUFFICES ASSUME Inv, [Next]_vars PROVE Timely' /\ RerequestBound'
    BY TypeStep
  <2>1. TypeOK'
    BY TypeStep
  <2> QED
    BY <2>1, StepAges, AgedKeeps, AddedTimely, RerequestKeeps, CreateKeeps
<1>3. Inv => RerequestBound
  OBVIOUS
<1> HIDE DEF Inv
<1> QED
  BY <1>1, <1>2, <1>3, PTL DEF Spec
=============================================================================
