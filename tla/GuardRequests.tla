--------------------------- MODULE GuardRequests ---------------------------
(***************************************************************************)
(* The life of the guard requests kept by the in-memory store: creation    *)
(* and re-request under a policy that may be reloaded, persona             *)
(* acknowledgements, approvals, denials and parameter overrides coming     *)
(* from Slack, scheduler passes that overlap when a Slack call is slow,    *)
(* and retention sweeps.                                                   *)
(*                                                                         *)
(* Node runs one callback at a time and switches only where the code       *)
(* awaits something, so an action is what runs between two awaits that     *)
(* another handler can get in between.  A request's record is one live     *)
(* object: a pass that holds it across an await sees the current fields,   *)
(* but keeps the time it read when the pass began.                         *)
(***************************************************************************)
EXTENDS Integers, Sequences, FiniteSets

CONSTANTS
  MaxRequests,      \* bound on the requests ever created
  Users,            \* Slack users who press buttons
  Personas,         \* personas a policy may require
  Policies,         \* the policies the policy file may hold for the action
  ParamValues,      \* values of the (redacted) parameters
  EscalateMins,     \* escalate_min_approvals of the records handed to createRequest
  Passes,           \* scheduler passes that may be under way at once
  Minute,           \* length of a remaining-time bucket, in clock units
  MaxTime,          \* bound on the clock
  PilotMaxOpen,     \* cap on open requests in pilot mode, 0 outside it
  RerequestLimit,   \* 6 in the code
  RerequestWindow,  \* 24 hours in the code
  Retention         \* REQUEST_RETENTION_SEC, 0 when sweeps are disabled

Requests == 1 .. MaxRequests

PolicyType == [minApprovals: Nat,           \* approvers.minApprovals
               approvers: SUBSET Users,     \* allowSlackIds and superApprovers
               personasRequired: SUBSET Personas,
               timeoutSec: Nat \ {0},
               escalateBeforeSec: Nat,      \* 0: no escalation section
               escalateMinApprovals: Nat,   \* 0: not given
               overrides: BOOLEAN,          \* allowed, with some key
               allowReRequest: BOOLEAN,
               reRequestCooldownSec: Nat]

ASSUME ConstantsAssumption ==
  /\ MaxRequests \in Nat \ {0}
  /\ MaxTime \in Nat
  /\ Minute \in Nat \ {0}
  /\ PilotMaxOpen \in Nat
  /\ RerequestLimit \in Nat
  /\ RerequestWindow \in Nat
  /\ Retention \in Nat

ASSUME PoliciesAssumption ==
  /\ Policies # {}
  /\ \A p \in Policies : p \in PolicyType

ASSUME RecordsAssumption ==
  /\ ParamValues # {}
  /\ EscalateMins \subseteq Nat
  /\ 0 \in EscalateMins

VARIABLES
  clock,              \* Date.now()
  policy,             \* the cached policy
  terms,              \* the fields of a record that never change after creation
  status,             \* status, "none" before creation
  deleted,            \* requests a retention sweep took out of the store
  min_approvals,
  approvals,          \* the store's approvals list, as actors in order
  approvals_count,
  acked,              \* personas whose persona_state is "ack"; the rest are "pending"
  redacted_params,
  decided_at,
  escalation_fired,
  last_remaining_bucket,
  settling,           \* persona-ack handlers awaiting updatePersonaState
  pass,               \* the scheduler passes under way
  counters,           \* the metrics counters of decisions and escalations
  latencies,          \* decision latencies observed for a request
  announced           \* requests whose decision was broadcast to the listeners

clockVars   == <<clock, policy>>
decision    == <<status, decided_at, counters, latencies, announced>>
tally       == <<min_approvals, approvals, approvals_count, redacted_params>>
persona     == <<acked, settling>>
reminders   == <<escalation_fired, last_remaining_bucket>>
vars        == <<clockVars, terms, decision, tally, persona, reminders, deleted, pass>>

Terminal == {"approved", "denied", "expired"}
Open     == {"awaiting_personas", "ready_for_approval"}

Exists(r)  == status[r] # "none" /\ r \notin deleted
IsOpen(r)  == status[r] \in Open

Allowed(r)   == terms[r].policy.approvers
Required(r)  == terms[r].policy.personasRequired
ExpiresAt(r) == terms[r].created_at + terms[r].policy.timeoutSec
EscalateAt(r) ==
  IF terms[r].policy.escalateBeforeSec = 0 THEN 0
  ELSE ExpiresAt(r) - terms[r].policy.escalateBeforeSec
Voters(r)    == {approvals[r][i] : i \in DOMAIN approvals[r]}

NoBucket == -1
IdlePass == [pc |-> "idle", now |-> 0, todo |-> {}, at |-> 0]

TermsType == [policy: Policies, created_at: Nat, lineage_id: Nat,
              escalate_min_approvals: EscalateMins]
PassType  == [pc: {"idle", "visit"}, now: Nat, todo: SUBSET Requests, at: {0}]
        \cup [pc: {"escalating", "refreshing", "expiring"}, now: Nat,
              todo: SUBSET Requests, at: Requests]
CounterType == [approvals_total: Nat, denies_total: Nat,
                expired_total: Nat, escalations_total: Nat]

Bump(name) == counters' = [counters EXCEPT ![name] = @ + 1]

Init ==
  /\ clock = 0
  /\ policy \in Policies
  /\ terms = [r \in Requests |-> [policy |-> CHOOSE p \in Policies : TRUE,
                                  created_at |-> 0, lineage_id |-> 0,
                                  escalate_min_approvals |-> 0]]
  /\ status = [r \in Requests |-> "none"]
  /\ deleted = {}
  /\ min_approvals = [r \in Requests |-> 0]
  /\ approvals = [r \in Requests |-> <<>>]
  /\ approvals_count = [r \in Requests |-> 0]
  /\ acked = [r \in Requests |-> {}]
  /\ redacted_params = [r \in Requests |-> CHOOSE v \in ParamValues : TRUE]
  /\ decided_at = [r \in Requests |-> 0]
  /\ escalation_fired = [r \in Requests |-> FALSE]
  /\ last_remaining_bucket = [r \in Requests |-> NoBucket]
  /\ settling = {}
  /\ pass = [p \in Passes |-> IdlePass]
  /\ counters = [approvals_total |-> 0, denies_total |-> 0,
                 expired_total |-> 0, escalations_total |-> 0]
  /\ latencies = [r \in Requests |-> 0]
  /\ announced = {}

-----------------------------------------------------------------------------
(* Creation *)

\* materialize throws on an escalation section that fails these checks, and the
\* handler then creates nothing.
EscalationValid(p) ==
  p.escalateBeforeSec # 0 =>
    /\ p.escalateBeforeSec < p.timeoutSec
    /\ p.escalateMinApprovals = 0 \/ p.escalateMinApprovals >= p.minApprovals

NextId(r) == status[r] = "none" /\ \A q \in Requests : q < r => status[q] # "none"

Store(r, first, params, lineage, escalateMin) ==
  /\ NextId(r)
  /\ EscalationValid(policy)
  /\ terms' = [terms EXCEPT ![r] = [policy |-> policy, created_at |-> clock,
                                    lineage_id |-> lineage,
                                    escalate_min_approvals |-> escalateMin]]
  /\ status' = [status EXCEPT ![r] = first]
  /\ min_approvals' = [min_approvals EXCEPT ![r] = policy.minApprovals]
  /\ redacted_params' = [redacted_params EXCEPT ![r] = params]
  /\ UNCHANGED <<clockVars, deleted, approvals, approvals_count, persona, decided_at,
                 reminders, pass, counters, latencies, announced>>

\* "pending", which the schema of the status knows, while personas are awaited.
FirstStatusPending(required) ==
  IF required = {} THEN "ready_for_approval" ELSE "pending"

\* A single persona taken for none.
FirstStatusOffByOne(required) ==
  IF Cardinality(required) <= 1 THEN "ready_for_approval" ELSE "awaiting_personas"

FirstStatus(required) ==
  IF required = {} THEN "ready_for_approval" ELSE "awaiting_personas"

\* POST /api/guard/request.  The handler leaves escalate_min_approvals out of the record
\* (EscalateMins = {0}); a record handed straight to Store.createRequest may carry one.
Create(r, params, escalateMin) ==
  /\ PilotMaxOpen # 0 => Cardinality({q \in Requests : IsOpen(q)}) < PilotMaxOpen
  /\ Store(r, FirstStatus(policy.personasRequired), params, 0, escalateMin)

LineageOf(orig) ==
  IF terms[orig].lineage_id # 0 THEN terms[orig].lineage_id ELSE orig
Lineage(id) == {q \in Requests : Exists(q) /\ terms[q].lineage_id = id}
Recent(id)  == {q \in Lineage(id) : terms[q].created_at >= clock - RerequestWindow}

\* The newest member of the lineage, or the original when the lineage is still empty.
CooledDown(orig) ==
  LET siblings == Lineage(LineageOf(orig))
      last == IF siblings = {} THEN {orig}
              ELSE {q \in siblings : \A s \in siblings :
                                        terms[s].created_at <= terms[q].created_at}
  IN  \A q \in last : clock - terms[q].created_at >= policy.reRequestCooldownSec

\* The rate limit without the "+ 1" for the original.
RerequestAllowedLoose(orig) ==
  /\ policy.allowReRequest
  /\ Cardinality(Recent(LineageOf(orig))) < RerequestLimit
  /\ CooledDown(orig)

RerequestAllowed(orig) ==
  /\ policy.allowReRequest
  /\ Cardinality(Recent(LineageOf(orig))) + 1 < RerequestLimit
  /\ CooledDown(orig)

\* POST /api/guard/rerequest.  The first status looks at the personas of the original
\* request, the personas of the new one come from the policy now in force.
Rerequest(orig, r) ==
  /\ Exists(orig)
  /\ RerequestAllowed(orig)
  /\ Store(r, FirstStatus(Required(orig)), redacted_params[orig], LineageOf(orig), 0)

ReloadPolicy ==
  /\ policy' \in Policies
  /\ UNCHANGED <<clock, terms, decision, tally, persona, reminders, deleted, pass>>

\* broadcastForRequestId: the listeners are sent the status the record has now.  One that was
\* swept away in the meantime has no listeners any more.
Broadcast(r) ==
  announced' = IF status'[r] \in Terminal /\ r \notin deleted THEN announced \cup {r}
               ELSE announced

-----------------------------------------------------------------------------
(* Slack interactions.  Each finds the record by getById first, and what it *)
(* refuses leaves every variable as it was.                                 *)

\* A persona_ack button, up to the await on updatePersonaState.  Nothing looks at the
\* request's status here.
PersonaAck(r, p) ==
  /\ Exists(r)
  /\ p \in Required(r) \ acked[r]
  /\ acked' = [acked EXCEPT ![r] = @ \cup {p}]
  /\ settling' = settling \cup {<<r, p>>}
  /\ UNCHANGED <<clockVars, terms, decision, tally, reminders, deleted, pass>>

\* The ack handler looking only at its own persona when it resumes.
PersonaSettleOwn(r, p) ==
  /\ <<r, p>> \in settling
  /\ settling' = settling \ {<<r, p>>}
  /\ status' = IF status[r] = "awaiting_personas"
               THEN [status EXCEPT ![r] = "ready_for_approval"] ELSE status
  /\ Broadcast(r)
  /\ UNCHANGED <<clockVars, terms, decided_at, counters, latencies, tally, acked, reminders,
                 deleted, pass>>

\* The ack handler judging the copy of the record it read before updatePersonaState.
PersonaSettleStale(r, p) ==
  /\ <<r, p>> \in settling
  /\ settling' = settling \ {<<r, p>>}
  /\ status' = IF status[r] = "awaiting_personas" /\ Required(r) \subseteq acked[r] \ {p}
               THEN [status EXCEPT ![r] = "ready_for_approval"] ELSE status
  /\ Broadcast(r)
  /\ UNCHANGED <<clockVars, terms, decided_at, counters, latencies, tally, acked, reminders,
                 deleted, pass>>

\* The handler resumes, re-reads the record and opens the request for approval when
\* every required persona has acknowledged.
PersonaSettle(r, p) ==
  /\ <<r, p>> \in settling
  /\ settling' = settling \ {<<r, p>>}
  /\ status' = IF status[r] = "awaiting_personas" /\ Required(r) \subseteq acked[r]
               THEN [status EXCEPT ![r] = "ready_for_approval"] ELSE status
  /\ Broadcast(r)
  /\ UNCHANGED <<clockVars, terms, decided_at, counters, latencies, tally, acked, reminders,
                 deleted, pass>>

Decide(r, outcome, counter, observed) ==
  /\ status' = [status EXCEPT ![r] = outcome]
  /\ decided_at' = [decided_at EXCEPT ![r] = clock]
  /\ Bump(counter)
  /\ latencies' = [latencies EXCEPT ![r] = @ + observed]

\* applyApproval without its duplicate checks.
ApprovableTwice(r, u) ==
  /\ u \in Allowed(r)
  /\ status[r] = "ready_for_approval"

\* The checks of applyApproval, in its order: authorised, ready, not a duplicate.
Approvable(r, u) ==
  /\ u \in Allowed(r)
  /\ status[r] = "ready_for_approval"
  /\ u \notin Voters(r)

\* The quorum the policy asked for at creation, whatever an escalation made of it.
QuorumIgnoringEscalation(r) == terms[r].policy.minApprovals
\* "More than" where the code says "at least".
QuorumOffByOne(r) == min_approvals[r] + 1
Quorum(r) == min_approvals[r]

\* The rest of applyApproval: the approval joins the list, the count follows the list,
\* and a quorum decides.
RecordApproval(r, u, observed) ==
  LET list == Append(approvals[r], u)
  IN  /\ approvals' = [approvals EXCEPT ![r] = list]
      /\ approvals_count' = [approvals_count EXCEPT ![r] = Len(list)]
      /\ IF Len(list) >= Quorum(r) THEN Decide(r, "approved", "approvals_total", observed)
         ELSE UNCHANGED <<status, decided_at, counters, latencies>>
      /\ Broadcast(r)

\* The approve button.  applyApproval observes the latency of the decision and the
\* handler, which does not find __lat_obs set, observes it again.
Approve(r, u) ==
  /\ Exists(r)
  /\ Approvable(r, u)
  /\ RecordApproval(r, u, 2)
  /\ UNCHANGED <<clockVars, terms, min_approvals, redacted_params, persona, reminders,
                 deleted, pass>>

\* applyDeny without the check for a decision already taken.
DeniableAlways(r, u) == Exists(r) /\ u \in Allowed(r)
Deniable(r, u) == Exists(r) /\ u \in Allowed(r) /\ status[r] \notin Terminal

Deny(r, u) ==
  /\ Deniable(r, u)
  /\ Decide(r, "denied", "denies_total", 1)
  /\ Broadcast(r)
  /\ UNCHANGED <<clockVars, terms, tally, persona, reminders, deleted, pass>>

\* A submitted override modal whose changes pass the limits and the schema: the
\* parameters are replaced first, and only then does applyApproval look at the request.
OverrideSubmit(r, u, params) ==
  /\ Exists(r)
  /\ u \in Allowed(r)
  /\ terms[r].policy.overrides
  /\ redacted_params' = [redacted_params EXCEPT ![r] = params]
  /\ IF Approvable(r, u) THEN RecordApproval(r, u, 1)
     ELSE UNCHANGED <<decision, approvals, approvals_count>>
  /\ UNCHANGED <<clockVars, terms, min_approvals, persona, reminders, deleted, pass>>

-----------------------------------------------------------------------------
(* The scheduler *)

\* A pass lists the open requests and reads the clock once.
PassStart(p) ==
  /\ pass[p].pc = "idle"
  /\ \E r \in Requests : IsOpen(r)
  /\ pass' = [pass EXCEPT ![p] = [pc |-> "visit", now |-> clock,
                                  todo |-> {r \in Requests : IsOpen(r)}, at |-> 0]]
  /\ UNCHANGED <<clockVars, terms, decision, tally, persona, reminders, deleted>>

InEscalationWindow(r, now) ==
  /\ EscalateAt(r) # 0
  /\ EscalateAt(r) <= now
  /\ now < ExpiresAt(r)

\* The escalation test without escalation_fired, and without the status.
EscalationDueAgain(r, now) == IsOpen(r) /\ InEscalationWindow(r, now)
EscalationDueIfDecided(r, now) == ~escalation_fired[r] /\ InEscalationWindow(r, now)
EscalationDue(r, now) ==
  /\ IsOpen(r)
  /\ ~escalation_fired[r]
  /\ InEscalationWindow(r, now)

BucketAt(r, now) == (ExpiresAt(r) - now) \div Minute
RefreshDue(r, now) ==
  /\ IsOpen(r)
  /\ now < ExpiresAt(r)
  /\ \/ last_remaining_bucket[r] = NoBucket
     \/ BucketAt(r, now) < last_remaining_bucket[r]

\* The expiry test trusting the list for the status, and one reaching ahead of time.
ExpiryDueWhenListed(r, now) == status[r] # "expired" /\ ExpiresAt(r) <= now
ExpiryDueEarly(r, now) == IsOpen(r) /\ ExpiresAt(r) <= now + 1
ExpiryDue(r, now) == IsOpen(r) /\ ExpiresAt(r) <= now

WorkDue(r, now) == EscalationDue(r, now) \/ RefreshDue(r, now) \/ ExpiryDue(r, now)

\* The loop has come to r: the requests before it had nothing to do.
Visiting(p, r) ==
  /\ pass[p].pc = "visit"
  /\ r \in pass[p].todo
  /\ \A q \in pass[p].todo : q < r => ~WorkDue(q, pass[p].now)

\* The pass waits for Slack, in postEscalationNotice or updateRequestMessage.
AwaitAt(p, r, pc) ==
  pass' = [pass EXCEPT ![p].pc = pc, ![p].at = r,
                       ![p].todo = {q \in @ : q > r}]

RaisedMin(r) ==
  IF terms[r].escalate_min_approvals > min_approvals[r]
  THEN terms[r].escalate_min_approvals ELSE min_approvals[r]

\* The escalation is marked, and may raise the quorum, before the first await.
Escalate(p, r) ==
  /\ Visiting(p, r)
  /\ EscalationDue(r, pass[p].now)
  /\ escalation_fired' = [escalation_fired EXCEPT ![r] = TRUE]
  /\ min_approvals' = [min_approvals EXCEPT ![r] = RaisedMin(r)]
  /\ Bump("escalations_total")
  /\ AwaitAt(p, r, "escalating")
  /\ UNCHANGED <<clockVars, terms, status, decided_at, latencies, announced, approvals,
                 approvals_count, redacted_params, persona, last_remaining_bucket, deleted>>

SetBucket(r, now) ==
  last_remaining_bucket' = [last_remaining_bucket EXCEPT ![r] = BucketAt(r, now)]

Refresh(p, r) ==
  /\ Visiting(p, r)
  /\ ~EscalationDue(r, pass[p].now)
  /\ RefreshDue(r, pass[p].now)
  /\ SetBucket(r, pass[p].now)
  /\ AwaitAt(p, r, "refreshing")
  /\ UNCHANGED <<clockVars, terms, decision, tally, persona, escalation_fired, deleted>>

\* The notice was posted, or failed and was swallowed; the listeners are sent the status, and
\* the same iteration goes on to the remaining-time bucket.
EscalationPosted(p) ==
  LET r == pass[p].at
  IN  /\ pass[p].pc = "escalating"
      /\ IF RefreshDue(r, pass[p].now)
         THEN /\ SetBucket(r, pass[p].now)
              /\ pass' = [pass EXCEPT ![p].pc = "refreshing"]
         ELSE /\ pass' = [pass EXCEPT ![p].pc = "visit", ![p].at = 0]
              /\ UNCHANGED last_remaining_bucket
      /\ UNCHANGED <<clockVars, terms, status, decided_at, counters, latencies, tally,
                     persona, escalation_fired, deleted>>
      /\ Broadcast(r)

\* The request is marked expired before the first await; its listeners hear of it only
\* after the Slack message was updated.
Expire(p, r) ==
  /\ Visiting(p, r)
  /\ ExpiryDue(r, pass[p].now)
  /\ Decide(r, "expired", "expired_total", 1)
  /\ AwaitAt(p, r, "expiring")
  /\ UNCHANGED <<clockVars, terms, announced, tally, persona, reminders, deleted>>

\* Slack took the update the pass was waiting for.  (After a refresh the expiry test of
\* the same iteration cannot hold: it uses the same clock reading.)
SlackUpdated(p) ==
  /\ pass[p].pc \in {"refreshing", "expiring"}
  /\ pass' = [pass EXCEPT ![p].pc = "visit", ![p].at = 0]
  /\ UNCHANGED <<clockVars, terms, status, decided_at, counters, latencies, tally, persona,
                 reminders, deleted>>
  /\ IF pass[p].pc = "expiring" THEN Broadcast(pass[p].at) ELSE UNCHANGED announced

\* The exception ends the passes for good.
SlackFailedFatal(p) ==
  /\ pass[p].pc \in {"refreshing", "expiring"}
  /\ pass' = [pass EXCEPT ![p].pc = "stopped"]
  /\ UNCHANGED <<clockVars, terms, decision, tally, persona, reminders, deleted>>

\* Slack refused it: the exception leaves the loop and the rest of the list is skipped.
SlackFailed(p) ==
  /\ pass[p].pc \in {"refreshing", "expiring"}
  /\ pass' = [pass EXCEPT ![p] = IdlePass]
  /\ UNCHANGED <<clockVars, terms, decision, tally, persona, reminders, deleted>>

PassEnd(p) ==
  /\ pass[p].pc = "visit"
  /\ \A r \in pass[p].todo : ~WorkDue(r, pass[p].now)
  /\ pass' = [pass EXCEPT ![p] = IdlePass]
  /\ UNCHANGED <<clockVars, terms, decision, tally, persona, reminders, deleted>>

PassStep(p) ==
  \/ PassStart(p)
  \/ \E r \in Requests : Escalate(p, r) \/ Refresh(p, r) \/ Expire(p, r)
  \/ EscalationPosted(p) \/ SlackUpdated(p) \/ SlackFailed(p) \/ PassEnd(p)

-----------------------------------------------------------------------------
(* Retention and time *)

\* Retention counted from creation, whatever the status.
PurgeableAny(r) == Exists(r) /\ terms[r].created_at <= clock - Retention
Purgeable(r) ==
  /\ Exists(r)
  /\ status[r] \in Terminal
  /\ decided_at[r] <= clock - Retention

\* A sweep deletes every request past retention, whether or not it could be written to the
\* archive file first.
Sweep ==
  LET due == {r \in Requests : Purgeable(r)}
  IN  /\ Retention > 0
      /\ due # {}
      /\ deleted' = deleted \cup due
      /\ UNCHANGED <<clockVars, terms, decision, tally, persona, reminders, pass>>

Tick ==
  /\ clock < MaxTime
  /\ clock' = clock + 1
  /\ UNCHANGED <<policy, terms, decision, tally, persona, reminders, deleted, pass>>

Next ==
  \/ \E r \in Requests, params \in ParamValues, m \in EscalateMins : Create(r, params, m)
  \/ \E orig, r \in Requests : Rerequest(orig, r)
  \/ ReloadPolicy
  \/ \E r \in Requests, p \in Personas : PersonaAck(r, p) \/ PersonaSettle(r, p)
  \/ \E r \in Requests, u \in Users : Approve(r, u) \/ Deny(r, u)
  \/ \E r \in Requests, u \in Users, params \in ParamValues : OverrideSubmit(r, u, params)
  \/ \E p \in Passes : PassStep(p)
  \/ Sweep
  \/ Tick

Spec == Init /\ [][Next]_vars

\* Timers keep firing, awaited calls return and time passes; nobody has to press a button.
Fairness ==
  /\ WF_vars(Tick)
  /\ \A p \in Passes : WF_vars(PassStep(p))
  /\ \A r \in Requests, p \in Personas : WF_vars(PersonaSettle(r, p))

FairSpec == Spec /\ Fairness

-----------------------------------------------------------------------------
(* Properties *)

\* Every variable keeps its type.
TypeOK ==
  /\ clock \in Nat
  /\ policy \in Policies
  /\ terms \in [Requests -> TermsType]
  /\ status \in [Requests -> {"none"} \cup Open \cup Terminal]
  /\ deleted \in SUBSET Requests
  /\ min_approvals \in [Requests -> Nat]
  /\ approvals \in [Requests -> Seq(Users)]
  /\ approvals_count \in [Requests -> Nat]
  /\ acked \in [Requests -> SUBSET Personas]
  /\ redacted_params \in [Requests -> ParamValues]
  /\ decided_at \in [Requests -> Nat]
  /\ escalation_fired \in [Requests -> BOOLEAN]
  /\ last_remaining_bucket \in [Requests -> Int]
  /\ settling \in SUBSET (Requests \X Personas)
  /\ pass \in [Passes -> PassType]
  /\ counters \in CounterType
  /\ latencies \in [Requests -> Nat]
  /\ announced \in SUBSET Requests

\* An approved request was approved by at least min_approvals different users of its
\* approver list, where min_approvals is the quorum after any escalation (applyApproval
\* counts the list it has just pushed to, the scheduler raises the quorum of a live record).
QuorumMet ==
  \A r \in Requests :
    status[r] = "approved" =>
      Cardinality(Voters(r) \cap Allowed(r)) >= min_approvals[r]

\* No request is left open with its quorum already reached: whichever approval reached it
\* decided the request, whatever escalations, overrides and acks came in between.
NoQuorumWaiting ==
  \A r \in Requests :
    IsOpen(r) /\ approvals[r] # <<>> => Len(approvals[r]) < min_approvals[r]

\* The approvals list names nobody twice and the counter shown in Slack and by the status
\* endpoint is its length, over approve buttons and override modals in any order.
ApprovalsConsistent ==
  \A r \in Requests :
    /\ \A i, j \in DOMAIN approvals[r] : approvals[r][i] = approvals[r][j] => i = j
    /\ approvals_count[r] = Len(approvals[r])

\* A request open for approval, or approved, has the acknowledgement of every persona its
\* record requires (docs/persona-flow.md, "States").
PersonaGate ==
  \A r \in Requests :
    status[r] \in {"ready_for_approval", "approved"} => Required(r) \subseteq acked[r]

\* A request waiting for personas that have all acknowledged still has an ack handler under
\* way that will open it: the last ack is never lost between two handlers.
NotStranded ==
  \A r \in Requests :
    status[r] = "awaiting_personas" /\ Required(r) \subseteq acked[r] =>
      \E p \in Personas : <<r, p>> \in settling

\* Each denial, expiry and escalation was counted once in the metrics, and the latency of a
\* request was observed if and only if it was decided, by an approval or otherwise, whatever
\* overlapping passes and late buttons did.
CountersAgree ==
  /\ counters.denies_total = Cardinality({r \in Requests : status[r] = "denied"})
  /\ counters.expired_total = Cardinality({r \in Requests : status[r] = "expired"})
  /\ counters.escalations_total = Cardinality({r \in Requests : escalation_fired[r]})
  /\ \A r \in Requests : latencies[r] > 0 <=> status[r] \in Terminal

\* docs/lineage.md:10 allows a lineage five re-requests a day beside the original (the comment at
\* server.ts:183 counts the original among the five): in any window it gets fewer than
\* RerequestLimit of them, the ones that were purged since included.
LineageLimit ==
  RerequestLimit > 0 =>
    \A id \in Requests :
      Cardinality({q \in Requests : /\ status[q] # "none"
                                    /\ terms[q].lineage_id = id
                                    /\ terms[q].created_at >= clock - RerequestWindow})
        < RerequestLimit

\* The limit holds provided retention keeps a request longer than the window: the handler
\* counts what the store still holds, and a shorter retention makes room for more.
RerequestBound == (Retention = 0 \/ Retention > RerequestWindow) => LineageLimit

\* A decision is final: the status, its time, the approvals and the quorum of a decided
\* request never change, not even under a pass or a handler that still holds the record.
DecisionStable ==
  [][\A r \in Requests :
       status[r] \in Terminal =>
         /\ status'[r] = status[r]
         /\ decided_at'[r] = decided_at[r]
         /\ approvals'[r] = approvals[r]
         /\ min_approvals'[r] = min_approvals[r]]_vars

\* The quorum of a request changes only while it is open, only upwards, and only in the one
\* escalation it ever has, at or after escalate_at.
EscalationOnce ==
  [][\A r \in Requests :
       /\ status[r] # "none" /\ min_approvals'[r] # min_approvals[r] =>
            /\ IsOpen(r)
            /\ min_approvals'[r] > min_approvals[r]
            /\ ~escalation_fired[r] /\ escalation_fired'[r]
       /\ ~escalation_fired[r] /\ escalation_fired'[r] =>
            IsOpen(r) /\ clock >= EscalateAt(r)
       /\ escalation_fired[r] => escalation_fired'[r]]_vars

\* A request expires only if it was open, and not before expires_at, although the pass that
\* expires it works with a clock reading and a list that may be old.
ExpiryOnTime ==
  [][\A r \in Requests :
       status[r] # "expired" /\ status'[r] = "expired" =>
         IsOpen(r) /\ clock >= ExpiresAt(r)]_vars

\* The service keeps its promise: see GuardPromise.
Promise == INSTANCE GuardPromise WITH
  phase  <- [r \in Requests |-> IF r \in deleted THEN "gone"
                                ELSE IF status[r] \in Open THEN "open" ELSE status[r]],
  votes  <- [r \in Requests |-> Voters(r)],
  quorum <- min_approvals
PromiseKept == Promise!Spec

\* Every request still open at its expiry time gets decided, although Slack failures abort
\* passes and passes skip what follows the failure.
DueRequestsEnd ==
  \A r \in Requests : IsOpen(r) /\ clock >= ExpiresAt(r) ~> ~IsOpen(r)

\* Once every required persona has acknowledged, the request stops waiting for them.
AcksOpenApproval ==
  \A r \in Requests :
    status[r] = "awaiting_personas" /\ Required(r) \subseteq acked[r]
      ~> status[r] # "awaiting_personas"

\* docs/api.md:215 has every terminal status end the event stream: whoever listens to a
\* request that expires is told so.
ExpiryAnnounced == \A r \in Requests : status[r] = "expired" ~> r \in announced

\* README.md:171 has the approval and the overrides happen atomically: the parameters of a
\* request change only together with an approval of it.
OverrideAtomic ==
  [][\A r \in Requests :
       status[r] # "none" /\ redacted_params'[r] # redacted_params[r] =>
         approvals'[r] # approvals[r]]_vars
=============================================================================
