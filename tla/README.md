# A TLA+ model of the guard approval service

The service holds *guard requests*: an agent asks for permission to run an
action, people approve or deny it in Slack, a scheduler escalates and expires
it, and whoever waits on the request is told the outcome. These modules model
how a request is decided, stored, announced and changed, check the models on
small instances with TLC, and prove the safety properties that matter most for
every value of the constants with TLAPS.

Line numbers below and in `PROJECT.json` refer to the files under `src/`.

## 1. Inventory

| Component (source) | State | Operations | Talks to |
|---|---|---|---|
| Request lifecycle (`server.ts`, `approval.ts`, `store.ts`, `types.ts`) | one record per request, an approvals list per request, persona states | create, re-request, persona ack, approve, deny, open and submit an override modal, wait | policy (reads), store, Slack (awaits), event stream (broadcasts), metrics |
| Scheduler (`scheduler.ts`) | nothing of its own but the passes under way: each holds a list of open records and one clock reading | escalate, refresh the remaining time, expire | writes live records, awaits Slack, broadcasts, counts |
| Retention (`retention.ts`) | a re-entrancy flag | sweep: archive and delete decided requests | store, archive file |
| Policy (`policy.ts`) | the cached policy file | load, reload, evaluate an action | read by create, re-request and override |
| Slack queue (`slack-queue.ts`) | a Map of waiting updates, two flags, a timer | enqueue, drain | called by `slack.ts`, calls Slack |
| Slack messages (`slack.ts`) | none | post, update, escalation notice, override modal | Slack |
| Event stream (`sse.ts`) | one listener per token, emissions and broadcasts waiting for the store | add, remove, emit, broadcast | reads the store, is called by every handler that changes a request |
| Redis store (`store/redis.ts`, the asynchronous branches of `approval.ts`) | JSON records and lists in Redis; per process a command pipeline, an optimistic snapshot, live proxies | the store's operations, each a read-modify-write over the network | Redis |
| Rate limiter, replay guard (`ratelimit.ts`, `replay.ts`) | token buckets, seen signatures | isAllowed, markAndCheckReplay | in front of the handlers |
| Override form (`override-schema.ts`, `server.ts`, `slack.ts`) | schemas loaded once; the modal on an approver's screen | open, limit, validate, merge | writes the record, then applyApproval |
| SDK (`sdk/guardTool.ts`) | a deadline | request, wait | polls the wait endpoint |
| Metrics (`metrics.ts`) | counters, a histogram | increment, observe | called by all |
| Config, log, tracing, personas, audit export | none that requests depend on | | |

What makes this code hard, and the properties that say what must survive it:

* **Passes overlap.** `setInterval` (scheduler.ts:23) does not wait for the pass
  it started before, and a pass waits on Slack in the middle of an iteration. Two
  passes may hold the same record. (`EscalationOnce`, `CountersAgree`,
  `DecisionStable`.)
* **A pass works with old readings.** It lists the open requests and reads the
  clock once (scheduler.ts:30-31), then goes on with both after every await,
  although the record it holds is live. (`ExpiryOnTime`, `DecisionStable`.)
* **The quorum moves.** An escalation raises `min_approvals` between two
  approvals. (`QuorumMet`, `NoQuorumWaiting`, `PromiseKept`.)
* **Persona acks yield** between recording the ack and looking whether all are in
  (server.ts:552). (`PersonaGate`, `NotStranded`, `AcksOpenApproval`.)
* **The policy changes under requests**, and a re-request mixes the old record
  with the new policy (server.ts:206-231). (`PersonaGate`.)
* **Redis writes whole records read earlier.** Every operation reads the record,
  changes a copy and writes it all back; field assignments on the objects handed
  out are written again by a microtask of their own (store/redis.ts:77-86).
  (`PersonaGate`, `ApprovalEarned`, `ApprovalStored`, `DenialStored`, `QuorumApproves` of
  `RedisStore`.)
* **Assignments spread.** A field set on one object of a request is set on every other
  that shows another value, whose set traps do the same in their turn
  (store/redis.ts:66-75). (`OneValue`, `PatchedOnce`.)
* **The event stream asks the store before it sends**, and its listener table is
  keyed by token, so emissions, removals and reconnects cross (sse.ts).
  (`NoOrphan`, `ToldTruth`, `ToldBeforeEnd`, `StreamsEnd`.)
* **Forms go stale.** An override modal shows the parameters of the moment it
  opened and is submitted to a record others have changed. (`EditsValid`,
  `UntouchedKept`, `FormHonoured`.)
* **The guards read a clock that may be set back**, and refill and lifetime meet
  their boundaries. (`RateBound`, `HandledOnce`.)
* **Slack fails.** A refused update ends the pass (scheduler.ts:90-92); a refused
  queue item is dropped or put back. (`DueRequestsEnd`, `ExpiryAnnounced`,
  `RestShowsLatest`, `LatestSent`.)
* **Lineages and retention interact**: the re-request limit counts what the store
  still holds (server.ts:183-186). (`RerequestBound`.)

`PROJECT.json` lists every hazard at its line, with the property that covers it
or the reason why none does.

## 2. Modules

| Module | What it is |
|---|---|
| `GuardPromise` | the abstract promise: a request is open until decided, decided once, approved exactly by the vote that reaches the quorum, never revised |
| `GuardRequests` | lifecycle, scheduler, retention, policy reload over the in-memory store |
| `RedisStore` | one request over Redis: the handlers and the scheduler as commands on the connections of several processes |
| `LiveProxies` | one assignment to a live object of that store: its set traps, step by step |
| `Waiting` | the clients of one request: event stream, long poll, SDK |
| `SlackQueue` | the queue of message updates |
| `Clock`, `RateLimiter`, `ReplayGuard` | a wall clock that may be set back, and the two guards that read it |
| `Overrides` | the override form of one request, field by field |
| `MCGuardRequests`, `MCRedisStore`, `MCWaiting`, `MCSlackQueue`, `MCParts` | small instances; `MCParts` puts the clock's two guards, `Overrides`, `SlackQueue` and `LiveProxies` side by side |
| `GuardRequestsProofs`, `GuardDecisionProofs`, `GuardCountProofs` | type correctness, quorum, approvals and the persona gate; action properties and the refinement of `GuardPromise`; the counters and the re-request limit |
| `RedisStoreProofs`, `RedisApprovalProofs` | types and the persona gate over Redis; the approval: stored once announced, and earned if stored |
| `WaitingProofs`, `SlackQueueProofs`, `PartsProofs` | what is proved of the other modules |

How the modules fit together. `GuardRequests` is about deciding. The others
take up what it abstracts: its store calls return at once, where `RedisStore`
shows what becomes of the same handlers when they do not; its broadcasts are a
history variable (`announced`), where `Waiting` shows how a broadcast reaches a
client and keeps of the request only its status; its parameters are single
values, where `Overrides` has fields, texts and types.

### GuardRequests: state

A request is a number in `1 .. MaxRequests`, in order of creation. The fields of
`GuardRequestRecord` that change have a variable each, with the field's name
(`status`, `min_approvals`, `approvals_count`, `redacted_params`, `decided_at`,
`escalation_fired`, `last_remaining_bucket`); `acked` holds the personas whose
`persona_state` is `ack`. The fields fixed at creation are in `terms`: the
record copies them from the policy it was created under, so `terms[r].policy`
keeps that policy, and `Required`, `Allowed`, `ExpiresAt`, `EscalateAt` are the
fields derived from it. `approvals` is the store's approvals list. `deleted`
are requests a sweep removed; their other variables keep their last values, so
that a property may speak of them. `pass` holds for each scheduler pass under
way what its frame holds: `now`, the rest of the list (`todo`) and where it
waits (`pc`, `at`). `settling` are ack handlers waiting in
`updatePersonaState`. `counters`, `latencies` and `announced` record what was
counted, observed and broadcast.

### GuardRequests: actions

Node runs one callback at a time, and a promise that is already resolved is
continued before the next timer or socket callback runs. With the memory store
every store call returns at once, so a handler is one step up to a Slack or
network await. One exception is made on the side of caution: the await on
`updatePersonaState` splits the ack handler in two (`PersonaAck`,
`PersonaSettle`), so that the model also covers a store that really yields
there. What a handler does after its last state change, such as updating the
Slack message of its request, is left out.

| Action | Code |
|---|---|
| `Create` | POST /api/guard/request, server.ts:242-326 |
| `Rerequest` | POST /api/guard/rerequest, server.ts:168-241 |
| `ReloadPolicy` | admin endpoint and SIGHUP, server.ts:608-628, 719-729 |
| `PersonaAck`, `PersonaSettle` | `persona_ack:` button, server.ts:548-599 |
| `Approve` | approve button, server.ts:505-516, `applyApproval`, approval.ts:58-238 |
| `Deny` | deny button, `applyDeny`, approval.ts:475-487 |
| `OverrideSubmit` | override modal, server.ts:383-503 |
| `PassStart`, `Escalate`, `EscalationPosted`, `Refresh`, `Expire`, `SlackUpdated`, `SlackFailed`, `PassEnd` | one scheduler pass, split at its awaits, scheduler.ts:28-92 |
| `Sweep` | retention.ts:33-82 |
| `Tick` | time passes |

A pass skips the requests that give it nothing to do without an await, so
skipping is no step of its own: `Visiting(p, r)` says that the loop has come to
`r`. Counter increments that follow a record change in the same synchronous run
belong to the same action; the ones in `Escalate` and `Expire` are separated
from it only by resolved promises. The operators `...Due(r, now)` use the time
the pass read, `Decide` stamps the time it is.

`Create` takes `escalateMin` as an input: the HTTP handler never sets
`escalate_min_approvals` (end of section 6), but a record handed straight to
`Store.createRequest`, as the repository's tests do, may carry it, and the
scheduler honours it.

Parameters are members of a small set: here it matters only whether they
changed (`Overrides` has the rest). A change that fails the override limits or
the schema does nothing and is not an action. The same holds for interactions
with a bad signature, an unknown request, or no authority.

### RedisStore

A process has one connection. Redis executes its commands in the order they were
issued, and what a process issues next depends on the answer to the command and
on its own memory only. So `pipe[p]` is the sequence of commands process `p` has
issued and Redis has not executed, and every action executes the command at the
head of one pipe and appends what its answer leads to. A command that reads is
named for what its answer is used for (`approve`, `addApproval`, `persist`, ...),
which makes the pipe the stack of handlers under way. Commands of different
processes interleave freely, those of one process as the code's promises order
them. Answers that arrive in one chunk are handled one after the other, each with
the microtasks it leads to, as an action does.

Every record a process has read stays in `liveRefs`, so `refs[p]` is the sequence of
the proxies process `p` has handed out, with the fields of each that field patches
are about. An assignment is made to the newest of them. `Reach` is how many proxies
each field is set on: the one that is assigned to, and every other that shows
another value. `decided_at` is modelled as "is it set"; two times of a decision may
or may not be the same, so any number of the proxies that have one may count as
differing. Each of these proxies queues a patch of its own (`Persist`), one field at
a time. `LiveProxies` justifies taking that as one step, for a stack as deep as
there are proxies; where the stack overflows a proxy may queue no patch, which
`RedisStore` leaves out. `updatePersonaState` also marks the persona on all live
records (store/redis.ts:118); nothing reads that mark there, as every handler reads
the record anew and field patches do not carry it.

| Action | Code |
|---|---|
| `ApproveFound`, `ApprovalsRead`, `ApprovalsWritten`, `ApprovalsCounted` | approve button, `applyApproval` where the store returns promises, `addApproval` |
| `DenyFound` | `applyDeny` on a proxy |
| `AckFound`, `PersonaStateRead`, `PersonaStateWritten`, `PersonaSettled` | persona ack, `updatePersonaState` |
| `SlackPosted`, `SlackMessageRead` | `setSlackMessage` after the post |
| `ScanStart`, `Scanned`, `PassExpires` | a scheduler pass: the list of stored records; the expiry of one, after Slack has been waited for |
| `Reader`, `GetAnswered` | a read that only leaves one more live proxy: a poll, a page, a broadcast, the promises `applyApproval` drops |
| `UpdateRead`, `PersistRead`, `RecordWritten` | `updateFields`, the set trap, the SET that ends both |
| `Restart` | a process dies: its pipe, snapshot, proxies and passes are gone |

`outcomes`, `voters`, `ackers` and `lost` are history: what was announced, whose
approval and whose ack were accepted, whether a crash lost commands.

What the model shows of this store, beyond what its properties state. With
two processes an announced approval can be overwritten by a record the other one
read earlier (end of section 6), which is why `redis` has one. A crash can leave a record
approved with an empty approvals list. The scheduler may expire an approved
request, as it decides by the stored status and writes without looking again.
A quorum of two or more is never reached, since the asynchronous branch sees no
earlier approval (finding 6); the safe side of it is `ApprovalEarned`. Of two
concurrent acks, or two concurrent approvals, one can be lost.

### LiveProxies

`fields[j]` is the field of the `j`-th proxy of a request, in the order of
`liveRefs`; `frames` is the stack of set traps under way, each with the proxy it looks at
next. `Assign` is an assignment by a handler or the store, `Visit` the trap's look at
one proxy, which calls that proxy's trap if it shows another value, `VisitOverflows` the
same when the stack is full, whose exception is caught around the assignment
(store/redis.ts:71-73), `Return` the end of a trap, which queues the patch.
The module follows one field: the fields of a request do not touch each other here.

### Waiting

`listener` is the table's entry for the token, `conn[c]` what the server has done
with a connection, `told[c]` the last status sent to it. `emits` are calls of
`emitState` waiting for the record, in the order they asked for it; `visits` the
broadcasts waiting at an entry of the table; `removals` the removals put off
with `setImmediate`. Store answers come in order and take any time. A record
handed out is live, so an emission sends the status of the moment it sends.

| Action | Code |
|---|---|
| `Connect`, `Found` | GET /api/guard/wait-sse, `addListener` |
| `EmitRead`, `EmitSend`, `RemovalRuns` | `emitState`, `removeListener` |
| `Broadcast` (part of the deciding actions), `VisitDone` | `broadcastForRequestId` |
| `Decide`, `Expire`, `ExpiryBroadcast`, `Nudge`, `Purge` | what happens to the request, reduced to its status and its broadcasts |
| `PollAsk`, `PollTimer` | GET /api/guard/wait |
| `SdkAsk`, `SdkAnswered`, `SdkGivesUp` | `wait()` of the SDK |

It assumes of the store that a record read after a decision shows the decision,
which holds for the memory store and, on Redis, for all but denials
(finding 5). A client that goes away is not noticed by the
server and therefore not told apart from one that stays. Two things worth
knowing that the properties allow: a stream whose record was purged while its
emission waited is told `expired` even if the request was approved, and the
listener of a request whose expiry was never broadcast and which was then purged
stays in the table.

### Clock, RateLimiter, ReplayGuard

`Clock` counts ticks and may be set back once. `RateLimiter` counts tokens in
parts, so that the fractions `isAllowed` adds are whole numbers; `admits` is
history. `ReplayGuard` has deliveries Slack signed with a timestamp that drifts
from the server's clock by at most `Drift` seconds; `Handle` and `Replayed` are
the two outcomes of the skew check with `markAndCheckReplay`, `Sweep` its timer.
A delivery signed in or after the second it arrives in may be handled a second
time when its entry has ended, since it is still within the accepted skew then;
`HandledOnce` says this is the only way while the clock is not set back. Buckets
and entries live in the process: a restart forgets them, and buckets are never
removed.

### Overrides

A value is known by its type and its text. `OpenForm` fills the fields with the
texts of the moment, `EditField` changes one, `SchemaShown` is GET /api/schemas,
which fills the same schema cache, `Submit` is the whole `view_submission` handler:
the comparison with the record as it is *now* (`Changed`), the limits, coercion, the
schema, the merge, and then `applyApproval`, whose refusal leaves the parameters
changed (finding 2). A submission over the limits does nothing and is no action. A
schema is what it lets through (types, enumerated values, patterns, lengths,
ranges); it is read from disk once in the life of the process, and a policy reload
does not read it again. Consequences that the definitions show: clearing a field
(null) is never a change; a boolean property never accepts an override, because a
text becomes a string or a number; a text of digits becomes a number and fails
`type: string`; opening the form asks neither the status nor the approver list; a
stale form puts back what others changed (`FormHonoured` is what the code keeps to,
at that price); and approvals given before the change keep counting.

### SlackQueue

A payload is the number of the update of its message. The Map is the sequence
of its items in insertion order (`Map.set` on a present key keeps the place);
`sending` is the item `drain` took out and waits on; `dropped` are the updates Slack
refused and those an item put back replaced. `Enqueue`, `TimerFires`,
`SlackAccepts`, `SlackRefuses`, `SlackRateLimits` and `LoopResumes` are the
stretches of `enqueueUpdate` and `drain` between awaits.

## 3. Runs

| Run | Instance | Shows |
|---|---|---|
| `decisions` | 1 request, 3 approvers and an outsider, 2 personas, 1 pass, quorum 1 or 2 raised to 3, clock 0-5, retention 1 | `TypeOK`, `QuorumMet`, `NoQuorumWaiting`, `ApprovalsConsistent`, `CountersAgree`, `PersonaGate`, `NotStranded`, `DecisionStable`, `EscalationOnce`, and that the specification implements `GuardPromise` (`PromiseKept`) |
| `passes` | 2 requests with a quorum of 2 and 1 approver, 2 overlapping passes, clock 0-3, fair | `CountersAgree`, `DecisionStable`, `EscalationOnce`, `ExpiryOnTime`, `DueRequestsEnd` |
| `lineage` | 3 requests, re-request limit 2, window 1, retention 2, pilot cap 2, one persona, fair | `RerequestBound`, `AcksOpenApproval` |
| `redis` | 1 process, 2 approvers, up to 2 personas, quorum 1 or 2, 3 calls in any order, restarts | `TypeOK`, `PersonaGate`, `ApprovalEarned`, `ApprovalStored` |
| `waiting` | 2 connections, 1 asking client, 1 broadcast without a decision, 2 SDK questions, fair | `TypeOK`, `NoOrphan`, `ToldTruth`, `ToldBeforeEnd`, `StreamsEnd`, `WaitsReturn` |
| `parts` | 1 address with a bucket of 2 tokens; 1 delivery, skew and lifetime 2 s, drift 1 s; 2 approvers, 2 fields, 3 texts, 2 schemas; clock 0-9, 2 ticks a second; 2 messages, 3 updates each, 2 rate limits; 4 proxies, 3 values, a stack of 3; fair for the queue | `RateTypeOK`, `RateBound`, `HandledOnce`, `EditsValid`, `UntouchedKept`, `FormHonoured`, `QueueTypeOK`, `WakeupNotLost`, `RestShowsLatest`, `ShownForward`, `ComesToRest`, `OneValue`, `PatchedOnce` |
| `gate_after_reload`, `override_rejected`, `expiry_untold`, `queue_rate_limited`, `redis_denial`, `redis_quorum` | small | one disagreement each, section 6 |

Why these bounds.

* `decisions`, `passes`, `lineage`: requests touch each other only through the
  scheduler's list, the lineage and the counters, so one request with all its
  actors covers what happens to a request, two cover a pass that goes on from one
  to the next, and three are a lineage at its limit of two with its original.
  Three approvers are one more than the larger base quorum, so that an escalated
  quorum of three can still be reached and an approval can come too late. The
  clock runs past expiry and retention. Two passes are enough for one to hold a
  record another one has changed. In `passes` the requests cannot be approved: a policy
  loads although it asks for more approvals than it has approvers (policy.ts:59), and
  `DueRequestsEnd` says that such requests end too. In `decisions` the approvers are
  interchangeable, and so are the personas, as every policy of the instance names
  all of them or none; hence the symmetry, used in a run without liveness
  properties.
* `redis`: three calls are two that conflict and one that finds what they left; two
  personas are needed for an ack that is lost while the other opens nothing. One
  call already puts up to a dozen commands on the connection, so the pipe is where
  the interleaving is, and every read adds a live proxy. Approvers and personas are
  interchangeable. All its safety is proved for any number of proxies and calls, and
  all but `ApprovalStored` for any number of processes.
* `waiting`: two connections are one that is replaced and the one that replaces
  it, and the second can connect in the middle of the first one's emission or
  removal. One broadcast without a decision puts an emission before the deciding
  one. The asking client may start as a poll or as an SDK call.
* `parts`: its five parts share at most the clock, so a behaviour moves one of
  them, chosen in its initial state (`part`), which keeps the run a sum and
  not a product. Nine ticks pass the skew, the lifetime and a refill from
  empty; two numerals that denote one number, and a word, are the texts for which
  comparison, coercion and schema can disagree. Three updates are one in flight, one put
  back and one newer. Four proxies are one more than the stack holds, so that an
  assignment may overflow it, and three values are one assigned and two that differ.

The bounds of the models themselves: `MaxRequests`, `MaxTime`, the number of
`Passes`; `MaxCalls`; `MaxNudges`, `MaxAsks`; `MaxUpdates`,
`MaxRateLimits`; `MaxClock`; `MaxProxies`, `StackLimit`.

`RerequestBound` says something only when retention keeps a request longer
than the window, as in `lineage`; the end of section 6 says what happens
otherwise.

**Fairness.** Liveness uses weak fairness only.

* `GuardRequests`: `Tick` (time passes), each pass's steps (the interval timer
  keeps firing and an awaited Slack call returns or throws), `PersonaSettle` (an
  awaited store call returns). None is assumed of people, of Slack succeeding,
  or of policy reloads.
* `Waiting`: the store answers, timers fire, an SDK that sleeps asks again or
  gives up. Nobody has to connect, to decide the request or to let its expiry be
  broadcast: `StreamsEnd` is about decisions that were.
* `SlackQueue`: timers fire and Slack answers in some way. `ComesToRest` also
  rests on the bound on rate limits: a Slack that rate-limits for ever keeps the
  queue busy for ever.

Deadlock is checked in the runs of `GuardRequests`, where the scheduler, a reload
or a time step is always possible. It is not in the others: an idle queue,
connection or client has nothing to do, and the bounds end what would go on.

Every property has a mutant in `PROJECT.json`: a plausible slip in the code,
written next to the definition it replaces (`PersonaSettleOwn`,
`AddListenerKeeping`, `PersonaSettledOwn`, ...), under which TLC finds that
property violated. These operators are not part of the specifications.

## 4. Proofs

All are for any number of requests, users, personas, processes, connections,
deliveries and fields, and any bounds; `RedisApprovalStored` alone is for one
process. They use the named assumptions of the
modules, which only type the constants (in `ReplayGuard` also that an entry
is kept at least as long as a timestamp is accepted, as 300 s and 300 s are). No
finiteness of `Users` is assumed: the voters of a request are finite in number
because they come from a list.

* `GuardRequestsProofs`. `TypeCorrect` is inductive as it stands. The quorum
  properties are not: that an approved request has its votes holds only because
  the votes are distinct, all come from the approver list, and are counted the
  moment they are added. `QuorumInv` is the conjunction over all requests of
  `Tallied(r)`: no approvals before creation, the list names nobody twice and
  only allowed users, its length is the count, it is below the quorum while the
  request is open (when not empty) and reaches it when approved. It is preserved
  by every action, among them `Escalate`, which raises the quorum of open requests
  only. `QuorumCorrect`, `NobodyWaitsAtQuorum` and `ApprovalsCorrect` follow.
* `GuardDecisionProofs`. Lemma `StepShape` says what any step can do to one request:
  leave it as it was, create it, open it for approval, add a vote, reject it,
  escalate it, or purge it. `PassClock` is the invariant that the time a pass holds
  is not in the future; with it the old reading of a pass can make an expiry late
  but never early. `DecisionsFinal`, `EscalatesOnce` and `ExpiresOnTime` follow for
  every step, and `PromiseIsKept` shows each shape to be a step of `GuardPromise` or
  a stutter under the mapping in `GuardRequests`. It needs one more invariant, that
  only decided requests are deleted. `QuorumInv` says nothing of personas: the
  persona gate does not hold of the code as it is (finding 1). It does under the
  hypothesis `PersonasAlike`: all policies the file ever holds require personas, or
  none does. `PersonaInv` says of each request that before creation nothing is
  acknowledged, that an open or approved one has all its acks, and that a waiting
  one whose acks are all in has an ack handler about to open it; `PersonaGateStands`
  and `NobodyStranded` follow.
* `GuardCountProofs`. The metrics are compared with the number of requests that are
  in a state, so each step is shown to move a counter and the set it counts by the
  same one request: the counting lemmas say how a filtered set changes when one
  member enters or leaves it, and `CountersCorrect` follows shape by shape from the
  lemmas on steps. `RerequestsBounded` takes an invariant on the lineage alone
  (`Timely`): of the requests of a lineage made within a window, the ones before the
  latest were all in the store when it was created, so the limit has counted
  them. It has the hypothesis that retention keeps a request longer than the
  window; without it the property fails (end of section 6).
* `RedisStoreProofs`. What may still be written is in the pipes, so the gate is
  inductive only together with them: `Covered` says that every record and every
  patch on its way is open or approved only if all acks were accepted, and that the
  personas it marks acknowledged are among the accepted ones. Every command's answer
  leads to covered commands only, whatever it overwrites. What a patch carries
  depends on the assignment alone, and on the live proxies only how many times it is
  written: `Proxied` says that there are finitely many of them, and `ReachCounts`
  that a patch is written at least once. `RedisPersonaGate` follows, crashes and
  several processes included, and `RedisTypeCorrect` with it: a covered command is a
  typed one.
* `RedisApprovalProofs`. `ApprovalStored` is about connections at rest, and what
  makes it true is the order of what is on them before. One process is either in
  need of several approvals (`Several`), or has approved nothing (`Undecided`), or
  has announced an approval (`Announced`). Then its vote is in the list or is on its
  way, once; its snapshot makes every record it reads approved; and the decision
  goes along the connection in three stages. First its update has not been read, and
  nothing behind it takes the decision back (`ToUpdate`). Then older copies may
  still be written over it, but behind them comes a field patch that will find an
  approved record (`ToPatch`): this is where the restoring writes of the proxies,
  which look like waste in the code, carry the property. At last every write left
  leaves the record approved (`Settled`). A field patch reads the record without the
  snapshot, so what counts is the last write before it (`Sees`). `Replies` says once
  what a handler may issue, and one lemma per handler shows that it does;
  `RedisApprovalStored` follows. Its hypothesis is one process, for with two the
  property fails (end of section 6). `RedisApprovalEarned` is for any number of
  them: until an approval is announced none is stored, shown by a snapshot or
  carried by a command, and once one is, one vote was enough and was cast (`Ground`,
  with `Uniform`: copies of the record keep its quorum). This is the quorum the code
  does decide, a larger one it never does (finding 6).
* `WaitingProofs`. `WaitInv` adds to the four properties that emissions under way go
  to the connection in the table unless it was registered after them (`EmitsReach`),
  that a removal that is due ends a connection which was told or was registered
  after it (`RemovalsTold`), that only decided requests are purged and that an SDK
  that waits has asked. One lemma per action; `NoneOrphaned`, `TruthTold` and
  `ToldBeforeTheEnd` follow.
* `SlackQueueProofs`. `QueueInv` ties the two flags to the timer and to the item
  in flight (`Flags`), and orders the versions of a message: shown, in
  flight, waiting, enqueued (`InOrder`, `Latest`). A message waits at most once, which
  the sequence that stands for the Map has to be shown to keep. `QueueWakes`,
  `RestIsLatest` and `ShownGoesForward` follow.
* `PartsProofs`, the rate limiter. `RateBound` is about any stretch of admissions,
  so the invariant keeps an account per stretch: what was admitted since, plus what is in
  the bucket, is at most a full bucket plus the refill of the bucket's own time
  (`Paid`, `Account`). The bound is measured on that time, which never goes back,
  because `last` does not follow a clock that does.
* `PartsProofs`, replays and forms. `Remembered` says of the last time a delivery
  was handled that its entry still stands for a whole lifetime from then, or that
  the lifetime is over; with a lemma on whole seconds (`WholeSeconds`) it gives
  `OnceHandled`. `EditsAreValid`, `UntouchedAreKept` and `FormIsHonoured` follow
  from what a merged submission does to one field (`MergedOne`) and from submissions
  being all that changes parameters (`OnlySubmissions`).
* `PartsProofs`, live proxies. The invariant says what the first trap of an
  assignment has left behind it: every proxy it has passed has the value
  (`FirstTrap`), and each proxy whose trap has begun is on the stack once or has
  queued its patch, never both (`TrappedOnce`). `ProxiesAgree` and
  `ProxiesPatchOnce` follow when the stack is empty.

Only model-checked: the five liveness properties (`DueRequestsEnd`, `AcksOpenApproval`,
`ComesToRest`, `StreamsEnd`, `WaitsReturn`), which are beyond the prover.
Every safety property of a passing run is a theorem.

## 5. Not modelled

* Of the Redis store: time to live (a SET clears it, and the approvals list has
  none), deletion by retention, escalation, the override modal (its changes of
  `redacted_params` are never persisted), `updateStatus`,
  which nobody calls, and the branch for the test runner.
* Of `applyApproval`: its diagnostics, and the heal timer, which finds nothing to
  heal where the store is current.
* Parsing of policies, redaction, message layout, spans, logs, the archive file,
  configuration, health and status endpoints, signature cryptography.
* A restart of a service over the memory store: it loses everything, and nothing
  is recovered.
* Heartbeats of the event stream, and a client whose disconnect the server is
  told of.

## 6. Where code and documents disagree

1. `gate_after_reload` (server.ts:212): a re-request takes its first status from the
   original's personas and its personas from the policy now in force. After a
   reload that adds a persona it is open for approval with the persona pending,
   against docs/persona-flow.md:7.
2. `override_rejected` (server.ts:457): an override modal changes the parameters
   although its approval is refused, against README.md:171.
3. `expiry_untold` (scheduler.ts:83): when Slack refuses the update of an expired
   request its event stream is never told, against docs/api.md:215.
4. `queue_rate_limited` (slack-queue.ts:55): an update put back after a rate limit
   replaces a newer one, against slack-queue.ts:3-4.
5. `redis_denial` (store/redis.ts:76): a denial sets two fields of the record's
   proxy; the second one's microtask reads the record before the first has been
   written and its own write undoes the denial, against store/redis.ts:10.
6. `redis_quorum` (approval.ts:178): over Redis each approval counts one, whoever voted
   before, and where one is not enough the promise of a last read takes the place of the
   request (approval.ts:291-302). A request that needs two approvals is never approved,
   against README.md:91 and docs/rfc-approval-service.md:284, although README.md:511
   asks for Redis before replicas are scaled and README.md:533 recommends it.

Observed while modelling and stated here without a run: an approval by button is
observed twice in the latency histogram (server.ts:590, against the comment at
server.ts:588); `approvals_total` grows only with the approval that decides a
request (approval.ts:207), where docs/metrics.md:10 has it count every accepted
approval action, terminal or intermediate, so that a quorum of two leaves the first
out (the help text at metrics.ts:81, "Approvals leading to terminal state", agrees
with the code, and `CountersAgree` says nothing of this counter); the comment at
server.ts:183 allows five requests in 24 hours "including original", where the code
and docs/lineage.md:10 allow the original and five more, and `RerequestBound`
follows the code; `escalateMinApprovals` of a policy never reaches the record
(server.ts:282, against types.ts:58 and what tests/escalate-quorum.test.ts sets out
to simulate); a retention shorter than a day, which README.md:223 allows, purges
re-requests out of the count that limits them (server.ts:185), and a lineage gets
more than docs/lineage.md:10 allows; with two processes over one Redis,
`ApprovalStored` fails: one announces an approval while the other records the Slack
message (store/redis.ts:116) in the copy it read before, and Redis holds the request
open again (against README.md:511).

## 7. What is left

1. `RedisStore` with escalation, retention and time to live, and a refinement of
   `GuardPromise` by it under the restrictions it needs (one process, quorum one,
   no denials).
2. Policy evaluation (fallback for unknown actions, channel choice) and redaction
   as operators with a reference definition.
3. Proofs: the refinement of item 1, for which `RedisApprovalProofs` has most of the
   invariant, and an abstract specification of the Slack queue (a message shows its
   updates in order and ends at the last) which `SlackQueue` is shown to implement.
