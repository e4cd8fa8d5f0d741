----------------------------- MODULE RedisStore -----------------------------
(***************************************************************************)
(* The Redis store under the Slack handlers and the scheduler, for one     *)
(* request.  A process has one connection, and its commands are executed   *)
(* in the order in which they were issued.  Every operation of the store   *)
(* reads the whole record, changes its copy and writes it all back, and    *)
(* what runs in between is whatever the connection already carries.        *)
(*                                                                         *)
(* A process learns the answers in the order of its commands and computes  *)
(* what it issues next from the answer and its own memory alone, so an     *)
(* action executes the command at the head of a connection and issues what *)
(* its answer leads to.  decided_at is modelled as "is it set".            *)
(*                                                                         *)
(* Every request a process has read stays live: a field set on one of      *)
(* these proxies is set on all the others that show another value, and     *)
(* each of them persists it for itself (LiveProxies has the steps).        *)
(***************************************************************************)
EXTENDS Integers, Sequences, FiniteSets

CONSTANTS
  Pods,         \* processes that share the Redis server
  Users,        \* the approvers of the request
  Personas,     \* the personas it may require
  Mins,         \* the quorums it may have
  MaxCalls      \* bound on button presses, reads, Slack posts and scheduler scans

ASSUME BoundsAssumption ==
  /\ Mins \subseteq Nat \ {0}
  /\ MaxCalls \in Nat

VARIABLES
  record,     \* req:{id}
  approvals,  \* approvals:{id}, as actors in order
  pipe,       \* commands a process has issued and the server has not executed
  snapshot,   \* processes with an entry in optimisticRequestSnapshot
  refs,       \* liveRefs: the proxies of the request that each process has handed out
  passes,     \* scheduler passes that hold a copy of the open request and await Slack
  due,        \* expires_at has passed
  calls,      \* calls made so far
  outcomes,   \* decisions some handler or pass has taken and announced
  voters,     \* users whose approval was accepted
  ackers,     \* personas whose acknowledgement was accepted
  lost        \* a process died with commands Redis had not executed

server == <<record, approvals>>
memory == <<snapshot, refs, passes>>
ghosts == <<outcomes, voters, ackers, lost>>
vars   == <<server, pipe, memory, due, calls, ghosts>>

Terminal == {"approved", "denied", "expired"}
Statuses == {"awaiting_personas", "ready_for_approval"} \cup Terminal

RecordType == [status: Statuses, approvals_count: Nat, decided_at: BOOLEAN,
               persona_state: SUBSET Personas,   \* the personas marked "ack"
               slack_message_ts: BOOLEAN,        \* known or not
               required_personas: SUBSET Personas, min_approvals: Mins]

\* What is told apart of a live proxy: the fields a field patch may be about.
LiveType == [status: Statuses, approvals_count: Nat, decided_at: BOOLEAN]

PatchType == [status: Statuses] \cup [approvals_count: Nat] \cup [decided_at: {TRUE}]

\* A proxy of record r.
Live(r) == [status |-> r.status, approvals_count |-> r.approvals_count,
            decided_at |-> r.decided_at]

\* createRequest has been awaited before anybody knows the request, and the process that ran
\* it has a proxy of it.
Init ==
  /\ \E m \in Mins, required \in SUBSET Personas :
       record = [status |-> IF required = {} THEN "ready_for_approval"
                            ELSE "awaiting_personas",
                 approvals_count |-> 0, decided_at |-> FALSE, persona_state |-> {},
                 slack_message_ts |-> FALSE, required_personas |-> required,
                 min_approvals |-> m]
  /\ approvals = <<>>
  /\ pipe = [p \in Pods |-> <<>>]
  /\ snapshot = {}
  /\ \E p \in Pods : refs = [q \in Pods |-> IF q = p THEN <<Live(record)>> ELSE <<>>]
  /\ passes = [p \in Pods |-> 0]
  /\ due = FALSE
  /\ calls = 0
  /\ outcomes = {} /\ voters = {} /\ ackers = {} /\ lost = FALSE

-----------------------------------------------------------------------------
(* Commands.  A command that reads is named for what its answer is used for. *)

CommandType ==
       [op: {"approve", "deny", "addApproval"}, by: Users]
  \cup [op: {"ack", "updatePersonaState"}, persona: Personas]
  \cup [op: {"setApprovals"}, list: Seq(Users)]
  \cup [op: {"countApprovals"}, count: Nat]
  \cup [op: {"set", "setPersona"}, record: RecordType]
  \cup [op: {"get", "settle", "setSlackMessage", "scan"}]
  \cup [op: {"updateFields"}, patches: Seq(PatchType)]
  \cup [op: {"persist"}, patch: PatchType]

\* The record with single-field patches applied.
Change(r, patches) ==
  [f \in DOMAIN r |->
     IF \E i \in DOMAIN patches : f \in DOMAIN patches[i]
     THEN patches[CHOOSE i \in DOMAIN patches : f \in DOMAIN patches[i]][f]
     ELSE r[f]]

\* "pending", which the schema of the status knows, in place of the code's own name.
StatusOfSchema(s) == [status |-> IF s = "ready_for_approval" THEN "pending" ELSE s]
Status(s) == [status |-> s]
Count(n)  == [approvals_count |-> n]
Decided   == [decided_at |-> TRUE]

Update(patches) == [op |-> "updateFields", patches |-> patches]
SetRecord(r)    == [op |-> "set", record |-> r]

\* The overlay without the time of the decision.
OverlayUndated(p, r) ==
  IF p \in snapshot
  THEN [r EXCEPT !.status = "approved", !.approvals_count = IF @ > 1 THEN @ ELSE 1]
  ELSE r

\* A request record as this process reads it: a decision of its own shows although it may not
\* have been written.
Overlay(p, r) ==
  IF p \in snapshot
  THEN [r EXCEPT !.status = "approved", !.decided_at = TRUE,
                 !.approvals_count = IF @ > 1 THEN @ ELSE 1]
  ELSE r
getRequest(p) == Overlay(p, record)

Executes(p, op) == pipe[p] # <<>> /\ Head(pipe[p]).op = op
Arg(p)          == Head(pipe[p])
Issue(p, cmds)  == pipe' = [pipe EXCEPT ![p] = Tail(@) \o cmds]

\* The set traps of the proxies: for each patch in turn a read-modify-write of its field by
\* each of the n[i] proxies the value is set on, queued as microtasks and so issued after what
\* the handler itself issues.
Persist(patches, n) ==
  LET Of(i) == IF i \in DOMAIN patches
               THEN [j \in 1 .. n[i] |-> [op |-> "persist", patch |-> patches[i]]]
               ELSE <<>>
  IN  Of(1) \o Of(2) \o Of(3)

\* On how many proxies each patch is set: the one it is assigned to, and every other that shows
\* another value.  Of two times of a decision nothing says whether they are the same.
Reach(p, patches) ==
  LET Differing(i) == {j \in DOMAIN refs[p] :
                         Change(refs[p][j], <<patches[i]>>) # refs[p][j]}
      Timed == {j \in DOMAIN refs[p] : refs[p][j].decided_at}
  IN  {[i \in DOMAIN patches |->
          1 + Cardinality(Differing(i)) + IF patches[i] = Decided THEN k ELSE 0] :
       k \in 0 .. Cardinality(Timed)}

\* The proxy of the record process p has read, and the patches set on it and on the others.
Registers(p, patches) ==
  refs' = [refs EXCEPT ![p] = [j \in 1 .. Len(@) + 1 |->
             Change(IF j <= Len(@) THEN @[j] ELSE Live(getRequest(p)), patches)]]
Reads(p) == Registers(p, <<>>)

\* An event from outside that makes process p issue a command.
Call(p, cmd) ==
  /\ calls < MaxCalls
  /\ calls' = calls + 1
  /\ pipe' = [pipe EXCEPT ![p] = Append(@, cmd)]
  /\ UNCHANGED <<server, memory, due, ghosts>>

-----------------------------------------------------------------------------
(* Slack interactions *)

PressApprove(p, u) == Call(p, [op |-> "approve", by |-> u])
PressDeny(p, u) == Call(p, [op |-> "deny", by |-> u])
PressAck(p, a)      == Call(p, [op |-> "ack", persona |-> a])

\* The vote that is being cast, counted with itself ...
QuorumReachedTwice(r, count) == count + 1 >= r.min_approvals

\* ... once.
QuorumReached(r, count) == count >= r.min_approvals

\* applyApproval over promises.  Its first read of the request is not awaited.  It sees no earlier
\* approval, so it counts one whoever voted before; where one is enough it decides the request,
\* and where not the promise of a last read takes the place of the request and ends the matter.
ApproveFound(p) ==
  LET r == getRequest(p)
      get == [op |-> "get"]
      add == <<get, [op |-> "addApproval", by |-> Arg(p).by], Update(<<Count(1)>>)>>
      vote == <<Count(1)>>
      decision == <<Count(1), Status("approved"), Decided>>
  IN  /\ Executes(p, "approve")
      /\ \/ /\ r.status # "ready_for_approval"
            /\ Issue(p, <<get>>)
            /\ Reads(p)
            /\ UNCHANGED <<snapshot, outcomes, voters>>
         \/ /\ r.status = "ready_for_approval" /\ ~QuorumReached(r, 1)
            /\ \E n \in Reach(p, vote) : Issue(p, Append(add, get) \o Persist(vote, n))
            /\ Registers(p, vote)
            /\ voters' = voters \cup {Arg(p).by}
            /\ UNCHANGED <<snapshot, outcomes>>
         \/ /\ r.status = "ready_for_approval" /\ QuorumReached(r, 1)
            /\ \E n \in Reach(p, decision) :
                 Issue(p, Append(add, Update(<<Status("approved"), Count(1), Decided>>))
                            \o Persist(decision, n))
            /\ Registers(p, decision)
            /\ snapshot' = snapshot \cup {p}
            /\ outcomes' = outcomes \cup {"approved"}
            /\ voters' = voters \cup {Arg(p).by}
      /\ UNCHANGED <<server, passes, due, calls, ackers, lost>>

\* addApproval: the list is read, and written back with the approval at its end ...
ApprovalsRead(p) ==
  /\ Executes(p, "addApproval")
  /\ Issue(p, <<[op |-> "setApprovals", list |-> Append(approvals, Arg(p).by)]>>)
  /\ UNCHANGED <<server, memory, due, calls, ghosts>>

ApprovalsWritten(p) ==
  /\ Executes(p, "setApprovals")
  /\ approvals' = Arg(p).list
  /\ Issue(p, <<[op |-> "countApprovals", count |-> Len(Arg(p).list)]>>)
  /\ UNCHANGED <<record, memory, due, calls, ghosts>>

\* A record read, patched through its proxy and written.
Rewrites(p, patches) ==
  /\ \E n \in Reach(p, patches) :
       Issue(p, <<SetRecord(Change(getRequest(p), patches))>> \o Persist(patches, n))
  /\ Registers(p, patches)
  /\ UNCHANGED <<server, snapshot, passes, due, calls, ghosts>>

\* ... and then the record is read and written back with the length of that list.
ApprovalsCounted(p) ==
  Executes(p, "countApprovals") /\ Rewrites(p, <<Count(Arg(p).count)>>)

\* applyDeny sets two fields of the record it was given and leaves the rest to the proxy.
DenyFound(p) ==
  LET denial == <<Status("denied"), Decided>>
  IN  /\ Executes(p, "deny")
      /\ IF getRequest(p).status \in Terminal
         THEN Issue(p, <<>>) /\ Reads(p) /\ UNCHANGED outcomes
         ELSE /\ outcomes' = outcomes \cup {"denied"}
              /\ \E n \in Reach(p, denial) : Issue(p, Persist(denial, n))
              /\ Registers(p, denial)
      /\ UNCHANGED <<server, snapshot, passes, due, calls, voters, ackers, lost>>

\* The ack handler: it looks at the persona, has updatePersonaState read and write the
\* record, reads the record again and may open the request.
AckFound(p) ==
  /\ Executes(p, "ack")
  /\ IF Arg(p).persona \notin record.required_personas \ getRequest(p).persona_state
     THEN Issue(p, <<>>) /\ UNCHANGED ackers
     ELSE /\ ackers' = ackers \cup {Arg(p).persona}
          /\ Issue(p, <<[op |-> "updatePersonaState", persona |-> Arg(p).persona]>>)
  /\ Reads(p)
  /\ UNCHANGED <<server, snapshot, passes, due, calls, outcomes, voters, lost>>

PersonaStateRead(p) ==
  LET r == getRequest(p)
  IN  /\ Executes(p, "updatePersonaState")
      /\ Issue(p, <<[op |-> "setPersona",
                     record |-> [r EXCEPT !.persona_state = @ \cup {Arg(p).persona}]]>>)
      /\ Reads(p)
      /\ UNCHANGED <<server, snapshot, passes, due, calls, ghosts>>

PersonaStateWritten(p) ==
  /\ Executes(p, "setPersona")
  /\ record' = Arg(p).record
  /\ Issue(p, <<[op |-> "settle"]>>)
  /\ UNCHANGED <<approvals, memory, due, calls, ghosts>>

\* The ack handler with what it waits for as a parameter.
Settles(p, complete) ==
  LET open == <<Status("ready_for_approval")>>
  IN  /\ Executes(p, "settle")
      /\ IF getRequest(p).status = "awaiting_personas" /\ complete
         THEN /\ \E n \in Reach(p, open) : Issue(p, <<Update(open)>> \o Persist(open, n))
              /\ Registers(p, open)
         ELSE Issue(p, <<>>) /\ Reads(p)
      /\ UNCHANGED <<server, snapshot, passes, due, calls, ghosts>>

\* The ack handler looking only at the persona that has just acknowledged.
PersonaSettledOwn(p) == Settles(p, TRUE)

PersonaSettled(p) ==
  Settles(p, getRequest(p).required_personas \subseteq getRequest(p).persona_state)

-----------------------------------------------------------------------------
(* The other readers and writers *)

\* Somebody reads the request for what it says: a poll, a page, a broadcast, the healing timer
\* of an approval.
Reader(p) == Call(p, [op |-> "get"])

\* getById whose answer is looked at, or is not, and leaves a live proxy.
GetAnswered(p) ==
  /\ Executes(p, "get")
  /\ Issue(p, <<>>)
  /\ Reads(p)
  /\ UNCHANGED <<server, snapshot, passes, due, calls, ghosts>>

\* setSlackMessage, once Slack has answered the post of the new request.
SlackPosted(p) == ~record.slack_message_ts /\ Call(p, [op |-> "setSlackMessage"])

SlackMessageRead(p) ==
  /\ Executes(p, "setSlackMessage")
  /\ Issue(p, <<SetRecord([getRequest(p) EXCEPT !.slack_message_ts = TRUE])>>)
  /\ Reads(p)
  /\ UNCHANGED <<server, snapshot, passes, due, calls, ghosts>>

\* A scheduler pass after expires_at.  It lists the records as they are stored, without the
\* overlay, and goes on with a copy of those that are open ...
ScanStart(p) == due /\ Call(p, [op |-> "scan"])

Scanned(p) ==
  /\ Executes(p, "scan")
  /\ Issue(p, <<>>)
  /\ passes' = IF record.status \in Terminal THEN passes ELSE [passes EXCEPT ![p] = @ + 1]
  /\ UNCHANGED <<server, snapshot, refs, due, calls, ghosts>>

\* ... which it expires when Slack has shown the requests before this one and this one, if
\* Slack has not refused.  It leaves that to updateFields, which looks at no status.
PassExpires(p) ==
  /\ passes[p] > 0
  /\ passes' = [passes EXCEPT ![p] = @ - 1]
  /\ outcomes' = outcomes \cup {"expired"}
  /\ pipe' = [pipe EXCEPT ![p] = Append(@, Update(<<Status("expired"), Decided>>))]
  /\ UNCHANGED <<server, snapshot, refs, due, calls, voters, ackers, lost>>

-----------------------------------------------------------------------------
(* The store *)

\* updateFields.
UpdateRead(p) == Executes(p, "updateFields") /\ Rewrites(p, Arg(p).patches)

\* The microtask of the set trap: it reads the record as it is stored, into a plain object.
PersistRead(p) ==
  /\ Executes(p, "persist")
  /\ Issue(p, <<SetRecord(Change(record, <<Arg(p).patch>>))>>)
  /\ UNCHANGED <<server, memory, due, calls, ghosts>>

RecordWritten(p) ==
  /\ Executes(p, "set")
  /\ record' = Arg(p).record
  /\ Issue(p, <<>>)
  /\ UNCHANGED <<approvals, memory, due, calls, ghosts>>

\* A process dies and another takes its place: what Redis has not executed is lost.
Restart(p) ==
  /\ pipe[p] # <<>> \/ p \in snapshot \/ passes[p] > 0 \/ refs[p] # <<>>
  /\ lost' = (lost \/ pipe[p] # <<>>)
  /\ pipe' = [pipe EXCEPT ![p] = <<>>]
  /\ snapshot' = snapshot \ {p}
  /\ refs' = [refs EXCEPT ![p] = <<>>]
  /\ passes' = [passes EXCEPT ![p] = 0]
  /\ UNCHANGED <<server, due, calls, outcomes, voters, ackers>>

ExpiresAtPassed ==
  /\ ~due /\ due' = TRUE
  /\ UNCHANGED <<server, pipe, memory, calls, ghosts>>

Step(p) ==
  \/ ApproveFound(p) \/ DenyFound(p) \/ AckFound(p)
  \/ ApprovalsRead(p) \/ ApprovalsWritten(p) \/ ApprovalsCounted(p)
  \/ PersonaStateRead(p) \/ PersonaStateWritten(p) \/ PersonaSettled(p)
  \/ GetAnswered(p) \/ SlackMessageRead(p) \/ Scanned(p)
  \/ UpdateRead(p) \/ PersistRead(p) \/ RecordWritten(p)

Next ==
  \/ \E p \in Pods :
       \/ \E u \in Users : PressApprove(p, u) \/ PressDeny(p, u)
       \/ \E a \in Personas : PressAck(p, a)
       \/ Reader(p) \/ SlackPosted(p) \/ ScanStart(p) \/ PassExpires(p)
       \/ Step(p) \/ Restart(p)
  \/ ExpiresAtPassed

Spec == Init /\ [][Next]_vars

-----------------------------------------------------------------------------
(* Properties *)

AtRest == \A p \in Pods : pipe[p] = <<>>

\* Every variable keeps its type.
TypeOK ==
  /\ record \in RecordType
  /\ approvals \in Seq(Users)
  /\ \A p \in Pods : \A i \in DOMAIN pipe[p] : pipe[p][i] \in CommandType
  /\ snapshot \in SUBSET Pods
  /\ refs \in [Pods -> Seq(LiveType)]
  /\ passes \in [Pods -> Nat]
  /\ due \in BOOLEAN /\ lost \in BOOLEAN
  /\ calls \in 0 .. MaxCalls
  /\ outcomes \in SUBSET Terminal
  /\ voters \in SUBSET Users
  /\ ackers \in SUBSET Personas

\* The stored record is open for approval, or approved, only if the acknowledgement of every
\* persona it requires was accepted, whichever process wrote it, from whatever copy, and
\* whatever was lost in a restart.
PersonaGate ==
  record.status \in {"ready_for_approval", "approved"} =>
    record.required_personas \subseteq ackers

\* Redis holds an approval only if some process announced one, and only of a request that as many
\* distinct users approved as it required, whatever counts, field patches and copies of the record
\* are written meanwhile, and whatever was lost in a restart.
ApprovalEarned ==
  record.status = "approved" =>
    "approved" \in outcomes /\ Cardinality(voters) >= record.min_approvals

\* Once the connections are quiet, an approval that was announced is what Redis holds, with
\* its approver and its count, although handlers with older copies wrote the record meanwhile,
\* a denial was under way, and field patches read it before the decision was written.  (The
\* scheduler, which looks at the stored status and writes without looking again, may expire an
\* approved request: see the README.)
ApprovalStored ==
  AtRest /\ ~lost /\ "approved" \in outcomes /\ "expired" \notin outcomes =>
    /\ record.status = "approved" /\ record.decided_at
    /\ Len(approvals) = 1 /\ record.approvals_count = 1

\* redis.ts:10 has the status set on a request object persisted: a denial that was announced is
\* what Redis holds once the connections are quiet.
DenialStored ==
  AtRest /\ ~lost /\ outcomes = {"denied"} => record.status = "denied"

\* README.md:91 and docs/rfc-approval-service.md:284 have a request approved when its quorum of
\* approvals is reached: a request that so many distinct users have approved, and nobody denied or
\* let expire, is approved once the connections are quiet.
QuorumApproves ==
  AtRest /\ ~lost /\ outcomes \subseteq {"approved"}
         /\ Cardinality(voters) >= record.min_approvals => record.status = "approved"
=============================================================================
