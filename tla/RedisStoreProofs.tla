-------------------------- MODULE RedisStoreProofs --------------------------
(***************************************************************************)
(* The persona gate on Redis, for any number of processes, approvers,      *)
(* personas and calls.  Every copy of the record on its way is as well     *)
(* covered as the record itself: it shows no acknowledgement that was not  *)
(* accepted, and is open or approved only if all of them were.  Restarts   *)
(* and overwritten updates lose copies and bring older ones back, but no   *)
(* copy is ever worse.                                                     *)
(***************************************************************************)
EXTENDS RedisStore, TLAPS, SequenceTheorems, FiniteSetTheorems

Opening == {"ready_for_approval", "approved"}

\* Personas required, personas whose acknowledgement was accepted.
SafeRecord(req, acks) ==
  {r \in RecordType : /\ r.required_personas = req
                      /\ r.persona_state \subseteq acks
                      /\ r.status \in Opening => req \subseteq acks}

SafeStatus(req, acks) == {s \in Statuses : s \in Opening => req \subseteq acks}
SafePatch(req, acks) ==
  [status: SafeStatus(req, acks)] \cup [approvals_count: Nat] \cup [decided_at: {TRUE}]

SafeCommand(req, acks) ==
       [op: {"approve", "deny", "addApproval"}, by: Users]
  \cup [op: {"ack"}, persona: Personas]
  \cup [op: {"updatePersonaState"}, persona: acks]
  \cup [op: {"setApprovals"}, list: Seq(Users)]
  \cup [op: {"countApprovals"}, count: Nat]
  \cup [op: {"set", "setPersona"}, record: SafeRecord(req, acks)]
  \cup [op: {"get", "settle", "setSlackMessage", "scan"}]
  \cup [op: {"updateFields"}, patches: Seq(SafePatch(req, acks))]
  \cup [op: {"persist"}, patch: SafePatch(req, acks)]

required == record.required_personas
Commands == SafeCommand(required, ackers)

Covered ==
  /\ ackers \subseteq Personas
  /\ approvals \in Seq(Users)
  /\ record \in SafeRecord(required, ackers)
  /\ pipe \in [Pods -> Seq(Commands)]
  /\ snapshot \subseteq Pods
  /\ snapshot # {} => required \subseteq ackers

\* The proxies of every process are finitely many, so that a patch is set on each of a number of
\* them, its own among them.
Proxied == refs \in [Pods -> Seq(LiveType)]

Copies(patches) == [DOMAIN patches -> Nat \ {0}]

-----------------------------------------------------------------------------
\* A record is what its fields are.
LEMMA RecordFields ==
  ASSUME NEW r \in RecordType
  PROVE  /\ r.status \in Statuses /\ r.approvals_count \in Nat /\ r.decided_at \in BOOLEAN
         /\ r.persona_state \subseteq Personas /\ r.required_personas \subseteq Personas
         /\ DOMAIN r = {"status", "approvals_count", "decided_at", "persona_state",
                        "slack_message_ts", "required_personas", "min_approvals"}
BY DEF RecordType

LEMMA PersistSafe ==
  ASSUME NEW S, NEW patches \in Seq(S), NEW n \in Copies(patches)
  PROVE  /\ Persist(patches, n) \in Seq([op: {"persist"}, patch: S])
         /\ Len(patches) > 0 => Len(Persist(patches, n)) > 0
<1> DEFINE C == [op: {"persist"}, patch: S]
           Of(i) == IF i \in DOMAIN patches
                    THEN [j \in 1 .. n[i] |-> [op |-> "persist", patch |-> patches[i]]]
                    ELSE << >>
<1>1. ASSUME NEW i \in DOMAIN patches
      PROVE  Of(i) \in Seq(C) /\ Len(Of(i)) = n[i] /\ n[i] \in Nat \ {0}
  <2>1. n[i] \in Nat \ {0} /\ patches[i] \in S
    BY <1>1 DEF Copies
  <2>2. [op |-> "persist", patch |-> patches[i]] \in C
    BY <2>1
  <2>3. Of(i) = [j \in 1 .. n[i] |-> [op |-> "persist", patch |-> patches[i]]]
    BY <1>1
  <2> HIDE DEF Of, C
  <2> QED
    BY <2>1, <2>2, <2>3
<1>2. ASSUME NEW i PROVE Of(i) \in Seq(C)
  <2>1. CASE i \in DOMAIN patches
    BY <1>1, <2>1
  <2>2. CASE i \notin DOMAIN patches
    BY <2>2
  <2> QED
    BY <2>1, <2>2
<1>3. Persist(patches, n) = Of(1) \o Of(2) \o Of(3)
  BY DEF Persist
<1>4. Len(patches) > 0 => Len(Of(1)) > 0
  <2>1. Len(patches) > 0 => 1 \in DOMAIN patches
    OBVIOUS
  <2>2. 1 \in DOMAIN patches => Len(Of(1)) = n[1] /\ n[1] \in Nat \ {0}
    BY <1>1
  <2> HIDE DEF Of
  <2> QED
    BY <2>1, <2>2
<1>5. Of(1) \in Seq(C) /\ Of(2) \in Seq(C) /\ Of(3) \in Seq(C)
  BY <1>2
<1> HIDE DEF Of, C
<1>6. Persist(patches, n) \in Seq(C) /\ (Len(patches) > 0 => Len(Persist(patches, n)) > 0)
  BY <1>3, <1>4, <1>5
<1> QED
  BY <1>6 DEF C

\* A patch is set on the proxy it is assigned to, and on as many others as differ.
LEMMA ReachCounts ==
  ASSUME Proxied, NEW p \in Pods, NEW patches, NEW n \in Reach(p, patches)
  PROVE  n \in Copies(patches)
<1> DEFINE D == DOMAIN refs[p]
           Differing(i) == {j \in D : Change(refs[p][j], <<patches[i]>>) # refs[p][j]}
           Timed == {j \in D : refs[p][j].decided_at}
<1>1. ASSUME NEW T, T \subseteq D PROVE Cardinality(T) \in Nat
  <2>1. D = 1 .. Len(refs[p]) /\ Len(refs[p]) \in Nat
    BY DEF Proxied
  <2>2. IsFiniteSet(D)
    BY <2>1, FS_Interval, 1 \in Int
  <2> HIDE DEF D
  <2>3. IsFiniteSet(T)
    BY <1>1, <2>2, FS_Subset
  <2> QED
    BY <2>3, FS_CardinalityType
<1>2. \A i : Cardinality(Differing(i)) \in Nat
  BY <1>1
<1>3. Cardinality(Timed) \in Nat
  BY <1>1
<1>4. PICK k \in 0 .. Cardinality(Timed) :
        n = [i \in DOMAIN patches |->
               1 + Cardinality(Differing(i)) + IF patches[i] = Decided THEN k ELSE 0]
  BY DEF Reach
<1> HIDE DEF Differing, Timed
<1>5. k \in Nat
  BY <1>3
<1>6. \A i \in DOMAIN patches :
        1 + Cardinality(Differing(i)) + (IF patches[i] = Decided THEN k ELSE 0) \in Nat \ {0}
  BY <1>2, <1>5
<1> QED
  BY <1>4, <1>6 DEF Copies

\* Patches keep a record safe.
LEMMA ChangeSafe ==
  ASSUME NEW req, NEW acks, NEW r \in SafeRecord(req, acks),
         NEW patches \in Seq(SafePatch(req, acks))
  PROVE  Change(r, patches) \in SafeRecord(req, acks)
<1> DEFINE c == Change(r, patches)
           Has(f) == \E i \in DOMAIN patches : f \in DOMAIN patches[i]
           value(f) == patches[CHOOSE i \in DOMAIN patches : f \in DOMAIN patches[i]][f]
<1>1. r \in RecordType
  BY DEF SafeRecord
<1>2. \A i \in DOMAIN patches : patches[i] \in SafePatch(req, acks)
  OBVIOUS
<1>3. ASSUME NEW f, Has(f)
      PROVE  \/ f = "status" /\ value(f) \in SafeStatus(req, acks)
             \/ f = "approvals_count" /\ value(f) \in Nat
             \/ f = "decided_at" /\ value(f) \in BOOLEAN
  <2> DEFINE k == CHOOSE i \in DOMAIN patches : f \in DOMAIN patches[i]
  <2>1. k \in DOMAIN patches /\ f \in DOMAIN patches[k]
    BY <1>3
  <2>2. patches[k] \in SafePatch(req, acks)
    BY <1>2, <2>1
  <2> HIDE DEF k
  <2>3. \/ patches[k] \in [status: SafeStatus(req, acks)]
        \/ patches[k] \in [approvals_count: Nat]
        \/ patches[k] \in [decided_at: {TRUE}]
    BY <2>2 DEF SafePatch
  <2>4. \/ f = "status" /\ patches[k][f] \in SafeStatus(req, acks)
        \/ f = "approvals_count" /\ patches[k][f] \in Nat
        \/ f = "decided_at" /\ patches[k][f] \in BOOLEAN
    BY <2>1, <2>3
  <2> QED
    BY <2>4 DEF k
<1>4. c = [f \in DOMAIN r |-> IF Has(f) THEN value(f) ELSE r[f]]
  BY DEF Change
<1> HIDE DEF c, Has, value
<1>5. /\ c.status \in SafeStatus(req, acks)
      /\ c.approvals_count \in Nat /\ c.decided_at \in BOOLEAN
      /\ c.persona_state = r.persona_state
      /\ c.slack_message_ts = r.slack_message_ts
      /\ c.required_personas = r.required_personas
      /\ c.min_approvals = r.min_approvals
  <2>1. r.status \in SafeStatus(req, acks)
    BY <1>1, RecordFields DEF SafeRecord, SafeStatus
  <2> QED
    BY <1>1, <1>3, <1>4, <2>1, RecordFields
<1>6. c \in RecordType
  <2>1. c = [status |-> c.status, approvals_count |-> c.approvals_count,
             decided_at |-> c.decided_at, persona_state |-> c.persona_state,
             slack_message_ts |-> c.slack_message_ts,
             required_personas |-> c.required_personas, min_approvals |-> c.min_approvals]
    BY <1>1, <1>4, RecordFields
  <2> QED
    BY <1>1, <1>5, <2>1 DEF RecordType, SafeStatus
<1> QED
  BY <1>1, <1>5, <1>6 DEF SafeRecord, SafeStatus, c

\* What is safe stays so when another persona acknowledges.
LEMMA SafeMonotone ==
  ASSUME NEW req, NEW acks, NEW more, acks \subseteq more
  PROVE  SafeCommand(req, acks) \subseteq SafeCommand(req, more)
<1>1. SafeRecord(req, acks) \subseteq SafeRecord(req, more)
  BY DEF SafeRecord
<1>2. SafeStatus(req, acks) \subseteq SafeStatus(req, more)
  BY DEF SafeStatus
<1>3. SafePatch(req, acks) \subseteq SafePatch(req, more)
  BY <1>2 DEF SafePatch
<1>4. Seq(SafePatch(req, acks)) \subseteq Seq(SafePatch(req, more))
  BY <1>3
<1> QED
  BY <1>1, <1>3, <1>4 DEF SafeCommand

LEMMA SeqMonotone ==
  ASSUME NEW S, NEW T, S \subseteq T
  PROVE  Seq(S) \subseteq Seq(T)
OBVIOUS

\* A connection gives up its head and takes new commands at its end.
LEMMA IssueSafe ==
  ASSUME NEW C, NEW D, C \subseteq D, pipe \in [Pods -> Seq(C)],
         NEW p \in Pods, pipe[p] # << >>, NEW cmds \in Seq(D), Issue(p, cmds)
  PROVE  pipe' \in [Pods -> Seq(D)]
<1>1. \A q \in Pods : pipe[q] \in Seq(D)
  BY SeqMonotone
<1>2. Tail(pipe[p]) \in Seq(D)
  BY <1>1
<1>3. Tail(pipe[p]) \o cmds \in Seq(D)
  BY <1>2
<1> QED
  BY <1>1, <1>3 DEF Issue

\* What a process reads is as safe as what is stored.
LEMMA OverlaySafe ==
  ASSUME Covered, NEW p \in Pods
  PROVE  getRequest(p) \in SafeRecord(required, ackers)
<1>1. record \in SafeRecord(required, ackers) /\ record \in RecordType
  BY DEF Covered, SafeRecord
<1>2. CASE p \notin snapshot
  BY <1>1, <1>2 DEF getRequest, Overlay
<1>3. CASE p \in snapshot
  <2> DEFINE n == IF record.approvals_count > 1 THEN record.approvals_count ELSE 1
             r == [record EXCEPT !.status = "approved", !.decided_at = TRUE,
                                 !.approvals_count = IF @ > 1 THEN @ ELSE 1]
  <2>1. required \subseteq ackers
    BY <1>3 DEF Covered
  <2>2. getRequest(p) = r
    BY <1>3 DEF getRequest, Overlay
  <2>3. n \in Nat
    BY <1>1, RecordFields
  <2>4. r \in RecordType
    BY <1>1, <2>3 DEF RecordType, Statuses, Terminal
  <2>5. /\ r.status = "approved" /\ r.persona_state = record.persona_state
        /\ r.required_personas = record.required_personas
    BY <1>1 DEF RecordType
  <2> QED
    BY <1>1, <2>1, <2>2, <2>4, <2>5 DEF SafeRecord, required
<1> QED
  BY <1>2, <1>3

\* The command a connection is at is one of the safe ones.
LEMMA HeadSafe ==
  ASSUME Covered, NEW p \in Pods, pipe[p] # << >>
  PROVE  Arg(p) \in Commands
<1>1. pipe[p] \in Seq(Commands)
  BY DEF Covered
<1> QED
  BY <1>1 DEF Arg

LEMMA Initially == Init => Covered
<1> SUFFICES ASSUME Init PROVE Covered
  OBVIOUS
<1>1. PICK m \in Mins, req \in SUBSET Personas :
        record = [status |-> IF req = {} THEN "ready_for_approval" ELSE "awaiting_personas",
                  approvals_count |-> 0, decided_at |-> FALSE, persona_state |-> {},
                  slack_message_ts |-> FALSE, required_personas |-> req,
                  min_approvals |-> m]
  BY DEF Init
<1>2. required = req
  BY <1>1 DEF required
<1>3. record \in RecordType
  BY <1>1 DEF RecordType, Statuses, Terminal
<1>4. record \in SafeRecord(required, ackers)
  BY <1>1, <1>2, <1>3 DEF SafeRecord, Opening
<1>5. pipe \in [Pods -> Seq(Commands)]
  BY DEF Init
<1> QED
  BY <1>4, <1>5 DEF Init, Covered

-----------------------------------------------------------------------------
\* A step of a connection that leaves the record alone, and issues safe commands.
LEMMA OnlyIssues ==
  ASSUME Covered, NEW p \in Pods, pipe[p] # << >>, UNCHANGED <<record, ackers>>,
         approvals' \in Seq(Users), NEW cmds \in Seq(Commands), Issue(p, cmds),
         UNCHANGED snapshot
  PROVE  Covered'
<1>1. Commands' = Commands /\ required' = required
  BY DEF Commands, SafeCommand, SafeRecord, SafePatch, SafeStatus, required
<1>2. pipe' \in [Pods -> Seq(Commands)]
  BY IssueSafe DEF Covered
<1> QED
  BY <1>1, <1>2 DEF Covered, SafeRecord

LEMMA WritesRecord ==
  ASSUME Covered, NEW p \in Pods, pipe[p] # << >>, UNCHANGED <<approvals, ackers, snapshot>>,
         NEW r \in SafeRecord(required, ackers), record' = r,
         NEW cmds \in Seq(Commands), Issue(p, cmds)
  PROVE  Covered'
<1>1. required' = required
  BY DEF required, SafeRecord
<1>2. Commands' = Commands
  BY <1>1 DEF Commands, SafeCommand, SafeRecord, SafePatch, SafeStatus
<1>3. pipe' \in [Pods -> Seq(Commands)]
  BY IssueSafe DEF Covered
<1>4. record' \in SafeRecord(required, ackers)'
  BY <1>1 DEF SafeRecord
<1> QED
  BY <1>1, <1>2, <1>3, <1>4 DEF Covered

LEMMA Calls ==
  ASSUME Covered, NEW p \in Pods, NEW cmd \in Commands, Call(p, cmd)
  PROVE  Covered'
<1>1. UNCHANGED <<record, approvals, snapshot, ackers>>
  BY DEF Call, server, memory, ghosts
<1>2. Commands' = Commands /\ required' = required
  BY <1>1 DEF Commands, SafeCommand, SafeRecord, SafePatch, SafeStatus, required
<1>3. pipe' \in [Pods -> Seq(Commands)]
  BY DEF Covered, Call
<1> QED
  BY <1>1, <1>2, <1>3 DEF Covered, SafeRecord

-----------------------------------------------------------------------------
(* What a step issues.                                                     *)
Patches == SafePatch(required, ackers)

LEMMA IssuesUpdate ==
  ASSUME NEW patches \in Seq(Patches)
  PROVE  Update(patches) \in Commands
BY DEF Update, Commands, SafeCommand, Patches

LEMMA IssuesSet ==
  ASSUME NEW r \in SafeRecord(required, ackers)
  PROVE  SetRecord(r) \in Commands
BY DEF SetRecord, Commands, SafeCommand

LEMMA IssuesPersist ==
  ASSUME NEW patches \in Seq(Patches), NEW n \in Copies(patches)
  PROVE  Persist(patches, n) \in Seq(Commands)
<1>2. Persist(patches, n) \in Seq([op: {"persist"}, patch: Patches])
  BY PersistSafe
<1>3. [op: {"persist"}, patch: Patches] \subseteq Commands
  BY DEF Commands, SafeCommand, Patches
<1> QED
  BY <1>2, <1>3, SeqMonotone

LEMMA FieldPatches ==
  /\ \A n \in Nat : Count(n) \in Patches
  /\ Decided \in Patches
  /\ \A st \in Statuses : (st \in Opening => required \subseteq ackers) => Status(st) \in Patches
BY DEF Count, Decided, Status, Patches, SafePatch, SafeStatus

\* A process that reads an open or approved record may open or approve it.
LEMMA ReadOpen ==
  ASSUME Covered, NEW p \in Pods, getRequest(p).status \in Opening
  PROVE  required \subseteq ackers
BY OverlaySafe DEF SafeRecord

-----------------------------------------------------------------------------
LEMMA ApproveKeeps ==
  ASSUME Covered, Proxied, NEW p \in Pods, ApproveFound(p)
  PROVE  Covered'
<1> DEFINE r == getRequest(p)
           get == [op |-> "get"]
           add == <<get, [op |-> "addApproval", by |-> Arg(p).by], Update(<<Count(1)>>)>>
           vote == <<Count(1)>>
           decision == <<Status("approved"), Count(1), Decided>>
           field == <<Count(1), Status("approved"), Decided>>
<1>1. /\ pipe[p] # << >> /\ Arg(p).op = "approve"
      /\ UNCHANGED <<record, approvals, ackers>>
  BY DEF ApproveFound, Executes, Arg, server
<1>2. add \in Seq(Commands)
  <2>1. Arg(p).by \in Users
    BY <1>1, HeadSafe DEF Commands, SafeCommand
  <2>2. [op |-> "addApproval", by |-> Arg(p).by] \in Commands
    BY <2>1 DEF Commands, SafeCommand
  <2>3. Update(<<Count(1)>>) \in Commands
    <3>1. <<Count(1)>> \in Seq(Patches)
      BY FieldPatches
    <3> QED
      BY <3>1, IssuesUpdate
  <2>4. get \in Commands
    BY DEF Commands, SafeCommand
  <2> QED
    BY <2>2, <2>3, <2>4
<1>3. approvals' \in Seq(Users) /\ get \in Commands
  BY <1>1 DEF Covered, Commands, SafeCommand
<1>4. CASE Issue(p, <<get>>) /\ UNCHANGED snapshot
  <2> DEFINE cmds == <<get>>
  <2>1. cmds \in Seq(Commands)
    BY <1>3
  <2>2. Issue(p, cmds)
    BY <1>4
  <2> HIDE DEF cmds
  <2> QED
    BY <1>1, <1>3, <1>4, <2>1, <2>2, OnlyIssues
<1>5. ASSUME NEW n \in Copies(vote), Issue(p, Append(add, get) \o Persist(vote, n)),
             UNCHANGED snapshot
      PROVE  Covered'
  <2>1. vote \in Seq(Patches)
    BY FieldPatches
  <2> DEFINE cmds == Append(add, get) \o Persist(vote, n)
  <2>2. cmds \in Seq(Commands)
    <3> HIDE DEF add, get, vote
    <3>1. Persist(vote, n) \in Seq(Commands)
      BY <2>1, IssuesPersist
    <3> QED
      BY <1>2, <1>3, <3>1
  <2>3. Issue(p, cmds) /\ UNCHANGED snapshot
    BY <1>5
  <2> HIDE DEF cmds
  <2> QED
    BY <1>1, <1>3, <2>2, <2>3, OnlyIssues
<1>6. ASSUME r.status = "ready_for_approval", snapshot' = snapshot \cup {p},
             NEW n \in Copies(field),
             Issue(p, Append(add, Update(decision)) \o Persist(field, n))
      PROVE  Covered'
  <2>1. required \subseteq ackers
    BY <1>6, ReadOpen DEF Opening
  <2>2. decision \in Seq(Patches) /\ field \in Seq(Patches)
    <3>1. Status("approved") \in Patches
      BY <2>1, FieldPatches DEF Statuses, Terminal
    <3>2. Count(1) \in Patches /\ Decided \in Patches
      BY FieldPatches
    <3> QED
      BY <3>1, <3>2
  <2>3. Update(decision) \in Commands /\ Persist(field, n) \in Seq(Commands)
    <3> HIDE DEF decision, field
    <3> QED
      BY <2>2, IssuesUpdate, IssuesPersist
  <2> DEFINE cmds == Append(add, Update(decision)) \o Persist(field, n)
  <2>4. cmds \in Seq(Commands)
    <3> HIDE DEF add, decision, field
    <3> QED
      BY <1>2, <2>3
  <2>5. Commands' = Commands /\ required' = required
    BY <1>1 DEF Commands, SafeCommand, SafeRecord, SafePatch, SafeStatus, required
  <2>6. pipe' \in [Pods -> Seq(Commands)]
    <3>1. Issue(p, cmds)
      BY <1>6
    <3> HIDE DEF cmds
    <3> QED
      BY <1>1, <2>4, <3>1, IssueSafe DEF Covered
  <2> HIDE DEF cmds, add, decision, field
  <2>7. record' \in SafeRecord(required, ackers)' /\ ackers' \subseteq Personas
    BY <1>1, <2>5 DEF Covered, SafeRecord
  <2>8. snapshot' \subseteq Pods /\ required' \subseteq ackers'
    BY <1>1, <1>6, <2>1, <2>5 DEF Covered
  <2> QED
    BY <1>3, <2>5, <2>6, <2>7, <2>8 DEF Covered
<1>7. CASE r.status # "ready_for_approval"
  BY <1>4, <1>7 DEF ApproveFound
<1>8. CASE r.status = "ready_for_approval" /\ ~QuorumReached(r, 1)
  <2>1. PICK n \in Reach(p, vote) :
          Issue(p, Append(add, get) \o Persist(vote, n)) /\ UNCHANGED snapshot
    BY <1>8 DEF ApproveFound
  <2>2. n \in Copies(vote)
    BY ReachCounts
  <2> QED
    BY <1>5, <2>1, <2>2
<1>9. CASE r.status = "ready_for_approval" /\ QuorumReached(r, 1)
  <2>1. snapshot' = snapshot \cup {p}
    BY <1>9 DEF ApproveFound
  <2>2. PICK n \in Reach(p, field) :
          Issue(p, Append(add, Update(decision)) \o Persist(field, n))
    BY <1>9 DEF ApproveFound
  <2>3. n \in Copies(field)
    BY ReachCounts
  <2> QED
    BY <1>6, <1>9, <2>1, <2>2, <2>3
<1> QED
  BY <1>7, <1>8, <1>9

LEMMA AddApprovalKeeps ==
  ASSUME Covered, Proxied, NEW p \in Pods,
         ApprovalsRead(p) \/ ApprovalsWritten(p) \/ ApprovalsCounted(p)
  PROVE  Covered'
<1>1. pipe[p] # << >> /\ UNCHANGED <<record, ackers, snapshot>>
  BY DEF ApprovalsRead, ApprovalsWritten, ApprovalsCounted, Rewrites, Executes, server, memory,
         ghosts
<1>2. Arg(p) \in Commands
  BY <1>1, HeadSafe
<1>3. CASE ApprovalsRead(p)
  <2> DEFINE cmd == [op |-> "setApprovals", list |-> Append(approvals, Arg(p).by)]
  <2>1. Arg(p).op = "addApproval" /\ Issue(p, <<cmd>>) /\ UNCHANGED approvals
    BY <1>3 DEF ApprovalsRead, Executes, Arg, server
  <2>2. Arg(p).by \in Users
    BY <1>2, <2>1 DEF Commands, SafeCommand
  <2>3. Append(approvals, Arg(p).by) \in Seq(Users) /\ approvals' \in Seq(Users)
    BY <2>1, <2>2 DEF Covered
  <2>4. cmd \in Commands
    BY <2>3 DEF Commands, SafeCommand
  <2> HIDE DEF cmd
  <2>5. <<cmd>> \in Seq(Commands)
    BY <2>4
  <2> QED
    BY <1>1, <2>1, <2>3, <2>5, OnlyIssues
<1>4. CASE ApprovalsWritten(p)
  <2> DEFINE cmd == [op |-> "countApprovals", count |-> Len(Arg(p).list)]
  <2>1. Arg(p).op = "setApprovals" /\ Issue(p, <<cmd>>) /\ approvals' = Arg(p).list
    BY <1>4 DEF ApprovalsWritten, Executes, Arg
  <2>2. Arg(p).list \in Seq(Users)
    BY <1>2, <2>1 DEF Commands, SafeCommand
  <2>3. Len(Arg(p).list) \in Nat
    BY <2>2
  <2>4. cmd \in Commands
    BY <2>3 DEF Commands, SafeCommand
  <2> HIDE DEF cmd
  <2>5. <<cmd>> \in Seq(Commands)
    BY <2>4
  <2> QED
    BY <1>1, <2>1, <2>2, <2>5, OnlyIssues
<1>5. CASE ApprovalsCounted(p)
  <2> DEFINE patches == <<Count(Arg(p).count)>>
             cmd == SetRecord(Change(getRequest(p), patches))
  <2>1. Arg(p).op = "countApprovals" /\ UNCHANGED approvals
    BY <1>5 DEF ApprovalsCounted, Rewrites, Executes, Arg, server
  <2>2. PICK n \in Copies(patches) : Issue(p, <<cmd>> \o Persist(patches, n))
    BY <1>5, ReachCounts DEF ApprovalsCounted, Rewrites
  <2>3. patches \in Seq(Patches)
    <3>1. Arg(p).count \in Nat
      BY <1>2, <2>1 DEF Commands, SafeCommand
    <3> QED
      BY <3>1, FieldPatches
  <2>4. cmd \in Commands
    <3>1. Change(getRequest(p), patches) \in SafeRecord(required, ackers)
      BY <2>3, OverlaySafe, ChangeSafe DEF Patches
    <3> QED
      BY <3>1, IssuesSet
  <2> HIDE DEF cmd, patches
  <2>5. Persist(patches, n) \in Seq(Commands)
    BY <2>3, IssuesPersist
  <2>6. <<cmd>> \o Persist(patches, n) \in Seq(Commands)
    BY <2>4, <2>5
  <2>7. approvals' \in Seq(Users)
    BY <2>1 DEF Covered
  <2> QED
    BY <1>1, <2>2, <2>6, <2>7, OnlyIssues
<1> QED
  BY <1>3, <1>4, <1>5

\* A step that issues one command and then the field patches of a proxy.
LEMMA IssuesBoth ==
  ASSUME Covered, NEW p \in Pods, pipe[p] # << >>,
         UNCHANGED <<record, approvals, ackers, snapshot>>,
         NEW cmd \in Commands, NEW patches \in Seq(Patches), NEW n \in Copies(patches),
         Issue(p, <<cmd>> \o Persist(patches, n))
  PROVE  Covered'
<1> DEFINE cmds == <<cmd>> \o Persist(patches, n)
<1>1. Persist(patches, n) \in Seq(Commands)
  BY IssuesPersist
<1>2. cmds \in Seq(Commands)
  BY <1>1
<1>3. Issue(p, cmds) /\ approvals' \in Seq(Users)
  BY DEF Covered
<1> HIDE DEF cmds
<1> QED
  BY <1>2, <1>3, OnlyIssues

LEMMA IssuesOne ==
  ASSUME Covered, NEW p \in Pods, pipe[p] # << >>,
         UNCHANGED <<record, approvals, ackers, snapshot>>,
         NEW cmd \in Commands, Issue(p, <<cmd>>)
  PROVE  Covered'
<1> DEFINE cmds == <<cmd>>
<1>1. cmds \in Seq(Commands)
  OBVIOUS
<1>2. Issue(p, cmds) /\ approvals' \in Seq(Users)
  BY DEF Covered
<1> HIDE DEF cmds
<1> QED
  BY <1>1, <1>2, OnlyIssues

LEMMA IssuesNothing ==
  ASSUME Covered, NEW p \in Pods, pipe[p] # << >>,
         UNCHANGED <<record, approvals, ackers, snapshot>>,
         Issue(p, << >>)
  PROVE  Covered'
<1>1. << >> \in Seq(Commands) /\ approvals' \in Seq(Users)
  BY DEF Covered
<1> QED
  BY <1>1, OnlyIssues

LEMMA DenyKeeps ==
  ASSUME Covered, Proxied, NEW p \in Pods, DenyFound(p)
  PROVE  Covered'
<1> DEFINE denial == <<Status("denied"), Decided>>
<1>1. pipe[p] # << >> /\ UNCHANGED <<record, approvals, ackers, snapshot>>
  BY DEF DenyFound, Executes, server
<1>2. CASE Issue(p, << >>)
  BY <1>1, <1>2, IssuesNothing
<1>3. ASSUME NEW n \in Copies(denial), Issue(p, Persist(denial, n))
      PROVE  Covered'
  <2> DEFINE cmds == Persist(denial, n)
  <2>1. denial \in Seq(Patches)
    <3>1. Status("denied") \in Patches /\ Decided \in Patches
      BY FieldPatches DEF Statuses, Terminal, Opening
    <3> QED
      BY <3>1
  <2>2. cmds \in Seq(Commands)
    <3> HIDE DEF denial
    <3> QED
      BY <2>1, IssuesPersist
  <2>3. Issue(p, cmds) /\ approvals' \in Seq(Users)
    BY <1>1, <1>3 DEF Covered
  <2> HIDE DEF cmds
  <2> QED
    BY <1>1, <2>2, <2>3, OnlyIssues
<1>4. Issue(p, << >>) \/ \E n \in Reach(p, denial) : Issue(p, Persist(denial, n))
  BY DEF DenyFound
<1> HIDE DEF denial
<1> QED
  BY <1>2, <1>3, <1>4, ReachCounts

\* The acknowledgement of a persona is accepted before the record shows it.
LEMMA AckKeeps ==
  ASSUME Covered, NEW p \in Pods, AckFound(p)
  PROVE  Covered'
<1>1. pipe[p] # << >> /\ Arg(p).op = "ack" /\ UNCHANGED <<record, approvals, snapshot>>
  BY DEF AckFound, Executes, Arg, server
<1>2. CASE Issue(p, << >>) /\ UNCHANGED ackers
  BY <1>1, <1>2, IssuesNothing
<1>3. CASE /\ ackers' = ackers \cup {Arg(p).persona}
           /\ Issue(p, <<[op |-> "updatePersonaState", persona |-> Arg(p).persona]>>)
  <2> DEFINE cmd == [op |-> "updatePersonaState", persona |-> Arg(p).persona]
             more == ackers \cup {Arg(p).persona}
  <2>1. Arg(p).persona \in Personas
    BY <1>1, HeadSafe DEF Commands, SafeCommand
  <2>2. Commands \subseteq SafeCommand(required, more)
    BY SafeMonotone DEF Commands
  <2>3. cmd \in SafeCommand(required, more)
    BY DEF SafeCommand
  <2>4. required' = required /\ Commands' = SafeCommand(required, more)
    BY <1>1, <1>3 DEF required, Commands, SafeCommand, SafeRecord, SafePatch, SafeStatus
  <2>5. pipe' \in [Pods -> Seq(SafeCommand(required, more))]
    <3> DEFINE cmds == <<cmd>>
    <3>1. cmds \in Seq(SafeCommand(required, more))
      BY <2>3
    <3>2. Issue(p, cmds)
      BY <1>3
    <3>3. pipe \in [Pods -> Seq(Commands)]
      BY DEF Covered
    <3> HIDE DEF cmds
    <3> QED
      BY <1>1, <2>2, <3>1, <3>2, <3>3, IssueSafe
  <2>6. record' \in SafeRecord(required, ackers)'
    BY <1>1, <1>3, <2>4 DEF Covered, SafeRecord
  <2> QED
    BY <1>1, <1>3, <2>1, <2>4, <2>5, <2>6 DEF Covered
<1> QED
  BY <1>2, <1>3 DEF AckFound

LEMMA PersonaKeeps ==
  ASSUME Covered, Proxied, NEW p \in Pods,
         PersonaStateRead(p) \/ PersonaStateWritten(p) \/ PersonaSettled(p)
  PROVE  Covered'
<1> DEFINE r == getRequest(p)
<1>1. pipe[p] # << >> /\ UNCHANGED <<approvals, ackers, snapshot>>
  BY DEF PersonaStateRead, PersonaStateWritten, PersonaSettled, Settles, Executes, server, memory,
         ghosts
<1>2. Arg(p) \in Commands /\ r \in SafeRecord(required, ackers)
  BY <1>1, HeadSafe, OverlaySafe
<1>3. CASE PersonaStateRead(p)
  <2> DEFINE new == [r EXCEPT !.persona_state = @ \cup {Arg(p).persona}]
             cmd == [op |-> "setPersona", record |-> new]
  <2>1. Arg(p).op = "updatePersonaState" /\ Issue(p, <<cmd>>) /\ UNCHANGED record
    BY <1>3 DEF PersonaStateRead, Executes, Arg, server
  <2>2. Arg(p).persona \in ackers /\ ackers \subseteq Personas
    BY <1>2, <2>1 DEF Commands, SafeCommand, Covered
  <2>3. r \in RecordType
    BY <1>2 DEF SafeRecord
  <2>4. new \in RecordType
    BY <2>2, <2>3 DEF RecordType
  <2>5. new \in SafeRecord(required, ackers)
    BY <1>2, <2>2, <2>3, <2>4 DEF SafeRecord, RecordType
  <2> HIDE DEF new
  <2>6. cmd \in Commands
    BY <2>5 DEF Commands, SafeCommand
  <2> HIDE DEF cmd
  <2> QED
    BY <1>1, <2>1, <2>6, IssuesOne
<1>4. CASE PersonaStateWritten(p)
  <2> DEFINE cmds == <<[op |-> "settle"]>>
  <2>1. Arg(p).op = "setPersona" /\ record' = Arg(p).record /\ Issue(p, cmds)
    BY <1>4 DEF PersonaStateWritten, Executes, Arg
  <2>2. Arg(p).record \in SafeRecord(required, ackers)
    BY <1>2, <2>1 DEF Commands, SafeCommand
  <2>3. cmds \in Seq(Commands)
    <3>1. [op |-> "settle"] \in Commands
      BY DEF Commands, SafeCommand
    <3> QED
      BY <3>1
  <2> HIDE DEF cmds
  <2> QED
    BY <1>1, <2>1, <2>2, <2>3, WritesRecord
<1>5. CASE PersonaSettled(p)
  <2> DEFINE patches == <<Status("ready_for_approval")>>
  <2>1. UNCHANGED record
    BY <1>5 DEF PersonaSettled, Settles, server
  <2>2. CASE Issue(p, << >>)
    BY <1>1, <2>1, <2>2, IssuesNothing
  <2>3. ASSUME r.required_personas \subseteq r.persona_state, NEW n \in Copies(patches),
               Issue(p, <<Update(patches)>> \o Persist(patches, n))
        PROVE  Covered'
    <3>1. required \subseteq ackers
      BY <1>2, <2>3 DEF SafeRecord
    <3>2. patches \in Seq(Patches)
      <4>1. Status("ready_for_approval") \in Patches
        BY <3>1, FieldPatches DEF Statuses
      <4> QED
        BY <4>1
    <3> HIDE DEF patches
    <3>3. Update(patches) \in Commands
      BY <3>2, IssuesUpdate
    <3> QED
      BY <1>1, <2>1, <2>3, <3>2, <3>3, IssuesBoth
  <2>4. \/ Issue(p, << >>)
        \/ /\ r.required_personas \subseteq r.persona_state
           /\ \E n \in Reach(p, patches) : Issue(p, <<Update(patches)>> \o Persist(patches, n))
    BY <1>5 DEF PersonaSettled, Settles
  <2> HIDE DEF patches
  <2> QED
    BY <2>2, <2>3, <2>4, ReachCounts
<1> QED
  BY <1>3, <1>4, <1>5

LEMMA OtherWritersKeep ==
  ASSUME Covered, NEW p \in Pods, SlackMessageRead(p) \/ Scanned(p) \/ GetAnswered(p)
  PROVE  Covered'
<1>1. pipe[p] # << >> /\ UNCHANGED <<record, approvals, ackers, snapshot>>
  BY DEF SlackMessageRead, Scanned, GetAnswered, Executes, server, ghosts
<1>2. CASE SlackMessageRead(p)
  <2> DEFINE r == getRequest(p)
             new == [r EXCEPT !.slack_message_ts = TRUE]
             cmd == SetRecord(new)
  <2>1. r \in SafeRecord(required, ackers) /\ r \in RecordType
    BY OverlaySafe DEF SafeRecord
  <2>2. new \in SafeRecord(required, ackers)
    BY <2>1 DEF SafeRecord, RecordType
  <2>3. cmd \in Commands /\ Issue(p, <<cmd>>)
    BY <1>2, <2>2, IssuesSet DEF SlackMessageRead
  <2> HIDE DEF cmd
  <2> QED
    BY <1>1, <2>3, IssuesOne
<1>3. CASE Scanned(p) \/ GetAnswered(p)
  BY <1>1, <1>3, IssuesNothing DEF Scanned, GetAnswered
<1> QED
  BY <1>2, <1>3

\* The scheduler, which looks at no status, adds an update that opens nothing.
LEMMA ExpiryKeeps ==
  ASSUME Covered, NEW p \in Pods, PassExpires(p)
  PROVE  Covered'
<1> DEFINE patches == <<Status("expired"), Decided>>
           cmd == Update(patches)
<1>1. UNCHANGED <<record, approvals, snapshot, ackers>>
  BY DEF PassExpires, server
<1>2. Commands' = Commands /\ required' = required
  BY <1>1 DEF Commands, SafeCommand, SafeRecord, SafePatch, SafeStatus, required
<1>3. cmd \in Commands
  <2>1. Status("expired") \in Patches /\ Decided \in Patches
    BY FieldPatches DEF Statuses, Terminal, Opening
  <2>2. patches \in Seq(Patches)
    BY <2>1
  <2> QED
    BY <2>2, IssuesUpdate
<1>4. pipe' = [pipe EXCEPT ![p] = Append(@, cmd)]
  BY DEF PassExpires
<1> HIDE DEF cmd
<1>5. pipe' \in [Pods -> Seq(Commands)]
  BY <1>3, <1>4 DEF Covered
<1> QED
  BY <1>1, <1>2, <1>5 DEF Covered, SafeRecord

LEMMA StoreKeeps ==
  ASSUME Covered, Proxied, NEW p \in Pods, UpdateRead(p) \/ PersistRead(p) \/ RecordWritten(p)
  PROVE  Covered'
<1>1. pipe[p] # << >> /\ UNCHANGED <<approvals, ackers, snapshot>>
  BY DEF UpdateRead, PersistRead, RecordWritten, Rewrites, Executes, server, memory, ghosts
<1>2. Arg(p) \in Commands
  BY <1>1, HeadSafe
<1>3. CASE UpdateRead(p)
  <2> DEFINE patches == Arg(p).patches
             cmd == SetRecord(Change(getRequest(p), patches))
  <2>1. Arg(p).op = "updateFields" /\ UNCHANGED record
    BY <1>3 DEF UpdateRead, Rewrites, Executes, Arg, server
  <2>2. PICK n \in Copies(patches) : Issue(p, <<cmd>> \o Persist(patches, n))
    BY <1>3, ReachCounts DEF UpdateRead, Rewrites
  <2>3. patches \in Seq(Patches)
    BY <1>2, <2>1 DEF Commands, SafeCommand, Patches
  <2>4. cmd \in Commands
    <3>1. Change(getRequest(p), patches) \in SafeRecord(required, ackers)
      BY <2>3, OverlaySafe, ChangeSafe DEF Patches
    <3> QED
      BY <3>1, IssuesSet
  <2> HIDE DEF cmd, patches
  <2> QED
    BY <1>1, <2>1, <2>2, <2>3, <2>4, IssuesBoth
<1>4. CASE PersistRead(p)
  <2> DEFINE patches == <<Arg(p).patch>>
             cmd == SetRecord(Change(record, patches))
  <2>1. Arg(p).op = "persist" /\ UNCHANGED record /\ Issue(p, <<cmd>>)
    BY <1>4 DEF PersistRead, Executes, Arg, server
  <2>2. patches \in Seq(Patches)
    <3>1. Arg(p).patch \in Patches
      BY <1>2, <2>1 DEF Commands, SafeCommand, Patches
    <3> QED
      BY <3>1
  <2>3. cmd \in Commands
    <3>1. record \in SafeRecord(required, ackers)
      BY DEF Covered
    <3>2. Change(record, patches) \in SafeRecord(required, ackers)
      BY <2>2, <3>1, ChangeSafe DEF Patches
    <3> QED
      BY <3>2, IssuesSet
  <2> HIDE DEF cmd
  <2> QED
    BY <1>1, <2>1, <2>3, IssuesOne
<1>5. CASE RecordWritten(p)
  <2>1. Arg(p).op = "set" /\ record' = Arg(p).record /\ Issue(p, << >>)
    BY <1>5 DEF RecordWritten, Executes, Arg
  <2>2. Arg(p).record \in SafeRecord(required, ackers)
    BY <1>2, <2>1 DEF Commands, SafeCommand
  <2>3. << >> \in Seq(Commands)
    OBVIOUS
  <2> QED
    BY <1>1, <2>1, <2>2, <2>3, WritesRecord
<1> QED
  BY <1>3, <1>4, <1>5

LEMMA CallsKeep ==
  ASSUME Covered, NEW p \in Pods,
         \/ \E u \in Users : PressApprove(p, u) \/ PressDeny(p, u)
         \/ \E a \in Personas : PressAck(p, a)
         \/ Reader(p) \/ SlackPosted(p) \/ ScanStart(p)
  PROVE  Covered'
<1>1. ASSUME NEW u \in Users, PressApprove(p, u) PROVE Covered'
  <2>1. [op |-> "approve", by |-> u] \in Commands
    BY DEF Commands, SafeCommand
  <2> QED
    BY <1>1, <2>1, Calls DEF PressApprove
<1>2. ASSUME NEW u \in Users, PressDeny(p, u) PROVE Covered'
  <2>1. [op |-> "deny", by |-> u] \in Commands
    BY DEF Commands, SafeCommand
  <2> QED
    BY <1>2, <2>1, Calls DEF PressDeny
<1>3. ASSUME NEW a \in Personas, PressAck(p, a) PROVE Covered'
  <2>1. [op |-> "ack", persona |-> a] \in Commands
    BY DEF Commands, SafeCommand
  <2> QED
    BY <1>3, <2>1, Calls DEF PressAck
<1>4. CASE Reader(p) \/ SlackPosted(p) \/ ScanStart(p)
  <2>1. \A o \in {"get", "setSlackMessage", "scan"} : [op |-> o] \in Commands
    BY DEF Commands, SafeCommand
  <2> QED
    BY <1>4, <2>1, Calls DEF Reader, SlackPosted, ScanStart
<1> QED
  BY <1>1, <1>2, <1>3, <1>4

\* A restart takes commands away and adds none.
LEMMA RestartKeeps ==
  ASSUME Covered, NEW p \in Pods, Restart(p)
  PROVE  Covered'
<1>1. UNCHANGED <<record, approvals, ackers>>
  BY DEF Restart, server
<1>2. Commands' = Commands /\ required' = required
  BY <1>1 DEF Commands, SafeCommand, SafeRecord, SafePatch, SafeStatus, required
<1>3. pipe' \in [Pods -> Seq(Commands)]
  BY DEF Covered, Restart
<1>4. snapshot' \subseteq snapshot
  BY DEF Restart
<1>5. record' \in SafeRecord(required, ackers)'
  BY <1>1, <1>2 DEF Covered, SafeRecord
<1> QED
  BY <1>1, <1>2, <1>3, <1>4, <1>5 DEF Covered

LEMMA Idle == Covered /\ UNCHANGED <<record, approvals, pipe, snapshot, ackers>> => Covered'
BY DEF Covered, Commands, SafeCommand, SafeRecord, SafePatch, SafeStatus, required

LEMMA Inductive == Covered /\ Proxied /\ [Next]_vars => Covered'
<1> SUFFICES ASSUME Covered, Proxied, [Next]_vars PROVE Covered'
  OBVIOUS
<1>1. ASSUME NEW p \in Pods, Step(p) PROVE Covered'
  BY <1>1, ApproveKeeps, AddApprovalKeeps, DenyKeeps, AckKeeps, PersonaKeeps,
     OtherWritersKeep, StoreKeeps DEF Step
<1>2. ASSUME NEW p \in Pods,
             \/ \E u \in Users : PressApprove(p, u) \/ PressDeny(p, u)
             \/ \E a \in Personas : PressAck(p, a)
             \/ Reader(p) \/ SlackPosted(p) \/ ScanStart(p) \/ PassExpires(p) \/ Restart(p)
      PROVE  Covered'
  BY <1>2, CallsKeep, ExpiryKeeps, RestartKeeps
<1>3. CASE ExpiresAtPassed \/ UNCHANGED vars
  BY <1>3, Idle DEF ExpiresAtPassed, vars, server, memory, ghosts
<1> QED
  BY <1>1, <1>2, <1>3 DEF Next

-----------------------------------------------------------------------------
(* The proxies of a process.                                               *)

\* Patches keep a proxy what it is.
LEMMA ChangeLive ==
  ASSUME NEW r \in LiveType, NEW patches \in Seq(PatchType)
  PROVE  Change(r, patches) \in LiveType
<1> DEFINE c == Change(r, patches)
           Has(f) == \E i \in DOMAIN patches : f \in DOMAIN patches[i]
           value(f) == patches[CHOOSE i \in DOMAIN patches : f \in DOMAIN patches[i]][f]
<1>1. ASSUME NEW f, Has(f)
      PROVE  \/ f = "status" /\ value(f) \in Statuses
             \/ f = "approvals_count" /\ value(f) \in Nat
             \/ f = "decided_at" /\ value(f) \in BOOLEAN
  <2> DEFINE k == CHOOSE i \in DOMAIN patches : f \in DOMAIN patches[i]
  <2>1. k \in DOMAIN patches /\ f \in DOMAIN patches[k]
    BY <1>1
  <2>2. patches[k] \in PatchType
    BY <2>1
  <2> HIDE DEF k
  <2>3. \/ patches[k] \in [status: Statuses]
        \/ patches[k] \in [approvals_count: Nat]
        \/ patches[k] \in [decided_at: {TRUE}]
    BY <2>2 DEF PatchType
  <2>4. \/ f = "status" /\ patches[k][f] \in Statuses
        \/ f = "approvals_count" /\ patches[k][f] \in Nat
        \/ f = "decided_at" /\ patches[k][f] \in BOOLEAN
    BY <2>1, <2>3
  <2> QED
    BY <2>4 DEF k
<1>2. c = [f \in DOMAIN r |-> IF Has(f) THEN value(f) ELSE r[f]]
  BY DEF Change
<1> HIDE DEF c, Has, value
<1>3. /\ DOMAIN r = {"status", "approvals_count", "decided_at"}
      /\ r.status \in Statuses /\ r.approvals_count \in Nat /\ r.decided_at \in BOOLEAN
  BY DEF LiveType
<1>4. c.status \in Statuses /\ c.approvals_count \in Nat /\ c.decided_at \in BOOLEAN
  BY <1>1, <1>2, <1>3
<1>5. c = [status |-> c.status, approvals_count |-> c.approvals_count,
           decided_at |-> c.decided_at]
  BY <1>2, <1>3
<1> QED
  BY <1>4, <1>5 DEF LiveType, c

\* A process that reads a record gets a proxy more.
LEMMA RegistersTyped ==
  ASSUME Covered, Proxied, NEW p \in Pods, NEW patches \in Seq(PatchType), Registers(p, patches)
  PROVE  Proxied'
<1> DEFINE fresh == Live(getRequest(p))
           m == Len(refs[p])
           of(j) == IF j <= m THEN refs[p][j] ELSE fresh
           new == [j \in 1 .. m + 1 |-> Change(of(j), patches)]
<1>1. fresh \in LiveType
  <2>1. getRequest(p) \in RecordType
    BY OverlaySafe DEF SafeRecord
  <2> QED
    BY <2>1, RecordFields DEF Live, LiveType
<1>2. refs[p] \in Seq(LiveType) /\ m \in Nat
  BY DEF Proxied
<1>3. refs' = [refs EXCEPT ![p] = new]
  BY DEF Registers
<1> HIDE DEF fresh, m
<1>4. ASSUME NEW j \in 1 .. m + 1 PROVE of(j) \in LiveType
  BY <1>1, <1>2 DEF m
<1> HIDE DEF of
<1>5. \A j \in 1 .. m + 1 : Change(of(j), patches) \in LiveType
  BY <1>4, ChangeLive
<1>6. new \in Seq(LiveType)
  BY <1>2, <1>5
<1> HIDE DEF new
<1> QED
  BY <1>3, <1>6 DEF Proxied

LEMMA PatchesTyped ==
  /\ \A n \in Nat : Count(n) \in PatchType
  /\ \A st \in Statuses : Status(st) \in PatchType
  /\ Decided \in PatchType
  /\ SafePatch(required, ackers) \subseteq PatchType
BY DEF Count, Status, Decided, PatchType, SafePatch, SafeStatus

LEMMA ProxiedKept == Covered /\ Proxied /\ [Next]_vars => Proxied'
<1> SUFFICES ASSUME Covered, Proxied, [Next]_vars PROVE Proxied'
  OBVIOUS
<1>1. ASSUME UNCHANGED refs PROVE Proxied'
  BY <1>1 DEF Proxied
<1>2. ASSUME NEW p \in Pods, Reads(p) PROVE Proxied'
  <2>1. << >> \in Seq(PatchType)
    OBVIOUS
  <2> QED
    BY <1>2, <2>1, RegistersTyped DEF Reads
<1>3. ASSUME NEW p \in Pods, ApproveFound(p) PROVE Proxied'
  <2>1. <<Count(1)>> \in Seq(PatchType)
        /\ <<Count(1), Status("approved"), Decided>> \in Seq(PatchType)
    BY PatchesTyped DEF Statuses, Terminal
  <2>2. \/ Reads(p) \/ Registers(p, <<Count(1)>>)
        \/ Registers(p, <<Count(1), Status("approved"), Decided>>)
    BY <1>3 DEF ApproveFound
  <2> QED
    BY <1>2, <2>1, <2>2, RegistersTyped
<1>4. ASSUME NEW p \in Pods, DenyFound(p) PROVE Proxied'
  <2>1. <<Status("denied"), Decided>> \in Seq(PatchType)
    BY PatchesTyped DEF Statuses, Terminal
  <2>2. Reads(p) \/ Registers(p, <<Status("denied"), Decided>>)
    BY <1>4 DEF DenyFound
  <2> QED
    BY <1>2, <2>1, <2>2, RegistersTyped
<1>5. ASSUME NEW p \in Pods, PersonaSettled(p) PROVE Proxied'
  <2>1. <<Status("ready_for_approval")>> \in Seq(PatchType)
    BY PatchesTyped DEF Statuses
  <2>2. Reads(p) \/ Registers(p, <<Status("ready_for_approval")>>)
    BY <1>5 DEF PersonaSettled, Settles
  <2> QED
    BY <1>2, <2>1, <2>2, RegistersTyped
<1>6. ASSUME NEW p \in Pods, ApprovalsCounted(p) PROVE Proxied'
  <2>1. /\ pipe[p] # << >> /\ Arg(p).op = "countApprovals"
        /\ Registers(p, <<Count(Arg(p).count)>>)
    BY <1>6 DEF ApprovalsCounted, Rewrites, Executes, Arg
  <2>2. Arg(p).count \in Nat
    BY <2>1, HeadSafe DEF Commands, SafeCommand
  <2>3. <<Count(Arg(p).count)>> \in Seq(PatchType)
    BY <2>2, PatchesTyped
  <2> QED
    BY <2>1, <2>3, RegistersTyped
<1>7. ASSUME NEW p \in Pods, UpdateRead(p) PROVE Proxied'
  <2>1. /\ pipe[p] # << >> /\ Arg(p).op = "updateFields"
        /\ Registers(p, Arg(p).patches)
    BY <1>7 DEF UpdateRead, Rewrites, Executes, Arg
  <2>2. Arg(p).patches \in Seq(SafePatch(required, ackers))
    BY <2>1, HeadSafe DEF Commands, SafeCommand
  <2>3. Arg(p).patches \in Seq(PatchType)
    BY <2>2, PatchesTyped, SeqMonotone
  <2> QED
    BY <2>1, <2>3, RegistersTyped
<1>8. ASSUME NEW p \in Pods,
             AckFound(p) \/ PersonaStateRead(p) \/ GetAnswered(p) \/ SlackMessageRead(p)
      PROVE  Proxied'
  BY <1>2, <1>8 DEF AckFound, PersonaStateRead, GetAnswered, SlackMessageRead
<1>9. ASSUME NEW p \in Pods,
             \/ ApprovalsRead(p) \/ ApprovalsWritten(p) \/ PersonaStateWritten(p)
             \/ Scanned(p) \/ PersistRead(p) \/ RecordWritten(p) \/ PassExpires(p)
      PROVE  Proxied'
  <2>1. UNCHANGED refs
    BY <1>9 DEF ApprovalsRead, ApprovalsWritten, PersonaStateWritten, Scanned, PersistRead,
                RecordWritten, PassExpires, memory
  <2> QED
    BY <1>1, <2>1
<1>10. ASSUME NEW p \in Pods,
              \/ \E u \in Users : PressApprove(p, u) \/ PressDeny(p, u)
              \/ \E a \in Personas : PressAck(p, a)
              \/ Reader(p) \/ SlackPosted(p) \/ ScanStart(p)
       PROVE  Proxied'
  <2>1. UNCHANGED refs
    BY <1>10 DEF PressApprove, PressDeny, PressAck, Reader, SlackPosted, ScanStart, Call, memory
  <2> QED
    BY <1>1, <2>1
<1>11. ASSUME NEW p \in Pods, Restart(p) PROVE Proxied'
  BY <1>11 DEF Restart, Proxied
<1>12. CASE ExpiresAtPassed \/ UNCHANGED vars
  BY <1>1, <1>12 DEF ExpiresAtPassed, vars, memory
<1> QED
  BY <1>3, <1>4, <1>5, <1>6, <1>7, <1>8, <1>9, <1>10, <1>11, <1>12 DEF Next, Step

LEMMA ProxiedStarts == Init => Proxied
<1> SUFFICES ASSUME Init PROVE Proxied
  OBVIOUS
<1>1. record \in RecordType
  BY Initially DEF Covered, SafeRecord
<1>2. Live(record) \in LiveType
  BY <1>1, RecordFields DEF Live, LiveType
<1>3. PICK p \in Pods : refs = [q \in Pods |-> IF q = p THEN <<Live(record)>> ELSE << >>]
  BY DEF Init
<1> QED
  BY <1>2, <1>3 DEF Proxied

LEMMA CoveredGate == Covered => PersonaGate
<1> SUFFICES ASSUME Covered PROVE PersonaGate
  OBVIOUS
<1>1. record \in SafeRecord(required, ackers)
  BY DEF Covered
<1> QED
  BY <1>1 DEF SafeRecord, Opening, PersonaGate, required

\* No interleaving of handlers, processes and restarts on Redis opens or approves
\* a request before the acknowledgement of every required persona was accepted.
THEOREM RedisPersonaGate == Spec => []PersonaGate
BY Initially, ProxiedStarts, Inductive, ProxiedKept, CoveredGate, PTL DEF Spec

-----------------------------------------------------------------------------
(* Type correctness *)

\* What Covered and Proxied do not speak of.
Reckoned ==
  /\ passes \in [Pods -> Nat]
  /\ voters \in SUBSET Users
  /\ due \in BOOLEAN /\ lost \in BOOLEAN
  /\ calls \in 0 .. MaxCalls
  /\ outcomes \in SUBSET Terminal

LEMMA ReckonedStep == Covered /\ Reckoned /\ [Next]_vars => Reckoned'
<1> SUFFICES ASSUME Covered, Reckoned, [Next]_vars PROVE Reckoned'
  OBVIOUS
<1>1. ASSUME NEW p \in Pods, NEW cmd, Call(p, cmd) PROVE Reckoned'
  <2>1. calls + 1 \in 0 .. MaxCalls
    BY <1>1, BoundsAssumption DEF Call, Reckoned
  <2> QED
    BY <1>1, <2>1 DEF Call, Reckoned, memory, ghosts
<1>2. ASSUME NEW p \in Pods,
             \/ \E u \in Users : PressApprove(p, u) \/ PressDeny(p, u)
             \/ \E a \in Personas : PressAck(p, a)
             \/ Reader(p) \/ SlackPosted(p) \/ ScanStart(p)
      PROVE  Reckoned'
  BY <1>1, <1>2 DEF PressApprove, PressDeny, PressAck, Reader, SlackPosted, ScanStart
<1>3. ASSUME NEW p \in Pods, ApproveFound(p) PROVE Reckoned'
  <2>1. pipe[p] # << >> /\ Arg(p).op = "approve"
    BY <1>3 DEF ApproveFound, Executes, Arg
  <2>2. Arg(p).by \in Users
    BY <2>1, HeadSafe DEF Commands, SafeCommand
  <2>3. UNCHANGED <<passes, due, lost, calls>>
    BY <1>3 DEF ApproveFound
  <2>4. outcomes' \in {outcomes, outcomes \cup {"approved"}}
        /\ voters' \in {voters, voters \cup {Arg(p).by}}
    BY <1>3 DEF ApproveFound
  <2> QED
    BY <2>2, <2>3, <2>4 DEF Reckoned, Terminal
<1>4. ASSUME NEW p \in Pods, DenyFound(p) PROVE Reckoned'
  <2>1. UNCHANGED <<passes, due, lost, calls, voters>>
    BY <1>4 DEF DenyFound
  <2>2. outcomes' \in {outcomes, outcomes \cup {"denied"}}
    BY <1>4 DEF DenyFound
  <2> QED
    BY <2>1, <2>2 DEF Reckoned, Terminal
<1>5. ASSUME NEW p \in Pods, Scanned(p) PROVE Reckoned'
  <2>1. passes' \in [Pods -> Nat]
    BY <1>5 DEF Scanned, Reckoned
  <2>2. UNCHANGED <<due, lost, calls, voters, outcomes>>
    BY <1>5 DEF Scanned, ghosts
  <2> QED
    BY <2>1, <2>2 DEF Reckoned
<1>6. ASSUME NEW p \in Pods, PassExpires(p) PROVE Reckoned'
  <2>1. passes' \in [Pods -> Nat]
    BY <1>6 DEF PassExpires, Reckoned
  <2>2. UNCHANGED <<due, lost, calls, voters>> /\ outcomes' = outcomes \cup {"expired"}
    BY <1>6 DEF PassExpires
  <2> QED
    BY <2>1, <2>2 DEF Reckoned, Terminal
<1>7. ASSUME NEW p \in Pods,
             \/ AckFound(p) \/ ApprovalsRead(p) \/ ApprovalsWritten(p) \/ ApprovalsCounted(p)
             \/ PersonaStateRead(p) \/ PersonaStateWritten(p) \/ PersonaSettled(p)
             \/ GetAnswered(p) \/ SlackMessageRead(p)
             \/ UpdateRead(p) \/ PersistRead(p) \/ RecordWritten(p)
      PROVE  Reckoned'
  <2>1. UNCHANGED <<passes, due, lost, calls, voters, outcomes>>
    BY <1>7 DEF AckFound, ApprovalsRead, ApprovalsWritten, ApprovalsCounted, PersonaStateRead,
                PersonaStateWritten, PersonaSettled, GetAnswered, SlackMessageRead, UpdateRead,
                PersistRead, RecordWritten, Rewrites, Settles, memory, ghosts
  <2> QED
    BY <2>1 DEF Reckoned
<1>8. ASSUME NEW p \in Pods, Restart(p) PROVE Reckoned'
  <2>1. passes' \in [Pods -> Nat] /\ UNCHANGED <<due, calls, voters, outcomes>>
    BY <1>8 DEF Restart, Reckoned
  <2>2. lost' \in BOOLEAN
    BY <1>8 DEF Restart
  <2> QED
    BY <2>1, <2>2 DEF Reckoned
<1>9. CASE ExpiresAtPassed \/ UNCHANGED vars
  BY <1>9 DEF ExpiresAtPassed, vars, memory, ghosts, Reckoned
<1> QED
  BY <1>2, <1>3, <1>4, <1>5, <1>6, <1>7, <1>8, <1>9 DEF Next, Step

\* A safe command is a command.
LEMMA SafeIsTyped ==
  ASSUME NEW req, NEW acks \in SUBSET Personas
  PROVE  SafeCommand(req, acks) \subseteq CommandType
<1>1. SafeRecord(req, acks) \subseteq RecordType
  BY DEF SafeRecord
<1>2. SafePatch(req, acks) \subseteq PatchType
  BY DEF SafePatch, SafeStatus, PatchType
<1>3. Seq(SafePatch(req, acks)) \subseteq Seq(PatchType)
  BY <1>2, SeqMonotone
<1>4. [op: {"set", "setPersona"}, record: SafeRecord(req, acks)]
        \subseteq [op: {"set", "setPersona"}, record: RecordType]
  BY <1>1
<1>5. [op: {"updateFields"}, patches: Seq(SafePatch(req, acks))]
        \subseteq [op: {"updateFields"}, patches: Seq(PatchType)]
  BY <1>3
<1>6. [op: {"persist"}, patch: SafePatch(req, acks)] \subseteq [op: {"persist"}, patch: PatchType]
  BY <1>2
<1>7. [op: {"ack"}, persona: Personas] \cup [op: {"updatePersonaState"}, persona: acks]
        \subseteq [op: {"ack", "updatePersonaState"}, persona: Personas]
  OBVIOUS
<1> QED
  BY <1>4, <1>5, <1>6, <1>7 DEF SafeCommand, CommandType

\* Every variable keeps its type: whatever is on a connection is a command, and what it writes
\* is a record.
THEOREM RedisTypeCorrect == Spec => []TypeOK
<1>1. Init => Reckoned
  <2> SUFFICES ASSUME Init PROVE Reckoned
    OBVIOUS
  <2>1. due \in BOOLEAN /\ lost \in BOOLEAN
    BY Zenon DEF Init
  <2>2. calls = 0 /\ outcomes = {} /\ voters = {} /\ passes \in [Pods -> Nat]
    BY DEF Init
  <2>3. 0 \in 0 .. MaxCalls
    BY BoundsAssumption
  <2> QED
    BY <2>1, <2>2, <2>3 DEF Reckoned
<1>2. Covered /\ Proxied /\ Reckoned => TypeOK
  <2> SUFFICES ASSUME Covered, Proxied, Reckoned PROVE TypeOK
    OBVIOUS
  <2>1. Commands \subseteq CommandType
    BY SafeIsTyped DEF Covered, Commands
  <2>2. ASSUME NEW p \in Pods, NEW i \in DOMAIN pipe[p] PROVE pipe[p][i] \in CommandType
    <3>1. pipe[p] \in Seq(Commands)
      BY DEF Covered
    <3> QED
      BY <2>1, <2>2, <3>1
  <2> QED
    BY <2>2 DEF Covered, Proxied, Reckoned, TypeOK, SafeRecord
<1> QED
  BY Initially, ProxiedStarts, Inductive, ProxiedKept, ReckonedStep, <1>1, <1>2, PTL DEF Spec
=============================================================================
