------------------------ MODULE GuardDecisionProofs ------------------------
(***************************************************************************)
(* Theorems about what a step of GuardRequests may do to a request: a      *)
(* decision is final, an escalation happens once, an expiry on time, and   *)
(* the service keeps what GuardPromise promises.                           *)
(*                                                                         *)
(* They all follow from one lemma, StepShape: a step either changes the    *)
(* decision of no request, or changes that of one request in one of five   *)
(* ways.                                                                   *)
(***************************************************************************)
EXTENDS GuardRequestsProofs

-----------------------------------------------------------------------------
(* A pass works with a clock reading of the past *)

PassClock == \A p \in Passes : pass[p].now <= clock

\* No pass is under way initially.
LEMMA PassClockInit == Init => PassClock
  BY DEF Init, PassClock, IdlePass

\* A pass reads the clock when it starts, and the clock never goes back.
LEMMA PassClockStep == TypeOK /\ PassClock /\ [Next]_vars => PassClock'
<1> SUFFICES ASSUME TypeOK, PassClock, [Next]_vars PROVE PassClock'
  OBVIOUS
<1>1. clock \in Nat /\ \A p \in Passes : pass[p].now \in Nat
  BY TypePass DEF TypeOK, PassType
<1>2. CASE UNCHANGED <<clock, pass>>
  BY <1>2 DEF PassClock
<1>3. CASE Tick
  BY <1>1, <1>3 DEF Tick, PassClock
<1>4. ASSUME NEW p \in Passes,
             \A q \in Passes : \/ pass'[q].now = pass[q].now
                               \/ pass'[q].now \in {0, clock},
             UNCHANGED clock
      PROVE  PassClock'
  BY <1>1, <1>4 DEF PassClock
<1>5. ASSUME NEW p \in Passes, PassStep(p)
      PROVE  PassClock'
  <2>1. UNCHANGED clock
    BY <1>5 DEF PassStep, PassStart, Escalate, Refresh, Expire, EscalationPosted,
                SlackUpdated, SlackFailed, PassEnd, clockVars
  <2>2. /\ pass \in [Passes -> PassType]
        /\ \A q \in Passes : pass[q] \in PassType
    BY DEF TypeOK
  <2>3. \A q \in Passes : pass'[q].now = pass[q].now \/ pass'[q].now \in {0, clock}
    <3>1. CASE PassStart(p)
      BY <2>2, <3>1 DEF PassStart
    <3>2. CASE SlackFailed(p) \/ PassEnd(p)
      BY <2>2, <3>2 DEF SlackFailed, PassEnd, IdlePass
    <3>3. CASE SlackUpdated(p) \/ EscalationPosted(p)
      BY <2>2, <3>3 DEF SlackUpdated, EscalationPosted, PassType
    <3>4. ASSUME NEW r \in Requests, Escalate(p, r) \/ Refresh(p, r) \/ Expire(p, r)
          PROVE  \A q \in Passes : pass'[q].now = pass[q].now
      BY <2>2, <3>4 DEF Escalate, Refresh, Expire, AwaitAt, PassType
    <3>5. QED
      BY <1>5, <3>1, <3>2, <3>3, <3>4 DEF PassStep
  <2>4. QED
    BY <1>4, <2>1, <2>3
<1>6. CASE UNCHANGED vars
  BY <1>2, <1>6 DEF vars, clockVars
<1>7. QED
  BY <1>2, <1>3, <1>5, <1>6
  DEF Next, Create, Rerequest, Store, ReloadPolicy, PersonaAck, PersonaSettle, Approve, Deny,
      OverrideSubmit, Sweep, clockVars

-----------------------------------------------------------------------------
(* What a step may do to the decision of a request *)

Same(r) ==
  /\ status'[r] = status[r]
  /\ decided_at'[r] = decided_at[r]
  /\ approvals'[r] = approvals[r]
  /\ min_approvals'[r] = min_approvals[r]
  /\ escalation_fired'[r] = escalation_fired[r]

Born(r) ==
  /\ status[r] = "none"
  /\ status'[r] \in Open
  /\ approvals'[r] = approvals[r]
  /\ escalation_fired'[r] = escalation_fired[r]

Opened(r) ==
  /\ status[r] = "awaiting_personas"
  /\ status'[r] = "ready_for_approval"
  /\ approvals'[r] = approvals[r]
  /\ min_approvals'[r] = min_approvals[r]
  /\ escalation_fired'[r] = escalation_fired[r]

Voted(r) ==
  \E u \in Users :
    /\ Approvable(r, u)
    /\ approvals'[r] = Append(approvals[r], u)
    /\ status'[r] = IF Len(approvals[r]) + 1 >= min_approvals[r] THEN "approved"
                    ELSE "ready_for_approval"
    /\ min_approvals'[r] = min_approvals[r]
    /\ escalation_fired'[r] = escalation_fired[r]

Rejected(r) ==
  /\ IsOpen(r)
  /\ status'[r] = "denied" \/ (status'[r] = "expired" /\ clock >= ExpiresAt(r))
  /\ approvals'[r] = approvals[r]
  /\ min_approvals'[r] = min_approvals[r]
  /\ escalation_fired'[r] = escalation_fired[r]

Escalated(r) ==
  /\ IsOpen(r)
  /\ clock >= EscalateAt(r)
  /\ ~escalation_fired[r] /\ escalation_fired'[r]
  /\ status'[r] = status[r]
  /\ approvals'[r] = approvals[r]
  /\ min_approvals'[r] >= min_approvals[r]

Change(r) == Born(r) \/ Opened(r) \/ Voted(r) \/ Rejected(r) \/ Escalated(r)

Purged == \E rs \in SUBSET Requests : /\ \A r \in rs : status[r] \in Terminal
                                      /\ deleted' = deleted \cup rs

Shaped == \/ (\A r \in Requests : Same(r)) /\ Purged
          \/ \E r \in Requests : /\ Change(r)
                                 /\ \A q \in Requests \ {r} : Same(q)
                                 /\ UNCHANGED deleted

\* Storing a new record.
LEMMA ShapeStore ==
  ASSUME TypeOK, NEW r \in Requests, NEW first \in Open, NEW params, NEW lineage, NEW m,
         Store(r, first, params, lineage, m)
  PROVE  Shaped
<1>1. Born(r)
  BY DEF Store, NextId, Born, TypeOK, reminders
<1>2. \A q \in Requests \ {r} : Same(q)
  BY DEF Store, Same, TypeOK, reminders
<1>3. UNCHANGED deleted
  BY DEF Store
<1>4. QED
  BY <1>1, <1>2, <1>3 DEF Shaped, Change

\* Recording an approval.
LEMMA ShapeApproval ==
  ASSUME TypeOK, NEW r \in Requests, NEW u \in Users, NEW observed,
         Approvable(r, u), RecordApproval(r, u, observed),
         UNCHANGED <<min_approvals, escalation_fired, deleted>>
  PROVE  Shaped
<1>1. approvals[r] \in Seq(Users) /\ Len(Append(approvals[r], u)) = Len(approvals[r]) + 1
  BY DEF TypeOK
<1>2. /\ approvals'[r] = Append(approvals[r], u)
      /\ status'[r] = IF Len(approvals[r]) + 1 >= min_approvals[r] THEN "approved"
                      ELSE "ready_for_approval"
  BY <1>1 DEF RecordApproval, Quorum, Decide, decision, Approvable, TypeOK
<1>3. Voted(r)
  BY <1>2 DEF Voted
<1>4. \A q \in Requests \ {r} : Same(q)
  BY DEF RecordApproval, Decide, decision, Same, TypeOK
<1>5. QED
  BY <1>3, <1>4 DEF Shaped, Change

\* Denying or expiring.
LEMMA ShapeReject ==
  ASSUME TypeOK, NEW r \in Requests, NEW outcome, NEW counter, NEW observed,
         IsOpen(r), Decide(r, outcome, counter, observed),
         outcome = "denied" \/ (outcome = "expired" /\ clock >= ExpiresAt(r)),
         UNCHANGED <<approvals, min_approvals, escalation_fired, deleted>>
  PROVE  Shaped
<1>1. Rejected(r)
  BY DEF Decide, Rejected, TypeOK
<1>2. \A q \in Requests \ {r} : Same(q)
  BY DEF Decide, Same, TypeOK
<1>3. QED
  BY <1>1, <1>2 DEF Shaped, Change

\* A step changes the decision of at most one request, and in one of the five ways.
LEMMA StepShape == TypeOK /\ PassClock /\ [Next]_vars => Shaped
<1> SUFFICES ASSUME TypeOK, PassClock, [Next]_vars PROVE Shaped
  OBVIOUS
<1>1. ASSUME UNCHANGED <<status, decided_at, approvals, min_approvals, escalation_fired>>,
             UNCHANGED deleted
      PROVE  Shaped
  <2>1. deleted' = deleted \cup {} /\ {} \in SUBSET Requests
    BY <1>1
  <2>2. Purged
    BY <2>1 DEF Purged
  <2>3. QED
    BY <1>1, <2>2 DEF Shaped, Same
<1>2. ASSUME NEW r \in Requests, NEW params \in ParamValues, NEW m \in EscalateMins,
             Create(r, params, m)
      PROVE  Shaped
  BY <1>2, ShapeStore DEF Create, FirstStatus, Open
<1>3. ASSUME NEW orig \in Requests, NEW r \in Requests, Rerequest(orig, r)
      PROVE  Shaped
  <2>1. FirstStatus(Required(orig)) \in Open
    BY DEF FirstStatus, Open
  <2>2. QED
    BY <1>3, <2>1, ShapeStore DEF Rerequest
<1>4. ASSUME NEW r \in Requests, NEW p \in Personas, PersonaSettle(r, p)
      PROVE  Shaped
  <2>1. CASE status[r] = "awaiting_personas" /\ Required(r) \subseteq acked[r]
    <3>1. Opened(r)
      BY <1>4, <2>1 DEF PersonaSettle, Opened, TypeOK, tally, reminders
    <3>2. \A q \in Requests \ {r} : Same(q)
      BY <1>4, <2>1 DEF PersonaSettle, Same, TypeOK, tally, reminders
    <3>3. QED
      BY <1>4, <3>1, <3>2 DEF Shaped, Change, PersonaSettle
  <2>2. CASE ~(status[r] = "awaiting_personas" /\ Required(r) \subseteq acked[r])
    BY <1>1, <1>4, <2>2 DEF PersonaSettle, tally, reminders
  <2>3. QED
    BY <2>1, <2>2
<1>5. ASSUME NEW r \in Requests, NEW u \in Users, Approve(r, u)
      PROVE  Shaped
  BY <1>5, ShapeApproval DEF Approve, reminders
<1>6. ASSUME NEW r \in Requests, NEW u \in Users, Deny(r, u)
      PROVE  Shaped
  <2>1. status[r] \in {"none"} \cup Open \cup Terminal
    BY DEF TypeOK
  <2>2. IsOpen(r)
    BY <1>6, <2>1 DEF Deny, Deniable, Exists, IsOpen
  <2>3. QED
    BY <1>6, <2>2, ShapeReject DEF Deny, tally, reminders
<1>7. ASSUME NEW r \in Requests, NEW u \in Users, NEW params \in ParamValues,
             OverrideSubmit(r, u, params)
      PROVE  Shaped
  <2>1. CASE Approvable(r, u)
    BY <1>7, <2>1, ShapeApproval DEF OverrideSubmit, reminders
  <2>2. CASE ~Approvable(r, u)
    BY <1>1, <1>7, <2>2 DEF OverrideSubmit, decision, reminders
  <2>3. QED
    BY <2>1, <2>2
<1>8. ASSUME NEW p \in Passes, NEW r \in Requests, Escalate(p, r)
      PROVE  Shaped
  <2>1. pass[p].now \in Nat /\ pass[p].now <= clock /\ clock \in Nat
    BY TypePass DEF PassType, PassClock, TypeOK
  <2>2. clock >= EscalateAt(r)
    BY <1>8, <2>1, TermsFields DEF Escalate, EscalationDue, InEscalationWindow
  <2>3. RaisedMin(r) >= min_approvals[r] /\ min_approvals'[r] = RaisedMin(r)
    <3>1. min_approvals[r] \in Nat
      BY DEF TypeOK
    <3>2. RaisedMin(r) >= min_approvals[r]
      BY <3>1, TermsFields DEF RaisedMin
    <3>3. QED
      BY <1>8, <3>2 DEF Escalate, TypeOK
  <2>4. Escalated(r)
    BY <1>8, <2>2, <2>3 DEF Escalate, EscalationDue, Escalated, TypeOK
  <2>5. \A q \in Requests \ {r} : Same(q)
    BY <1>8 DEF Escalate, Same, TypeOK
  <2>6. QED
    BY <1>8, <2>4, <2>5 DEF Shaped, Change, Escalate
<1>9. ASSUME NEW p \in Passes, NEW r \in Requests, Expire(p, r)
      PROVE  Shaped
  <2>1. pass[p].now \in Nat /\ pass[p].now <= clock /\ clock \in Nat
    BY TypePass DEF PassType, PassClock, TypeOK
  <2>2. IsOpen(r) /\ clock >= ExpiresAt(r)
    BY <1>9, <2>1, TermsFields DEF Expire, ExpiryDue
  <2>3. QED
    BY <1>9, <2>2, ShapeReject DEF Expire, tally, reminders
<1>10. ASSUME NEW p \in Passes,
              \/ \E r \in Requests : Refresh(p, r)
              \/ PassStart(p) \/ EscalationPosted(p) \/ SlackUpdated(p)
              \/ SlackFailed(p) \/ PassEnd(p)
       PROVE  Shaped
  BY <1>1, <1>10
  DEF Refresh, PassStart, EscalationPosted, SlackUpdated, SlackFailed, PassEnd, decision,
      tally, reminders
<1>11. ASSUME Sweep
       PROVE  Shaped
  <2>1. Purged
    BY <1>11 DEF Sweep, Purged, Purgeable
  <2>2. QED
    BY <1>11, <2>1 DEF Sweep, Shaped, Same, decision, tally, reminders
<1>12. ASSUME \/ ReloadPolicy \/ Tick \/ UNCHANGED vars
              \/ \E r \in Requests, p \in Personas : PersonaAck(r, p)
       PROVE  Shaped
  BY <1>1, <1>12
  DEF ReloadPolicy, Tick, PersonaAck, vars, decision, tally, reminders
<1>13. QED
  BY <1>2, <1>3, <1>4, <1>5, <1>6, <1>7, <1>8, <1>9, <1>10, <1>11, <1>12 DEF Next, PassStep

\* The shape of every step of a behaviour.
LEMMA EveryStepShaped == Spec => [](TypeOK /\ PassClock) /\ [][Shaped]_vars
<1>1. QED
  BY TypeInit, TypeStep, PassClockInit, PassClockStep, StepShape, PTL DEF Spec

-----------------------------------------------------------------------------
(* The action properties *)

\* A decided request keeps its decision, whoever still works on it.
THEOREM DecisionsFinal == Spec => DecisionStable
<1>1. ASSUME Shaped
      PROVE  \A r \in Requests :
               status[r] \in Terminal =>
                 /\ status'[r] = status[r]
                 /\ decided_at'[r] = decided_at[r]
                 /\ approvals'[r] = approvals[r]
                 /\ min_approvals'[r] = min_approvals[r]
  BY <1>1 DEF Shaped, Same, Change, Born, Opened, Voted, Rejected, Escalated, Approvable,
              IsOpen, Open, Terminal
<1>2. QED
  BY <1>1, EveryStepShaped, PTL DEF DecisionStable

\* The quorum of a request moves only upwards, in its one escalation, which is not early.
THEOREM EscalatesOnce == Spec => EscalationOnce
<1>1. ASSUME Shaped, TypeOK, TypeOK'
      PROVE  \A r \in Requests :
               /\ status[r] # "none" /\ min_approvals'[r] # min_approvals[r] =>
                    /\ IsOpen(r)
                    /\ min_approvals'[r] > min_approvals[r]
                    /\ ~escalation_fired[r] /\ escalation_fired'[r]
               /\ ~escalation_fired[r] /\ escalation_fired'[r] =>
                    IsOpen(r) /\ clock >= EscalateAt(r)
               /\ escalation_fired[r] => escalation_fired'[r]
  <2>1. TAKE r \in Requests
  <2>2. min_approvals[r] \in Nat /\ min_approvals'[r] \in Nat
    BY <1>1 DEF TypeOK
  <2>3. CASE Same(r)
    BY <2>3 DEF Same
  <2>4. CASE Change(r)
    BY <2>2, <2>4 DEF Change, Born, Opened, Voted, Rejected, Escalated
  <2>5. QED
    BY <1>1, <2>3, <2>4 DEF Shaped
<1>2. QED
  BY <1>1, EveryStepShaped, PTL DEF EscalationOnce

\* Only an open request expires, and never early.
THEOREM ExpiresOnTime == Spec => ExpiryOnTime
<1>1. ASSUME Shaped
      PROVE  \A r \in Requests :
               status[r] # "expired" /\ status'[r] = "expired" =>
                 IsOpen(r) /\ clock >= ExpiresAt(r)
  <2>1. TAKE r \in Requests
  <2>2. CASE Same(r)
    BY <2>2 DEF Same
  <2>3. CASE Change(r)
    BY <2>3 DEF Change, Born, Opened, Voted, Rejected, Escalated, Open
  <2>4. QED
    BY <1>1, <2>2, <2>3 DEF Shaped
<1>2. QED
  BY <1>1, EveryStepShaped, PTL DEF ExpiryOnTime

-----------------------------------------------------------------------------
(* The promise *)

\* Only decided requests are purged.
DeletedDecided == \A r \in deleted : status[r] \in Terminal

LEMMA DeletedDecidedInvariant == Spec => []DeletedDecided
<1>1. Init => DeletedDecided
  BY DEF Init, DeletedDecided
<1>2. ASSUME TypeOK, DeletedDecided, Shaped
      PROVE  DeletedDecided'
  <2>1. \A r \in Requests : status[r] \in Terminal => status'[r] \in Terminal
    BY <1>2 DEF Shaped, Same, Change, Born, Opened, Voted, Rejected, Escalated, Approvable,
                IsOpen, Open, Terminal
  <2>2. \A r \in deleted' : r \in Requests /\ status[r] \in Terminal
    BY <1>2 DEF Shaped, Purged, DeletedDecided, TypeOK
  <2>3. QED
    BY <2>1, <2>2 DEF DeletedDecided
<1>3. TypeOK /\ DeletedDecided /\ UNCHANGED vars => DeletedDecided'
  BY DEF DeletedDecided, vars, decision
<1>4. QED
  BY <1>1, <1>2, <1>3, EveryStepShaped, PTL DEF Spec

\* What the promise sees of a request.
Phase(r) == IF r \in deleted THEN "gone"
            ELSE IF status[r] \in Open THEN "open" ELSE status[r]
Phases == [r \in Requests |-> Phase(r)]
Votes  == [r \in Requests |-> Voters(r)]

\* A step of the promise, in terms of what it sees of one request.
LEMMA PromiseFrame ==
  ASSUME TypeOK, TypeOK', NEW r \in Requests, \A q \in Requests \ {r} : Same(q),
         UNCHANGED deleted
  PROVE  /\ Phases' = [Phases EXCEPT ![r] = Phase(r)']
         /\ Votes' = [Votes EXCEPT ![r] = Voters(r)']
         /\ min_approvals' = [min_approvals EXCEPT ![r] = min_approvals'[r]]
         /\ Phase(r)' = Phases[r] => Phases' = Phases
         /\ Voters(r)' = Voters(r) => Votes' = Votes
         /\ min_approvals'[r] = min_approvals[r] => min_approvals' = min_approvals
<1>1. \A q \in Requests \ {r} : Phase(q)' = Phase(q) /\ Voters(q)' = Voters(q)
  BY DEF Same, Phase, Voters
<1>2. Phases' = [Phases EXCEPT ![r] = Phase(r)'] /\ Votes' = [Votes EXCEPT ![r] = Voters(r)']
  BY <1>1 DEF Phases, Votes
<1>3. min_approvals' = [min_approvals EXCEPT ![r] = min_approvals'[r]]
  BY DEF TypeOK, Same
<1>4. [Phases EXCEPT ![r] = Phases[r]] = Phases /\ [Votes EXCEPT ![r] = Voters(r)] = Votes
  BY DEF Phases, Votes
<1>5. [min_approvals EXCEPT ![r] = min_approvals[r]] = min_approvals
  BY DEF TypeOK
<1>6. QED
  BY <1>2, <1>3, <1>4, <1>5

\* The vote that makes the quorum, and no other, approves.
LEMMA PromiseVote ==
  ASSUME TypeOK, TypeOK', QuorumInv', NEW r \in Requests, Voted(r), r \notin deleted,
         \A q \in Requests \ {r} : Same(q), UNCHANGED deleted
  PROVE  \E u \in Users : Promise!Vote(r, u)
<1>1. PICK u \in Users :
        /\ Approvable(r, u)
        /\ approvals'[r] = Append(approvals[r], u)
        /\ status'[r] = IF Len(approvals[r]) + 1 >= min_approvals[r] THEN "approved"
                        ELSE "ready_for_approval"
        /\ min_approvals'[r] = min_approvals[r]
  BY DEF Voted
<1>2. approvals[r] \in Seq(Users) /\ approvals'[r] \in Seq(Users)
  BY DEF TypeOK
<1>3. /\ Len(approvals'[r]) = Len(approvals[r]) + 1
      /\ Voters(r)' = Voters(r) \cup {u}
  BY <1>1, <1>2 DEF Voters
<1>4. Cardinality(Voters(r) \cup {u}) = Len(approvals[r]) + 1
  <2>1. \A i, j \in DOMAIN approvals'[r] : approvals'[r][i] = approvals'[r][j] => i = j
    BY DEF QuorumInv, Tallied
  <2>2. Cardinality({approvals'[r][i] : i \in DOMAIN approvals'[r]}) = Len(approvals'[r])
    BY <1>2, <2>1, DistinctCount
  <2>3. QED
    BY <1>3, <2>2 DEF Voters
<1>5. Phases[r] = "open" /\ u \notin Votes[r] /\ Votes[r] = Voters(r)
  BY <1>1 DEF Approvable, Phases, Phase, Votes, Open
<1>6. Votes' = [Votes EXCEPT ![r] = @ \cup {u}]
  BY <1>3, <1>5, PromiseFrame
<1>7. UNCHANGED min_approvals
  BY <1>1, PromiseFrame
<1>8. Phases' = IF Cardinality(Votes[r] \cup {u}) >= min_approvals[r]
                THEN [Phases EXCEPT ![r] = "approved"] ELSE Phases
  <2>1. Phase(r)' = IF Len(approvals[r]) + 1 >= min_approvals[r] THEN "approved" ELSE "open"
    BY <1>1 DEF Phase, Open
  <2>2. [Phases EXCEPT ![r] = "open"] = Phases
    BY <1>5 DEF Phases
  <2>3. QED
    BY <1>4, <1>5, <2>1, <2>2, PromiseFrame
<1>9. Promise!Cardinality(Votes[r] \cup {u}) = Cardinality(Votes[r] \cup {u})
  BY DEF Promise!Cardinality, Cardinality, Promise!IsFiniteSet, IsFiniteSet
<1>10. QED
  BY <1>5, <1>6, <1>7, <1>8, <1>9 DEF Promise!Vote, Phases, Phase, Votes

\* What a step does to the requests is what the promise allows, or nothing it can see.
LEMMA PromiseStep ==
  ASSUME TypeOK, TypeOK', QuorumInv', DeletedDecided, Shaped
  PROVE  [Promise!Next]_(Promise!vars)
<1>1. CASE (\A r \in Requests : Same(r)) /\ Purged
  <2>1. PICK rs \in SUBSET Requests : /\ \A r \in rs : status[r] \in Terminal
                                      /\ deleted' = deleted \cup rs
    BY <1>1 DEF Purged
  <2>2. PICK forgotten \in SUBSET Requests : forgotten = rs \ deleted
    OBVIOUS
  <2>3. \A r \in forgotten : Phases[r] \in Promise!Decided
    BY <2>1, <2>2 DEF Phases, Phase, Promise!Decided, Terminal, Open
  <2>4. Phases' = [r \in Requests |-> IF r \in forgotten THEN "gone" ELSE Phases[r]]
    BY <1>1, <2>1, <2>2 DEF Phases, Phase, Same
  <2>5. Votes' = Votes
    BY <1>1 DEF Votes, Voters, Same
  <2>6. min_approvals' = min_approvals
    BY <1>1 DEF TypeOK, Same
  <2>7. Promise!Forget(forgotten)
    BY <2>3, <2>4, <2>5, <2>6 DEF Promise!Forget, Phases, Phase, Votes
  <2>8. QED
    BY <2>7 DEF Promise!Next
<1>2. ASSUME NEW r \in Requests, Change(r), \A q \in Requests \ {r} : Same(q),
             UNCHANGED deleted
      PROVE  [Promise!Next]_(Promise!vars)
  <2>1. min_approvals[r] \in Nat /\ min_approvals'[r] \in Nat
    BY DEF TypeOK
  <2>2. r \notin deleted /\ r \notin deleted'
    BY <1>2 DEF DeletedDecided, Change, Born, Opened, Voted, Rejected, Escalated, Approvable,
                IsOpen, Open, Terminal
  <2>3. CASE Born(r)
    <3>1. Phases[r] = "none" /\ Phase(r)' = "open" /\ Voters(r)' = Voters(r)
      BY <2>2, <2>3 DEF Born, Phases, Phase, Voters, Open
    <3>2. Phases' = [Phases EXCEPT ![r] = "open"] /\ Votes' = Votes
      BY <1>2, <3>1, PromiseFrame
    <3>3. Promise!Ask(r)
      BY <1>2, <2>1, <3>1, <3>2, PromiseFrame DEF Promise!Ask, Phases, Phase, Votes
    <3>4. QED
      BY <3>3 DEF Promise!Next
  <2>4. CASE Opened(r)
    <3>1. Phase(r)' = Phases[r] /\ Voters(r)' = Voters(r)
      BY <2>2, <2>4 DEF Opened, Phases, Phase, Voters, Open
    <3>2. Phases' = Phases /\ Votes' = Votes /\ min_approvals' = min_approvals
      BY <1>2, <2>4, <3>1, PromiseFrame DEF Opened
    <3>3. QED
      BY <3>2 DEF Promise!vars, Phases, Phase, Votes
  <2>5. CASE Voted(r)
    BY <1>2, <2>2, <2>5, PromiseVote DEF Promise!Next
  <2>6. CASE Rejected(r)
    <3>1. /\ Phases[r] = "open" /\ Voters(r)' = Voters(r)
          /\ Phase(r)' = "denied" \/ Phase(r)' = "expired"
      BY <2>2, <2>6 DEF Rejected, IsOpen, Phases, Phase, Voters, Open
    <3>2. Votes' = Votes /\ min_approvals' = min_approvals
      BY <1>2, <2>6, <3>1, PromiseFrame DEF Rejected
    <3>3. Promise!Reject(r)
      BY <1>2, <3>1, <3>2, PromiseFrame DEF Promise!Reject, Phases, Phase, Votes
    <3>4. QED
      BY <3>3 DEF Promise!Next
  <2>7. CASE Escalated(r)
    <3>1. Phases[r] = "open" /\ Phase(r)' = "open" /\ Voters(r)' = Voters(r)
      BY <2>2, <2>7 DEF Escalated, IsOpen, Phases, Phase, Voters
    <3>2. Phases' = Phases /\ Votes' = Votes
      BY <1>2, <3>1, PromiseFrame
    <3>3. CASE min_approvals'[r] > min_approvals[r]
      <4>1. Promise!Raise(r)
        BY <1>2, <2>1, <3>1, <3>2, <3>3, PromiseFrame DEF Promise!Raise, Phases, Phase, Votes
      <4>2. QED
        BY <4>1 DEF Promise!Next
    <3>4. CASE min_approvals'[r] = min_approvals[r]
      <4>1. min_approvals' = min_approvals
        BY <1>2, <3>4, PromiseFrame
      <4>2. QED
        BY <3>2, <4>1 DEF Promise!vars, Phases, Phase, Votes
    <3>5. QED
      BY <2>1, <2>7, <3>3, <3>4 DEF Escalated
  <2>8. QED
    BY <1>2, <2>3, <2>4, <2>5, <2>6, <2>7 DEF Change
<1>3. QED
  BY <1>1, <1>2 DEF Shaped

\* The service keeps its promise: it implements GuardPromise.
THEOREM PromiseIsKept == Spec => PromiseKept
<1>1. Init => Promise!Init
  BY DEF Init, Promise!Init, Voters, Open
<1>2. UNCHANGED vars => UNCHANGED Promise!vars
  BY DEF vars, decision, tally, Promise!vars, Voters
<1>3. ASSUME TypeOK, TypeOK', QuorumInv', DeletedDecided, Shaped
      PROVE  [Promise!Next]_(Promise!vars)
  BY <1>3, PromiseStep
<1>4. QED
  BY <1>1, <1>2, <1>3, QuorumInvariant, DeletedDecidedInvariant, EveryStepShaped, PTL
  DEF Spec, PromiseKept, Promise!Spec
=============================================================================
