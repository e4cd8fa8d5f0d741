------------------------------ MODULE Waiting -------------------------------
(***************************************************************************)
(* How clients learn what became of one request: the event stream, of      *)
(* which the server keeps one per token, the long poll, and the SDK, which *)
(* asks again and again until its own time is up.                          *)
(*                                                                         *)
(* The store's answers come in the order of the questions and may take     *)
(* their time.  A record it handed out is live: it shows what was decided  *)
(* since, as the in-memory store's one object and the Redis store's linked *)
(* proxies do.  Of the request only its status matters, and that acks and  *)
(* escalations broadcast without deciding it; a decision is final          *)
(* (GuardRequests!DecisionStable).                                         *)
(***************************************************************************)
EXTENDS Integers, Sequences, FiniteSets, SequencesExt

CONSTANTS
  Conns,       \* connections to the event stream, a new one for every reconnect
  Askers,      \* clients that ask instead of listening
  MaxNudges,   \* bound on the broadcasts that announce no decision
  MaxAsks      \* how often the SDK can ask within its timeout

NoConn == "none"

ASSUME BoundsAssumption == MaxNudges \in Nat /\ MaxAsks \in Nat \ {0}
ASSUME ConnsAssumption == NoConn \notin Conns

VARIABLES
  status,     \* "open" or the decision
  purged,     \* retention has deleted the record
  silent,     \* it expired and the pass has not broadcast it: it waits for Slack, or Slack refused
  nudges,     \* broadcasts that announced no decision
  conn,       \* what the server has done with a connection
  listener,   \* the entry of the listener table for the token
  crossed,    \* connections registered with an emission or a removal under way
  told,       \* the last status sent to a connection
  emits,      \* emissions under way, in the order of their questions to the store
  visits,     \* broadcasts waiting for the record of the listener they came to
  removals,   \* removals of the token's listener put off with setImmediate
  asker       \* long polls and calls of the SDK's wait()

request == <<status, purged, silent, nudges>>
table   == <<conn, listener, crossed>>
stream  == <<table, told, emits, visits, removals>>
vars    == <<request, stream, asker>>

Terminal == {"approved", "denied", "expired"}

Init ==
  /\ status = "open" /\ purged = FALSE /\ silent = FALSE /\ nudges = 0
  /\ conn = [c \in Conns |-> "new"] /\ listener = NoConn /\ crossed = {}
  /\ told = [c \in Conns |-> "nothing"]
  /\ emits = <<>> /\ visits = <<>> /\ removals = 0
  /\ asker = [a \in Askers |-> [pc |-> "new", asks |-> 0, answer |-> "nothing"]]

-----------------------------------------------------------------------------
(* The listener table *)

\* emitState, up to its question for the record: it goes to whom the table names now.
StartEmit(to) == [to |-> to, found |-> FALSE]

\* The connection it replaces is left as it is.
AddListenerKeeping(c) ==
  /\ listener' = c
  /\ conn' = [conn EXCEPT ![c] = "open"]
  /\ crossed' = IF removals > 0 \/ emits # <<>> THEN crossed \cup {c} ELSE crossed

\* addListener: the connection it replaces is ended.
AddListener(c) ==
  /\ listener' = c
  /\ conn' = [d \in Conns |-> IF d = c THEN "open"
                              ELSE IF d = listener THEN "replaced" ELSE conn[d]]
  /\ crossed' = IF removals > 0 \/ emits # <<>> THEN crossed \cup {c} ELSE crossed

\* removeListener, by token: it ends whatever connection is registered.
RemoveListener ==
  /\ conn' = [d \in Conns |-> IF d = listener THEN "ended" ELSE conn[d]]
  /\ listener' = NoConn
  /\ UNCHANGED crossed

\* The status is looked up again when it is sent.
SendCurrent(c, s) ==
  told' = IF conn[c] # "open" THEN told ELSE [told EXCEPT ![c] = IF purged THEN "not_found" ELSE s]

\* A write to a connection that has been ended reaches nobody.
Send(c, s) == told' = IF conn[c] = "open" THEN [told EXCEPT ![c] = s] ELSE told

\* GET /api/guard/wait-sse, which asks for the record first ...
Connect(c) ==
  /\ conn[c] = "new"
  /\ conn' = [conn EXCEPT ![c] = "finding"]
  /\ UNCHANGED <<request, listener, crossed, told, emits, visits, removals, asker>>

\* ... and registers the connection and emits its first state once it has it.
Found(c) ==
  /\ conn[c] = "finding"
  /\ IF purged
     THEN conn' = [conn EXCEPT ![c] = "refused"] /\ UNCHANGED <<listener, crossed, emits>>
     ELSE AddListener(c) /\ emits' = Append(emits, StartEmit(c))
  /\ UNCHANGED <<request, told, visits, removals, asker>>

\* The emission that finds a decision has the listener removed before it has sent anything.
EmitReadRemoving ==
  \E i \in DOMAIN emits :
    /\ ~emits[i].found
    /\ \A j \in 1 .. i - 1 : emits[j].found
    /\ emits' = [emits EXCEPT ![i].found = TRUE]
    /\ removals' = removals + (IF status \in Terminal THEN 1 ELSE 0)
    /\ UNCHANGED <<request, table, told, visits, asker>>

\* The store answers the questions for the record in order.  Without a record the client is
\* told that the request expired, and the listener of the token is removed at once.
EmitRead ==
  \E i \in DOMAIN emits :
    /\ ~emits[i].found
    /\ \A j \in 1 .. i - 1 : emits[j].found
    /\ IF purged
       THEN /\ Send(emits[i].to, "expired")
            /\ RemoveListener
            /\ emits' = RemoveAt(emits, i)
       ELSE /\ emits' = [emits EXCEPT ![i].found = TRUE]
            /\ UNCHANGED <<table, told>>
    /\ UNCHANGED <<request, visits, removals, asker>>

\* The listener stays after a decision.
EmitSendOnly ==
  /\ emits # <<>> /\ Head(emits).found
  /\ emits' = Tail(emits)
  /\ Send(Head(emits).to, status)
  /\ UNCHANGED <<request, table, visits, removals, asker>>

\* The approvers are known in turn and the status is sent.  After a decision the listener is
\* removed in a later tick.
EmitSend ==
  /\ emits # <<>> /\ Head(emits).found
  /\ emits' = Tail(emits)
  /\ Send(Head(emits).to, status)
  /\ removals' = removals + (IF status \in Terminal THEN 1 ELSE 0)
  /\ UNCHANGED <<request, table, visits, asker>>

RemovalRuns ==
  /\ removals > 0
  /\ removals' = removals - 1
  /\ RemoveListener
  /\ UNCHANGED <<request, told, emits, visits, asker>>

\* broadcastForRequestId goes through the table and asks for the record of each listener.
Broadcast == visits' = IF listener = NoConn THEN visits ELSE Append(visits, listener)

\* It found the record and emits to whom the token has now; an entry that took the place of
\* the one it came to is still ahead of it.
VisitDone ==
  /\ visits # <<>>
  /\ emits' = IF purged \/ listener = NoConn THEN emits ELSE Append(emits, StartEmit(listener))
  /\ visits' = IF listener \in {NoConn, Head(visits)} THEN Tail(visits)
               ELSE Append(Tail(visits), listener)
  /\ UNCHANGED <<request, table, told, removals, asker>>

-----------------------------------------------------------------------------
(* The request *)

\* A button decides it and its handler broadcasts.
Decide(outcome) ==
  /\ status = "open"
  /\ status' = outcome
  /\ Broadcast
  /\ UNCHANGED <<purged, silent, nudges, table, told, emits, removals, asker>>

\* A pass marks it expired, waits for Slack, and broadcasts if Slack does not refuse.
Expire ==
  /\ status = "open"
  /\ status' = "expired"
  /\ silent' = TRUE
  /\ UNCHANGED <<purged, nudges, stream, asker>>

ExpiryBroadcast ==
  /\ silent
  /\ silent' = FALSE
  /\ Broadcast
  /\ UNCHANGED <<status, purged, nudges, table, told, emits, removals, asker>>

\* An acknowledgement, an approval short of the quorum or an escalation.
Nudge ==
  /\ status = "open" /\ nudges < MaxNudges
  /\ nudges' = nudges + 1
  /\ Broadcast
  /\ UNCHANGED <<status, purged, silent, table, told, emits, removals, asker>>

Purge ==
  /\ status \in Terminal /\ ~purged
  /\ purged' = TRUE
  /\ UNCHANGED <<status, silent, nudges, stream, asker>>

-----------------------------------------------------------------------------
(* Long poll and SDK *)

Seen == IF purged THEN "not_found" ELSE status
MoveTo(a, pc) == asker' = [asker EXCEPT ![a].pc = pc]
Answer(a, s)  == asker' = [asker EXCEPT ![a].pc = "done", ![a].answer = s]

\* GET /api/guard/wait answers a decision at once and waits 2.5 s for any other.
PollAsk(a) ==
  /\ asker[a].pc = "new"
  /\ IF Seen = "open" THEN MoveTo(a, "polling") ELSE Answer(a, Seen)
  /\ UNCHANGED <<request, stream>>

\* The time is up and the answer is that the request expired.
PollTimerExpires(a) ==
  /\ asker[a].pc = "polling"
  /\ Answer(a, "expired")
  /\ UNCHANGED <<request, stream>>

\* The poll goes on until there is a decision to answer.
PollTimerWhenDecided(a) ==
  /\ asker[a].pc = "polling"
  /\ Seen # "open"
  /\ Answer(a, Seen)
  /\ UNCHANGED <<request, stream>>

\* The time is up: the answer is the status of the record as it is now.
PollTimer(a) ==
  /\ asker[a].pc = "polling"
  /\ Answer(a, Seen)
  /\ UNCHANGED <<request, stream>>

\* wait() of the SDK: another POST while its time lasts, ...
SdkAsk(a) ==
  /\ asker[a].pc \in {"new", "sleeping"}
  /\ asker[a].asks < MaxAsks
  /\ asker' = [asker EXCEPT ![a].pc = "asking", ![a].asks = @ + 1]
  /\ UNCHANGED <<request, stream>>

\* ... whose answer ends it or sends it to sleep, ...
SdkAnswered(a) ==
  /\ asker[a].pc = "asking"
  /\ IF Seen \in Terminal THEN Answer(a, Seen) ELSE MoveTo(a, "sleeping")
  /\ UNCHANGED <<request, stream>>

\* ... and "expired" when its time is up, which slow answers bring forward.
SdkGivesUp(a) ==
  /\ asker[a].pc = "sleeping"
  /\ Answer(a, "expired")
  /\ UNCHANGED <<request, stream>>

Next ==
  \/ \E c \in Conns : Connect(c) \/ Found(c)
  \/ EmitRead \/ EmitSend \/ RemovalRuns \/ VisitDone
  \/ \E outcome \in {"approved", "denied"} : Decide(outcome)
  \/ Expire \/ ExpiryBroadcast \/ Nudge \/ Purge
  \/ \E a \in Askers : PollAsk(a) \/ PollTimer(a) \/ SdkAsk(a) \/ SdkAnswered(a) \/ SdkGivesUp(a)

\* The store answers, timers fire and the SDK goes on; nobody has to connect, to decide the
\* request or to let its expiry be broadcast.
Fairness ==
  /\ \A c \in Conns : WF_vars(Found(c))
  /\ WF_vars(EmitRead) /\ WF_vars(EmitSend) /\ WF_vars(RemovalRuns) /\ WF_vars(VisitDone)
  /\ \A a \in Askers : /\ WF_vars(PollTimer(a)) /\ WF_vars(SdkAnswered(a))
                      /\ WF_vars((SdkAsk(a) /\ asker[a].pc = "sleeping") \/ SdkGivesUp(a))

Spec == Init /\ [][Next]_vars
FairSpec == Spec /\ Fairness

-----------------------------------------------------------------------------
(* Properties *)

\* Every variable keeps its type.
TypeOK ==
  /\ status \in {"open"} \cup Terminal
  /\ {purged, silent} \subseteq BOOLEAN
  /\ nudges \in 0 .. MaxNudges
  /\ conn \in [Conns -> {"new", "finding", "refused", "open", "replaced", "ended"}]
  /\ listener \in Conns \cup {NoConn}
  /\ crossed \in SUBSET Conns
  /\ told \in [Conns -> {"nothing", "open"} \cup Terminal]
  /\ emits \in Seq([to: Conns, found: BOOLEAN])
  /\ visits \in Seq(Conns)
  /\ removals \in Nat
  /\ asker \in [Askers -> [pc: {"new", "polling", "asking", "sleeping", "done"},
                          asks: 0 .. MaxAsks,
                          answer: {"nothing", "open", "not_found"} \cup Terminal]]

\* The one connection the server holds open for the token is the one in the table, whatever
\* reconnects, removals and emissions crossed: none is left open that nothing will ever end.
NoOrphan == \A c \in Conns : conn[c] = "open" <=> c = listener

\* What a client is told of a decision is the decision, over stream, long poll and SDK alike;
\* only "expired" may also mean that the record is gone or that the SDK's own time was up.
ToldTruth ==
  /\ \A c \in Conns : told[c] \in Terminal =>
        told[c] = status \/ (told[c] = "expired" /\ purged)
  /\ \A a \in Askers : asker[a].answer \in Terminal =>
        asker[a].answer = status \/ (asker[a].answer = "expired" /\ asker[a].asks > 0)

\* While the record is there, the server ends a connection only after it told it a decision,
\* unless another connection took its place or it was registered while an emission to an
\* earlier one or a removal was under way: these work on whatever connection the token has.
ToldBeforeEnd ==
  \A c \in Conns : conn[c] = "ended" /\ ~purged => told[c] \in Terminal \/ c \in crossed

\* docs/api.md:215: a decision that was broadcast ends every stream there is, one that
\* connected in the middle of it included, as long as the record is not purged meanwhile.
StreamsEnd ==
  \A c \in Conns :
    conn[c] = "open" /\ status \in Terminal /\ ~silent ~> conn[c] # "open" \/ purged

\* A long poll is answered, and the SDK's wait returns.
WaitsReturn == \A a \in Askers : asker[a].pc # "new" ~> asker[a].pc = "done"
=============================================================================
