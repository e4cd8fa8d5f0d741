----------------------------- MODULE SlackQueue -----------------------------
(***************************************************************************)
(* The queue of Slack message updates (SLACK_UPDATE_QUEUE=true): updates   *)
(* of one message are coalesced while they wait, one is in flight at a     *)
(* time, a rate-limited one is put back after a backoff, one refused for   *)
(* another reason is dropped.  A payload is the number of the update of    *)
(* its message, so a larger payload is a later one.                        *)
(***************************************************************************)
EXTENDS Integers, Sequences, FiniteSets

CONSTANTS
  Keys,           \* messages, "channel:ts"
  MaxUpdates,     \* bound on the updates enqueued for a message
  MaxRateLimits   \* bound on the rate-limit answers Slack gives

ASSUME QueueBounds == MaxUpdates \in Nat /\ MaxRateLimits \in Nat

VARIABLES
  queue,       \* the Map, as a sequence in insertion order
  scheduled,   \* a drain has been scheduled
  timer,       \* its timer is pending
  draining,    \* the drain loop is running
  sending,     \* the item in flight, or NoItem while the loop sleeps or is over
  enqueued,    \* the last payload enqueued for a message
  shown,       \* the payload Slack shows
  dropped,     \* updates Slack refused, or that gave way to an earlier one put back
  rateLimits   \* rate-limit answers given so far

queueVars == <<queue, scheduled, timer, draining, sending, enqueued, shown, dropped, rateLimits>>

NoItem == [key |-> "none", payload |-> 0]
\* An item holding the message as it was before the change it announces.
ItemBefore(k, n) == [key |-> k, payload |-> n - 1]
Item(k, n) == [key |-> k, payload |-> n]
ItemType == [key: Keys, payload: 1 .. MaxUpdates]

QueueInit ==
  /\ queue = <<>>
  /\ scheduled = FALSE /\ timer = FALSE /\ draining = FALSE
  /\ sending = NoItem
  /\ enqueued = [k \in Keys |-> 0]
  /\ shown = [k \in Keys |-> 0]
  /\ dropped = {}
  /\ rateLimits = 0

\* Every item at the end.
PutAtEnd(q, item) == Append(q, item)
\* An item already there left as it is.
PutIfNew(q, item) ==
  IF \E i \in DOMAIN q : q[i].key = item.key THEN q ELSE Append(q, item)

\* Map.set: an item already there keeps its place, a new key goes to the end.
Put(q, item) ==
  IF \E i \in DOMAIN q : q[i].key = item.key
  THEN [i \in DOMAIN q |-> IF q[i].key = item.key THEN item ELSE q[i]]
  ELSE Append(q, item)

\* The debounce timer is started unless one is pending or the loop is running anyway.
NeedsTimer == ~draining /\ ~scheduled

\* enqueueUpdate
Enqueue(k) ==
  /\ enqueued[k] < MaxUpdates
  /\ enqueued' = [enqueued EXCEPT ![k] = @ + 1]
  /\ queue' = Put(queue, Item(k, enqueued[k] + 1))
  /\ scheduled' = (scheduled \/ NeedsTimer)
  /\ timer' = (timer \/ NeedsTimer)
  /\ UNCHANGED <<draining, sending, shown, dropped, rateLimits>>

\* The loop takes the oldest item and hands it to Slack, or ends.
TakeNext ==
  IF queue = <<>>
  THEN draining' = FALSE /\ sending' = NoItem /\ UNCHANGED queue
  ELSE draining' = TRUE /\ sending' = Head(queue) /\ queue' = Tail(queue)

\* The drain forgetting that it no longer waits for its timer.
TimerFiresStillScheduled ==
  /\ timer
  /\ timer' = FALSE
  /\ IF draining THEN UNCHANGED <<queue, draining, sending>> ELSE TakeNext
  /\ UNCHANGED <<scheduled, enqueued, shown, dropped, rateLimits>>

\* The debounce timer fires; drain() runs up to its first await.
TimerFires ==
  /\ timer
  /\ timer' = FALSE
  /\ IF draining THEN UNCHANGED <<queue, scheduled, draining, sending>>
     ELSE scheduled' = FALSE /\ TakeNext
  /\ UNCHANGED <<enqueued, shown, dropped, rateLimits>>

\* After an answer the loop sleeps for a moment if there is more to send, else it is over.
AfterAnswer ==
  /\ sending' = NoItem
  /\ draining' = (queue # <<>>)
  /\ UNCHANGED <<queue, scheduled, timer, enqueued, rateLimits>>

SlackAccepts ==
  /\ sending # NoItem
  /\ shown' = [shown EXCEPT ![sending.key] = sending.payload]
  /\ AfterAnswer
  /\ UNCHANGED dropped

\* An error other than a rate limit: the item is dropped.
SlackRefuses ==
  /\ sending # NoItem
  /\ dropped' = dropped \cup {sending}
  /\ AfterAnswer
  /\ UNCHANGED shown

\* A rate limit: the item goes back into the Map, over whatever was enqueued for the same
\* message while it was in flight, and the loop sleeps.
SlackRateLimits ==
  /\ sending # NoItem
  /\ rateLimits < MaxRateLimits
  /\ rateLimits' = rateLimits + 1
  /\ dropped' = dropped \cup {queue[i] : i \in {j \in DOMAIN queue : queue[j].key = sending.key}}
  /\ queue' = Put(queue, sending)
  /\ sending' = NoItem
  /\ UNCHANGED <<scheduled, timer, draining, enqueued, shown>>

\* The loop wakes up.
LoopResumes ==
  /\ draining
  /\ sending = NoItem
  /\ TakeNext
  /\ UNCHANGED <<scheduled, timer, enqueued, shown, dropped, rateLimits>>

QueueNext ==
  \/ \E k \in Keys : Enqueue(k)
  \/ TimerFires \/ LoopResumes
  \/ SlackAccepts \/ SlackRefuses \/ SlackRateLimits

\* Timers fire and Slack answers; nobody has to enqueue anything.
QueueFairness ==
  /\ WF_queueVars(TimerFires)
  /\ WF_queueVars(LoopResumes)
  /\ WF_queueVars(SlackAccepts \/ SlackRefuses \/ SlackRateLimits)

QueueSpec == QueueInit /\ [][QueueNext]_queueVars
QueueFairSpec == QueueSpec /\ QueueFairness

-----------------------------------------------------------------------------
(* Properties *)

\* Every variable keeps its type.
QueueTypeOK ==
  /\ queue \in Seq(ItemType)
  /\ {scheduled, timer, draining} \subseteq BOOLEAN
  /\ sending \in ItemType \cup {NoItem}
  /\ enqueued \in [Keys -> 0 .. MaxUpdates]
  /\ shown \in [Keys -> 0 .. MaxUpdates]
  /\ dropped \in SUBSET ItemType
  /\ rateLimits \in 0 .. MaxRateLimits

\* Updates never wait for a drain nobody will start: what is in the queue is being drained
\* or a timer is about to drain it, although enqueueUpdate starts no timer while either of
\* the two flags is up.
WakeupNotLost == queue # <<>> => draining \/ timer

\* When the queue has come to rest, Slack shows the last update of every message, whatever became
\* of the ones before it, unless it was that last update that Slack refused or that the item of a
\* rate limit was put back over.
RestShowsLatest ==
  queue = <<>> /\ ~draining =>
    \A k \in Keys : shown[k] = enqueued[k] \/ Item(k, enqueued[k]) \in dropped

\* A message shown in Slack never goes back to an earlier update.
ShownForward == [][\A k \in Keys : shown'[k] >= shown[k]]_queueVars

\* The queue comes to rest once updates stop arriving, whatever Slack answered.
ComesToRest == <>[](queue = <<>> /\ ~draining)

\* slack-queue.ts:3-4 has the queue send only the latest payload: an update that goes out
\* carries the last payload enqueued for its message.
LatestSent ==
  [][sending' # sending /\ sending' # NoItem =>
       sending'.payload = enqueued[sending'.key]]_queueVars
=============================================================================
