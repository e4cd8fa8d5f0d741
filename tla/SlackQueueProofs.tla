-------------------------- MODULE SlackQueueProofs --------------------------
(***************************************************************************)
(* The update queue, for any messages, updates and answers of Slack: no    *)
(* wakeup is lost, no message goes back, and what Slack shows at rest is   *)
(* the last update of every message, unless just that one was dropped.     *)
(***************************************************************************)
EXTENDS SlackQueue, TLAPS, SequenceTheorems

\* The flags: scheduled says that the timer is pending, which it is only
\* while no loop is running, and only a running loop has an item in flight.
Flags ==
  /\ timer <=> scheduled
  /\ timer => ~draining
  /\ sending # NoItem => draining

InQueue(k) == \E i \in DOMAIN queue : queue[i].key = k /\ queue[i].payload = enqueued[k]
Dropped(k) == Item(k, enqueued[k]) \in dropped
InFlight(k) == sending # NoItem /\ sending.key = k

\* Where the last update of a message is.
Latest(k) ==
  \/ Dropped(k)
  \/ InQueue(k)
  \/ InFlight(k) /\ sending.payload = enqueued[k]
  \/ ~InFlight(k) /\ shown[k] = enqueued[k]

\* What waits is the last update, unless an earlier one was put back over that.
WaitsLatest ==
  \A i \in DOMAIN queue :
    queue[i].payload = enqueued[queue[i].key] \/ Dropped(queue[i].key)

\* The queue is a Map: a message has one place in it.
Coalesced ==
  \A i, j \in DOMAIN queue : queue[i].key = queue[j].key => i = j

\* Shown, in flight, waiting, enqueued: in this order.
InOrder ==
  /\ \A k \in Keys : shown[k] <= enqueued[k]
  /\ sending # NoItem => /\ shown[sending.key] <= sending.payload
                         /\ sending.payload <= enqueued[sending.key]
  /\ \A i \in DOMAIN queue :
       /\ shown[queue[i].key] <= queue[i].payload
       /\ queue[i].payload <= enqueued[queue[i].key]
       /\ InFlight(queue[i].key) => sending.payload <= queue[i].payload

QueueInv ==
  /\ QueueTypeOK
  /\ Flags
  /\ WakeupNotLost
  /\ Coalesced
  /\ WaitsLatest
  /\ InOrder
  /\ \A k \in Keys : Latest(k)

-----------------------------------------------------------------------------
LEMMA NoItemIsNone == NoItem \notin ItemType
BY QueueBounds DEF NoItem, ItemType

\* Map.set keeps what is there under other keys, and holds the item once.
LEMMA PutSpec ==
  ASSUME NEW q \in Seq(ItemType), NEW item \in ItemType,
         \A i, j \in DOMAIN q : q[i].key = q[j].key => i = j
  PROVE  /\ Put(q, item) \in Seq(ItemType)
         /\ Put(q, item) # << >>
         /\ \A i, j \in DOMAIN Put(q, item) : Put(q, item)[i].key = Put(q, item)[j].key => i = j
         /\ \E i \in DOMAIN Put(q, item) : Put(q, item)[i] = item
         /\ \A i \in DOMAIN Put(q, item) :
              \/ Put(q, item)[i] = item
              \/ i \in DOMAIN q /\ Put(q, item)[i] = q[i] /\ q[i].key # item.key
         /\ \A i \in DOMAIN q :
              q[i].key # item.key => i \in DOMAIN Put(q, item) /\ Put(q, item)[i] = q[i]
<1>1. CASE \E i \in DOMAIN q : q[i].key = item.key
  <2> DEFINE new == [i \in DOMAIN q |-> IF q[i].key = item.key THEN item ELSE q[i]]
  <2>1. Put(q, item) = new
    BY <1>1 DEF Put
  <2>2. DOMAIN q = 1 .. Len(q) /\ Len(q) \in Nat /\ DOMAIN new = DOMAIN q
    OBVIOUS
  <2>3. \A i \in DOMAIN q : new[i] \in ItemType
    OBVIOUS
  <2>4. new \in Seq(ItemType)
    BY <2>2, <2>3
  <2>5. \A i \in DOMAIN q : new[i].key = q[i].key
    OBVIOUS
  <2>6. PICK k \in DOMAIN q : q[k].key = item.key
    BY <1>1
  <2>7. new[k] = item /\ new # << >>
    BY <2>2, <2>6
  <2>8. \A i \in DOMAIN q : new[i] = item \/ (new[i] = q[i] /\ q[i].key # item.key)
    OBVIOUS
  <2>9. \A i \in DOMAIN q : q[i].key # item.key => new[i] = q[i]
    OBVIOUS
  <2> HIDE DEF new
  <2> QED
    BY <2>1, <2>2, <2>4, <2>5, <2>6, <2>7, <2>8, <2>9
<1>2. CASE ~\E i \in DOMAIN q : q[i].key = item.key
  <2> DEFINE new == Append(q, item)
  <2>1. Put(q, item) = new
    BY <1>2 DEF Put
  <2>2. /\ DOMAIN q = 1 .. Len(q) /\ Len(q) \in Nat /\ DOMAIN new = 1 .. Len(q) + 1
        /\ new \in Seq(ItemType) /\ new[Len(q) + 1] = item
        /\ \A i \in DOMAIN q : new[i] = q[i]
    OBVIOUS
  <2>3. \A i \in DOMAIN new : i \in DOMAIN q \/ i = Len(q) + 1
    BY <2>2
  <2>4. new # << >> /\ Len(q) + 1 \in DOMAIN new
    BY <2>2
  <2>5. DOMAIN q \subseteq DOMAIN new
    BY <2>2
  <2> HIDE DEF new
  <2> QED
    BY <1>2, <2>1, <2>2, <2>3, <2>4, <2>5
<1> QED
  BY <1>1, <1>2

\* The rest of the queue after its head.
LEMMA TailSpec ==
  ASSUME NEW q \in Seq(ItemType), q # << >>
  PROVE  /\ Head(q) = q[1] /\ Head(q) \in ItemType /\ 1 \in DOMAIN q
         /\ Tail(q) \in Seq(ItemType)
         /\ \A i \in DOMAIN Tail(q) : i + 1 \in DOMAIN q /\ Tail(q)[i] = q[i + 1] /\ i \in Nat
         /\ \A i \in DOMAIN q : i = 1 \/ (i - 1 \in DOMAIN Tail(q) /\ Tail(q)[i - 1] = q[i])
<1>1. /\ Len(q) \in Nat \ {0} /\ DOMAIN q = 1 .. Len(q)
      /\ Tail(q) \in Seq(ItemType) /\ Len(Tail(q)) = Len(q) - 1
      /\ \A i \in 1 .. Len(q) - 1 : Tail(q)[i] = q[i + 1]
  OBVIOUS
<1>2. DOMAIN Tail(q) = 1 .. Len(q) - 1
  BY <1>1
<1>3. 1 \in DOMAIN q /\ Head(q) = q[1] /\ q[1] \in ItemType
  BY <1>1
<1>4. ASSUME NEW i \in DOMAIN Tail(q)
      PROVE  i + 1 \in DOMAIN q /\ Tail(q)[i] = q[i + 1] /\ i \in Nat
  BY <1>1, <1>2
<1>5. ASSUME NEW i \in DOMAIN q, i # 1
      PROVE  i - 1 \in DOMAIN Tail(q) /\ Tail(q)[i - 1] = q[i]
  <2>1. i \in Int /\ i - 1 \in 1 .. Len(q) - 1 /\ (i - 1) + 1 = i
    BY <1>1, <1>5
  <2> QED
    BY <1>1, <1>2, <2>1
<1> QED
  BY <1>1, <1>3, <1>4, <1>5

\* What PutSpec says of the queue q that holds item after the queue old.
PutInto(old, q, item) ==
  /\ q \in Seq(ItemType)
  /\ q # << >>
  /\ \A i, j \in DOMAIN q : q[i].key = q[j].key => i = j
  /\ \E i \in DOMAIN q : q[i] = item
  /\ \A i \in DOMAIN q :
       \/ q[i] = item
       \/ i \in DOMAIN old /\ q[i] = old[i] /\ old[i].key # item.key
  /\ \A i \in DOMAIN old :
       old[i].key # item.key => i \in DOMAIN q /\ q[i] = old[i]

LEMMA PutHolds ==
  ASSUME NEW item \in ItemType, QueueInv
  PROVE  PutInto(queue, Put(queue, item), item)
<1>1. queue \in Seq(ItemType)
  BY DEF QueueInv, QueueTypeOK
<1>2. \A i, j \in DOMAIN queue : queue[i].key = queue[j].key => i = j
  BY DEF QueueInv, Coalesced
<1> QED
  BY <1>1, <1>2, PutSpec DEF PutInto

LEMMA QueueInitial == QueueInit => QueueInv
<1> SUFFICES ASSUME QueueInit PROVE QueueInv
  OBVIOUS
<1>1. QueueTypeOK
  <2>1. 0 \in 0 .. MaxUpdates /\ 0 \in 0 .. MaxRateLimits
    BY QueueBounds
  <2>2. queue \in Seq(ItemType)
    BY DEF QueueInit
  <2>3. enqueued \in [Keys -> 0 .. MaxUpdates] /\ shown \in [Keys -> 0 .. MaxUpdates]
    BY <2>1 DEF QueueInit
  <2> QED
    BY <2>1, <2>2, <2>3 DEF QueueInit, QueueTypeOK
<1>2. Flags /\ WakeupNotLost /\ Coalesced /\ WaitsLatest /\ InOrder
  BY DEF QueueInit, Flags, WakeupNotLost, Coalesced, WaitsLatest, InOrder, InFlight
<1>3. \A k \in Keys : Latest(k)
  BY DEF QueueInit, Latest, InFlight
<1> QED
  BY <1>1, <1>2, <1>3 DEF QueueInv

-----------------------------------------------------------------------------
(* One lemma per action *)

\* A new update goes to its message's place, and the timer or the loop will see it.
LEMMA EnqueueKeeps ==
  ASSUME QueueInv, NEW k \in Keys, Enqueue(k)
  PROVE  QueueInv'
<1> DEFINE item == Item(k, enqueued[k] + 1)
<1> USE DEF QueueInv
<1>0. enqueued[k] \in 0 .. MaxUpdates - 1 /\ enqueued[k] + 1 \in 1 .. MaxUpdates
  BY QueueBounds DEF QueueTypeOK, Enqueue
<1>1. item \in ItemType /\ item.key = k /\ item.payload = enqueued[k] + 1
  BY <1>0 DEF Item, ItemType
<1>2. queue \in Seq(ItemType) /\ queue' = Put(queue, item)
  BY DEF QueueTypeOK, Enqueue
<1>3. /\ enqueued' = [enqueued EXCEPT ![k] = @ + 1]
      /\ UNCHANGED <<draining, sending, shown, dropped, rateLimits>>
      /\ enqueued \in [Keys -> 0 .. MaxUpdates] /\ shown \in [Keys -> 0 .. MaxUpdates]
  BY DEF Enqueue, QueueTypeOK
<1>4. \A j \in Keys : enqueued'[j] = IF j = k THEN enqueued[k] + 1 ELSE enqueued[j]
  BY <1>3
<1>5. \A i \in DOMAIN queue : queue[i] \in ItemType
  BY <1>2
<1> HIDE DEF item
<1>6. /\ queue' \in Seq(ItemType) /\ queue' # << >>
      /\ \A i, j \in DOMAIN queue' : queue'[i].key = queue'[j].key => i = j
      /\ \E i \in DOMAIN queue' : queue'[i] = item
      /\ \A i \in DOMAIN queue' :
           \/ queue'[i] = item
           \/ i \in DOMAIN queue /\ queue'[i] = queue[i] /\ queue[i].key # item.key
      /\ \A i \in DOMAIN queue :
           queue[i].key # item.key => i \in DOMAIN queue' /\ queue'[i] = queue[i]
  <2>1. PutInto(queue, queue', item)
    BY <1>1, <1>2, PutHolds
  <2> QED
    BY <2>1 DEF PutInto
<1>7. QueueTypeOK'
  <2>1. enqueued' \in [Keys -> 0 .. MaxUpdates]
    BY <1>0, <1>3, <1>4, QueueBounds
  <2>2. {scheduled, timer, draining}' \subseteq BOOLEAN
    BY DEF QueueTypeOK, Enqueue, NeedsTimer
  <2> QED
    BY <1>3, <1>6, <2>1, <2>2 DEF QueueTypeOK
<1>8. Flags'
  BY DEF Flags, QueueTypeOK, Enqueue, NeedsTimer
<1>9. WakeupNotLost'
  BY DEF WakeupNotLost, Flags, QueueTypeOK, Enqueue, NeedsTimer
<1>10. Coalesced'
  BY <1>6 DEF Coalesced
<1>11. WaitsLatest'
  <2> SUFFICES ASSUME NEW i \in DOMAIN queue'
               PROVE  \/ queue'[i].payload = enqueued'[queue'[i].key]
                      \/ Item(queue'[i].key, enqueued'[queue'[i].key]) \in dropped'
    BY DEF WaitsLatest, Dropped
  <2>1. CASE queue'[i] = item
    BY <1>1, <1>4, <2>1
  <2>2. CASE i \in DOMAIN queue /\ queue'[i] = queue[i] /\ queue[i].key # k
    <3>1. queue[i].key \in Keys
      BY <1>5, <2>2 DEF ItemType
    <3> QED
      BY <1>3, <1>4, <2>2, <3>1 DEF WaitsLatest, Dropped
  <2> QED
    BY <1>1, <1>6, <2>1, <2>2
<1>12. InOrder'
  <2>1. \A j \in Keys : enqueued[j] \in Nat /\ shown[j] \in Nat /\ enqueued[j] <= enqueued'[j]
                        /\ enqueued'[j] \in Nat
    BY <1>3, <1>4
  <2>2. \A j \in Keys : shown'[j] <= enqueued'[j]
    BY <1>3, <2>1 DEF InOrder
  <2>3. sending # NoItem =>
          /\ sending \in ItemType /\ sending.key \in Keys /\ sending.payload \in Nat
          /\ shown[sending.key] <= sending.payload /\ sending.payload <= enqueued[sending.key]
    BY DEF InOrder, QueueTypeOK, ItemType
  <2>4. sending' # NoItem => /\ shown'[sending'.key] <= sending'.payload
                             /\ sending'.payload <= enqueued'[sending'.key]
    BY <1>3, <2>1, <2>3
  <2>5. ASSUME NEW i \in DOMAIN queue'
        PROVE  /\ shown'[queue'[i].key] <= queue'[i].payload
               /\ queue'[i].payload <= enqueued'[queue'[i].key]
               /\ InFlight(queue[i].key)' => sending'.payload <= queue'[i].payload
    <3>1. CASE queue'[i] = item
      <4>1. shown[k] <= enqueued[k]
        BY DEF InOrder
      <4> QED
        <5>1. queue'[i].key = k /\ queue'[i].payload = enqueued[k] + 1
          BY <1>1, <3>1
        <5>2. shown'[k] <= enqueued[k] + 1 /\ enqueued'[k] = enqueued[k] + 1
          BY <1>3, <1>4, <2>1, <4>1
        <5>3. InFlight(k)' => sending'.payload <= enqueued[k] + 1
          BY <1>3, <2>1, <2>3 DEF InFlight
        <5>4. InFlight(queue[i].key)' => InFlight(k)'
          BY <5>1 DEF InFlight
        <5> QED
          BY <2>1, <5>1, <5>2, <5>3, <5>4
    <3>2. CASE i \in DOMAIN queue /\ queue'[i] = queue[i] /\ queue[i].key # k
      <4>1. queue[i].key \in Keys /\ queue[i].payload \in Nat
        BY <1>5, <3>2 DEF ItemType
      <4> QED
        <5>1. /\ shown[queue[i].key] <= queue[i].payload
              /\ queue[i].payload <= enqueued[queue[i].key]
              /\ InFlight(queue[i].key) => sending.payload <= queue[i].payload
          BY <3>2 DEF InOrder
        <5>2. enqueued'[queue[i].key] = enqueued[queue[i].key]
          BY <1>4, <3>2, <4>1
        <5>3. InFlight(queue[i].key)' => InFlight(queue[i].key)
          BY <1>3, <3>2 DEF InFlight
        <5> QED
          BY <1>3, <3>2, <5>1, <5>2, <5>3
    <3> QED
      BY <1>1, <1>6, <3>1, <3>2
  <2> QED
    <3>1. \A i \in DOMAIN queue' :
            /\ shown'[queue'[i].key] <= queue'[i].payload
            /\ queue'[i].payload <= enqueued'[queue'[i].key]
            /\ InFlight(queue[i].key)' => sending'.payload <= queue'[i].payload
      BY <2>5
    <3> QED
      BY <2>2, <2>4, <3>1 DEF InOrder, InFlight
<1>13. ASSUME NEW j \in Keys PROVE Latest(j)'
  <2>1. CASE j = k
    <3>1. InQueue(k)'
      BY <1>1, <1>4, <1>6 DEF InQueue
    <3> QED
      BY <2>1, <3>1 DEF Latest
  <2>2. CASE j # k
    <3>1. InQueue(j) => InQueue(j)'
      BY <1>1, <1>4, <1>6, <2>2 DEF InQueue
    <3> QED
      BY <1>3, <1>4, <2>2, <3>1 DEF Latest, InFlight, Dropped
  <2> QED
    BY <2>1, <2>2
<1> QED
  BY <1>7, <1>8, <1>9, <1>10, <1>11, <1>12, <1>13 DEF QueueInv

\* With nothing in flight and no timer, the loop takes the head or ends.
LEMMA TakeKeeps ==
  ASSUME QueueInv, sending = NoItem, TakeNext, ~timer', ~scheduled',
         timer' \in BOOLEAN, scheduled' \in BOOLEAN,
         UNCHANGED <<enqueued, shown, dropped, rateLimits>>
  PROVE  QueueInv'
<1> USE DEF QueueInv
<1>1. CASE queue = << >>
  <2>1. UNCHANGED <<queue, sending, enqueued, shown, dropped, rateLimits>> /\ draining' = FALSE
    BY <1>1 DEF TakeNext
  <2>2. QueueTypeOK'
    BY <2>1 DEF QueueTypeOK
  <2>3. Flags' /\ WakeupNotLost' /\ Coalesced' /\ WaitsLatest'
    BY <1>1, <2>1 DEF Flags, WakeupNotLost, Coalesced, WaitsLatest, Dropped
  <2>4. InOrder' /\ \A k \in Keys : Latest(k)'
    BY <2>1 DEF InOrder, Latest, InQueue, InFlight, Dropped
  <2> QED
    BY <2>2, <2>3, <2>4
<1>2. CASE queue # << >>
  <2>1. draining' = TRUE /\ sending' = Head(queue) /\ queue' = Tail(queue)
    BY <1>2 DEF TakeNext
  <2>2. queue \in Seq(ItemType)
    BY DEF QueueTypeOK
  <2>3. /\ sending' = queue[1] /\ sending' \in ItemType /\ 1 \in DOMAIN queue
        /\ queue' \in Seq(ItemType)
        /\ \A i \in DOMAIN queue' : i + 1 \in DOMAIN queue /\ queue'[i] = queue[i + 1] /\ i \in Nat
        /\ \A i \in DOMAIN queue : i = 1 \/ (i - 1 \in DOMAIN queue' /\ queue'[i - 1] = queue[i])
    BY <1>2, <2>1, <2>2, TailSpec
  <2>4. \A i \in DOMAIN queue' : i + 1 # 1 /\ i \in Nat
    <3>1. DOMAIN queue' = 1 .. Len(queue')
      BY <2>3
    <3> QED
      BY <3>1, <2>3
  <2>5. \A i \in DOMAIN queue' : queue'[i].key # sending'.key
    BY <2>3, <2>4 DEF Coalesced
  <2>6. QueueTypeOK'
    BY <2>1, <2>3 DEF QueueTypeOK
  <2>7. Flags' /\ WakeupNotLost'
    BY <2>1 DEF Flags, WakeupNotLost
  <2>8. Coalesced'
    <3> SUFFICES ASSUME NEW i \in DOMAIN queue', NEW j \in DOMAIN queue',
                        queue'[i].key = queue'[j].key
                 PROVE  i = j
      BY DEF Coalesced
    <3>1. i + 1 = j + 1
      BY <2>3 DEF Coalesced
    <3> QED
      BY <2>4, <3>1
  <2>9. WaitsLatest'
    BY <2>3 DEF WaitsLatest, Dropped
  <2>10. InOrder'
    <3>1. /\ shown'[sending'.key] <= sending'.payload
          /\ sending'.payload <= enqueued'[sending'.key]
      BY <2>3 DEF InOrder
    <3>2. \A i \in DOMAIN queue' :
            /\ shown'[queue'[i].key] <= queue'[i].payload
            /\ queue'[i].payload <= enqueued'[queue'[i].key]
      BY <2>3 DEF InOrder
    <3> QED
      BY <2>5, <3>1, <3>2 DEF InOrder, InFlight
  <2>11. ASSUME NEW k \in Keys PROVE Latest(k)'
    <3>1. sending' # NoItem
      BY <2>3, NoItemIsNone
    <3>2. CASE InQueue(k)
      <4>1. PICK i \in DOMAIN queue : queue[i].key = k /\ queue[i].payload = enqueued[k]
        BY <3>2 DEF InQueue
      <4>2. CASE i = 1
        BY <2>3, <3>1, <4>1, <4>2 DEF Latest, InFlight
      <4>3. CASE i # 1
        BY <2>3, <4>1, <4>3 DEF Latest, InQueue
      <4> QED
        BY <4>2, <4>3
    <3>3. CASE shown[k] = enqueued[k]
      <4>1. CASE sending'.key = k
        BY <2>3, <3>1, <4>1 DEF Latest, InFlight, WaitsLatest, Dropped
      <4>2. CASE sending'.key # k
        BY <3>3, <4>2 DEF Latest, InFlight
      <4> QED
        BY <4>1, <4>2
    <3>4. CASE Dropped(k)
      BY <3>4 DEF Latest, Dropped
    <3> QED
      BY <3>2, <3>3, <3>4 DEF Latest, InFlight
  <2> QED
    BY <2>6, <2>7, <2>8, <2>9, <2>10, <2>11
<1> QED
  BY <1>1, <1>2

\* The timer only fires into an idle loop.
LEMMA TimerKeeps == QueueInv /\ TimerFires => QueueInv'
<1> SUFFICES ASSUME QueueInv, TimerFires PROVE QueueInv'
  OBVIOUS
<1>1. ~draining /\ sending = NoItem
  BY DEF QueueInv, Flags, TimerFires
<1>2. /\ TakeNext /\ timer' = FALSE /\ scheduled' = FALSE
      /\ UNCHANGED <<enqueued, shown, dropped, rateLimits>>
  BY <1>1 DEF TimerFires
<1> QED
  BY <1>1, <1>2, TakeKeeps

\* The loop that sleeps has no timer beside it.
LEMMA ResumeKeeps == QueueInv /\ LoopResumes => QueueInv'
<1> SUFFICES ASSUME QueueInv, LoopResumes PROVE QueueInv'
  OBVIOUS
<1>1. timer = FALSE /\ scheduled = FALSE
  BY DEF QueueInv, Flags, LoopResumes, QueueTypeOK
<1>2. /\ sending = NoItem /\ TakeNext /\ timer' = FALSE /\ scheduled' = FALSE
      /\ UNCHANGED <<enqueued, shown, dropped, rateLimits>>
  BY <1>1 DEF LoopResumes
<1> QED
  BY <1>2, TakeKeeps

\* What an answer finds: an item of the loop's, in its place in the order.
LEMMA Answered ==
  ASSUME QueueInv, sending # NoItem
  PROVE  /\ sending \in ItemType /\ sending.key \in Keys /\ sending.payload \in 0 .. MaxUpdates
         /\ draining /\ timer = FALSE /\ scheduled = FALSE
         /\ shown \in [Keys -> 0 .. MaxUpdates] /\ enqueued \in [Keys -> 0 .. MaxUpdates]
         /\ \A i \in DOMAIN queue : queue[i].key \in Keys /\ queue[i].payload \in Nat
<1> USE DEF QueueInv
<1>1. sending \in ItemType
  BY DEF QueueTypeOK
<1>2. sending.key \in Keys /\ sending.payload \in 0 .. MaxUpdates
  BY <1>1, QueueBounds DEF ItemType
<1>3. draining /\ timer = FALSE /\ scheduled = FALSE
  BY DEF Flags, QueueTypeOK
<1>4. \A i \in DOMAIN queue : queue[i] \in ItemType
  BY DEF QueueTypeOK
<1> QED
  BY <1>1, <1>2, <1>3, <1>4 DEF QueueTypeOK, ItemType

\* An accepted update is shown, and nothing waiting is older.
LEMMA AcceptKeeps == QueueInv /\ SlackAccepts => QueueInv'
<1> SUFFICES ASSUME QueueInv, SlackAccepts PROVE QueueInv'
  OBVIOUS
<1> USE DEF QueueInv
<1>1. /\ sending # NoItem
      /\ shown' = [shown EXCEPT ![sending.key] = sending.payload]
      /\ sending' = NoItem /\ draining' = (queue # << >>)
      /\ UNCHANGED <<queue, scheduled, timer, enqueued, rateLimits, dropped>>
  BY DEF SlackAccepts, AfterAnswer
<1>2. /\ sending \in ItemType /\ sending.key \in Keys /\ sending.payload \in 0 .. MaxUpdates
      /\ draining /\ timer = FALSE /\ scheduled = FALSE
      /\ shown \in [Keys -> 0 .. MaxUpdates] /\ enqueued \in [Keys -> 0 .. MaxUpdates]
      /\ \A i \in DOMAIN queue : queue[i].key \in Keys /\ queue[i].payload \in Nat
  BY <1>1, Answered
<1>3. \A k \in Keys : shown'[k] = IF k = sending.key THEN sending.payload ELSE shown[k]
  BY <1>1, <1>2
<1>4. QueueTypeOK'
  BY <1>1, <1>2 DEF QueueTypeOK
<1>5. Flags' /\ WakeupNotLost' /\ Coalesced' /\ WaitsLatest'
  BY <1>1, <1>2 DEF Flags, WakeupNotLost, Coalesced, WaitsLatest, Dropped
<1>6. InOrder'
  <2>1. \A k \in Keys : shown'[k] <= enqueued'[k]
    BY <1>1, <1>3 DEF InOrder
  <2>2. \A i \in DOMAIN queue :
          /\ shown'[queue[i].key] <= queue[i].payload
          /\ queue[i].payload <= enqueued[queue[i].key]
    BY <1>1, <1>2, <1>3 DEF InOrder, InFlight
  <2> QED
    BY <1>1, <2>1, <2>2 DEF InOrder, InFlight
<1>7. ASSUME NEW k \in Keys PROVE Latest(k)'
  BY <1>1, <1>3 DEF Latest, InFlight, InQueue, Dropped
<1> QED
  BY <1>4, <1>5, <1>6, <1>7

\* A refused update is given up.
LEMMA RefuseKeeps == QueueInv /\ SlackRefuses => QueueInv'
<1> SUFFICES ASSUME QueueInv, SlackRefuses PROVE QueueInv'
  OBVIOUS
<1> USE DEF QueueInv
<1>1. /\ sending # NoItem /\ dropped' = dropped \cup {sending}
      /\ sending' = NoItem /\ draining' = (queue # << >>)
      /\ UNCHANGED <<queue, scheduled, timer, enqueued, rateLimits, shown>>
  BY DEF SlackRefuses, AfterAnswer
<1>2. /\ sending \in ItemType /\ sending.key \in Keys
      /\ draining /\ timer = FALSE /\ scheduled = FALSE
  BY <1>1, Answered
<1>3. QueueTypeOK'
  BY <1>1, <1>2 DEF QueueTypeOK
<1>4. Flags' /\ WakeupNotLost' /\ Coalesced' /\ WaitsLatest'
  BY <1>1, <1>2 DEF Flags, WakeupNotLost, Coalesced, WaitsLatest, Dropped
<1>5. InOrder'
  BY <1>1 DEF InOrder, InFlight
<1>6. ASSUME NEW k \in Keys PROVE Latest(k)'
  <2>1. InFlight(k) /\ sending.payload = enqueued[k] => sending = Item(k, enqueued[k])
    BY <1>2 DEF InFlight, Item, ItemType
  <2> QED
    BY <1>1, <2>1 DEF Latest, InFlight, InQueue, Dropped
<1> QED
  BY <1>3, <1>4, <1>5, <1>6

\* A rate-limited update goes back over what waits for its message.
LEMMA RateLimitKeeps == QueueInv /\ SlackRateLimits => QueueInv'
<1> SUFFICES ASSUME QueueInv, SlackRateLimits PROVE QueueInv'
  OBVIOUS
<1> USE DEF QueueInv
<1> DEFINE over == {queue[i] : i \in {j \in DOMAIN queue : queue[j].key = sending.key}}
<1>1. /\ sending # NoItem /\ dropped' = dropped \cup over
      /\ queue' = Put(queue, sending) /\ sending' = NoItem
      /\ rateLimits < MaxRateLimits /\ rateLimits' = rateLimits + 1
      /\ UNCHANGED <<scheduled, timer, draining, enqueued, shown>>
  BY DEF SlackRateLimits
<1>2. /\ sending \in ItemType /\ sending.key \in Keys
      /\ draining /\ timer = FALSE /\ scheduled = FALSE
  BY <1>1, Answered
<1>3. /\ queue' \in Seq(ItemType) /\ queue' # << >>
      /\ \A i, j \in DOMAIN queue' : queue'[i].key = queue'[j].key => i = j
      /\ \E i \in DOMAIN queue' : queue'[i] = sending
      /\ \A i \in DOMAIN queue' :
           \/ queue'[i] = sending
           \/ i \in DOMAIN queue /\ queue'[i] = queue[i] /\ queue[i].key # sending.key
      /\ \A i \in DOMAIN queue :
           queue[i].key # sending.key => i \in DOMAIN queue' /\ queue'[i] = queue[i]
  <2>1. PutInto(queue, queue', sending)
    BY <1>1, <1>2, PutHolds
  <2> QED
    BY <2>1 DEF PutInto
<1>4. QueueTypeOK'
  <2>1. rateLimits' \in 0 .. MaxRateLimits
    BY <1>1, QueueBounds DEF QueueTypeOK
  <2>2. \A i \in DOMAIN queue : queue[i] \in ItemType
    BY DEF QueueTypeOK
  <2>3. over \subseteq ItemType
    BY <2>2
  <2> QED
    BY <1>1, <1>2, <1>3, <2>1, <2>3 DEF QueueTypeOK
<1>5. Flags' /\ WakeupNotLost' /\ Coalesced'
  BY <1>1, <1>2, <1>3 DEF Flags, WakeupNotLost, Coalesced
\* The last update of the message is in the queue no more only if it has just been dropped.
<1>6. /\ \/ sending.payload = enqueued[sending.key]
         \/ Item(sending.key, enqueued[sending.key]) \in dropped'
      /\ \A k \in Keys : Dropped(k) => Dropped(k)'
  <2>1. \A k \in Keys : Dropped(k) => Dropped(k)'
    BY <1>1 DEF Dropped
  <2>2. CASE InQueue(sending.key)
    <3>1. PICK i \in DOMAIN queue : /\ queue[i].key = sending.key
                                  /\ queue[i].payload = enqueued[sending.key]
      BY <2>2 DEF InQueue
    <3>2. queue[i] \in ItemType
      BY DEF QueueTypeOK
    <3>3. queue[i] = Item(sending.key, enqueued[sending.key])
      BY <3>1, <3>2 DEF ItemType, Item
    <3>4. queue[i] \in over
      BY <3>1
    <3>5. Item(sending.key, enqueued[sending.key]) \in dropped'
      BY <1>1, <3>3, <3>4
    <3> QED
      BY <2>1, <3>5
  <2>3. CASE ~InQueue(sending.key)
    <3>1. Latest(sending.key)
      BY <1>2
    <3>2. InFlight(sending.key)
      BY <1>1 DEF InFlight
    <3>3. Dropped(sending.key) \/ sending.payload = enqueued[sending.key]
      BY <2>3, <3>1, <3>2 DEF Latest
    <3>4. Dropped(sending.key) => Item(sending.key, enqueued[sending.key]) \in dropped'
      BY <1>1 DEF Dropped
    <3> QED
      BY <2>1, <3>3, <3>4
  <2> QED
    BY <2>2, <2>3
<1>9. WaitsLatest'
  <2> SUFFICES ASSUME NEW i \in DOMAIN queue'
               PROVE  \/ queue'[i].payload = enqueued'[queue'[i].key]
                      \/ Item(queue'[i].key, enqueued'[queue'[i].key]) \in dropped'
    BY DEF WaitsLatest, Dropped
  <2>1. CASE queue'[i] = sending
    BY <1>1, <1>6, <2>1
  <2>2. CASE i \in DOMAIN queue /\ queue'[i] = queue[i]
    BY <1>1, <2>2 DEF WaitsLatest, Dropped
  <2> QED
    BY <1>3, <2>1, <2>2
<1>7. InOrder'
  <2>1. \A k \in Keys : shown'[k] <= enqueued'[k]
    BY <1>1 DEF InOrder
  <2>2. /\ shown[sending.key] <= sending.payload
        /\ sending.payload <= enqueued[sending.key]
    BY <1>1 DEF InOrder
  <2>3. \A i \in DOMAIN queue' :
          /\ shown[queue'[i].key] <= queue'[i].payload
          /\ queue'[i].payload <= enqueued[queue'[i].key]
    BY <1>3, <2>2 DEF InOrder
  <2> QED
    BY <1>1, <2>1, <2>3 DEF InOrder, InFlight
<1>8. ASSUME NEW k \in Keys PROVE Latest(k)'
  <2>1. CASE k = sending.key
    <3>1. CASE sending.payload = enqueued[sending.key]
      BY <1>1, <1>3, <2>1, <3>1 DEF Latest, InQueue
    <3>2. CASE Item(sending.key, enqueued[sending.key]) \in dropped'
      BY <1>1, <2>1, <3>2 DEF Latest, Dropped
    <3> QED
      BY <1>6, <3>1, <3>2
  <2>2. CASE k # sending.key
    <3>1. InQueue(k) => InQueue(k)'
      BY <1>1, <1>3, <2>2 DEF InQueue
    <3> QED
      BY <1>1, <1>6, <2>2, <3>1 DEF Latest, InFlight
  <2> QED
    BY <2>1, <2>2
<1> QED
  BY <1>4, <1>5, <1>7, <1>8, <1>9

-----------------------------------------------------------------------------
(* The theorems *)

\* The invariant stands in every state.
THEOREM QueueInvariant == QueueSpec => []QueueInv
<1>1. QueueInv /\ [QueueNext]_queueVars => QueueInv'
  <2> SUFFICES ASSUME QueueInv, [QueueNext]_queueVars PROVE QueueInv'
    OBVIOUS
  <2>1. ASSUME NEW k \in Keys, Enqueue(k) PROVE QueueInv'
    BY <2>1, EnqueueKeeps
  <2>2. CASE TimerFires
    BY <2>2, TimerKeeps
  <2>3. CASE LoopResumes
    BY <2>3, ResumeKeeps
  <2>4. CASE SlackAccepts
    BY <2>4, AcceptKeeps
  <2>5. CASE SlackRefuses
    BY <2>5, RefuseKeeps
  <2>6. CASE SlackRateLimits
    BY <2>6, RateLimitKeeps
  <2>7. CASE UNCHANGED queueVars
    BY <2>7 DEF queueVars, QueueInv, QueueTypeOK, Flags, WakeupNotLost, Coalesced, WaitsLatest,
                InOrder, Latest, InQueue, InFlight, Dropped
  <2> QED
    BY <2>1, <2>2, <2>3, <2>4, <2>5, <2>6, <2>7 DEF QueueNext
<1> QED
  BY <1>1, QueueInitial, PTL DEF QueueSpec

\* Every variable keeps its type, for any number of messages, updates and answers.
THEOREM QueueTypeCorrect == QueueSpec => []QueueTypeOK
<1>1. QueueInv => QueueTypeOK
  BY DEF QueueInv
<1> QED
  BY <1>1, QueueInvariant, PTL

\* Whatever enqueueUpdate finds its two flags to be, what it adds will be drained.
THEOREM QueueWakes == QueueSpec => []WakeupNotLost
<1>1. QueueInv => WakeupNotLost
  BY DEF QueueInv
<1> QED
  BY <1>1, QueueInvariant, PTL

\* At rest Slack shows the last update of every message that it did not refuse just that of, and
\* that no item of a rate limit was put back over.
THEOREM RestIsLatest == QueueSpec => []RestShowsLatest
<1>1. QueueInv => RestShowsLatest
  <2> SUFFICES ASSUME QueueInv, queue = << >>, ~draining, NEW k \in Keys
               PROVE  shown[k] = enqueued[k] \/ Dropped(k)
    BY DEF RestShowsLatest, Dropped
  <2>1. sending = NoItem
    BY DEF QueueInv, Flags
  <2>2. Latest(k)
    BY DEF QueueInv
  <2> QED
    BY <2>1, <2>2 DEF Latest, InQueue, InFlight
<1> QED
  BY <1>1, QueueInvariant, PTL

\* No answer makes Slack show an earlier update than it showed, not even to an item that was
\* put back.
THEOREM ShownGoesForward == QueueSpec => ShownForward
<1>1. QueueInv /\ [QueueNext]_queueVars => [\A k \in Keys : shown'[k] >= shown[k]]_queueVars
  <2> SUFFICES ASSUME QueueInv, QueueNext, NEW k \in Keys PROVE shown'[k] >= shown[k]
    OBVIOUS
  <2>1. shown[k] \in Nat
    BY DEF QueueInv, QueueTypeOK
  <2>2. CASE SlackAccepts
    <3>1. sending # NoItem /\ shown' = [shown EXCEPT ![sending.key] = sending.payload]
      BY <2>2 DEF SlackAccepts
    <3>2. /\ shown \in [Keys -> 0 .. MaxUpdates] /\ sending.key \in Keys
          /\ sending.payload \in 0 .. MaxUpdates
      BY <3>1, Answered
    <3>3. shown[sending.key] <= sending.payload
      BY <3>1 DEF QueueInv, InOrder
    <3> QED
      BY <2>1, <3>1, <3>2, <3>3
  <2>3. CASE shown' = shown
    BY <2>1, <2>3
  <2> QED
    BY <2>2, <2>3 DEF QueueNext, Enqueue, TimerFires, LoopResumes, SlackRefuses, SlackRateLimits
<1> QED
  BY <1>1, QueueInvariant, PTL DEF QueueSpec, ShownForward
=============================================================================
