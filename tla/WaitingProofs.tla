--------------------------- MODULE WaitingProofs ----------------------------
(***************************************************************************)
(* What the event stream, the long poll and the SDK keep to, for any       *)
(* number of connections and clients and any delay of the store.           *)
(***************************************************************************)
EXTENDS Waiting, TLAPS, SequenceTheorems

\* Retention deletes decided requests only.
PurgedDecided == purged => status \in Terminal

\* The SDK has asked before it sleeps.
AskedFirst == \A a \in Askers : asker[a].pc \in {"asking", "sleeping"} => asker[a].asks > 0

\* An emission goes to the connection in the table, unless that one was
\* registered while the emission was under way, or there is none.
EmitsReach == \A i \in DOMAIN emits : listener \in {NoConn, emits[i].to} \cup crossed

\* A removal that is due ends a connection that was told the decision or was
\* registered while the removal was under way.
RemovalsTold ==
  removals > 0 /\ ~purged => listener = NoConn \/ listener \in crossed \/ told[listener] \in Terminal

WaitInv ==
  /\ TypeOK
  /\ NoOrphan
  /\ ToldTruth
  /\ ToldBeforeEnd
  /\ PurgedDecided
  /\ AskedFirst
  /\ EmitsReach
  /\ RemovalsTold

\* An emission under way.
EmitType == [to: Conns, found: BOOLEAN]

-----------------------------------------------------------------------------
\* What is known of the variables, in the form the proofs below use it.
LEMMA Types ==
  ASSUME WaitInv
  PROVE  /\ conn \in [Conns -> {"new", "finding", "refused", "open", "replaced", "ended"}]
         /\ listener \in Conns \cup {NoConn} /\ NoConn \notin Conns
         /\ crossed \in SUBSET Conns
         /\ told \in [Conns -> {"nothing", "open"} \cup Terminal]
         /\ emits \in Seq(EmitType) /\ visits \in Seq(Conns)
         /\ removals \in Nat
         /\ status \in {"open"} \cup Terminal
         /\ "open" \notin Terminal /\ "nothing" \notin Terminal /\ "not_found" \notin Terminal
         /\ "expired" \in Terminal
BY ConnsAssumption DEF WaitInv, TypeOK, EmitType, Terminal

LEMMA Initially == Init => WaitInv
<1> SUFFICES ASSUME Init PROVE WaitInv
  OBVIOUS
<1>1. TypeOK
  <2>1. 0 \in 0 .. MaxNudges /\ 0 \in 0 .. MaxAsks
    BY BoundsAssumption
  <2>2. emits \in Seq([to: Conns, found: BOOLEAN]) /\ visits \in Seq(Conns)
    BY DEF Init
  <2>3. /\ status \in {"open"} \cup Terminal
        /\ {purged, silent} \subseteq BOOLEAN
        /\ conn \in [Conns -> {"new", "finding", "refused", "open", "replaced", "ended"}]
        /\ listener \in Conns \cup {NoConn}
        /\ crossed \in SUBSET Conns
        /\ told \in [Conns -> {"nothing", "open"} \cup Terminal]
        /\ removals \in Nat
    BY DEF Init
  <2>4. asker \in [Askers -> [pc: {"new", "polling", "asking", "sleeping", "done"},
                             asks: 0 .. MaxAsks,
                             answer: {"nothing", "open", "not_found"} \cup Terminal]]
    BY <2>1 DEF Init
  <2>5. nudges \in 0 .. MaxNudges
    BY <2>1 DEF Init
  <2> QED
    BY <2>2, <2>3, <2>4, <2>5 DEF TypeOK
<1>2. NoOrphan /\ ToldTruth /\ ToldBeforeEnd
  BY ConnsAssumption DEF Init, NoOrphan, ToldTruth, ToldBeforeEnd, Terminal
<1>3. PurgedDecided /\ AskedFirst /\ EmitsReach /\ RemovalsTold
  BY DEF Init, PurgedDecided, AskedFirst, EmitsReach, RemovalsTold
<1> QED
  BY <1>1, <1>2, <1>3 DEF WaitInv

-----------------------------------------------------------------------------
(* Lemmas about sequences of emissions *)

\* Append, Tail, a change of found, and RemoveAt add no recipient.
LEMMA AppendTo ==
  ASSUME NEW e \in Seq(EmitType), NEW c \in Conns
  PROVE  /\ Append(e, StartEmit(c)) \in Seq(EmitType)
         /\ \A i \in DOMAIN Append(e, StartEmit(c)) :
              \/ Append(e, StartEmit(c))[i].to = c
              \/ i \in DOMAIN e /\ Append(e, StartEmit(c))[i] = e[i]
<1>1. StartEmit(c) \in EmitType /\ StartEmit(c).to = c
  BY DEF StartEmit, EmitType
<1> HIDE DEF EmitType
<1>2. /\ Append(e, StartEmit(c)) \in Seq(EmitType)
      /\ Append(e, StartEmit(c))[Len(e) + 1] = StartEmit(c)
      /\ \A i \in 1 .. Len(e) : Append(e, StartEmit(c))[i] = e[i]
      /\ DOMAIN Append(e, StartEmit(c)) = 1 .. Len(e) + 1
      /\ DOMAIN e = 1 .. Len(e) /\ Len(e) \in Nat
  BY <1>1
<1>3. \A i \in 1 .. Len(e) + 1 : i \in 1 .. Len(e) \/ i = Len(e) + 1
  BY <1>2
<1> QED
  BY <1>1, <1>2, <1>3

LEMMA TailFrom ==
  ASSUME NEW S, NEW e \in Seq(S), e # << >>
  PROVE  /\ Head(e) = e[1] /\ Head(e) \in S /\ 1 \in DOMAIN e
         /\ Tail(e) \in Seq(S)
         /\ \A i \in DOMAIN Tail(e) : \E j \in DOMAIN e : Tail(e)[i] = e[j]
<1>1. /\ Len(e) \in Nat \ {0} /\ DOMAIN e = 1 .. Len(e)
      /\ Tail(e) \in Seq(S) /\ Len(Tail(e)) = Len(e) - 1
      /\ \A i \in 1 .. Len(e) - 1 : Tail(e)[i] = e[i + 1]
  OBVIOUS
<1>2. DOMAIN Tail(e) = 1 .. Len(e) - 1
  BY <1>1
<1>3. \A i \in 1 .. Len(e) - 1 : i + 1 \in 1 .. Len(e)
  BY <1>1
<1> QED
  BY <1>1, <1>2, <1>3

LEMMA RemovedFrom ==
  ASSUME NEW S, NEW e \in Seq(S), NEW k \in DOMAIN e
  PROVE  /\ RemoveAt(e, k) \in Seq(S)
         /\ \A i \in DOMAIN RemoveAt(e, k) : \E j \in DOMAIN e : RemoveAt(e, k)[i] = e[j]
<1> DEFINE front == SubSeq(e, 1, k - 1)
           back == SubSeq(e, k + 1, Len(e))
<1>1. Len(e) \in Nat /\ DOMAIN e = 1 .. Len(e) /\ k \in 1 .. Len(e)
  OBVIOUS
<1>2. /\ front \in Seq(S) /\ Len(front) = k - 1
      /\ \A i \in 1 .. k - 1 : front[i] = e[i]
  BY <1>1
<1>3. /\ back \in Seq(S) /\ Len(back) = Len(e) - k
      /\ \A i \in 1 .. Len(e) - k : back[i] = e[k + i]
  BY <1>1
<1>4. RemoveAt(e, k) = front \o back
  BY DEF RemoveAt
<1> HIDE DEF front, back
<1>5. /\ front \o back \in Seq(S)
      /\ DOMAIN (front \o back) = 1 .. Len(e) - 1
      /\ \A i \in 1 .. Len(e) - 1 :
           (front \o back)[i] = IF i <= k - 1 THEN front[i] ELSE back[i - (k - 1)]
  <2>1. /\ front \o back \in Seq(S)
        /\ Len(front \o back) = Len(front) + Len(back)
        /\ \A i \in 1 .. Len(front) + Len(back) : (front \o back)[i] =
              IF i <= Len(front) THEN front[i] ELSE back[i - Len(front)]
    BY <1>2, <1>3, ConcatProperties
  <2>2. Len(front) + Len(back) = Len(e) - 1 /\ k \in Int
    BY <1>1, <1>2, <1>3
  <2>3. DOMAIN (front \o back) = 1 .. Len(front \o back)
    BY <2>1
  <2> QED
    BY <1>2, <2>1, <2>2, <2>3
<1>6. ASSUME NEW i \in 1 .. Len(e) - 1
      PROVE  \E j \in DOMAIN e : (front \o back)[i] = e[j]
  <2>1. CASE i <= k - 1
    <3>1. i \in 1 .. k - 1 /\ i \in DOMAIN e
      BY <1>1, <2>1
    <3>2. (front \o back)[i] = e[i]
      BY <1>2, <1>5, <2>1, <3>1
    <3> QED
      BY <3>1, <3>2
  <2>2. CASE ~(i <= k - 1)
    <3>1. i - (k - 1) \in 1 .. Len(e) - k /\ k + (i - (k - 1)) = i + 1 /\ i + 1 \in DOMAIN e
      BY <1>1, <2>2
    <3>2. (front \o back)[i] = back[i - (k - 1)]
      BY <1>5, <2>2
    <3>3. back[i - (k - 1)] = e[i + 1]
      BY <1>3, <3>1
    <3> QED
      BY <3>1, <3>2, <3>3
  <2> QED
    BY <2>1, <2>2
<1> QED
  BY <1>4, <1>5, <1>6

-----------------------------------------------------------------------------
(* What a step that leaves the request and the askers alone keeps of them *)

\* What is sent is the decision, or "expired" of a request that is gone.
LEMMA SendKeeps ==
  ASSUME WaitInv, NEW c \in Conns, NEW s \in {"open"} \cup Terminal, Send(c, s),
         s = status \/ (s = "expired" /\ purged),
         UNCHANGED <<request, asker>>
  PROVE  /\ told' \in [Conns -> {"nothing", "open"} \cup Terminal]
         /\ ToldTruth' /\ PurgedDecided' /\ AskedFirst'
         /\ \A d \in Conns : ~purged /\ told[d] \in Terminal => told'[d] \in Terminal
         /\ conn[c] = "open" => told'[c] = s
<1>1. /\ told \in [Conns -> {"nothing", "open"} \cup Terminal] /\ ToldTruth
      /\ PurgedDecided /\ AskedFirst
  BY DEF WaitInv, TypeOK
<1>2. \A d \in Conns : told'[d] = IF d = c /\ conn[c] = "open" THEN s ELSE told[d]
  BY <1>1 DEF Send
<1>3. told' \in [Conns -> {"nothing", "open"} \cup Terminal]
  BY <1>1, <1>2 DEF Send
<1>4. UNCHANGED <<status, purged, asker>>
  BY DEF request
<1>5. ToldTruth'
  BY <1>1, <1>2, <1>4 DEF ToldTruth
<1>6. PurgedDecided' /\ AskedFirst'
  BY <1>1, <1>4 DEF PurgedDecided, AskedFirst
<1>7. ASSUME NEW d \in Conns, ~purged, told[d] \in Terminal PROVE told'[d] \in Terminal
  <2>1. told[d] = status
    BY <1>1, <1>7 DEF ToldTruth
  <2>2. CASE d = c /\ conn[c] = "open"
    <3>1. s \in Terminal
      BY <1>7, <2>1
    <3> QED
      BY <1>2, <2>2, <3>1
  <2>3. CASE ~(d = c /\ conn[c] = "open")
    BY <1>2, <1>7, <2>3
  <2> QED
    BY <2>2, <2>3
<1> QED
  BY <1>2, <1>3, <1>5, <1>6, <1>7

-----------------------------------------------------------------------------
(* One lemma per action on the streams *)

LEMMA ConnectKeeps ==
  ASSUME WaitInv, NEW c \in Conns, Connect(c)
  PROVE  WaitInv'
<1> USE DEF WaitInv
<1>1. /\ conn[c] = "new" /\ conn' = [conn EXCEPT ![c] = "finding"]
      /\ UNCHANGED <<request, listener, crossed, told, emits, visits, removals, asker>>
  BY DEF Connect
<1>2. UNCHANGED <<status, purged, silent, nudges>>
  BY <1>1 DEF request
<1>3. conn \in [Conns -> {"new", "finding", "refused", "open", "replaced", "ended"}]
  BY DEF TypeOK
<1>4. \A d \in Conns : conn'[d] = IF d = c THEN "finding" ELSE conn[d]
  BY <1>1, <1>3
<1>5. conn' \in [Conns -> {"new", "finding", "refused", "open", "replaced", "ended"}]
  BY <1>1, <1>3
<1>6. TypeOK'
  BY <1>1, <1>2, <1>5 DEF TypeOK
<1>7. NoOrphan' /\ ToldBeforeEnd'
  BY <1>1, <1>2, <1>4 DEF NoOrphan, ToldBeforeEnd
<1>8. ToldTruth' /\ PurgedDecided' /\ AskedFirst' /\ EmitsReach' /\ RemovalsTold'
  BY <1>1, <1>2 DEF ToldTruth, PurgedDecided, AskedFirst, EmitsReach, RemovalsTold
<1> QED
  BY <1>6, <1>7, <1>8

LEMMA FoundKeeps ==
  ASSUME WaitInv, NEW c \in Conns, Found(c)
  PROVE  WaitInv'
<1> USE DEF WaitInv
<1>1. /\ conn[c] = "finding"
      /\ UNCHANGED <<request, told, visits, removals, asker>>
  BY DEF Found
<1>2. UNCHANGED <<status, purged, silent, nudges>>
  BY <1>1 DEF request
<1>3. ToldTruth' /\ PurgedDecided' /\ AskedFirst'
  BY <1>1, <1>2 DEF ToldTruth, PurgedDecided, AskedFirst
<1>4. CASE purged
  <2>1. conn' = [conn EXCEPT ![c] = "refused"] /\ UNCHANGED <<listener, crossed, emits>>
    BY <1>4 DEF Found
  <2>2. /\ conn' \in [Conns -> {"new", "finding", "refused", "open", "replaced", "ended"}]
        /\ \A d \in Conns : conn'[d] = IF d = c THEN "refused" ELSE conn[d]
    BY <2>1, Types
  <2>3. TypeOK'
    BY <1>1, <1>2, <2>1, <2>2 DEF TypeOK
  <2>4. NoOrphan' /\ ToldBeforeEnd' /\ EmitsReach' /\ RemovalsTold'
    BY <1>1, <1>2, <2>1, <2>2 DEF NoOrphan, ToldBeforeEnd, EmitsReach, RemovalsTold
  <2> QED
    BY <1>3, <2>3, <2>4
<1>5. CASE ~purged
  <2>1. AddListener(c) /\ emits' = Append(emits, StartEmit(c))
    BY <1>5 DEF Found
  <2>2. /\ listener' = c
        /\ conn' = [d \in Conns |-> IF d = c THEN "open"
                                    ELSE IF d = listener THEN "replaced" ELSE conn[d]]
        /\ crossed' = IF removals > 0 \/ emits # << >> THEN crossed \cup {c} ELSE crossed
    BY <2>1 DEF AddListener
  <2>3. emits \in Seq(EmitType)
    BY Types
  <2>4. /\ emits' \in Seq(EmitType)
        /\ \A i \in DOMAIN emits' :
             emits'[i].to = c \/ (i \in DOMAIN emits /\ emits'[i] = emits[i])
    BY <2>1, <2>3, AppendTo
  <2>5. /\ conn' \in [Conns -> {"new", "finding", "refused", "open", "replaced", "ended"}]
        /\ crossed' \in SUBSET Conns
    BY <2>2, Types
  <2>6. TypeOK'
    BY <1>1, <1>2, <2>2, <2>4, <2>5 DEF TypeOK, EmitType
  <2>7. NoOrphan' /\ ToldBeforeEnd'
    BY <1>1, <1>2, <2>2 DEF NoOrphan, ToldBeforeEnd
  <2>8. EmitsReach'
    <3>1. CASE emits = << >>
      <4>1. DOMAIN emits = {}
        BY <3>1
      <4> QED
        BY <2>2, <2>4, <4>1 DEF EmitsReach
    <3>2. CASE emits # << >>
      BY <2>2, <2>4, <3>2 DEF EmitsReach
    <3> QED
      BY <3>1, <3>2
  <2>9. RemovalsTold'
    BY <1>1, <2>2 DEF RemovalsTold
  <2> QED
    BY <1>3, <2>6, <2>7, <2>8, <2>9
<1> QED
  BY <1>4, <1>5

\* A removal ends the connection of the table, if there is one.
LEMMA RemoveEnds ==
  ASSUME WaitInv, RemoveListener
  PROVE  /\ conn' \in [Conns -> {"new", "finding", "refused", "open", "replaced", "ended"}]
         /\ listener' = NoConn /\ crossed' = crossed
         /\ \A d \in Conns : conn'[d] = IF d = listener THEN "ended" ELSE conn[d]
         /\ NoOrphan'
<1>1. /\ conn' = [d \in Conns |-> IF d = listener THEN "ended" ELSE conn[d]]
      /\ listener' = NoConn /\ crossed' = crossed
  BY DEF RemoveListener
<1>2. conn' \in [Conns -> {"new", "finding", "refused", "open", "replaced", "ended"}]
  BY <1>1, Types
<1>3. \A d \in Conns : conn'[d] = IF d = listener THEN "ended" ELSE conn[d]
  BY <1>1
<1>4. NoOrphan'
  BY <1>1, <1>3, ConnsAssumption DEF WaitInv, NoOrphan
<1> QED
  BY <1>1, <1>2, <1>3, <1>4

LEMMA EmitReadKeeps ==
  ASSUME WaitInv, EmitRead
  PROVE  WaitInv'
<1> USE DEF WaitInv
<1>1. PICK k \in DOMAIN emits :
        /\ IF purged
           THEN /\ Send(emits[k].to, "expired")
                /\ RemoveListener
                /\ emits' = RemoveAt(emits, k)
           ELSE /\ emits' = [emits EXCEPT ![k].found = TRUE]
                /\ UNCHANGED <<table, told>>
        /\ UNCHANGED <<request, visits, removals, asker>>
  BY DEF EmitRead
<1>2. emits \in Seq(EmitType) /\ emits[k] \in EmitType /\ emits[k].to \in Conns
  <2>1. emits \in Seq(EmitType)
    BY Types
  <2>2. emits[k] \in EmitType
    BY <2>1
  <2> QED
    BY <2>1, <2>2 DEF EmitType
<1>3. UNCHANGED <<status, purged, silent, nudges>>
  BY <1>1 DEF request
<1>4. CASE purged
  <2>1. Send(emits[k].to, "expired") /\ RemoveListener /\ emits' = RemoveAt(emits, k)
    BY <1>1, <1>4
  <2>2. /\ told' \in [Conns -> {"nothing", "open"} \cup Terminal]
        /\ ToldTruth' /\ PurgedDecided' /\ AskedFirst'
    <3>1. "expired" \in {"open"} \cup Terminal /\ UNCHANGED <<request, asker>>
      BY <1>1 DEF Terminal
    <3> QED
      BY <1>2, <1>4, <2>1, <3>1, SendKeeps
  <2>3. /\ conn' \in [Conns -> {"new", "finding", "refused", "open", "replaced", "ended"}]
        /\ listener' = NoConn /\ crossed' = crossed
        /\ NoOrphan'
    BY <2>1, RemoveEnds
  <2>4. emits' \in Seq(EmitType)
    BY <1>2, <2>1, RemovedFrom
  <2>5. TypeOK'
    BY <1>1, <1>3, <2>2, <2>3, <2>4 DEF TypeOK, EmitType
  <2>6. ToldBeforeEnd' /\ EmitsReach' /\ RemovalsTold'
    BY <1>3, <1>4, <2>3 DEF ToldBeforeEnd, EmitsReach, RemovalsTold
  <2> QED
    BY <2>2, <2>3, <2>5, <2>6
<1>5. CASE ~purged
  <2>1. /\ emits' = [emits EXCEPT ![k].found = TRUE]
        /\ UNCHANGED <<conn, listener, crossed, told, visits, removals, asker>>
    BY <1>1, <1>5 DEF table
  <2>2. /\ emits' \in Seq(EmitType)
        /\ DOMAIN emits' = DOMAIN emits
        /\ \A i \in DOMAIN emits : emits'[i].to = emits[i].to
    <3>1. emits' = [emits EXCEPT ![k] = [emits[k] EXCEPT !.found = TRUE]]
      BY <2>1
    <3>2. [emits[k] EXCEPT !.found = TRUE] \in EmitType
      BY <1>2 DEF EmitType
    <3>3. [emits[k] EXCEPT !.found = TRUE].to = emits[k].to
      BY <1>2 DEF EmitType
    <3> QED
      BY <1>2, <3>1, <3>2, <3>3
  <2>3. TypeOK'
    BY <1>3, <2>1, <2>2 DEF TypeOK, EmitType
  <2>4. NoOrphan' /\ ToldBeforeEnd' /\ ToldTruth' /\ PurgedDecided' /\ AskedFirst' /\ RemovalsTold'
    BY <1>3, <2>1 DEF NoOrphan, ToldBeforeEnd, ToldTruth, PurgedDecided, AskedFirst, RemovalsTold
  <2>5. EmitsReach'
    BY <2>1, <2>2 DEF EmitsReach
  <2> QED
    BY <2>3, <2>4, <2>5
<1> QED
  BY <1>4, <1>5

LEMMA EmitSendKeeps ==
  ASSUME WaitInv, EmitSend
  PROVE  WaitInv'
<1> USE DEF WaitInv
<1> DEFINE to == Head(emits).to
<1>1. /\ emits # << >> /\ emits' = Tail(emits)
      /\ Send(to, status)
      /\ removals' = removals + (IF status \in Terminal THEN 1 ELSE 0)
      /\ UNCHANGED <<request, table, visits, asker>>
  BY DEF EmitSend
<1>2. UNCHANGED <<status, purged, silent, nudges, conn, listener, crossed, visits, asker>>
  BY <1>1 DEF request, table
<1>3. /\ emits \in Seq(EmitType) /\ Head(emits) = emits[1] /\ 1 \in DOMAIN emits
      /\ Head(emits) \in EmitType /\ emits' \in Seq(EmitType)
      /\ \A i \in DOMAIN emits' : \E j \in DOMAIN emits : emits'[i] = emits[j]
  <2>1. emits \in Seq(EmitType)
    BY Types
  <2> QED
    BY <1>1, <2>1, TailFrom
<1>4. to \in Conns /\ to = emits[1].to
  BY <1>3 DEF EmitType
<1>5. status \in {"open"} \cup Terminal
  BY Types
<1> HIDE DEF to
<1>6. /\ told' \in [Conns -> {"nothing", "open"} \cup Terminal]
      /\ ToldTruth' /\ PurgedDecided' /\ AskedFirst'
      /\ \A d \in Conns : ~purged /\ told[d] \in Terminal => told'[d] \in Terminal
      /\ conn[to] = "open" => told'[to] = status
  BY <1>1, <1>4, <1>5, SendKeeps
<1>7. removals' \in Nat
  BY <1>1, Types
<1>8. TypeOK'
  BY <1>2, <1>3, <1>6, <1>7 DEF TypeOK, EmitType
<1>9. NoOrphan' /\ EmitsReach'
  BY <1>2, <1>3 DEF NoOrphan, EmitsReach
<1>10. ToldBeforeEnd'
  BY <1>2, <1>6 DEF ToldBeforeEnd
<1>11. RemovalsTold'
  <2> SUFFICES ASSUME removals' > 0, ~purged, listener # NoConn, listener \notin crossed
               PROVE  told'[listener] \in Terminal
    BY <1>2 DEF RemovalsTold
  <2>1. listener \in Conns /\ removals \in Nat
    BY Types
  <2>2. CASE removals > 0
    BY <1>6, <2>1, <2>2 DEF RemovalsTold
  <2>3. CASE ~(removals > 0)
    <3>1. status \in Terminal
      BY <1>1, <2>1, <2>3
    <3>2. listener = to
      BY <1>3, <1>4 DEF EmitsReach
    <3>3. conn[to] = "open"
      BY <2>1, <3>2 DEF NoOrphan
    <3> QED
      BY <1>6, <3>1, <3>2, <3>3
  <2> QED
    BY <2>2, <2>3
<1> QED
  BY <1>6, <1>8, <1>9, <1>10, <1>11

LEMMA RemovalKeeps ==
  ASSUME WaitInv, RemovalRuns
  PROVE  WaitInv'
<1> USE DEF WaitInv
<1>1. /\ removals > 0 /\ removals' = removals - 1 /\ RemoveListener
      /\ UNCHANGED <<request, told, emits, visits, asker>>
  BY DEF RemovalRuns
<1>2. UNCHANGED <<status, purged, silent, nudges>>
  BY <1>1 DEF request
<1>3. /\ conn' \in [Conns -> {"new", "finding", "refused", "open", "replaced", "ended"}]
      /\ listener' = NoConn /\ crossed' = crossed
      /\ \A d \in Conns : conn'[d] = IF d = listener THEN "ended" ELSE conn[d]
      /\ NoOrphan'
  BY <1>1, RemoveEnds
<1>4. removals' \in Nat
  BY <1>1, Types
<1>5. TypeOK'
  BY <1>1, <1>2, <1>3, <1>4 DEF TypeOK
<1>6. ToldBeforeEnd'
  <2> SUFFICES ASSUME NEW c \in Conns, conn'[c] = "ended", ~purged
               PROVE  told[c] \in Terminal \/ c \in crossed
    BY <1>1, <1>2, <1>3 DEF ToldBeforeEnd
  <2>1. CASE c = listener
    BY <1>1, <2>1, ConnsAssumption DEF RemovalsTold
  <2>2. CASE c # listener
    BY <1>3, <2>2 DEF ToldBeforeEnd
  <2> QED
    BY <2>1, <2>2
<1>7. ToldTruth' /\ PurgedDecided' /\ AskedFirst' /\ EmitsReach' /\ RemovalsTold'
  BY <1>1, <1>2, <1>3 DEF ToldTruth, PurgedDecided, AskedFirst, EmitsReach, RemovalsTold
<1> QED
  BY <1>3, <1>5, <1>6, <1>7

LEMMA VisitKeeps ==
  ASSUME WaitInv, VisitDone
  PROVE  WaitInv'
<1> USE DEF WaitInv
<1>1. /\ visits # << >>
      /\ emits' = IF purged \/ listener = NoConn THEN emits ELSE Append(emits, StartEmit(listener))
      /\ visits' = IF listener \in {NoConn, Head(visits)} THEN Tail(visits)
                   ELSE Append(Tail(visits), listener)
      /\ UNCHANGED <<request, table, told, removals, asker>>
  BY DEF VisitDone
<1>2. UNCHANGED <<status, purged, silent, nudges, conn, listener, crossed, told, removals, asker>>
  BY <1>1 DEF request, table
<1>3. visits' \in Seq(Conns)
  <2>1. visits \in Seq(Conns) /\ listener \in Conns \cup {NoConn}
    BY Types
  <2>2. Tail(visits) \in Seq(Conns)
    BY <1>1, <2>1, TailFrom
  <2> QED
    BY <1>1, <2>1, <2>2
<1>4. emits' \in Seq(EmitType) /\ EmitsReach'
  <2>1. emits \in Seq(EmitType) /\ listener \in Conns \cup {NoConn}
    BY Types
  <2>2. CASE purged \/ listener = NoConn
    BY <1>1, <1>2, <2>1, <2>2 DEF EmitsReach
  <2>3. CASE ~(purged \/ listener = NoConn)
    <3>1. /\ emits' \in Seq(EmitType)
          /\ \A i \in DOMAIN emits' :
               emits'[i].to = listener \/ (i \in DOMAIN emits /\ emits'[i] = emits[i])
      BY <1>1, <2>1, <2>3, AppendTo
    <3> QED
      BY <1>2, <3>1 DEF EmitsReach
  <2> QED
    BY <2>2, <2>3
<1>5. TypeOK'
  BY <1>2, <1>3, <1>4 DEF TypeOK, EmitType
<1>6. NoOrphan' /\ ToldBeforeEnd' /\ ToldTruth' /\ PurgedDecided' /\ AskedFirst' /\ RemovalsTold'
  BY <1>2 DEF NoOrphan, ToldBeforeEnd, ToldTruth, PurgedDecided, AskedFirst, RemovalsTold
<1> QED
  BY <1>4, <1>5, <1>6

-----------------------------------------------------------------------------
(* The request and the askers *)

\* A broadcast is a visit to the connection of the table.
LEMMA Visits ==
  ASSUME WaitInv, Broadcast
  PROVE  visits' \in Seq(Conns)
BY Types DEF Broadcast

\* What becomes of the request while the streams stay as they are: its status
\* changes only from "open".
LEMMA RequestKeeps ==
  ASSUME WaitInv,
         status' \in {"open"} \cup Terminal, purged' \in BOOLEAN, silent' \in BOOLEAN,
         nudges' \in 0 .. MaxNudges, visits' \in Seq(Conns),
         status \in Terminal => status' = status,
         purged => purged',
         purged' => status' \in Terminal,
         UNCHANGED <<table, told, emits, removals, asker>>
  PROVE  WaitInv'
<1> USE DEF WaitInv
<1>1. UNCHANGED <<conn, listener, crossed, told, emits, removals, asker>>
  BY DEF table
<1>2. TypeOK'
  BY <1>1 DEF TypeOK
<1>3. ToldTruth'
  <2>1. purged \in BOOLEAN /\ status \in {"open"} \cup Terminal
    BY DEF TypeOK
  <2>2. \A s \in Terminal : s = status => s = status'
    BY DEF Terminal
  <2>3. ASSUME NEW c \in Conns, told[c] \in Terminal
        PROVE  told[c] = status' \/ (told[c] = "expired" /\ purged')
    BY <2>2, <2>3 DEF ToldTruth
  <2>4. ASSUME NEW a \in Askers, asker[a].answer \in Terminal
        PROVE  asker[a].answer = status' \/ (asker[a].answer = "expired" /\ asker[a].asks > 0)
    BY <2>2, <2>4 DEF ToldTruth
  <2> QED
    BY <1>1, <2>3, <2>4 DEF ToldTruth
<1>4. NoOrphan' /\ EmitsReach' /\ AskedFirst' /\ PurgedDecided'
  BY <1>1 DEF NoOrphan, EmitsReach, AskedFirst, PurgedDecided
<1>5. ToldBeforeEnd' /\ RemovalsTold'
  BY <1>1 DEF ToldBeforeEnd, RemovalsTold
<1> QED
  BY <1>2, <1>3, <1>4, <1>5

LEMMA RequestSteps ==
  ASSUME WaitInv,
         \/ \E outcome \in {"approved", "denied"} : Decide(outcome)
         \/ Expire \/ ExpiryBroadcast \/ Nudge \/ Purge
  PROVE  WaitInv'
<1>1. /\ status \in {"open"} \cup Terminal /\ purged \in BOOLEAN /\ silent \in BOOLEAN
      /\ nudges \in 0 .. MaxNudges /\ visits \in Seq(Conns)
      /\ (purged => status \in Terminal)
  BY DEF WaitInv, TypeOK, PurgedDecided
<1>2. "open" \notin Terminal /\ {"approved", "denied", "expired"} \subseteq Terminal
  BY DEF Terminal
<1>3. ASSUME NEW outcome \in {"approved", "denied"}, Decide(outcome) PROVE WaitInv'
  <2>1. /\ status = "open" /\ status' = outcome /\ Broadcast
        /\ UNCHANGED <<purged, silent, nudges, table, told, emits, removals, asker>>
    BY <1>3 DEF Decide
  <2> QED
    BY <1>1, <1>2, <2>1, Visits, RequestKeeps
<1>4. CASE Expire
  <2>1. /\ status = "open" /\ status' = "expired" /\ silent' = TRUE
        /\ UNCHANGED <<purged, nudges, table, told, emits, visits, removals, asker>>
    BY <1>4 DEF Expire, stream
  <2> QED
    BY <1>1, <1>2, <2>1, RequestKeeps
<1>5. CASE ExpiryBroadcast
  <2>1. /\ silent' = FALSE /\ Broadcast
        /\ UNCHANGED <<status, purged, nudges, table, told, emits, removals, asker>>
    BY <1>5 DEF ExpiryBroadcast
  <2> QED
    BY <1>1, <2>1, Visits, RequestKeeps
<1>6. CASE Nudge
  <2>1. /\ nudges < MaxNudges /\ nudges' = nudges + 1 /\ Broadcast
        /\ UNCHANGED <<status, purged, silent, table, told, emits, removals, asker>>
    BY <1>6 DEF Nudge
  <2>2. nudges' \in 0 .. MaxNudges
    BY <1>1, <2>1, BoundsAssumption
  <2> QED
    BY <1>1, <2>1, <2>2, Visits, RequestKeeps
<1>7. CASE Purge
  <2>1. /\ status \in Terminal /\ purged' = TRUE
        /\ UNCHANGED <<status, silent, nudges, table, told, emits, visits, removals, asker>>
    BY <1>7 DEF Purge, stream
  <2> QED
    BY <1>1, <2>1, RequestKeeps
<1> QED
  BY <1>3, <1>4, <1>5, <1>6, <1>7

\* An asker moves on, and what it answers is the status or its own timeout.
LEMMA AskerSteps ==
  ASSUME WaitInv, NEW a \in Askers,
         PollAsk(a) \/ PollTimer(a) \/ SdkAsk(a) \/ SdkAnswered(a) \/ SdkGivesUp(a)
  PROVE  WaitInv'
<1> USE DEF WaitInv
<1> DEFINE AskerType == [pc: {"new", "polling", "asking", "sleeping", "done"}, asks: 0 .. MaxAsks,
                         answer: {"nothing", "open", "not_found"} \cup Terminal]
<1>1. UNCHANGED <<status, purged, silent, nudges, conn, listener, crossed, told, emits, visits,
                  removals>>
  BY DEF PollAsk, PollTimer, SdkAsk, SdkAnswered, SdkGivesUp, request, stream, table
<1>2. asker \in [Askers -> AskerType] /\ asker[a] \in AskerType
  BY DEF TypeOK
<1>3. Seen \in {"open", "not_found"} \cup Terminal /\ (Seen \in Terminal => Seen = status)
  BY Types DEF Seen, TypeOK
<1> DEFINE Fine(new) ==
       /\ asker' = [asker EXCEPT ![a] = new]
       /\ new \in AskerType
       /\ new.pc \in {"asking", "sleeping"} => new.asks > 0
       /\ new.answer \in Terminal => \/ new.answer = asker[a].answer /\ new.asks >= asker[a].asks
                                     \/ new.answer = status
                                     \/ new.answer = "expired" /\ new.asks > 0
<1>4. ASSUME NEW pc \in {"polling", "sleeping"}, MoveTo(a, pc), pc = "sleeping" => asker[a].asks > 0
      PROVE  \E new : Fine(new)
  <2> DEFINE new == [asker[a] EXCEPT !.pc = pc]
  <2>1. asker' = [asker EXCEPT ![a] = new]
    BY <1>2, <1>4 DEF MoveTo
  <2>2. new \in AskerType /\ new.pc = pc /\ new.asks = asker[a].asks /\ new.answer = asker[a].answer
    BY <1>2
  <2>3. new.asks \in Nat
    BY <2>2, BoundsAssumption
  <2>4. Fine(new)
    BY <1>2, <1>4, <2>1, <2>2, <2>3
  <2> QED
    BY <2>4
<1>5. ASSUME NEW s \in {"open", "not_found"} \cup Terminal, Answer(a, s),
             s \in Terminal => s = status \/ (s = "expired" /\ asker[a].asks > 0)
      PROVE  \E new : Fine(new)
  <2> DEFINE new == [asker[a] EXCEPT !.pc = "done", !.answer = s]
  <2>1. asker' = [asker EXCEPT ![a] = new]
    BY <1>2, <1>5 DEF Answer
  <2>2. new \in AskerType /\ new.pc = "done" /\ new.asks = asker[a].asks /\ new.answer = s
    BY <1>2
  <2>3. Fine(new)
    BY <1>5, <2>1, <2>2
  <2> QED
    BY <2>3
<1>6. \E new : Fine(new)
  <2>1. CASE PollAsk(a)
    <3>1. MoveTo(a, "polling") \/ Answer(a, Seen)
      BY <2>1 DEF PollAsk
    <3> HIDE DEF Fine
    <3> QED
      BY <1>3, <1>4, <1>5, <3>1
  <2>2. CASE PollTimer(a)
    <3>1. Answer(a, Seen)
      BY <2>2 DEF PollTimer
    <3> HIDE DEF Fine
    <3> QED
      BY <1>3, <1>5, <3>1
  <2>3. CASE SdkAsk(a)
    <3> DEFINE new == [asker[a] EXCEPT !.pc = "asking", !.asks = @ + 1]
    <3>1. asker[a].asks < MaxAsks /\ asker' = [asker EXCEPT ![a].pc = "asking", ![a].asks = @ + 1]
      BY <2>3 DEF SdkAsk
    <3>2. asker' = [asker EXCEPT ![a] = new]
      BY <1>2, <3>1
    <3>3. asker[a].asks + 1 \in 0 .. MaxAsks /\ asker[a].asks + 1 > 0
          /\ asker[a].asks + 1 >= asker[a].asks
      BY <1>2, <3>1, BoundsAssumption
    <3>4. /\ new \in AskerType /\ new.pc = "asking" /\ new.asks = asker[a].asks + 1
          /\ new.answer = asker[a].answer
      BY <1>2, <3>3
    <3>5. Fine(new)
      BY <3>2, <3>3, <3>4
    <3> QED
      BY <3>5
  <2>4. CASE SdkAnswered(a)
    <3>1. asker[a].asks > 0 /\ (MoveTo(a, "sleeping") \/ Answer(a, Seen))
      BY <2>4 DEF SdkAnswered, AskedFirst
    <3> HIDE DEF Fine
    <3> QED
      BY <1>3, <1>4, <1>5, <3>1
  <2>5. CASE SdkGivesUp(a)
    <3>1. asker[a].asks > 0 /\ Answer(a, "expired")
      BY <2>5 DEF SdkGivesUp, AskedFirst
    <3>2. "expired" \in {"open", "not_found"} \cup Terminal
      BY DEF Terminal
    <3> HIDE DEF Fine
    <3> QED
      BY <1>5, <3>1, <3>2
  <2> QED
    BY <2>1, <2>2, <2>3, <2>4, <2>5
<1>7. PICK new : Fine(new)
  BY <1>6
<1>8. asker' \in [Askers -> AskerType] /\ \A b \in Askers : asker'[b] = IF b = a THEN new ELSE asker[b]
  BY <1>2, <1>7
<1>9. TypeOK'
  BY <1>1, <1>8 DEF TypeOK
<1>10. ToldTruth'
  <2>1. \A c \in Conns : told'[c] \in Terminal => told'[c] = status \/ (told'[c] = "expired" /\ purged)
    BY <1>1 DEF ToldTruth
  <2>2. ASSUME NEW b \in Askers, asker'[b].answer \in Terminal
        PROVE  asker'[b].answer = status \/ (asker'[b].answer = "expired" /\ asker'[b].asks > 0)
    <3>1. CASE b # a
      BY <1>8, <2>2, <3>1 DEF ToldTruth
    <3>2. CASE b = a
      <4>1. asker'[b] = new /\ new.asks \in Int /\ asker[a].asks \in Int
        BY <1>2, <1>7, <1>8, <3>2, BoundsAssumption
      <4>2. asker[a].answer \in Terminal =>
              asker[a].answer = status \/ (asker[a].answer = "expired" /\ asker[a].asks > 0)
        BY DEF ToldTruth
      <4> QED
        BY <1>7, <2>2, <4>1, <4>2
    <3> QED
      BY <3>1, <3>2
  <2> QED
    BY <1>1, <2>1, <2>2 DEF ToldTruth
<1>11. AskedFirst'
  BY <1>7, <1>8 DEF AskedFirst
<1>12. NoOrphan' /\ ToldBeforeEnd' /\ PurgedDecided' /\ EmitsReach' /\ RemovalsTold'
  BY <1>1 DEF NoOrphan, ToldBeforeEnd, PurgedDecided, EmitsReach, RemovalsTold
<1> QED
  BY <1>9, <1>10, <1>11, <1>12

-----------------------------------------------------------------------------
(* The theorems *)

LEMMA Inductive == WaitInv /\ [Next]_vars => WaitInv'
<1> SUFFICES ASSUME WaitInv, [Next]_vars PROVE WaitInv'
  OBVIOUS
<1>1. CASE UNCHANGED vars
  BY <1>1 DEF vars, request, stream, table, WaitInv, TypeOK, NoOrphan, ToldTruth, ToldBeforeEnd,
              PurgedDecided, AskedFirst, EmitsReach, RemovalsTold
<1>2. CASE \E c \in Conns : Connect(c) \/ Found(c)
  BY <1>2, ConnectKeeps, FoundKeeps
<1>3. CASE EmitRead
  BY <1>3, EmitReadKeeps
<1>4. CASE EmitSend
  BY <1>4, EmitSendKeeps
<1>5. CASE RemovalRuns
  BY <1>5, RemovalKeeps
<1>6. CASE VisitDone
  BY <1>6, VisitKeeps
<1>7. CASE \/ \E outcome \in {"approved", "denied"} : Decide(outcome)
           \/ Expire \/ ExpiryBroadcast \/ Nudge \/ Purge
  BY <1>7, RequestSteps
<1>8. CASE \E a \in Askers :
             PollAsk(a) \/ PollTimer(a) \/ SdkAsk(a) \/ SdkAnswered(a) \/ SdkGivesUp(a)
  BY <1>8, AskerSteps
<1> QED
  BY <1>1, <1>2, <1>3, <1>4, <1>5, <1>6, <1>7, <1>8 DEF Next

\* The streams and the clients that ask keep the inductive invariant.
THEOREM WaitInvariant == Spec => []WaitInv
<1>1. Init => WaitInv
  BY Initially
<1>2. WaitInv /\ [Next]_vars => WaitInv'
  BY Inductive
<1> QED
  BY <1>1, <1>2, PTL DEF Spec

\* Every variable of the listener table, of the emissions under way and of the
\* asking clients keeps its type.
THEOREM WaitTypeCorrect == Spec => []TypeOK
<1>1. WaitInv => TypeOK
  BY DEF WaitInv
<1> QED
  BY <1>1, WaitInvariant, PTL

\* However reconnects, removals by token and emissions cross, the server holds open
\* exactly the connection the listener table names (addListener, removeListener).
THEOREM NoneOrphaned == Spec => []NoOrphan
<1>1. WaitInv => NoOrphan
  BY DEF WaitInv
<1> QED
  BY <1>1, WaitInvariant, PTL

\* No client is told a decision the request does not have, over stream, long poll or
\* SDK, but for "expired" of a record that is gone or of the SDK's own timeout.
THEOREM TruthTold == Spec => []ToldTruth
<1>1. WaitInv => ToldTruth
  BY DEF WaitInv
<1> QED
  BY <1>1, WaitInvariant, PTL

\* A removal by token ends a connection that was told the decision, or one that was
\* registered while an emission to an earlier one or a removal was under way.
THEOREM ToldBeforeTheEnd == Spec => []ToldBeforeEnd
<1>1. WaitInv => ToldBeforeEnd
  BY DEF WaitInv
<1> QED
  BY <1>1, WaitInvariant, PTL
=============================================================================
