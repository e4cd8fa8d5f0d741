---------------------------- MODULE PartsProofs -----------------------------
(***************************************************************************)
(* What the replay guard, the rate limiter, the override form and the live *)
(* proxies keep to, for any number of deliveries, addresses, approvers,    *)
(* parameters and proxies, any bucket, any clock, any schema and any stack.*)
(***************************************************************************)
EXTENDS RateLimiter, ReplayGuard, Overrides, LiveProxies, TLAPS

-----------------------------------------------------------------------------
(* The override form *)

\* What a submission leaves of one parameter.
LEMMA MergedOne ==
  ASSUME NEW u \in Users, SubmissionMerged(u), NEW k \in Params
  PROVE  /\ k \in Changed(u) => redacted_params'[k] = Coerce(filled[u][k])
         /\ k \notin Changed(u) => redacted_params'[k] = redacted_params[k]
BY DEF SubmissionMerged, Merged

\* Only a submission that was merged changes parameters or the cached schema's use.
LEMMA OnlySubmissions ==
  ASSUME [OverridesNext]_overrideVars
  PROVE  \/ redacted_params' = redacted_params /\ (cached # {} => cached' = cached)
         \/ \E u \in Users : SubmissionMerged(u)
<1>1. CASE UNCHANGED overrideVars
  BY <1>1 DEF overrideVars, schema
<1>2. ASSUME NEW u \in Users, OpenForm(u) \/ Submit(u) \/ Approve(u) \/ Deny(u)
      PROVE  \/ redacted_params' = redacted_params /\ (cached # {} => cached' = cached)
             \/ SubmissionMerged(u)
  BY <1>2 DEF OpenForm, Submit, SubmissionInvalid, SubmitApproved, SubmitRefused, Approve, Deny,
              schema, LoadActionSchema
<1>3. ASSUME NEW u \in Users, NEW k \in OverrideKeys, NEW t \in Texts \cup {Blank},
             EditField(u, k, t)
      PROVE  redacted_params' = redacted_params /\ cached' = cached
  BY <1>3 DEF EditField, schema
<1>4. CASE PersonasAcked \/ SchemaShown \/ EditSchema
  BY <1>4 DEF PersonasAcked, SchemaShown, LoadActionSchema, EditSchema, schema
<1> QED
  BY <1>1, <1>2, <1>3, <1>4 DEF OverridesNext

LEMMA EditsStayValid ==
  ASSUME EditsValid, [OverridesNext]_overrideVars
  PROVE  EditsValid'
<1> SUFFICES ASSUME NEW k \in Params, redacted_params'[k] # InitialParams[k]
             PROVE  k \in OverrideKeys /\ \E s \in cached' : ValidIn(s, k, redacted_params'[k])
  BY DEF EditsValid
<1>1. CASE redacted_params' = redacted_params /\ (cached # {} => cached' = cached)
  <2>1. k \in OverrideKeys /\ \E s \in cached : ValidIn(s, k, redacted_params[k])
    BY <1>1 DEF EditsValid
  <2> QED
    BY <1>1, <2>1
<1>2. ASSUME NEW u \in Users, SubmissionMerged(u)
      PROVE  k \in OverrideKeys /\ \E s \in cached' : ValidIn(s, k, redacted_params'[k])
  <2>1. cached' = LoadActionSchema /\ validateOverrides(u)
    BY <1>2 DEF SubmissionMerged
  <2>2. CASE k \in Changed(u)
    <3>1. k \in OverrideKeys
      BY <2>2 DEF Changed
    <3>2. \A s \in LoadActionSchema : ValidIn(s, k, Coerce(filled[u][k]))
      BY <2>1, <2>2 DEF validateOverrides
    <3>3. \E s : s \in LoadActionSchema
      BY DEF LoadActionSchema
    <3>4. redacted_params'[k] = Coerce(filled[u][k])
      BY <1>2, <2>2, MergedOne
    <3> QED
      BY <2>1, <3>1, <3>2, <3>3, <3>4
  <2>3. CASE k \notin Changed(u)
    <3>1. redacted_params'[k] = redacted_params[k]
      BY <1>2, <2>3, MergedOne
    <3>2. k \in OverrideKeys /\ \E s \in cached : ValidIn(s, k, redacted_params[k])
      BY <3>1 DEF EditsValid
    <3>3. cached' = cached
      BY <2>1, <3>2 DEF LoadActionSchema
    <3> QED
      BY <3>1, <3>2, <3>3
  <2> QED
    BY <2>2, <2>3
<1> QED
  BY <1>1, <1>2, OnlySubmissions

\* Of any mix of open, stale and refused override forms, the record holds only values it
\* was created with or values of listed keys that the cached schema admits.
THEOREM EditsAreValid == OverridesSpec => []EditsValid
<1>1. OverridesInit => EditsValid
  BY DEF OverridesInit, EditsValid
<1>2. EditsValid /\ [OverridesNext]_overrideVars => EditsValid'
  BY EditsStayValid
<1> QED
  BY <1>1, <1>2, PTL DEF OverridesSpec

\* A parameter nobody edited and that nobody changed under an open form stays as it is,
\* in value and in type: the form compares texts, not coerced values.
THEOREM UntouchedAreKept == OverridesSpec => UntouchedKept
<1> DEFINE Kept1 == \A k \in Params : redacted_params'[k] # redacted_params[k] =>
              \E u \in open \cap Allowed :
                \/ filled[u][k] # Shown(opened[u][k])
                \/ redacted_params[k] # opened[u][k]
<1>1. [OverridesNext]_overrideVars => [Kept1]_overrideVars
  <2> SUFFICES ASSUME [OverridesNext]_overrideVars, NEW k \in Params,
                      redacted_params'[k] # redacted_params[k]
               PROVE  \E u \in open \cap Allowed :
                        \/ filled[u][k] # Shown(opened[u][k])
                        \/ redacted_params[k] # opened[u][k]
    OBVIOUS
  <2>1. PICK u \in Users : SubmissionMerged(u)
    BY OnlySubmissions
  <2>2. u \in open \cap Allowed
    BY <2>1 DEF SubmissionMerged
  <2>3. k \in Changed(u)
    BY <2>1, MergedOne
  <2>4. filled[u][k] # Shown(redacted_params[k])
    BY <2>3 DEF Changed, Differs
  <2> QED
    BY <2>2, <2>4
<1> QED
  BY <1>1, PTL DEF OverridesSpec, UntouchedKept

\* A submission leaves the record as its form shows it, whatever others did to the record
\* while the form was open.
THEOREM FormIsHonoured == OverridesSpec => FormHonoured
<1> DEFINE Honoured(u) == \A k \in OverrideKeys :
              filled[u][k] # Blank =>
                Shown(redacted_params'[k]) \in {filled[u][k], Shown(Coerce(filled[u][k]))}
<1>1. ASSUME NEW u \in Users, SubmissionMerged(u) PROVE u \in open \cap Allowed /\ Honoured(u)
  <2>1. u \in open \cap Allowed
    BY <1>1 DEF SubmissionMerged
  <2>2. ASSUME NEW k \in OverrideKeys, filled[u][k] # Blank
        PROVE  Shown(redacted_params'[k]) \in {filled[u][k], Shown(Coerce(filled[u][k]))}
    <3>1. k \in Params
      BY OverridesAssumption
    <3>2. CASE k \in Changed(u)
      BY <1>1, <3>1, <3>2, MergedOne
    <3>3. CASE k \notin Changed(u)
      <4>1. filled[u][k] = Shown(redacted_params[k])
        BY <2>2, <3>3 DEF Changed, Differs
      <4> QED
        BY <1>1, <3>1, <3>3, <4>1, MergedOne
    <3> QED
      BY <3>2, <3>3
  <2> QED
    BY <2>1, <2>2
<1>2. [OverridesNext]_overrideVars =>
        [redacted_params' # redacted_params => \E u \in open \cap Allowed : Honoured(u)]_overrideVars
  <2> HIDE DEF Honoured
  <2> QED
    BY <1>1, OnlySubmissions
<1> QED
  BY <1>2, PTL DEF OverridesSpec, FormHonoured

-----------------------------------------------------------------------------
(* Whole seconds *)

\* A time that is k seconds later is k whole seconds later.
LEMMA WholeSeconds ==
  ASSUME NEW a \in Nat, NEW b \in Nat, NEW k \in Nat, a + k * TicksPerSec <= b
  PROVE  Sec(a) \in Int /\ Sec(b) \in Int /\ Sec(a) + k <= Sec(b)
<1> DEFINE n == TicksPerSec
<1>1. n \in Nat \ {0}
  BY ClockAssumption
<1>2. /\ Sec(a) \in Int /\ n * Sec(a) <= a
      /\ Sec(b) \in Int /\ b < n * Sec(b) + n
  BY <1>1 DEF Sec
<1> QED
  BY <1>1, <1>2

-----------------------------------------------------------------------------
(* The replay guard *)

Time == Ttl * TicksPerSec
Last(d) == handled[d][Len(handled[d])]

ReplayTypes ==
  /\ ClockType
  /\ signed \in [Deliveries -> Nat]
  /\ handled \in [Deliveries -> Seq(Nat)]

\* The last time a delivery was handled is past, and its entry is still there
\* and ends a whole lifetime after it, or that lifetime is over.
Remembered(d) ==
  handled[d] # << >> =>
    /\ signed[d] # 0
    /\ Last(d) <= clock
    /\ (d \in DOMAIN seen /\ seen[d] = Last(d) + Time) \/ clock >= Last(d) + Time

\* HandledOnce of one delivery.
Spaced(d) ==
  /\ \A i \in 2 .. Len(handled[d]) : handled[d][i] - handled[d][i - 1] >= Time
  /\ Len(handled[d]) > 1 => Sec(handled[d][1]) <= signed[d]

ReplayInv == ReplayTypes /\ (~setBack => \A d \in Deliveries : Remembered(d) /\ Spaced(d))

LEMMA TimeIsNatural == Time \in Nat
BY ReplayAssumption, ClockAssumption DEF Time

LEMMA SecIsInt == \A t \in Nat : Sec(t) \in Int
BY ClockAssumption DEF Sec

\* Handling a delivery keeps what is known of it: the entry it overwrites is over.
LEMMA HandleKeepsOwn ==
  ASSUME ReplayTypes, NEW d \in Deliveries, Remembered(d), Spaced(d), Handle(d),
         UNCHANGED clock
  PROVE  Remembered(d)' /\ Spaced(d)'
<1> DEFINE h == handled[d]
<1>1. /\ signed[d] # 0 /\ Within(Sec(clock), signed[d], Skew)
      /\ d \notin Kept
      /\ seen' = [k \in Kept \cup {d} |-> IF k = d THEN clock + Time ELSE seen[k]]
      /\ handled' = [handled EXCEPT ![d] = Append(h, clock)]
      /\ signed' = signed /\ clock' = clock
  BY DEF Handle, Fresh, Time
<1>2. h \in Seq(Nat) /\ clock \in Nat /\ signed[d] \in Nat
  BY DEF ReplayTypes, ClockType
<1>3. handled'[d] = Append(h, clock)
  BY <1>1 DEF ReplayTypes
<1>4. /\ Len(h) \in Nat /\ Len(handled'[d]) = Len(h) + 1 /\ handled'[d] # << >>
      /\ handled'[d][Len(h) + 1] = clock
      /\ \A i \in 1 .. Len(h) : handled'[d][i] = h[i] /\ h[i] \in Nat
  BY <1>2, <1>3
<1>5. d \in DOMAIN seen' /\ seen'[d] = clock + Time
  BY <1>1
<1>6. Remembered(d)'
  BY <1>1, <1>2, <1>4, <1>5 DEF Remembered, Last, Time
<1>7. h # << >> => clock >= h[Len(h)] + Time
  <2> SUFFICES ASSUME h # << >> PROVE clock >= h[Len(h)] + Time
    OBVIOUS
  <2>1. h[Len(h)] \in Nat
    BY <1>2
  <2>2. CASE d \in DOMAIN seen /\ seen[d] = h[Len(h)] + Time
    BY <1>1, <1>2, <2>1, <2>2, TimeIsNatural DEF Kept
  <2>3. CASE clock >= h[Len(h)] + Time
    BY <2>3
  <2> QED
    BY <2>2, <2>3 DEF Remembered, Last
<1>8. \A i \in 2 .. Len(h) + 1 : handled'[d][i] - handled'[d][i - 1] >= Time
  <2> SUFFICES ASSUME NEW i \in 2 .. Len(h) + 1
               PROVE  handled'[d][i] - handled'[d][i - 1] >= Time
    OBVIOUS
  <2>1. CASE i \in 2 .. Len(h)
    <3>1. handled'[d][i] = h[i] /\ handled'[d][i - 1] = h[i - 1]
      BY <1>4, <2>1
    <3>2. h[i] - h[i - 1] >= Time
      BY <2>1 DEF Spaced
    <3> QED
      BY <3>1, <3>2
  <2>2. CASE i = Len(h) + 1
    <3>1. h # << >> /\ i - 1 = Len(h) /\ Len(h) \in 1 .. Len(h)
      BY <1>2, <1>4, <2>2
    <3>2. handled'[d][i] = clock /\ handled'[d][i - 1] = h[Len(h)] /\ h[Len(h)] \in Nat
      BY <1>4, <2>2, <3>1
    <3> QED
      BY <1>2, <1>7, <3>1, <3>2, TimeIsNatural
  <2> QED
    BY <1>4, <2>1, <2>2
<1>9. Len(h) + 1 > 1 => Sec(handled'[d][1]) <= signed[d]
  <2> SUFFICES ASSUME Len(h) + 1 > 1 PROVE Sec(handled'[d][1]) <= signed[d]
    OBVIOUS
  <2>1. Len(h) \in Nat \ {0} /\ h # << >>
    BY <1>2, <1>4
  <2>2. handled'[d][1] = h[1] /\ h[1] \in Nat
    BY <1>4, <2>1
  <2>3. CASE Len(h) > 1
    BY <2>2, <2>3 DEF Spaced
  <2>4. CASE Len(h) = 1
    <3>1. h[1] + Ttl * TicksPerSec <= clock
      BY <1>2, <1>7, <2>1, <2>2, <2>4, TimeIsNatural DEF Time
    <3>2. Sec(h[1]) \in Int /\ Sec(clock) \in Int /\ Sec(h[1]) + Ttl <= Sec(clock)
      BY <1>2, <2>2, <3>1, ReplayAssumption, WholeSeconds
    <3>3. Sec(clock) - signed[d] <= Ttl
      BY <1>1, <1>2, <3>2, ReplayAssumption DEF Within
    <3> QED
      BY <1>2, <2>2, <3>2, <3>3, ReplayAssumption
  <2>5. Len(h) > 1 \/ Len(h) = 1
    <3>1. \A n \in Nat \ {0} : n > 1 \/ n = 1
      OBVIOUS
    <3> QED
      BY <2>1, <3>1
  <2> QED
    BY <2>3, <2>4, <2>5
<1>10. Spaced(d)'
  BY <1>1, <1>4, <1>8, <1>9 DEF Spaced, Time, Sec
<1> QED
  BY <1>6, <1>10

\* A sweep, a delivery of another body, and a later clock forget nothing that is
\* not over.
LEMMA OthersRemembered ==
  ASSUME ReplayTypes, NEW d \in Deliveries, Remembered(d), Spaced(d),
         handled'[d] = handled[d],
         signed[d] # 0 => signed'[d] = signed[d],
         clock' \in Nat, clock' >= clock,
         d \in Kept => d \in DOMAIN seen' /\ seen'[d] = seen[d]
  PROVE  Remembered(d)' /\ Spaced(d)'
<1> DEFINE h == handled[d]
<1>1. h \in Seq(Nat) /\ clock \in Nat
  BY DEF ReplayTypes, ClockType
<1>2. CASE h = << >>
  <2>1. Len(h) = 0
    BY <1>2
  <2> QED
    BY <1>2, <2>1 DEF Remembered, Spaced
<1>3. CASE h # << >>
  <2>1. Len(h) \in 1 .. Len(h) /\ h[Len(h)] \in Nat /\ signed[d] # 0 /\ signed'[d] = signed[d]
    BY <1>1, <1>3 DEF Remembered
  <2>2. h[Len(h)] <= clock
        /\ ((d \in DOMAIN seen /\ seen[d] = h[Len(h)] + Time) \/ clock >= h[Len(h)] + Time)
    BY <1>3 DEF Remembered, Last
  <2>3. (d \in DOMAIN seen' /\ seen'[d] = h[Len(h)] + Time) \/ clock' >= h[Len(h)] + Time
    BY <1>1, <2>1, <2>2, TimeIsNatural DEF Kept
  <2>4. h[Len(h)] <= clock'
    BY <1>1, <2>1, <2>2
  <2>5. Remembered(d)'
    BY <2>1, <2>3, <2>4 DEF Remembered, Last, Time
  <2>6. Spaced(d)'
    BY <2>1 DEF Spaced, Time, Sec
  <2> QED
    BY <2>5, <2>6
<1> QED
  BY <1>2, <1>3

LEMMA ReplayTypesKept ==
  ASSUME ReplayTypes, [ReplayNext]_<<clock, setBack, replayVars>>
  PROVE  ReplayTypes'
<1> USE DEF ReplayTypes, ClockType
<1>1. CASE UNCHANGED <<clock, setBack, replayVars>>
  BY <1>1 DEF replayVars
<1>2. ASSUME NEW d \in Deliveries, Sign(d), UNCHANGED <<clock, setBack>> PROVE ReplayTypes'
  <2>1. PICK ts \in 1 .. Sec(clock) + Drift : signed' = [signed EXCEPT ![d] = ts]
    BY <1>2 DEF Sign
  <2>2. ts \in Nat
    BY SecIsInt, ReplayAssumption
  <2> QED
    BY <1>2, <2>1, <2>2 DEF Sign
<1>3. ASSUME NEW d \in Deliveries, Handle(d), UNCHANGED <<clock, setBack>> PROVE ReplayTypes'
  <2>1. Append(handled[d], clock) \in Seq(Nat)
    OBVIOUS
  <2> QED
    BY <1>3, <2>1 DEF Handle
<1>4. ASSUME Sweep \/ \E d \in Deliveries : Replayed(d), UNCHANGED <<clock, setBack>>
      PROVE  ReplayTypes'
  BY <1>4 DEF Sweep, Replayed
<1>5. CASE (Elapse \/ SetBack) /\ UNCHANGED replayVars
  <2>1. signed' = signed /\ handled' = handled
    BY <1>5 DEF replayVars
  <2>2. CASE Elapse
    BY <2>1, <2>2 DEF Elapse
  <2>3. CASE SetBack
    <3>1. clock' \in 0 .. clock - 1 /\ setBack' = TRUE
      BY <2>3 DEF SetBack
    <3> QED
      BY <2>1, <3>1
  <2> QED
    BY <1>5, <2>2, <2>3
<1> QED
  BY <1>1, <1>2, <1>3, <1>4, <1>5 DEF ReplayNext, Deliver

LEMMA ReplayStep ==
  ASSUME ReplayInv, [ReplayNext]_<<clock, setBack, replayVars>>
  PROVE  ReplayInv'
<1>1. ReplayTypes /\ ReplayTypes'
  BY ReplayTypesKept DEF ReplayInv
<1>2. SUFFICES ASSUME ~setBack', NEW d \in Deliveries PROVE Remembered(d)' /\ Spaced(d)'
  BY <1>1 DEF ReplayInv
<1>3. ~setBack /\ ~SetBack
  BY <1>1, <1>2 DEF ReplayNext, Elapse, SetBack, ReplayTypes, ClockType
<1>4. /\ Remembered(d) /\ Spaced(d)
      /\ clock \in Nat /\ clock' \in Nat
      /\ signed \in [Deliveries -> Nat] /\ handled \in [Deliveries -> Seq(Nat)]
  BY <1>1, <1>3 DEF ReplayInv, ReplayTypes, ClockType
<1>5. Swept = [k \in Kept |-> seen[k]] /\ Kept \subseteq DOMAIN seen
  BY DEF Swept, Kept
<1>6. CASE UNCHANGED <<clock, setBack, replayVars>>
  BY <1>1, <1>4, <1>5, <1>6, OthersRemembered DEF replayVars
<1>7. CASE Elapse /\ UNCHANGED replayVars
  BY <1>1, <1>4, <1>5, <1>7, OthersRemembered DEF Elapse, replayVars
<1>8. CASE (Sweep \/ \E e \in Deliveries : Replayed(e)) /\ UNCHANGED <<clock, setBack>>
  BY <1>1, <1>4, <1>5, <1>8, OthersRemembered DEF Sweep, Replayed
<1>9. ASSUME NEW e \in Deliveries, Sign(e), UNCHANGED <<clock, setBack>>
      PROVE  Remembered(d)' /\ Spaced(d)'
  <2>1. signed[d] # 0 => signed'[d] = signed[d]
    BY <1>4, <1>9 DEF Sign
  <2> QED
    BY <1>1, <1>4, <1>5, <1>9, <2>1, OthersRemembered DEF Sign
<1>10. ASSUME NEW e \in Deliveries, Handle(e), UNCHANGED <<clock, setBack>>
       PROVE  Remembered(d)' /\ Spaced(d)'
  <2>1. CASE e = d
    BY <1>1, <1>4, <1>10, <2>1, HandleKeepsOwn
  <2>2. CASE e # d
    <3>1. handled'[d] = handled[d] /\ signed' = signed
      BY <1>4, <1>10, <2>2 DEF Handle
    <3>2. d \in Kept => d \in DOMAIN seen' /\ seen'[d] = seen[d]
      BY <1>10, <2>2 DEF Handle
    <3> QED
      BY <1>1, <1>4, <1>10, <3>1, <3>2, OthersRemembered
  <2> QED
    BY <2>1, <2>2
<1> QED
  BY <1>3, <1>6, <1>7, <1>8, <1>9, <1>10 DEF ReplayNext, Deliver

\* While the clock is not set back, two handlings of one signed body are a whole entry
\* lifetime apart, and only a body signed ahead of the server's clock can have a second.
THEOREM OnceHandled == ReplaySpec => []HandledOnce
<1>1. ClockInit /\ ReplayInit => ReplayInv
  <2> SUFFICES ASSUME ClockInit, ReplayInit PROVE ReplayInv
    OBVIOUS
  <2>1. ReplayTypes
    <3>1. clock \in Nat /\ setBack \in BOOLEAN
      BY ClockAssumption DEF ClockInit
    <3>2. signed \in [Deliveries -> Nat]
      BY DEF ReplayInit
    <3>3. << >> \in Seq(Nat)
      OBVIOUS
    <3>4. handled \in [Deliveries -> Seq(Nat)]
      BY <3>3 DEF ReplayInit
    <3> QED
      BY <3>1, <3>2, <3>4 DEF ReplayTypes, ClockType
  <2>2. \A d \in Deliveries : handled[d] = << >> /\ Len(handled[d]) = 0
    BY DEF ReplayInit
  <2> QED
    BY <2>1, <2>2 DEF ReplayInv, Remembered, Spaced
<1>2. ReplayInv /\ [ReplayNext]_<<clock, setBack, replayVars>> => ReplayInv'
  BY ReplayStep
<1>3. ReplayInv => HandledOnce
  BY DEF ReplayInv, HandledOnce, Spaced, Time
<1> QED
  BY <1>1, <1>2, <1>3, PTL DEF ReplaySpec

-----------------------------------------------------------------------------
(* The rate limiter *)

\* What the bucket still holds, and what it let through since any admission,
\* were in it then or came in since.
Paid(a, n) ==
  \A i \in 1 .. n :
    (n - i + 1) * Parts + tokens[a] <= Full + Refill * (last[a] - admits[a][i])

Account(a) == Paid(a, Len(admits[a]))

\* Only a bucket admits, and its admissions are behind it.
Ordered(a) ==
  /\ a \notin buckets => admits[a] = << >>
  /\ \A i \in DOMAIN admits[a] : admits[a][i] <= last[a]

RateInv ==
  /\ RateTypeOK
  /\ RateBound
  /\ \A a \in Addresses : Account(a) /\ Ordered(a)

LEMMA Distribute ==
  ASSUME NEW r \in Int, NEW x \in Int, NEW y \in Int
  PROVE  r * x \in Int /\ r * x + r * y = r * (x + y)
OBVIOUS

\* An account that held at one time holds at a later one.
LEMMA PaysOn ==
  ASSUME NEW full \in Int, NEW r \in Int, NEW spent \in Int, NEW old \in Int, NEW new \in Int,
         NEW s \in Int, NEW l \in Int, NEW t \in Int,
         spent + old <= full + r * (l - s), new <= old + r * (t - l)
  PROVE  spent + new <= full + r * (t - s)
<1>1. l - s \in Int /\ t - l \in Int /\ (l - s) + (t - l) = t - s
  OBVIOUS
<1>2. /\ r * (l - s) \in Int /\ r * (t - l) \in Int
      /\ r * (l - s) + r * (t - l) = r * (t - s)
  BY <1>1, Distribute
<1>3. \A a, b, c \in Int : a + b = c /\ spent + old <= full + a /\ new <= old + b
                            => spent + new <= full + c
  OBVIOUS
<1>4. r * (t - s) \in Int
  BY <1>1, <1>2
<1> QED
  BY <1>2, <1>3, <1>4

LEMMA FullIsNat == Full \in Nat
BY RateAssumption DEF Full

\* The refill adds no more than the time it looks back on pays for.
LEMMA RefillPays ==
  ASSUME RateTypeOK, NEW a \in Addresses
  PROVE  /\ Refilled(a) \in 0 .. Full
         /\ RefilledAt(a) \in Nat
         /\ a \in buckets => /\ RefilledAt(a) >= last[a]
                             /\ Refilled(a) <= tokens[a] + Refill * (RefilledAt(a) - last[a])
<1>1. /\ clock \in Nat /\ last[a] \in Nat /\ tokens[a] \in 0 .. Full
      /\ Refill \in Nat /\ Full \in Nat
  BY FullIsNat, RateAssumption DEF RateTypeOK, ClockType
<1>2. CASE a \notin buckets
  BY <1>1, <1>2 DEF Refilled, RefilledAt, Behind
<1>3. CASE Behind(a)
  <2>1. Refill * (last[a] - last[a]) = 0
    BY <1>1
  <2> QED
    BY <1>1, <1>3, <2>1 DEF Refilled, RefilledAt, Behind
<1>4. CASE a \in buckets /\ ~Behind(a)
  <2>1. clock > last[a]
    BY <1>1, <1>4 DEF Behind
  <2>2. (clock - last[a]) * Refill \in Nat
    <3>1. clock - last[a] \in Nat
      BY <1>1, <2>1
    <3> QED
      BY <1>1, <3>1
  <2>3. (clock - last[a]) * Refill = Refill * (clock - last[a])
    BY <1>1
  <2>4. RefilledAt(a) = clock /\ Refilled(a) = Lesser(Full, tokens[a] + (clock - last[a]) * Refill)
    BY <1>4 DEF Refilled, RefilledAt
  <2>5. /\ Refilled(a) \in 0 .. Full
        /\ Refilled(a) <= tokens[a] + (clock - last[a]) * Refill
    BY <1>1, <2>2, <2>4 DEF Lesser
  <2> QED
    BY <1>1, <2>1, <2>3, <2>4, <2>5
<1> QED
  BY <1>2, <1>3, <1>4 DEF Behind

LEMMA RateInitial == ClockInit /\ RateInit => RateInv
<1> SUFFICES ASSUME ClockInit, RateInit PROVE RateInv
  OBVIOUS
<1>1. RateTypeOK
  <2>1. clock \in Nat /\ setBack \in BOOLEAN
    BY ClockAssumption DEF ClockInit
  <2>2. 0 \in 0 .. Full /\ << >> \in Seq(Nat)
    BY FullIsNat
  <2> QED
    BY <2>1, <2>2 DEF RateInit, RateTypeOK, ClockType
<1>2. \A a \in Addresses : admits[a] = << >>
  BY DEF RateInit
<1> QED
  BY <1>1, <1>2 DEF RateInv, RateBound, Account, Paid, Ordered

\* A look at the bucket keeps the account when it takes out what it lets through.
LEMMA LookKeeps ==
  ASSUME RateInv, NEW a \in Addresses, Look(a), UNCHANGED <<clock, setBack>>,
         Admitted(a) \/ Limited(a)
  PROVE  RateInv'
<1> DEFINE n == Len(admits[a])
           t == RefilledAt(a)
<1>1. /\ RateTypeOK
      /\ Refilled(a) \in 0 .. Full /\ t \in Nat /\ Full \in Nat
      /\ Parts \in Nat \ {0} /\ Refill \in Nat
      /\ admits[a] \in Seq(Nat) /\ n \in Nat /\ last[a] \in Nat /\ tokens[a] \in Nat
  BY RefillPays, FullIsNat, RateAssumption DEF RateInv, RateTypeOK
<1>2. \A i \in 1 .. n : admits[a][i] \in Nat /\ admits[a][i] <= t
  <2> SUFFICES ASSUME NEW i \in 1 .. n PROVE admits[a][i] \in Nat /\ admits[a][i] <= t
    OBVIOUS
  <2>1. i \in DOMAIN admits[a] /\ admits[a][i] \in Nat
    BY <1>1
  <2>2. a \in buckets
    BY <1>1, <2>1 DEF RateInv, Ordered
  <2>3. admits[a][i] <= last[a]
    BY <2>1 DEF RateInv, Ordered
  <2>4. last[a] <= t
    BY <1>1, <2>2, RefillPays
  <2> QED
    BY <1>1, <2>1, <2>3, <2>4
\* The account at the time of the refill.
<1>3. \A i \in 1 .. n :
        (n - i + 1) * Parts + Refilled(a) <= Full + Refill * (t - admits[a][i])
  <2> SUFFICES ASSUME NEW i \in 1 .. n
               PROVE  (n - i + 1) * Parts + Refilled(a) <= Full + Refill * (t - admits[a][i])
    OBVIOUS
  <2> DEFINE s == admits[a][i]
             spent == (n - i + 1) * Parts
  <2>1. s \in Nat /\ i \in DOMAIN admits[a]
    BY <1>1
  <2>2. a \in buckets
    BY <1>1, <2>1 DEF RateInv, Ordered
  <2>3. spent + tokens[a] <= Full + Refill * (last[a] - s)
    BY DEF RateInv, Account, Paid
  <2>4. Refilled(a) <= tokens[a] + Refill * (t - last[a])
    BY <1>1, <2>2, RefillPays
  <2>5. spent \in Int
    <3>1. n - i + 1 \in Int
      BY <1>1
    <3> QED
      BY <1>1, <3>1
  <2>6. /\ s \in Int /\ last[a] \in Int /\ t \in Int /\ tokens[a] \in Int /\ Full \in Int
        /\ Refilled(a) \in Int /\ Refill \in Int
    BY <1>1, <2>1
  <2> HIDE DEF s, spent, t
  <2>7. spent + Refilled(a) <= Full + Refill * (t - s)
    BY <2>3, <2>4, <2>5, <2>6, PaysOn
  <2> QED
    BY <2>7 DEF s, spent, t
<1>4. CASE Admitted(a)
  <2>1. /\ admits' = [admits EXCEPT ![a] = Append(@, t)]
        /\ tokens' = [tokens EXCEPT ![a] = Refilled(a) - Parts]
        /\ last' = [last EXCEPT ![a] = t]
        /\ buckets' = buckets \cup {a}
        /\ Refilled(a) >= Parts
    BY <1>4 DEF Admitted, Look
  <2>2. /\ admits'[a] = Append(admits[a], t)
        /\ tokens'[a] = Refilled(a) - Parts
        /\ last'[a] = t
        /\ \A b \in Addresses \ {a} : admits'[b] = admits[b] /\ tokens'[b] = tokens[b]
                                      /\ last'[b] = last[b]
    BY <1>1, <2>1 DEF RateTypeOK
  <2>3. RateTypeOK'
    <3>1. Refilled(a) - Parts \in 0 .. Full
      BY <1>1, <2>1
    <3>2. Append(admits[a], t) \in Seq(Nat)
      BY <1>1
    <3> QED
      BY <1>1, <2>1, <3>1, <3>2 DEF RateTypeOK, ClockType
  <2>4. /\ Len(admits'[a]) = n + 1
        /\ \A i \in 1 .. n : admits'[a][i] = admits[a][i]
        /\ admits'[a][n + 1] = t
        /\ DOMAIN admits'[a] = 1 .. n + 1
    BY <1>1, <2>2
  <2>5. \A i \in 1 .. n + 1 :
          (n + 1 - i + 1) * Parts + tokens'[a] <= Full + Refill * (last'[a] - admits'[a][i])
    <3> SUFFICES ASSUME NEW i \in 1 .. n + 1
                 PROVE  (n + 1 - i + 1) * Parts + tokens'[a]
                          <= Full + Refill * (last'[a] - admits'[a][i])
      OBVIOUS
    <3>1. (n + 1 - i + 1) * Parts = (n - i + 1) * Parts + Parts
      BY <1>1
    <3>2. (n - i + 1) * Parts \in Int
      BY <1>1
    <3>3. CASE i \in 1 .. n
      <4> DEFINE cost == (n - i + 1) * Parts
                 income == Refill * (t - admits[a][i])
      <4>1. income \in Int /\ cost \in Int
        <5>1. t - admits[a][i] \in Int
          BY <1>1, <1>2, <3>3
        <5>2. Refill \in Int
          BY <1>1
        <5> QED
          BY <3>2, <5>1, <5>2
      <4>2. cost + Refilled(a) <= Full + income
        BY <1>3, <3>3
      <4>3. last'[a] - admits'[a][i] = t - admits[a][i]
        BY <2>2, <2>4, <3>3
      <4>4. Refill * (last'[a] - admits'[a][i]) = income
        BY <4>3
      <4>5. (n + 1 - i + 1) * Parts = cost + Parts
        BY <3>1
      <4> HIDE DEF cost, income
      <4>6. (cost + Parts) + (Refilled(a) - Parts) <= Full + income
        BY <1>1, <4>1, <4>2
      <4> QED
        BY <2>2, <4>4, <4>5, <4>6
    <3>4. CASE i = n + 1
      <4>1. n + 1 - i + 1 = 1 /\ 1 * Parts = Parts
        BY <1>1, <3>4
      <4>2. admits'[a][i] = t /\ t - t = 0 /\ Refill * 0 = 0
        BY <1>1, <2>4, <3>4
      <4>3. Parts + (Refilled(a) - Parts) <= Full + 0
        BY <1>1
      <4> QED
        BY <2>2, <4>1, <4>2, <4>3
    <3> QED
      BY <1>1, <3>3, <3>4
  <2>6. Account(a)' /\ Ordered(a)'
    <3>1. Account(a)'
      BY <2>4, <2>5 DEF Account, Paid, Full
    <3>2. Ordered(a)'
      BY <1>1, <1>2, <2>1, <2>2, <2>4 DEF Ordered
    <3> QED
      BY <3>1, <3>2
  <2>7. \A b \in Addresses \ {a} : (Account(b) /\ Ordered(b))'
    BY <2>1, <2>2 DEF RateInv, Account, Paid, Ordered, Full
  <2>8. RateBound'
    <3> SUFFICES ASSUME NEW b \in Addresses, NEW j \in DOMAIN admits'[b], NEW i \in 1 .. j
                 PROVE  (j - i + 1) * Parts <= Full + Refill * (admits'[b][j] - admits'[b][i])
      BY DEF RateBound, Full
    <3>1. CASE b # a
      BY <2>2, <3>1 DEF RateInv, RateBound
    <3>2. CASE b = a /\ j \in 1 .. n
      <4>1. i \in 1 .. n /\ j \in DOMAIN admits[a]
        BY <1>1, <3>2
      <4>2. (j - i + 1) * Parts <= Full + Refill * (admits[a][j] - admits[a][i])
        BY <4>1 DEF RateInv, RateBound
      <4> QED
        BY <2>4, <3>2, <4>1, <4>2
    <3>3. CASE b = a /\ j = n + 1
      <4>1. /\ (n + 1 - i + 1) * Parts + tokens'[a] <= Full + Refill * (t - admits'[a][i])
            /\ tokens'[a] \in Nat
        <5>1. i \in 1 .. n + 1
          BY <3>3
        <5>2. tokens'[a] \in Nat
          BY <1>1, <2>1, <2>2
        <5> QED
          BY <2>2, <2>5, <5>1, <5>2
      <4>2. i \in 1 .. n + 1 /\ admits'[a][i] \in Nat
        <5>1. i \in 1 .. n + 1
          BY <3>3
        <5>2. i \in 1 .. n \/ i = n + 1
          BY <1>1, <5>1
        <5> QED
          BY <1>1, <1>2, <2>4, <5>1, <5>2
      <4>3. Refill * (t - admits'[a][i]) \in Int /\ (n + 1 - i + 1) * Parts \in Int
        BY <1>1, <4>2
      <4>4. (n + 1 - i + 1) * Parts <= Full + Refill * (t - admits'[a][i])
        BY <1>1, <4>1, <4>3
      <4> QED
        BY <2>4, <3>3, <4>4
    <3>4. b = a => j \in 1 .. n \/ j = n + 1
      <4> SUFFICES ASSUME b = a PROVE j \in 1 .. n \/ j = n + 1
        OBVIOUS
      <4>1. j \in 1 .. n + 1
        BY <2>4
      <4> QED
        BY <1>1, <4>1
    <3> QED
      BY <3>1, <3>2, <3>3, <3>4
  <2> QED
    BY <2>3, <2>5, <2>6, <2>7, <2>8 DEF RateInv
<1>5. CASE Limited(a)
  <2>1. /\ admits' = admits
        /\ tokens' = [tokens EXCEPT ![a] = Refilled(a)]
        /\ last' = [last EXCEPT ![a] = t]
        /\ buckets' = buckets \cup {a}
    BY <1>5 DEF Limited, Look
  <2>2. /\ tokens'[a] = Refilled(a)
        /\ last'[a] = t
        /\ \A b \in Addresses \ {a} : tokens'[b] = tokens[b] /\ last'[b] = last[b]
    BY <1>1, <2>1 DEF RateTypeOK
  <2>3. RateTypeOK'
    BY <1>1, <2>1 DEF RateTypeOK, ClockType, Full
  <2>4. Account(a)'
    BY <1>3, <2>1, <2>2 DEF Account, Paid, Full
  <2>5. Ordered(a)'
    BY <1>1, <1>2, <2>1, <2>2 DEF Ordered
  <2>6. \A b \in Addresses \ {a} : (Account(b) /\ Ordered(b))'
    BY <2>1, <2>2 DEF RateInv, Account, Paid, Ordered, Full
  <2>7. RateBound'
    BY <2>1 DEF RateInv, RateBound, Full
  <2> QED
    BY <2>3, <2>4, <2>5, <2>6, <2>7 DEF RateInv
<1> QED
  BY <1>4, <1>5

LEMMA RateStep == RateInv /\ [RateNext]_<<clock, setBack, rateVars>> => RateInv'
<1> SUFFICES ASSUME RateInv, [RateNext]_<<clock, setBack, rateVars>> PROVE RateInv'
  OBVIOUS
<1>1. ASSUME NEW a \in Addresses, GuardRequest(a), UNCHANGED <<clock, setBack>>
      PROVE  RateInv'
  BY <1>1, LookKeeps DEF GuardRequest, Admitted, Limited
<1>2. CASE (Elapse \/ SetBack) /\ UNCHANGED rateVars
  <2>1. clock \in Nat /\ setBack \in BOOLEAN
    BY DEF RateInv, RateTypeOK, ClockType
  <2>2. ClockType'
    <3>1. CASE Elapse
      BY <2>1, <3>1 DEF Elapse, ClockType
    <3>2. CASE SetBack
      BY <2>1, <3>2 DEF SetBack, ClockType
    <3> QED
      BY <1>2, <3>1, <3>2
  <2> QED
    BY <1>2, <2>2 DEF RateInv, RateTypeOK, RateBound, Account, Paid, Ordered, rateVars, Full
<1>3. CASE UNCHANGED <<clock, setBack, rateVars>>
  BY <1>3 DEF RateInv, RateTypeOK, ClockType, RateBound, Account, Paid, Ordered, rateVars, Full
<1> QED
  BY <1>1, <1>2, <1>3 DEF RateNext

\* The bucket keeps its type: it never holds more than it can or less than nothing.
THEOREM RateTypeCorrect == RateSpec => []RateTypeOK
<1>1. RateInv => RateTypeOK
  BY DEF RateInv
<1> QED
  BY RateInitial, RateStep, <1>1, PTL DEF RateSpec

\* Over any stretch of time an address gets at most a full bucket and the
\* refill of that stretch, even when the clock is set back in it.
THEOREM RateIsBounded == RateSpec => []RateBound
<1>1. RateInv => RateBound
  BY DEF RateInv
<1> QED
  BY RateInitial, RateStep, <1>1, PTL DEF RateSpec

-----------------------------------------------------------------------------
(* The live proxies *)

TrapType == [ref: Nat \ {0}, at: Nat \ {0}]

\* A trap of this proxy is under way.
Trapped(j) == \E m \in DOMAIN frames : frames[m].ref = j

\* The assignment is to this proxy, or must set it.
Target(j) == j = assigned.ref \/ assigned.before[j] # assigned.value

ProxyTypes ==
  /\ fields \in Seq(Values)
  /\ frames \in Seq(TrapType)
  /\ patches \in Seq(Nat) /\ Len(patches) = Len(fields)
  /\ overflow \in BOOLEAN
  /\ frames # << >> => assigned.ref # 0
  /\ assigned.ref # 0 => /\ assigned.ref \in DOMAIN fields /\ assigned.value \in Values
                         /\ assigned.before \in Seq(Values)
                         /\ Len(assigned.before) = Len(fields)
  /\ \A m \in DOMAIN frames : frames[m].ref \in DOMAIN fields

\* The first trap leaves no proxy behind that shows another value, and the stack is never full
\* when it is the only one.
FirstTrap ==
  /\ frames # << >> =>
       \A j \in DOMAIN fields : j < frames[1].at => fields[j] = assigned.value
  /\ OneValue

\* While it lasts, a proxy's trap is under way or done at most once, and only of a proxy that had
\* to be set and has been; and where the stack held, of every one that has been.
TrappedOnce ==
  assigned.ref # 0 =>
    /\ fields[assigned.ref] = assigned.value
    /\ \A m, n \in DOMAIN frames : frames[m].ref = frames[n].ref => m = n
    /\ \A j \in DOMAIN fields :
         /\ patches[j] \in {0, 1}
         /\ Trapped(j) => patches[j] = 0
         /\ Trapped(j) \/ patches[j] = 1 => fields[j] = assigned.value /\ Target(j)
         /\ fields[j] = assigned.value /\ Target(j) /\ (j = assigned.ref \/ ~overflow) =>
              Trapped(j) \/ patches[j] = 1
         /\ fields[j] # assigned.value => fields[j] = assigned.before[j]

ProxyInv == ProxyTypes /\ FirstTrap /\ TrappedOnce

\* The stack with its top advanced, and with a new trap on it.
LEMMA StackSpec ==
  ASSUME frames \in Seq(TrapType), frames # << >>, NEW i \in Nat \ {0}
  PROVE  /\ Len(frames) \in DOMAIN frames /\ Top \in TrapType /\ 1 \in DOMAIN frames
         /\ Under \in Seq(TrapType) /\ Len(Under) = Len(frames) - 1
         /\ \A m \in DOMAIN Under : m \in DOMAIN frames /\ m < Len(frames) /\ Under[m] = frames[m]
         /\ \A m \in DOMAIN frames : m = Len(frames) \/ m \in DOMAIN Under
         /\ Advanced \in Seq(TrapType) /\ DOMAIN Advanced = DOMAIN frames
         /\ Len(Advanced) = Len(frames)
         /\ \A m \in DOMAIN frames :
              Advanced[m] = IF m = Len(frames) THEN [Top EXCEPT !.at = @ + 1] ELSE frames[m]
         /\ \A m \in DOMAIN frames : Advanced[m].ref = frames[m].ref
         /\ Append(Advanced, Frame(i)) \in Seq(TrapType)
         /\ DOMAIN Append(Advanced, Frame(i)) = DOMAIN frames \cup {Len(frames) + 1}
         /\ \A m \in DOMAIN frames : Append(Advanced, Frame(i))[m] = Advanced[m]
         /\ Append(Advanced, Frame(i))[Len(frames) + 1] = Frame(i)
         /\ Frame(i) \in TrapType
<1>1. Len(frames) \in Nat \ {0} /\ DOMAIN frames = 1 .. Len(frames)
  OBVIOUS
<1>2. Len(frames) \in DOMAIN frames /\ 1 \in DOMAIN frames /\ Top \in TrapType
  BY <1>1 DEF Top
<1>3. /\ Under \in Seq(TrapType) /\ Len(Under) = Len(frames) - 1
      /\ \A m \in 1 .. Len(frames) - 1 : Under[m] = frames[m]
  <2>1. 1 \in Int /\ Len(frames) - 1 \in 0 .. Len(frames)
    BY <1>1
  <2> QED
    BY <1>1, <2>1 DEF Under
<1>4. DOMAIN Under = 1 .. Len(frames) - 1
  BY <1>1, <1>3
<1> DEFINE top == [Top EXCEPT !.at = @ + 1]
<1>5. top \in TrapType /\ top.ref = Top.ref
  BY <1>2 DEF TrapType
<1>6. Advanced = Append(Under, top)
  BY DEF Advanced
<1> HIDE DEF top
<1>7. /\ Advanced \in Seq(TrapType) /\ Len(Advanced) = Len(frames)
      /\ Advanced[Len(frames)] = top
      /\ \A m \in 1 .. Len(frames) - 1 : Advanced[m] = Under[m]
  <2>1. /\ Append(Under, top) \in Seq(TrapType)
        /\ Len(Append(Under, top)) = Len(Under) + 1
        /\ Append(Under, top)[Len(Under) + 1] = top
        /\ \A m \in 1 .. Len(Under) : Append(Under, top)[m] = Under[m]
    BY <1>3, <1>5
  <2> QED
    BY <1>1, <1>3, <1>6, <2>1
<1>8. \A m \in DOMAIN frames : Advanced[m] = IF m = Len(frames) THEN top ELSE frames[m]
  BY <1>1, <1>3, <1>7
<1>9. \A m \in DOMAIN frames : Advanced[m].ref = frames[m].ref
  BY <1>5, <1>8 DEF Top
<1>10. Frame(i) \in TrapType
  BY DEF Frame, TrapType
<1>11. DOMAIN Advanced = DOMAIN frames
  BY <1>1, <1>7
<1> DEFINE pushed == Append(Advanced, Frame(i))
<1>12. /\ pushed \in Seq(TrapType) /\ Len(pushed) = Len(frames) + 1
       /\ pushed[Len(frames) + 1] = Frame(i)
       /\ \A m \in 1 .. Len(frames) : pushed[m] = Advanced[m]
  BY <1>1, <1>7, <1>10
<1> HIDE DEF pushed
<1>13. DOMAIN pushed = DOMAIN frames \cup {Len(frames) + 1}
  BY <1>1, <1>12
<1>14. \A m \in DOMAIN frames : pushed[m] = Advanced[m]
  BY <1>1, <1>12
<1>15. \A m \in DOMAIN Under : m \in DOMAIN frames /\ m < Len(frames) /\ Under[m] = frames[m]
  BY <1>1, <1>3, <1>4
<1>16. \A m \in DOMAIN frames : m = Len(frames) \/ m \in DOMAIN Under
  BY <1>1, <1>4
<1> QED
  BY <1>2, <1>3, <1>7, <1>8, <1>9, <1>10, <1>11, <1>12, <1>13, <1>14, <1>15, <1>16
     DEF pushed, top

LEMMA ProxyInitial == ProxyInit => ProxyInv
<1> SUFFICES ASSUME ProxyInit PROVE ProxyInv
  OBVIOUS
<1>1. ProxyTypes
  <2>1. fields = << >> /\ frames = << >> /\ patches = << >> /\ assigned.ref = 0
    BY DEF ProxyInit, None
  <2>2. << >> \in Seq(Values) /\ << >> \in Seq(TrapType) /\ << >> \in Seq(Nat)
    OBVIOUS
  <2>3. overflow \in BOOLEAN
    BY DEF ProxyInit
  <2>4. \A m \in DOMAIN frames : frames[m].ref \in DOMAIN fields
    BY <2>1
  <2>5. Len(patches) = Len(fields)
    BY <2>1
  <2> QED
    BY <2>1, <2>2, <2>3, <2>4, <2>5 DEF ProxyTypes
<1>2. FirstTrap /\ TrappedOnce
  BY DEF ProxyInit, FirstTrap, OneValue, Over, TrappedOnce, None
<1> QED
  BY <1>1, <1>2 DEF ProxyInv

LEMMA RegisterKeeps ==
  ASSUME ProxyInv, NEW v \in Values, Register(v)
  PROVE  ProxyInv'
<1>1. /\ frames = << >> /\ frames' = frames /\ overflow' = overflow /\ assigned'.ref = 0
      /\ fields' \in Seq(Values) /\ patches' \in Seq(Nat) /\ Len(patches') = Len(fields')
  BY DEF ProxyInv, ProxyTypes, Register, None
<1>2. ProxyTypes'
  BY <1>1 DEF ProxyInv, ProxyTypes
<1>3. FirstTrap' /\ TrappedOnce'
  BY <1>1 DEF FirstTrap, OneValue, Over, TrappedOnce
<1> QED
  BY <1>2, <1>3 DEF ProxyInv

\* Assignments start with the trap of the proxy they are made to.
LEMMA AssignKeeps ==
  ASSUME ProxyInv, NEW i \in DOMAIN fields, NEW v \in Values, Assign(i, v)
  PROVE  ProxyInv'
<1>1. /\ fields' = [fields EXCEPT ![i] = v]
      /\ frames' = <<Frame(i)>>
      /\ assigned' = [ref |-> i, value |-> v, before |-> fields]
      /\ patches' = [j \in DOMAIN fields |-> 0]
      /\ overflow' = FALSE
      /\ fields \in Seq(Values)
  BY DEF ProxyInv, ProxyTypes, Assign
<1>2. DOMAIN fields = 1 .. Len(fields) /\ Len(fields) \in Nat /\ i \in Nat \ {0}
  BY <1>1
<1>3. /\ fields' \in Seq(Values) /\ Len(fields') = Len(fields) /\ DOMAIN fields' = DOMAIN fields
      /\ fields'[i] = v /\ \A j \in DOMAIN fields : j # i => fields'[j] = fields[j]
  BY <1>1, <1>2
<1>4. patches' \in Seq(Nat) /\ Len(patches') = Len(fields)
  BY <1>1, <1>2
<1>5. /\ frames' \in Seq(TrapType) /\ frames' # << >> /\ DOMAIN frames' = {1}
      /\ frames'[1].ref = i /\ frames'[1].at = 1
  BY <1>1, <1>2 DEF Frame, TrapType
<1>6. assigned'.ref = i /\ assigned'.value = v /\ assigned'.before = fields
  BY <1>1
<1>7. ProxyTypes'
  BY <1>1, <1>2, <1>3, <1>4, <1>5, <1>6 DEF ProxyTypes
<1>8. FirstTrap'
  BY <1>2, <1>3, <1>5 DEF FirstTrap, OneValue, Over
<1>9. \A j \in DOMAIN fields : Trapped(j)' <=> j = i
  BY <1>5 DEF Trapped
<1>10. TrappedOnce'
  <2>1. \A m, n \in DOMAIN frames' : frames'[m].ref = frames'[n].ref => m = n
    BY <1>5
  <2>2. ASSUME NEW j \in DOMAIN fields'
        PROVE  /\ patches'[j] \in {0, 1}
               /\ Trapped(j)' => patches'[j] = 0
               /\ Trapped(j)' \/ patches'[j] = 1 => fields'[j] = assigned'.value /\ Target(j)'
               /\ fields'[j] = assigned'.value /\ Target(j)' => Trapped(j)' \/ patches'[j] = 1
               /\ fields'[j] # assigned'.value => fields'[j] = assigned'.before[j]
    <3>1. patches'[j] = 0
      BY <1>1, <1>3
    <3>2. Target(j)' <=> (j = i \/ fields[j] # v)
      BY <1>6 DEF Target
    <3> QED
      BY <1>3, <1>6, <1>9, <3>1, <3>2
  <2> QED
    BY <1>3, <1>6, <2>1, <2>2 DEF TrappedOnce
<1> QED
  BY <1>7, <1>8, <1>10 DEF ProxyInv

\* What the trap on top of the stack does to one proxy, or leaves to the try around it.
LEMMA VisitKeeps ==
  ASSUME ProxyInv, Visit \/ VisitOverflows
  PROVE  ProxyInv'
<1> DEFINE i == Top.at
<1> DEFINE val == assigned.value
<1>1. /\ frames \in Seq(TrapType) /\ frames # << >> /\ fields \in Seq(Values)
      /\ assigned.ref # 0 /\ assigned' = assigned /\ patches' = patches
      /\ Top.at <= Len(fields) /\ val \in Values
  BY DEF ProxyInv, ProxyTypes, Visit, VisitOverflows, Visiting
<1>2. i \in Nat \ {0} /\ Top \in TrapType /\ Len(frames) \in Nat \ {0}
  <2>1. Top \in TrapType
    BY <1>1, StackSpec, 1 \in Nat \ {0}
  <2> QED
    BY <1>1, <2>1 DEF TrapType
<1>3. i \in DOMAIN fields /\ DOMAIN fields = 1 .. Len(fields) /\ Len(fields) \in Nat
  BY <1>1, <1>2
<1>4. /\ fields' \in Seq(Values) /\ Len(fields') = Len(fields) /\ DOMAIN fields' = DOMAIN fields
      /\ \A j \in DOMAIN fields : fields'[j] = fields[j] \/ (j = i /\ fields'[j] = val)
  <2>1. fields' = fields \/ fields' = [fields EXCEPT ![i] = val]
    BY DEF Visit, VisitOverflows
  <2> QED
    BY <1>1, <1>3, <2>1
<1>5. /\ Advanced \in Seq(TrapType) /\ DOMAIN Advanced = DOMAIN frames
      /\ \A m \in DOMAIN frames : Advanced[m].ref = frames[m].ref
      /\ \A m \in DOMAIN frames :
           Advanced[m] = IF m = Len(frames) THEN [Top EXCEPT !.at = @ + 1] ELSE frames[m]
      /\ 1 \in DOMAIN frames /\ DOMAIN frames = 1 .. Len(frames)
  BY <1>1, <1>2, StackSpec
<1>6. /\ Append(Advanced, Frame(i)) \in Seq(TrapType)
      /\ DOMAIN Append(Advanced, Frame(i)) = DOMAIN frames \cup {Len(frames) + 1}
      /\ \A m \in DOMAIN frames : Append(Advanced, Frame(i))[m] = Advanced[m]
      /\ Append(Advanced, Frame(i))[Len(frames) + 1] = Frame(i)
  BY <1>1, <1>2, StackSpec
\* Either a trap is put on the stack, for a proxy that shows another value, or none is.
<1>7. \/ /\ frames' = Append(Advanced, Frame(i)) /\ fields[i] # val /\ fields'[i] = val
         /\ overflow' = overflow
      \/ /\ frames' = Advanced /\ fields[i] = val /\ fields' = fields /\ overflow' = overflow
      \/ frames' = Advanced /\ fields[i] # val /\ overflow' = TRUE /\ Len(frames) = StackLimit
  BY <1>1, <1>3 DEF Visit, VisitOverflows
<1> HIDE DEF i, val
<1>8. /\ frames' \in Seq(TrapType) /\ frames' # << >>
      /\ \A m \in DOMAIN frames : m \in DOMAIN frames' /\ frames'[m] = Advanced[m]
                                  /\ frames'[m].ref = frames[m].ref
      /\ \A m \in DOMAIN frames' :
           \/ m \in DOMAIN frames
           \/ /\ m = Len(frames) + 1 /\ frames'[m].ref = i
              /\ fields[i] # val /\ fields'[i] = val
  <2>1. Frame(i).ref = i
    BY DEF Frame
  <2>2. CASE frames' = Append(Advanced, Frame(i)) /\ fields[i] # val /\ fields'[i] = val
    BY <1>5, <1>6, <2>1, <2>2
  <2>3. CASE frames' = Advanced
    BY <1>5, <2>3
  <2> QED
    BY <1>7, <2>2, <2>3
<1>9. ProxyTypes'
  BY <1>1, <1>3, <1>4, <1>7, <1>8 DEF ProxyInv, ProxyTypes
<1>10. FirstTrap'
  <2> SUFFICES ASSUME NEW j \in DOMAIN fields, j < frames'[1].at
               PROVE  fields'[j] = val
    BY <1>1, <1>4, <1>8 DEF FirstTrap, OneValue, Over, val
  <2>1. CASE j < frames[1].at
    BY <1>1, <1>4, <2>1 DEF ProxyInv, FirstTrap, val
  <2>2. CASE ~(j < frames[1].at)
    <3>1. frames'[1] # frames[1] /\ frames'[1] = Advanced[1]
      BY <1>5, <1>8, <2>2
    <3>2. Len(frames) = 1 /\ frames'[1] = [Top EXCEPT !.at = @ + 1] /\ frames[1] = Top
      BY <1>5, <3>1 DEF Top
    <3>3. frames'[1].at = i + 1 /\ frames[1].at = i
      BY <1>2, <3>2 DEF TrapType, i
    <3>4. j = i
      BY <1>2, <1>3, <2>2, <3>3
    <3>5. Len(frames) # StackLimit
      BY <3>2, ProxyBounds
    <3> QED
      BY <1>7, <3>4, <3>5
  <2> QED
    BY <2>1, <2>2
<1>11. \A j \in DOMAIN fields : /\ Trapped(j) => Trapped(j)'
                                /\ Target(j)' <=> Target(j)
                                /\ Trapped(j)' => \/ Trapped(j)
                                                  \/ /\ j = i /\ fields[i] # val
                                                     /\ fields'[i] = val
  BY <1>1, <1>8 DEF Trapped, Target
<1>12. TrappedOnce'
  <2>1. TrappedOnce
    BY DEF ProxyInv
  <2>2. ASSUME NEW m \in DOMAIN frames', NEW n \in DOMAIN frames',
               frames'[m].ref = frames'[n].ref
        PROVE  m = n
    <3>1. ASSUME NEW l \in DOMAIN frames, frames[l].ref = i
          PROVE  fields[i] = val
      BY <1>1, <1>3, <2>1, <3>1 DEF TrappedOnce, Trapped, val
    <3> QED
      BY <1>1, <1>8, <2>1, <2>2, <3>1 DEF TrappedOnce
  <2>3. ASSUME NEW j \in DOMAIN fields
        PROVE  /\ patches[j] \in {0, 1}
               /\ Trapped(j)' => patches[j] = 0
               /\ Trapped(j)' \/ patches[j] = 1 => fields'[j] = val /\ Target(j)
               /\ fields'[j] = val /\ Target(j) /\ (j = assigned.ref \/ ~overflow') =>
                    Trapped(j)' \/ patches[j] = 1
               /\ fields'[j] # val => fields'[j] = assigned.before[j]
    <3>1. /\ patches[j] \in {0, 1}
          /\ Trapped(j) => patches[j] = 0
          /\ Trapped(j) \/ patches[j] = 1 => fields[j] = val /\ Target(j)
          /\ fields[j] = val /\ Target(j) /\ (j = assigned.ref \/ ~overflow) =>
               Trapped(j) \/ patches[j] = 1
          /\ fields[j] # val => fields[j] = assigned.before[j]
      BY <1>1, <2>1 DEF TrappedOnce, val
    <3>2. fields[j] # val => Target(j)
      BY <3>1 DEF Target, val
    <3>3. fields[j] = val => fields'[j] = val
      BY <1>4
    <3>5. fields[assigned.ref] = val
      BY <1>1, <2>1 DEF TrappedOnce, val
    <3>6. ASSUME fields[j] # val, fields'[j] = val, j = assigned.ref \/ ~overflow'
          PROVE  Trapped(j)'
      <4>1. j = i
        BY <1>4, <3>6
      <4>2. CASE frames' = Append(Advanced, Frame(i))
        <5>1. frames'[Len(frames) + 1].ref = i /\ Len(frames) + 1 \in DOMAIN frames'
          BY <1>6, <4>2 DEF Frame
        <5> QED
          BY <4>1, <5>1 DEF Trapped
      <4>3. CASE overflow' = TRUE
        BY <3>5, <3>6, <4>3
      <4> QED
        BY <1>7, <3>6, <4>1, <4>2, <4>3
    <3> QED
      BY <1>4, <1>7, <1>11, <3>1, <3>2, <3>3, <3>6
  <2>4. fields'[assigned.ref] = val
    BY <1>1, <1>4, <2>1 DEF ProxyInv, ProxyTypes, TrappedOnce, val
  <2> QED
    BY <1>1, <1>4, <1>11, <2>2, <2>3, <2>4 DEF TrappedOnce, val
<1> QED
  BY <1>9, <1>10, <1>12 DEF ProxyInv

\* A trap ends with its field patch; the first one, with the assignment.
LEMMA ReturnKeeps ==
  ASSUME ProxyInv, Return
  PROVE  ProxyInv'
<1>0. PICK i : i = Top.ref
  OBVIOUS
<1>1. /\ frames \in Seq(TrapType) /\ frames # << >> /\ fields \in Seq(Values)
      /\ assigned.ref # 0 /\ Top.at > Len(fields)
      /\ patches \in Seq(Nat) /\ Len(patches) = Len(fields)
      /\ patches' = [patches EXCEPT ![i] = @ + 1] /\ frames' = Under
      /\ UNCHANGED <<fields, assigned, overflow>>
  BY <1>0 DEF ProxyInv, ProxyTypes, Return
<1>2. /\ Top \in TrapType /\ Top = frames[Len(frames)] /\ Len(frames) \in DOMAIN frames
      /\ Under \in Seq(TrapType) /\ Len(Under) = Len(frames) - 1
      /\ \A m \in DOMAIN Under : m \in DOMAIN frames /\ m < Len(frames) /\ Under[m] = frames[m]
      /\ \A m \in DOMAIN frames : m = Len(frames) \/ m \in DOMAIN Under
  BY <1>1, StackSpec, 1 \in Nat \ {0} DEF Top
<1>3. i \in DOMAIN fields
  BY <1>0, <1>1, <1>2 DEF ProxyInv, ProxyTypes
<1>4. /\ patches' \in Seq(Nat) /\ Len(patches') = Len(fields)
      /\ \A j \in DOMAIN fields : patches'[j] = IF j = i THEN patches[j] + 1 ELSE patches[j]
  BY <1>1, <1>3
<1>5. ProxyTypes'
  BY <1>1, <1>2, <1>4 DEF ProxyInv, ProxyTypes
<1>6. FirstTrap'
  <2>1. CASE Len(frames) = 1
    <3>1. frames' = << >> /\ frames[1].at > Len(fields)
      BY <1>1, <1>2, <2>1
    <3>2. frames[1].at \in Nat
      BY <1>2, <2>1 DEF TrapType
    <3>3. \A j \in DOMAIN fields : fields[j] = assigned.value
      BY <1>1, <3>1, <3>2 DEF ProxyInv, FirstTrap
    <3> QED
      BY <1>1, <3>1, <3>3 DEF FirstTrap, OneValue, Over
  <2>2. CASE Len(frames) # 1
    <3>1. frames' # << >> /\ frames'[1] = frames[1]
      BY <1>1, <1>2, <2>2
    <3> QED
      BY <1>1, <3>1 DEF ProxyInv, FirstTrap, OneValue, Over
  <2> QED
    BY <2>1, <2>2
<1>7. TrappedOnce'
  <2>1. TrappedOnce
    BY DEF ProxyInv
  <2>2. \A m, n \in DOMAIN frames' : frames'[m].ref = frames'[n].ref => m = n
    BY <1>1, <1>2, <2>1 DEF TrappedOnce
  <2>3. Trapped(i)
    BY <1>0, <1>2 DEF Trapped
  <2>4. ~Trapped(i)'
    <3> SUFFICES ASSUME NEW m \in DOMAIN Under, Under[m].ref = i PROVE FALSE
      BY <1>1 DEF Trapped
    <3>1. m \in DOMAIN frames /\ m < Len(frames) /\ frames[m].ref = frames[Len(frames)].ref
      BY <1>0, <1>2
    <3>2. m = Len(frames)
      BY <1>1, <1>2, <2>1, <3>1 DEF TrappedOnce
    <3> QED
      BY <1>1, <3>1, <3>2
  <2>5. \A j \in DOMAIN fields : j # i => (Trapped(j)' <=> Trapped(j))
    BY <1>0, <1>1, <1>2 DEF Trapped
  <2>6. \A j \in DOMAIN fields : Target(j)' <=> Target(j)
    BY <1>1 DEF Target
  <2>7. patches[i] = 0 /\ fields[i] = assigned.value /\ Target(i)
    BY <1>1, <1>3, <2>1, <2>3 DEF TrappedOnce
  <2>8. ASSUME NEW j \in DOMAIN fields
        PROVE  /\ patches'[j] \in {0, 1}
               /\ Trapped(j)' => patches'[j] = 0
               /\ Trapped(j)' \/ patches'[j] = 1 => fields[j] = assigned.value /\ Target(j)
               /\ fields[j] = assigned.value /\ Target(j)
                    /\ (j = assigned.ref \/ ~overflow) => Trapped(j)' \/ patches'[j] = 1
               /\ fields[j] # assigned.value => fields[j] = assigned.before[j]
    <3>1. CASE j = i
      BY <1>4, <2>4, <2>7, <3>1
    <3>2. CASE j # i
      BY <1>1, <1>4, <2>1, <2>5, <3>2 DEF TrappedOnce
    <3> QED
      BY <3>1, <3>2
  <2>9. fields[assigned.ref] = assigned.value
    BY <1>1, <2>1 DEF TrappedOnce
  <2> QED
    BY <1>1, <2>2, <2>6, <2>8, <2>9 DEF TrappedOnce
<1> QED
  BY <1>5, <1>6, <1>7 DEF ProxyInv

LEMMA ProxyInvariant == ProxySpec => []ProxyInv
<1>1. ProxyInv /\ [ProxyNext]_proxyVars => ProxyInv'
  <2> SUFFICES ASSUME ProxyInv, [ProxyNext]_proxyVars PROVE ProxyInv'
    OBVIOUS
  <2>1. CASE UNCHANGED proxyVars
    BY <2>1 DEF proxyVars, ProxyInv, ProxyTypes, FirstTrap, OneValue, Over, TrappedOnce, Trapped,
                Target
  <2> QED
    BY <2>1, RegisterKeeps, AssignKeeps, VisitKeeps, ReturnKeeps DEF ProxyNext
<1> QED
  BY <1>1, ProxyInitial, PTL DEF ProxySpec

\* Whatever number of proxies there is, and wherever the stack ends, an assignment leaves one
\* value on all of them.
THEOREM ProxiesAgree == ProxySpec => []OneValue
<1>1. ProxyInv => OneValue
  BY DEF ProxyInv, FirstTrap
<1> QED
  BY <1>1, ProxyInvariant, PTL

\* The traps that go through all the proxies for each other set each of them at most once.
THEOREM ProxiesPatchOnce == ProxySpec => []PatchedOnce
<1>1. ProxyInv => PatchedOnce
  <2> SUFFICES ASSUME ProxyInv, Over, NEW j \in DOMAIN fields
               PROVE  /\ patches[j] <= IF Target(j) THEN 1 ELSE 0
                      /\ Target(j) /\ (j = assigned.ref \/ ~overflow) => patches[j] = 1
    BY DEF PatchedOnce, Target
  <2>1. ~Trapped(j)
    BY DEF Over, Trapped
  <2>2. fields[j] = assigned.value
    BY DEF ProxyInv, FirstTrap, OneValue
  <2>3. /\ patches[j] \in {0, 1}
        /\ patches[j] = 1 => Target(j)
        /\ Target(j) /\ (j = assigned.ref \/ ~overflow) => patches[j] = 1
    BY <2>1, <2>2 DEF ProxyInv, TrappedOnce, Over
  <2> QED
    BY <2>3
<1> QED
  BY <1>1, ProxyInvariant, PTL
=============================================================================
