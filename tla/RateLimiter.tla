---------------------------- MODULE RateLimiter -----------------------------
(***************************************************************************)
(* The token bucket in front of POST /api/guard/request, one per address.  *)
(* Tokens are counted in parts, so that the fractions the refill adds are  *)
(* whole numbers.  Buckets live in the process and are never removed.      *)
(***************************************************************************)
EXTENDS Clock, Sequences

CONSTANTS Addresses,
          Capacity,      \* RATE_LIMIT_CAPACITY
          Parts,         \* parts of a token
          Refill         \* RATE_LIMIT_REFILL_PER_SEC, in parts per tick

ASSUME RateAssumption ==
  /\ Capacity \in Nat
  /\ Parts \in Nat \ {0}
  /\ Refill \in Nat

VARIABLES buckets,       \* the addresses that have a bucket
          tokens,        \* parts left in the bucket
          last,          \* time of the last refill
          admits         \* history: the bucket's time at each request admitted

rateVars == <<buckets, tokens, last, admits>>

Full == Capacity * Parts

RateInit ==
  /\ buckets = {}
  /\ tokens = [a \in Addresses |-> 0]
  /\ last = [a \in Addresses |-> 0]
  /\ admits = [a \in Addresses |-> <<>>]

Lesser(m, n) == IF m < n THEN m ELSE n

\* Nothing is added, and last stays, while the clock is not past last.
Behind(a) == a \in buckets /\ clock <= last[a]

\* A bug this code could have had: an idle address saves up without limit.
RefilledUncapped(a) ==
  IF a \notin buckets THEN Full
  ELSE IF Behind(a) THEN tokens[a]
  ELSE tokens[a] + (clock - last[a]) * Refill

Refilled(a) ==
  IF a \notin buckets THEN Full
  ELSE IF Behind(a) THEN tokens[a]
  ELSE Lesser(Full, tokens[a] + (clock - last[a]) * Refill)
\* Another: last follows a clock that goes back, so time is paid for twice.
RefilledAtClock(a) == clock

RefilledAt(a) == IF Behind(a) THEN last[a] ELSE clock

Look(a) ==
  /\ buckets' = buckets \cup {a}
  /\ last' = [last EXCEPT ![a] = RefilledAt(a)]

Admitted(a) ==
  /\ Refilled(a) >= Parts
  /\ Look(a)
  /\ tokens' = [tokens EXCEPT ![a] = Refilled(a) - Parts]
  /\ admits' = [admits EXCEPT ![a] = Append(@, RefilledAt(a))]

Limited(a) ==
  /\ Refilled(a) < Parts
  /\ Look(a)
  /\ tokens' = [tokens EXCEPT ![a] = Refilled(a)]
  /\ UNCHANGED admits

GuardRequest(a) == Admitted(a) \/ Limited(a)

RateNext ==
  \/ \E a \in Addresses : GuardRequest(a) /\ UNCHANGED <<clock, setBack>>
  \/ (Elapse \/ SetBack) /\ UNCHANGED rateVars

RateSpec == ClockInit /\ RateInit /\ [][RateNext]_<<clock, setBack, rateVars>>

-----------------------------------------------------------------------------
RateTypeOK ==
  /\ ClockType
  /\ buckets \subseteq Addresses
  /\ tokens \in [Addresses -> 0 .. Full]
  /\ last \in [Addresses -> Nat]
  /\ admits \in [Addresses -> Seq(Nat)]

\* However the clock runs, no stretch of time admits more requests of an
\* address than a full bucket and the refill of that stretch pay for.
RateBound ==
  \A a \in Addresses : \A j \in DOMAIN admits[a] : \A i \in 1 .. j :
    (j - i + 1) * Parts <= Full + Refill * (admits[a][j] - admits[a][i])
=============================================================================
