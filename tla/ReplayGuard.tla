---------------------------- MODULE ReplayGuard -----------------------------
(***************************************************************************)
(* How POST /api/slack/interactions decides whether to handle a signed     *)
(* delivery: its timestamp must be within the accepted skew, and its       *)
(* (timestamp, signature) pair must not be among those seen.  Slack sends  *)
(* a delivery again when it got no answer, and its clock may differ from   *)
(* the server's by a bounded drift.                                        *)
(***************************************************************************)
EXTENDS Clock, Sequences

CONSTANTS Deliveries,    \* signed bodies
          Skew,          \* accepted age of a timestamp in seconds, 300 in the code
          Ttl,           \* time an entry is kept, in seconds, 300 in the code
          Drift          \* how far Slack's clock may be from the server's, in seconds

ASSUME ReplayAssumption ==
  /\ Skew \in Nat
  /\ Ttl \in Nat
  /\ Skew <= Ttl
  /\ Drift \in Nat

VARIABLES signed,        \* timestamp of a delivery Slack has signed, 0 before
          seen,          \* delivery -> time its entry expires
          handled        \* history: the times a delivery passed the guard

replayVars == <<signed, seen, handled>>

Sec(t) == t \div TicksPerSec
Within(m, n, d) == m - n <= d /\ n - m <= d

ReplayInit ==
  /\ signed = [d \in Deliveries |-> 0]
  /\ seen = << >>
  /\ handled = [d \in Deliveries |-> << >>]

Sign(d) ==
  /\ signed[d] = 0
  /\ \E ts \in 1 .. Sec(clock) + Drift :
       /\ Within(ts, Sec(clock), Drift)
       /\ signed' = [signed EXCEPT ![d] = ts]
  /\ UNCHANGED <<seen, handled>>

\* A bug this code could have had: an entry lasts from the second its delivery
\* was signed in, not from when it was seen.
KeptFromTimestamp == {k \in DOMAIN seen : (signed[k] + Ttl) * TicksPerSec > clock}

Kept == {k \in DOMAIN seen : seen[k] > clock}
Swept == [k \in Kept |-> seen[k]]

\* The timer of the guard, once a minute.
Sweep ==
  /\ Kept # DOMAIN seen
  /\ seen' = Swept
  /\ UNCHANGED <<signed, handled>>

Fresh(d) == signed[d] # 0 /\ Within(Sec(clock), signed[d], Skew)

\* An unknown pair is remembered and its delivery handled.
Handle(d) ==
  /\ Fresh(d)
  /\ d \notin Kept
  /\ seen' = [k \in Kept \cup {d} |->
                IF k = d THEN clock + Ttl * TicksPerSec ELSE seen[k]]
  /\ handled' = [handled EXCEPT ![d] = Append(@, clock)]
  /\ UNCHANGED signed

\* A known one is answered replay_detected.
Replayed(d) ==
  /\ Fresh(d)
  /\ d \in Kept
  /\ seen' = Swept
  /\ UNCHANGED <<signed, handled>>

Deliver(d) == Handle(d) \/ Replayed(d)

ReplayNext ==
  \/ /\ Sweep \/ \E d \in Deliveries : Sign(d) \/ Deliver(d)
     /\ UNCHANGED <<clock, setBack>>
  \/ (Elapse \/ SetBack) /\ UNCHANGED replayVars

ReplaySpec == ClockInit /\ ReplayInit /\ [][ReplayNext]_<<clock, setBack, replayVars>>

-----------------------------------------------------------------------------
\* While the clock is not set back, a delivery first handled after the second
\* it was signed in is never handled again, and any other only after the whole
\* time an entry is kept.
HandledOnce ==
  \A d \in Deliveries : ~setBack =>
    /\ \A i \in 2 .. Len(handled[d]) :
         handled[d][i] - handled[d][i - 1] >= Ttl * TicksPerSec
    /\ Len(handled[d]) > 1 => Sec(handled[d][1]) <= signed[d]
=============================================================================
