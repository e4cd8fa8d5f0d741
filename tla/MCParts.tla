------------------------------ MODULE MCParts -------------------------------
(***************************************************************************)
(* A small instance of five small parts of the service: the three guards   *)
(* in front of the request handlers, the queue of Slack updates, and the   *)
(* live proxies of the Redis store.  They share nothing but the clock, so  *)
(* a behaviour of the run moves one of them, chosen in its initial state,  *)
(* and leaves the others alone.                                            *)
(***************************************************************************)
EXTENDS RateLimiter, ReplayGuard, Overrides, SlackQueue, LiveProxies, TLC

CONSTANTS a1, d1, u1, u2, k1, k2, m1, m2

VARIABLE part

others == <<part, clock, setBack>>

Init ==
  /\ ClockInit
  /\ RateInit
  /\ ReplayInit
  /\ OverridesInit
  /\ QueueInit
  /\ ProxyInit
  /\ part \in {"rate", "replay", "overrides", "queue", "proxies"}
  /\ part # "overrides" => status = "ready_for_approval" /\ schemaFile = << >>

Next ==
  \/ /\ part = "rate" /\ RateNext
     /\ UNCHANGED <<part, replayVars, overrideVars, queueVars, proxyVars>>
  \/ /\ part = "replay" /\ ReplayNext
     /\ UNCHANGED <<part, rateVars, overrideVars, queueVars, proxyVars>>
  \/ /\ part = "overrides" /\ OverridesNext
     /\ UNCHANGED <<others, rateVars, replayVars, queueVars, proxyVars>>
  \/ /\ part = "queue" /\ QueueNext
     /\ UNCHANGED <<others, rateVars, replayVars, overrideVars, proxyVars>>
  \/ /\ part = "proxies" /\ ProxyNext
     /\ UNCHANGED <<others, rateVars, replayVars, overrideVars, queueVars>>

Spec ==
  /\ Init
  /\ [][Next]_<<others, rateVars, replayVars, overrideVars, queueVars, proxyVars>>
  /\ QueueFairness

-----------------------------------------------------------------------------
FormTexts == {"7", "07", "x"}
FormCanonical == [t \in {"7", "07"} |-> "7"]
FormNumbers == [t \in {"7", "07"} |-> 7]
FormSizes == [t \in FormTexts |-> IF t = "7" THEN 1 ELSE 2]

\* A numeral kept as text, and a word.
FormParams == (k1 :> [type |-> "string", text |-> "7"]) @@ (k2 :> [type |-> "string", text |-> "x"])

AnyProperty == [type |-> "any", enum |-> Value, pattern |-> FormTexts,
                lengths |-> 0 .. 9, range |-> 0 .. 9]

\* No schema, and one with a small range for k1 and no number for k2.
FormSchemas ==
  { << >>,
    (k1 :> [AnyProperty EXCEPT !.range = 0 .. 5]) @@
    (k2 :> [AnyProperty EXCEPT !.type = "string", !.enum = {Coerce("7"), Coerce("x")}]) }
=============================================================================
