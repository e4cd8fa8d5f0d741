---------------------------- MODULE LiveProxies -----------------------------
(***************************************************************************)
(* One assignment to a field of a request that the Redis store has read:   *)
(* the set trap of the proxy, step by step.  Every read leaves a proxy in  *)
(* liveRefs.  The trap goes through them all and sets the field on those   *)
(* that show another value, whose traps do the same in their turn, and     *)
(* queues a field patch of its own at its end.  So traps call each other   *)
(* as deep as there are proxies to set, and where the stack ends the try   *)
(* around the assignment goes on with the next proxy.  (RedisStore takes   *)
(* an assignment as one step, with the patches it queues.)                 *)
(***************************************************************************)
EXTENDS Integers, Sequences

CONSTANTS
  Values,       \* of the field
  MaxProxies,   \* bound on the proxies of the request
  StackLimit    \* traps that can be under way before the stack is full

\* A trap and one that it calls fit on the stack.
ASSUME ProxyBounds == MaxProxies \in Nat /\ StackLimit \in Nat \ {0, 1}

VARIABLES
  fields,     \* the field of each proxy, in the order of liveRefs
  frames,     \* the traps under way, the innermost last, and the proxy each looks at next
  assigned,   \* the last assignment: the proxy, the value, and the fields before it
  patches,    \* field patches each proxy has queued for it
  overflow    \* the stack was full during it

proxyVars == <<fields, frames, assigned, patches, overflow>>

None == [ref |-> 0, value |-> CHOOSE v \in Values : TRUE, before |-> <<>>]
Frame(i) == [ref |-> i, at |-> 1]
Top == frames[Len(frames)]
Under == SubSeq(frames, 1, Len(frames) - 1)

ProxyInit ==
  /\ fields = <<>>
  /\ frames = <<>>
  /\ assigned = None
  /\ patches = <<>>
  /\ overflow = FALSE

\* getRequest: registerLive.
Register(v) ==
  /\ frames = <<>>
  /\ Len(fields) < MaxProxies
  /\ fields' = Append(fields, v)
  /\ assigned' = None
  /\ patches' = Append(patches, 0)
  /\ UNCHANGED <<frames, overflow>>

\* A handler or the store sets the field of a proxy.
Assign(i, v) ==
  /\ frames = <<>>
  /\ fields' = [fields EXCEPT ![i] = v]
  /\ frames' = <<Frame(i)>>
  /\ assigned' = [ref |-> i, value |-> v, before |-> fields]
  /\ patches' = [j \in DOMAIN fields |-> 0]
  /\ overflow' = FALSE

\* The trap looks at its next proxy.
Visiting == frames # <<>> /\ Top.at <= Len(fields)
Advanced == Append(Under, [Top EXCEPT !.at = @ + 1])

\* It sets the proxy whatever it shows.
VisitAny ==
  /\ Visiting
  /\ IF Len(frames) < StackLimit
     THEN /\ fields' = [fields EXCEPT ![Top.at] = assigned.value]
          /\ frames' = Append(Advanced, Frame(Top.at))
          /\ UNCHANGED overflow
     ELSE frames' = Advanced /\ overflow' = TRUE /\ UNCHANGED fields
  /\ UNCHANGED <<assigned, patches>>

\* The proxy shows the value, or it is set, ...
Visit ==
  /\ Visiting
  /\ IF fields[Top.at] = assigned.value
     THEN frames' = Advanced /\ UNCHANGED fields
     ELSE /\ Len(frames) < StackLimit
          /\ fields' = [fields EXCEPT ![Top.at] = assigned.value]
          /\ frames' = Append(Advanced, Frame(Top.at))
  /\ UNCHANGED <<assigned, patches, overflow>>

\* The stack is full, and nothing catches it.
VisitOverflowsUncaught ==
  /\ Visiting
  /\ fields[Top.at] # assigned.value
  /\ Len(frames) = StackLimit
  /\ frames' = <<>>
  /\ fields' \in {fields, [fields EXCEPT ![Top.at] = assigned.value]}
  /\ overflow' = TRUE
  /\ UNCHANGED <<assigned, patches>>

\* ... or the stack is full, before its trap has set the field or after.
VisitOverflows ==
  /\ Visiting
  /\ fields[Top.at] # assigned.value
  /\ Len(frames) = StackLimit
  /\ frames' = Advanced
  /\ fields' \in {fields, [fields EXCEPT ![Top.at] = assigned.value]}
  /\ overflow' = TRUE
  /\ UNCHANGED <<assigned, patches>>

\* The end of a trap: queueMicrotask.
Return ==
  /\ frames # <<>> /\ Top.at > Len(fields)
  /\ patches' = [patches EXCEPT ![Top.ref] = @ + 1]
  /\ frames' = Under
  /\ UNCHANGED <<fields, assigned, overflow>>

ProxyNext ==
  \/ \E v \in Values : Register(v)
  \/ \E i \in DOMAIN fields, v \in Values : Assign(i, v)
  \/ Visit \/ VisitOverflows \/ Return

ProxySpec == ProxyInit /\ [][ProxyNext]_proxyVars

-----------------------------------------------------------------------------
(* Properties *)

Over == frames = <<>> /\ assigned.ref # 0

\* Who has the value when an assignment is over: every proxy of the request, although the try
\* around each of them swallows what went wrong, a full stack included.
OneValue == Over => \A j \in DOMAIN fields : fields[j] = assigned.value

\* The assignment comes to rest without having set a proxy twice, although every trap goes through
\* all the proxies again: the one assigned to queues one field patch, each of the others that
\* showed another value queues one too, or none where the stack was full, and nobody else any.
PatchedOnce ==
  Over => \A j \in DOMAIN fields :
    LET set == j = assigned.ref \/ assigned.before[j] # assigned.value
    IN  /\ patches[j] <= IF set THEN 1 ELSE 0
        /\ set /\ (j = assigned.ref \/ ~overflow) => patches[j] = 1
=============================================================================
