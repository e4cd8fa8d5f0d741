------------------------ MODULE RedisApprovalProofs ------------------------
(***************************************************************************)
(* What becomes of an approval on Redis where one process serves the       *)
(* request.  The process has announced the approval before it is written,  *)
(* and from then on its snapshot makes every record it reads approved.  So *)
(* what it issues restores the decision, and the proof follows that        *)
(* decision along the connection:                                          *)
(*   - the update that writes it has not been read yet, and behind it      *)
(*     nothing takes the decision back (ToUpdate);                         *)
(*   - it has been read, older copies may still be written over it, and a  *)
(*     field patch behind them will find the record approved (ToPatch);    *)
(*   - every write that is left leaves the record approved (Settled).      *)
(* A field patch reads the record as it is stored, without the snapshot,   *)
(* so what matters of a patch is what the last write before it leaves      *)
(* (Sees).                                                                 *)
(*                                                                         *)
(* The last section is about any number of processes: until an approval    *)
(* is announced of a request that one vote decides, with a voter of its    *)
(* own, no command carries one, no snapshot shows one, and no copy has     *)
(* another quorum (Ground).                                                *)
(***************************************************************************)
EXTENDS RedisStoreProofs

-----------------------------------------------------------------------------
(* The approval: what a connection carries of it                           *)

Writes(c)    == c.op \in {"set", "setPersona"}
Left(rec, c) == IF Writes(c) THEN c.record ELSE rec

Approved(r) == r.status = "approved" /\ r.decided_at /\ r.approvals_count = 1
Decision    == <<Status("approved"), Count(1), Decided>>
Helpful     == {Count(1), Status("approved"), Decided}

\* Command i of connection t will find an approved record: the last write before it, or else
\* the stored record, is approved.
Sees(rec, t, i) ==
  /\ (\A j \in 1 .. i - 1 : ~Writes(t[j])) => Approved(rec)
  /\ \A j \in 1 .. i - 1 :
       Writes(t[j]) /\ (\A l \in j + 1 .. i - 1 : ~Writes(t[l])) => Approved(t[j].record)

\* From command k on, no update undoes the decision, and no field patch does.
NoUndoing(t, k) ==
  \A j \in k .. Len(t) : t[j].op = "updateFields" => t[j].patches \in Seq(Helpful)
PatchesHelp(rec, t, k) ==
  \A j \in k .. Len(t) : t[j].op = "persist" => t[j].patch \in Helpful /\ Sees(rec, t, j)

\* The decision is still to be read by updateFields; it has been written, and a field patch
\* that sees it comes after whatever undoes it; nothing undoes it any more.
ToUpdate(t)       == \E k \in 1 .. Len(t) : t[k] = Update(Decision) /\ NoUndoing(t, k)
ToPatch(rec, t)   == /\ NoUndoing(t, 1)
                     /\ \E k \in 1 .. Len(t) : t[k].op = "persist" /\ PatchesHelp(rec, t, k)
Settled(rec, t)   == NoUndoing(t, 1) /\ PatchesHelp(rec, t, 1) /\ Sees(rec, t, Len(t) + 1)

\* Commands that join the end of a connection.
Clean(cmds) == \A j \in DOMAIN cmds : Writes(cmds[j]) => Approved(cmds[j].record)
Led(cmds)   == \A j \in DOMAIN cmds :
                 cmds[j].op = "persist" =>
                   cmds[j].patch \in Helpful /\ Writes(cmds[1]) /\ Clean(cmds)

LEMMA TailOf ==
  ASSUME NEW X, NEW t \in Seq(X), t # << >>
  PROVE  /\ Tail(t) \in Seq(X) /\ Len(Tail(t)) = Len(t) - 1 /\ Len(t) \in Nat \ {0}
         /\ \A j \in 1 .. Len(t) - 1 : Tail(t)[j] = t[j + 1]
         /\ Head(t) = t[1]
OBVIOUS

LEMMA JoinOf ==
  ASSUME NEW X, NEW t \in Seq(X), NEW cmds \in Seq(X)
  PROVE  /\ t \o cmds \in Seq(X)
         /\ Len(t) \in Nat /\ Len(cmds) \in Nat /\ Len(t \o cmds) = Len(t) + Len(cmds)
         /\ DOMAIN cmds = 1 .. Len(cmds)
         /\ \A j \in 1 .. Len(t) : (t \o cmds)[j] = t[j]
         /\ \A j \in 1 .. Len(cmds) : (t \o cmds)[Len(t) + j] = cmds[j]
         /\ \A j \in Len(t) + 1 .. Len(t) + Len(cmds) :
              j - Len(t) \in 1 .. Len(cmds) /\ (t \o cmds)[j] = cmds[j - Len(t)]
OBVIOUS

\* Executing the head.
LEMMA ShiftSees ==
  ASSUME NEW X, NEW t \in Seq(X), t # << >>, NEW rec, NEW i \in 2 .. Len(t) + 1, Sees(rec, t, i)
  PROVE  Sees(Left(rec, Head(t)), Tail(t), i - 1)
<1> DEFINE u == Tail(t)
<1>1. /\ Len(u) = Len(t) - 1 /\ Len(t) \in Nat \ {0} /\ Head(t) = t[1]
      /\ \A j \in 1 .. Len(t) - 1 : u[j] = t[j + 1]
  BY TailOf
<1> HIDE DEF u
<1>2. \A j \in 1 .. i - 2 : u[j] = t[j + 1] /\ j + 1 \in 1 .. i - 1
  BY <1>1
<1>3. \A l \in 2 .. i - 1 : l - 1 \in 1 .. i - 2 /\ u[l - 1] = t[l]
  BY <1>1
<1>4. ASSUME \A j \in 1 .. i - 2 : ~Writes(u[j])
      PROVE  Approved(Left(rec, Head(t)))
  <2>1. \A l \in 2 .. i - 1 : ~Writes(t[l])
    BY <1>3, <1>4
  <2>2. CASE Writes(t[1])
    BY <1>1, <2>1, <2>2 DEF Sees, Left
  <2>3. CASE ~Writes(t[1])
    <3>1. \A j \in 1 .. i - 1 : ~Writes(t[j])
      BY <2>1, <2>3
    <3> QED
      BY <1>1, <2>3, <3>1 DEF Sees, Left
  <2> QED
    BY <2>2, <2>3
<1>5. ASSUME NEW j \in 1 .. i - 2, Writes(u[j]), \A l \in j + 1 .. i - 2 : ~Writes(u[l])
      PROVE  Approved(u[j].record)
  <2>1. \A l \in j + 2 .. i - 1 : ~Writes(t[l])
    <3> SUFFICES ASSUME NEW l \in j + 2 .. i - 1 PROVE ~Writes(t[l])
      OBVIOUS
    <3>1. l - 1 \in j + 1 .. i - 2 /\ l \in 2 .. i - 1
      OBVIOUS
    <3> QED
      BY <1>3, <1>5, <3>1
  <2>2. j + 1 \in 1 .. i - 1 /\ u[j] = t[j + 1] /\ (j + 1) + 1 = j + 2
    BY <1>2
  <2> QED
    BY <1>5, <2>1, <2>2 DEF Sees
<1>6. (i - 1) - 1 = i - 2
  OBVIOUS
<1> QED
  BY <1>4, <1>5, <1>6 DEF Sees, u

\* Commands joining the end.
LEMMA KeepSees ==
  ASSUME NEW X, NEW t \in Seq(X), NEW cmds \in Seq(X), NEW rec,
         NEW i \in 1 .. Len(t) + 1, Sees(rec, t, i)
  PROVE  Sees(rec, t \o cmds, i)
<1>1. \A j \in 1 .. i - 1 : (t \o cmds)[j] = t[j]
  BY JoinOf
<1>2. \A j \in 1 .. i - 1 : \A l \in j + 1 .. i - 1 : (t \o cmds)[l] = t[l]
  BY <1>1
<1> QED
  BY <1>1, <1>2 DEF Sees

LEMMA FollowSees ==
  ASSUME NEW X, NEW t \in Seq(X), NEW cmds \in Seq(X), NEW rec, Clean(cmds),
         NEW i \in Len(t) + 1 .. Len(t) + Len(cmds) + 1,
         Sees(rec, t, Len(t) + 1) \/ (i > Len(t) + 1 /\ Writes(cmds[1]))
  PROVE  Sees(rec, t \o cmds, i)
<1> DEFINE u == t \o cmds
           n == Len(t)
<1>1. /\ n \in Nat /\ Len(cmds) \in Nat /\ DOMAIN cmds = 1 .. Len(cmds)
      /\ \A j \in 1 .. n : u[j] = t[j]
      /\ \A j \in n + 1 .. n + Len(cmds) : j - n \in 1 .. Len(cmds) /\ u[j] = cmds[j - n]
  BY JoinOf
<1> HIDE DEF u, n
<1>2. i \in n + 1 .. n + Len(cmds) + 1 /\ i \in Nat
  BY <1>1 DEF n
\* When nothing from n + 1 on is a write, the end of t is seen.
<1>3. ASSUME \A l \in n + 1 .. i - 1 : ~Writes(u[l])
      PROVE  Sees(rec, t, n + 1)
  <2> SUFFICES ASSUME i > n + 1, Writes(cmds[1]) PROVE FALSE
    BY DEF n
  <2>1. n + 1 \in n + 1 .. i - 1 /\ n + 1 \in n + 1 .. n + Len(cmds) /\ (n + 1) - n = 1
    BY <1>1, <1>2
  <2>2. u[n + 1] = cmds[1]
    BY <1>1, <2>1
  <2> QED
    BY <1>3, <2>1, <2>2
<1>4. ASSUME \A j \in 1 .. i - 1 : ~Writes(u[j])
      PROVE  Approved(rec)
  <2>1. \A l \in n + 1 .. i - 1 : ~Writes(u[l])
    BY <1>1, <1>4
  <2>2. \A j \in 1 .. n : ~Writes(t[j])
    BY <1>1, <1>2, <1>4
  <2>3. (n + 1) - 1 = n
    BY <1>1
  <2> QED
    BY <1>3, <2>1, <2>2, <2>3 DEF Sees
<1>5. ASSUME NEW j \in 1 .. i - 1, Writes(u[j]), \A l \in j + 1 .. i - 1 : ~Writes(u[l])
      PROVE  Approved(u[j].record)
  <2>1. CASE j > n
    <3>1. j \in n + 1 .. n + Len(cmds)
      BY <1>1, <1>2, <2>1
    <3> QED
      BY <1>1, <1>5, <3>1 DEF Clean
  <2>2. CASE j <= n
    <3>1. \A l \in n + 1 .. i - 1 : ~Writes(u[l])
      BY <1>1, <1>5, <2>2
    <3>2. j \in 1 .. n /\ u[j] = t[j] /\ (n + 1) - 1 = n
      BY <1>1, <2>2
    <3>3. \A l \in j + 1 .. n : ~Writes(t[l])
      <4> SUFFICES ASSUME NEW l \in j + 1 .. n PROVE ~Writes(t[l])
        OBVIOUS
      <4>1. l \in j + 1 .. i - 1 /\ l \in 1 .. n
        BY <1>1, <1>2, <3>2
      <4> QED
        BY <1>1, <1>5, <4>1
    <3> QED
      BY <1>3, <1>5, <3>1, <3>2, <3>3 DEF Sees
  <2> QED
    BY <1>1, <2>1, <2>2
<1> QED
  BY <1>4, <1>5 DEF Sees, u

Moved(k) == IF k = 1 THEN 1 ELSE k - 1

LEMMA ShiftNoUndoing ==
  ASSUME NEW X, NEW t \in Seq(X), t # << >>, NEW k \in 1 .. Len(t) + 1, NoUndoing(t, k)
  PROVE  NoUndoing(Tail(t), Moved(k))
<1> SUFFICES ASSUME NEW j \in Moved(k) .. Len(Tail(t)), Tail(t)[j].op = "updateFields"
             PROVE  Tail(t)[j].patches \in Seq(Helpful)
  BY DEF NoUndoing
<1>1. j + 1 \in k .. Len(t) /\ j \in 1 .. Len(t) - 1
  BY TailOf DEF Moved
<1> QED
  BY <1>1, TailOf DEF NoUndoing

LEMMA ShiftPatches ==
  ASSUME NEW X, NEW t \in Seq(X), t # << >>, NEW rec, NEW k \in 1 .. Len(t) + 1,
         PatchesHelp(rec, t, k)
  PROVE  PatchesHelp(Left(rec, Head(t)), Tail(t), Moved(k))
<1> SUFFICES ASSUME NEW j \in Moved(k) .. Len(Tail(t)), Tail(t)[j].op = "persist"
             PROVE  Tail(t)[j].patch \in Helpful /\ Sees(Left(rec, Head(t)), Tail(t), j)
  BY DEF PatchesHelp
<1>1. /\ j + 1 \in k .. Len(t) /\ j \in 1 .. Len(t) - 1 /\ j + 1 \in 2 .. Len(t) + 1
      /\ (j + 1) - 1 = j
  BY TailOf DEF Moved
<1>2. Tail(t)[j] = t[j + 1]
  BY <1>1, TailOf
<1>3. t[j + 1].patch \in Helpful /\ Sees(rec, t, j + 1)
  BY <1>1, <1>2 DEF PatchesHelp
<1> QED
  BY <1>1, <1>2, <1>3, ShiftSees

LEMMA JoinNoUndoing ==
  ASSUME NEW X, NEW t \in Seq(X), NEW cmds \in Seq(X), NEW k \in 1 .. Len(t) + 1,
         NoUndoing(t, k), NoUndoing(cmds, 1)
  PROVE  NoUndoing(t \o cmds, k)
<1> SUFFICES ASSUME NEW j \in k .. Len(t \o cmds), (t \o cmds)[j].op = "updateFields"
             PROVE  (t \o cmds)[j].patches \in Seq(Helpful)
  BY DEF NoUndoing
<1>1. CASE j <= Len(t)
  <2>1. j \in k .. Len(t) /\ j \in 1 .. Len(t)
    BY <1>1, JoinOf
  <2> QED
    BY <2>1, JoinOf DEF NoUndoing
<1>2. CASE j > Len(t)
  <2>1. j \in Len(t) + 1 .. Len(t) + Len(cmds)
    BY <1>2, JoinOf
  <2> QED
    BY <2>1, JoinOf DEF NoUndoing
<1> QED
  BY <1>1, <1>2, JoinOf

LEMMA JoinPatches ==
  ASSUME NEW X, NEW t \in Seq(X), NEW cmds \in Seq(X), NEW rec, NEW k \in 1 .. Len(t) + 1,
         PatchesHelp(rec, t, k), Led(cmds)
  PROVE  PatchesHelp(rec, t \o cmds, k)
<1> SUFFICES ASSUME NEW j \in k .. Len(t \o cmds), (t \o cmds)[j].op = "persist"
             PROVE  (t \o cmds)[j].patch \in Helpful /\ Sees(rec, t \o cmds, j)
  BY DEF PatchesHelp
<1>1. CASE j <= Len(t)
  <2>1. j \in k .. Len(t) /\ j \in 1 .. Len(t) /\ j \in 1 .. Len(t) + 1
    BY <1>1, JoinOf
  <2>2. (t \o cmds)[j] = t[j]
    BY <2>1, JoinOf
  <2>3. t[j].patch \in Helpful /\ Sees(rec, t, j)
    BY <2>1, <2>2 DEF PatchesHelp
  <2> QED
    BY <2>1, <2>2, <2>3, KeepSees
<1>2. CASE j > Len(t)
  <2>1. j \in Len(t) + 1 .. Len(t) + Len(cmds)
    BY <1>2, JoinOf
  <2>2. j - Len(t) \in 1 .. Len(cmds) /\ (t \o cmds)[j] = cmds[j - Len(t)]
        /\ DOMAIN cmds = 1 .. Len(cmds) /\ Len(t) \in Nat /\ Len(cmds) \in Nat
    BY <2>1, JoinOf
  <2>3. cmds[j - Len(t)].patch \in Helpful /\ Writes(cmds[1]) /\ Clean(cmds)
    BY <2>2 DEF Led
  <2>4. j - Len(t) # 1
    BY <2>2, <2>3 DEF Writes
  <2>5. j > Len(t) + 1 /\ j \in Len(t) + 1 .. Len(t) + Len(cmds) + 1
    BY <2>1, <2>2, <2>4
  <2> QED
    BY <2>2, <2>3, <2>5, FollowSees
<1> QED
  BY <1>1, <1>2, JoinOf

\* What a command at the head of a connection issues once an approval was announced: nothing
\* that undoes it, unless the head does.
Answers(t, rec, cmds) ==
  /\ NoUndoing(cmds, 1)
  /\ (Head(t).op = "updateFields" => Head(t).patches \in Seq(Helpful)) =>
       /\ Led(cmds)
       /\ (Head(t).op = "persist" => Head(t).patch \in Helpful /\ Approved(rec)) => Clean(cmds)
  /\ Head(t).op = "persist" => Len(cmds) > 0 /\ Writes(cmds[1])
  /\ Head(t) = Update(Decision) => Len(cmds) > 1 /\ Writes(cmds[1]) /\ cmds[2].op = "persist"

\* The last commands of a connection that write the record see it approved.
LEMMA SettledBy ==
  ASSUME NEW X, NEW t \in Seq(X), NEW cmds \in Seq(X), NEW rec, NoUndoing(t, 1),
         PatchesHelp(rec, t, 1), NoUndoing(cmds, 1), Led(cmds), Clean(cmds),
         Sees(rec, t, Len(t) + 1) \/ (Len(cmds) > 0 /\ Writes(cmds[1]))
  PROVE  Settled(rec, t \o cmds)
<1>1. 1 \in 1 .. Len(t) + 1 /\ Len(t) \in Nat /\ Len(cmds) \in Nat
      /\ Len(t \o cmds) = Len(t) + Len(cmds)
  BY JoinOf
<1>2. NoUndoing(t \o cmds, 1) /\ PatchesHelp(rec, t \o cmds, 1)
  BY <1>1, JoinNoUndoing, JoinPatches
<1>3. Sees(rec, t \o cmds, Len(t) + Len(cmds) + 1)
  <2>1. Len(t) + Len(cmds) + 1 \in Len(t) + 1 .. Len(t) + Len(cmds) + 1
    BY <1>1
  <2>2. Len(cmds) > 0 => Len(t) + Len(cmds) + 1 > Len(t) + 1
    BY <1>1
  <2> QED
    BY <2>1, <2>2, FollowSees
<1> QED
  BY <1>1, <1>2, <1>3 DEF Settled

LEMMA SettledOn ==
  ASSUME NEW X, NEW t \in Seq(X), t # << >>, NEW cmds \in Seq(X), NEW rec,
         Settled(rec, t), Answers(t, rec, cmds)
  PROVE  Clean(cmds) /\ Settled(Left(rec, Head(t)), Tail(t) \o cmds)
<1>1. /\ Tail(t) \in Seq(X) /\ Len(Tail(t)) = Len(t) - 1 /\ Len(t) \in Nat \ {0}
      /\ Head(t) = t[1]
      /\ 1 \in 1 .. Len(t) /\ 1 \in 1 .. Len(t) + 1 /\ Len(t) + 1 \in 2 .. Len(t) + 1
      /\ Moved(1) = 1 /\ (Len(t) + 1) - 1 = Len(Tail(t)) + 1
  BY TailOf DEF Moved
<1>2. Led(cmds) /\ Clean(cmds) /\ NoUndoing(cmds, 1)
  <2>1. Head(t).op = "updateFields" => Head(t).patches \in Seq(Helpful)
    BY <1>1 DEF Settled, NoUndoing
  <2>2. Head(t).op = "persist" => Head(t).patch \in Helpful /\ Approved(rec)
    BY <1>1 DEF Settled, PatchesHelp, Sees
  <2> QED
    BY <2>1, <2>2 DEF Answers
<1>3. NoUndoing(Tail(t), 1) /\ PatchesHelp(Left(rec, Head(t)), Tail(t), 1)
  BY <1>1, ShiftNoUndoing, ShiftPatches DEF Settled
<1>4. Sees(Left(rec, Head(t)), Tail(t), Len(Tail(t)) + 1)
  <2>1. Sees(rec, t, Len(t) + 1)
    BY DEF Settled
  <2>2. Sees(Left(rec, Head(t)), Tail(t), (Len(t) + 1) - 1)
    BY <1>1, <2>1, ShiftSees
  <2> QED
    BY <1>1, <2>2
<1> QED
  BY <1>1, <1>2, <1>3, <1>4, SettledBy

LEMMA ToPatchOn ==
  ASSUME NEW X, NEW t \in Seq(X), t # << >>, NEW cmds \in Seq(X), NEW rec,
         ToPatch(rec, t), Answers(t, rec, cmds)
  PROVE  \/ ToPatch(Left(rec, Head(t)), Tail(t) \o cmds)
         \/ Settled(Left(rec, Head(t)), Tail(t) \o cmds)
<1> DEFINE u == Tail(t)
           new == Left(rec, Head(t))
<1>1. /\ u \in Seq(X) /\ Len(u) = Len(t) - 1 /\ Len(t) \in Nat \ {0} /\ Head(t) = t[1]
      /\ \A j \in 1 .. Len(t) - 1 : u[j] = t[j + 1]
      /\ 1 \in 1 .. Len(t) /\ 1 \in 1 .. Len(t) + 1
      /\ Moved(1) = 1
  BY TailOf DEF Moved
<1>2. PICK k \in 1 .. Len(t) : t[k].op = "persist" /\ PatchesHelp(rec, t, k)
  BY DEF ToPatch
<1>3. NoUndoing(u, 1) /\ NoUndoing(t, 1)
  BY <1>1, ShiftNoUndoing DEF ToPatch
<1>4. k \in 1 .. Len(t) + 1 /\ PatchesHelp(new, u, Moved(k))
  BY <1>1, <1>2, ShiftPatches
<1>5. NoUndoing(cmds, 1) /\ Led(cmds)
  <2>1. Head(t).op = "updateFields" => Head(t).patches \in Seq(Helpful)
    BY <1>1, <1>3 DEF NoUndoing
  <2> QED
    BY <2>1 DEF Answers
<1>6. CASE k = 1
  <2>1. Head(t).op = "persist" /\ Head(t).patch \in Helpful /\ Approved(rec)
    BY <1>1, <1>2, <1>6 DEF PatchesHelp, Sees
  <2>2. Clean(cmds) /\ Len(cmds) > 0 /\ Writes(cmds[1])
    BY <2>1 DEF Answers
  <2>3. PatchesHelp(new, u, 1)
    BY <1>1, <1>4, <1>6
  <2> HIDE DEF u, new
  <2>4. Settled(new, u \o cmds)
    BY <1>1, <1>3, <1>5, <2>2, <2>3, SettledBy
  <2> QED
    BY <2>4 DEF u, new
<1>7. CASE k # 1
  <2>1. k - 1 \in 1 .. Len(u) /\ k - 1 \in 1 .. Len(u) + 1 /\ Moved(k) = k - 1
        /\ k - 1 \in 1 .. Len(t) - 1 /\ (k - 1) + 1 = k
        /\ 1 \in 1 .. Len(u) + 1
    BY <1>1, <1>7 DEF Moved
  <2>2. u[k - 1].op = "persist"
    BY <1>1, <1>2, <2>1
  <2>3. PatchesHelp(new, u, k - 1)
    BY <1>4, <2>1
  <2> HIDE DEF u, new
  <2>4. PatchesHelp(new, u \o cmds, k - 1) /\ NoUndoing(u \o cmds, 1)
    BY <1>1, <1>3, <1>5, <2>1, <2>3, JoinPatches, JoinNoUndoing
  <2>5. (u \o cmds)[k - 1].op = "persist" /\ k - 1 \in 1 .. Len(u \o cmds)
    BY <1>1, <2>1, <2>2, JoinOf
  <2>6. ToPatch(new, u \o cmds)
    BY <2>4, <2>5 DEF ToPatch
  <2> QED
    BY <2>6 DEF u, new
<1> QED
  BY <1>6, <1>7

LEMMA ToUpdateOn ==
  ASSUME NEW X, NEW t \in Seq(X), t # << >>, NEW cmds \in Seq(X), NEW rec,
         ToUpdate(t), Answers(t, rec, cmds)
  PROVE  \/ ToUpdate(Tail(t) \o cmds)
         \/ ToPatch(Left(rec, Head(t)), Tail(t) \o cmds)
<1> DEFINE u == Tail(t)
           new == Left(rec, Head(t))
<1>1. /\ u \in Seq(X) /\ Len(u) = Len(t) - 1 /\ Len(t) \in Nat \ {0} /\ Head(t) = t[1]
      /\ \A j \in 1 .. Len(t) - 1 : u[j] = t[j + 1]
      /\ Moved(1) = 1
  BY TailOf DEF Moved
<1>2. PICK k \in 1 .. Len(t) : t[k] = Update(Decision) /\ NoUndoing(t, k)
  BY DEF ToUpdate
<1>3. k \in 1 .. Len(t) + 1 /\ NoUndoing(u, Moved(k))
  BY <1>1, <1>2, ShiftNoUndoing
<1>4. NoUndoing(cmds, 1)
  BY DEF Answers
<1>5. CASE k = 1
  <2>1. NoUndoing(u, 1) /\ Head(t) = Update(Decision)
    BY <1>1, <1>2, <1>3, <1>5
  <2>2. Len(cmds) > 1 /\ Writes(cmds[1]) /\ cmds[2].op = "persist"
    BY <2>1 DEF Answers
  <2>3. Led(cmds)
    <3>1. Head(t).op = "updateFields" => Head(t).patches \in Seq(Helpful)
      BY <1>1, <1>2, <1>5 DEF NoUndoing
    <3> QED
      BY <3>1 DEF Answers
  <2> HIDE DEF u, new
  <2>4. /\ Len(u) \in Nat /\ Len(cmds) \in Nat /\ Len(u \o cmds) = Len(u) + Len(cmds)
    BY <1>1, JoinOf
  <2>5. 1 \in 1 .. Len(u) + 1 /\ Len(u) + 1 \in 1 .. Len(u) + 1
    BY <2>4
  <2>6. PatchesHelp(new, u, Len(u) + 1)
    BY <2>4 DEF PatchesHelp
  <2>7. PatchesHelp(new, u \o cmds, Len(u) + 1) /\ NoUndoing(u \o cmds, 1)
    BY <1>1, <1>4, <2>1, <2>3, <2>6, <2>5, JoinPatches, JoinNoUndoing
  <2>8. /\ Len(u) + 2 \in 1 .. Len(u \o cmds) /\ 2 \in 1 .. Len(cmds)
        /\ (u \o cmds)[Len(u) + 2] = cmds[2]
    <3>1. 2 \in 1 .. Len(cmds)
      BY <2>2, <2>4
    <3> QED
      BY <1>1, <2>4, <3>1, JoinOf
  <2>9. PatchesHelp(new, u \o cmds, Len(u) + 2)
    BY <2>4, <2>7 DEF PatchesHelp
  <2>10. ToPatch(new, u \o cmds)
    BY <2>2, <2>7, <2>8, <2>9 DEF ToPatch
  <2> QED
    BY <2>10 DEF u, new
<1>6. CASE k # 1
  <2>1. k - 1 \in 1 .. Len(u) /\ k - 1 \in 1 .. Len(u) + 1 /\ Moved(k) = k - 1
        /\ k - 1 \in 1 .. Len(t) - 1 /\ (k - 1) + 1 = k
    BY <1>1, <1>6 DEF Moved
  <2>2. u[k - 1] = Update(Decision) /\ NoUndoing(u, k - 1)
    BY <1>1, <1>2, <1>3, <2>1
  <2> HIDE DEF u, new
  <2>3. NoUndoing(u \o cmds, k - 1)
    BY <1>1, <1>4, <2>1, <2>2, JoinNoUndoing
  <2>4. (u \o cmds)[k - 1] = Update(Decision) /\ k - 1 \in 1 .. Len(u \o cmds)
    BY <1>1, <2>1, <2>2, JoinOf
  <2>5. ToUpdate(u \o cmds)
    BY <2>3, <2>4 DEF ToUpdate
  <2> QED
    BY <2>5 DEF u
<1> QED
  BY <1>5, <1>6

-----------------------------------------------------------------------------
(* The approval: records and patches of a request that one approval decides *)

Unripe   == PatchType \ {Status("approved")}
OnePatch == [status: Statuses] \cup {Count(1), Decided}
Fine(r)  == r.min_approvals = 1 /\ r.approvals_count \in {0, 1}

Voting(c) == c.op \in {"addApproval", "setApprovals"}
Tame(c) ==
  /\ c.op = "setApprovals" => Len(c.list) = 1
  /\ c.op = "countApprovals" => c.count = 1
  /\ Writes(c) => Fine(c.record)
  /\ c.op = "updateFields" => c.patches \in Seq(OnePatch)
  /\ c.op = "persist" => c.patch \in OnePatch

\* What single-field patches make of a record.
LEMMA ChangeFields ==
  ASSUME NEW r \in RecordType, NEW patches \in Seq(PatchType)
  PROVE  /\ Change(r, patches).min_approvals = r.min_approvals
         /\ patches \in Seq(OnePatch) /\ Fine(r) => Fine(Change(r, patches))
         /\ patches \in Seq(Helpful) /\ Approved(r) => Approved(Change(r, patches))
         /\ patches \in Seq(Unripe) /\ r.status # "approved" =>
              Change(r, patches).status # "approved"
<1> DEFINE c == Change(r, patches)
           Has(f) == \E i \in DOMAIN patches : f \in DOMAIN patches[i]
           value(f) == patches[CHOOSE i \in DOMAIN patches : f \in DOMAIN patches[i]][f]
<1>1. ASSUME NEW f, Has(f)
      PROVE  \E i \in DOMAIN patches : f \in DOMAIN patches[i] /\ value(f) = patches[i][f]
  <2> DEFINE k == CHOOSE i \in DOMAIN patches : f \in DOMAIN patches[i]
  <2>1. k \in DOMAIN patches /\ f \in DOMAIN patches[k]
    BY <1>1
  <2> HIDE DEF k
  <2> QED
    BY <2>1 DEF k
<1>2. c = [f \in DOMAIN r |-> IF Has(f) THEN value(f) ELSE r[f]]
  BY DEF Change
<1> HIDE DEF c, Has, value
<1>3. c.min_approvals = r.min_approvals
  <2>1. ~Has("min_approvals")
    <3> SUFFICES ASSUME Has("min_approvals") PROVE FALSE
      OBVIOUS
    <3>1. PICK i \in DOMAIN patches : "min_approvals" \in DOMAIN patches[i]
      BY <1>1
    <3>2. patches[i] \in PatchType
      BY <3>1
    <3>3. \/ patches[i] \in [status: Statuses]
          \/ patches[i] \in [approvals_count: Nat]
          \/ patches[i] \in [decided_at: {TRUE}]
      BY <3>2 DEF PatchType
    <3>4. DOMAIN patches[i] \in {{"status"}, {"approvals_count"}, {"decided_at"}}
      BY <3>3
    <3> QED
      BY <3>1, <3>4
  <2> QED
    BY <1>2, <2>1, RecordFields
<1>4. ASSUME patches \in Seq(OnePatch), Fine(r)
      PROVE  c.approvals_count \in {0, 1}
  <2>1. CASE Has("approvals_count")
    <3>1. PICK i \in DOMAIN patches : /\ "approvals_count" \in DOMAIN patches[i]
                                      /\ value("approvals_count") = patches[i]["approvals_count"]
      BY <1>1, <2>1
    <3>2. patches[i] \in OnePatch
      BY <1>4, <3>1
    <3>3. patches[i]["approvals_count"] = 1
      BY <3>1, <3>2 DEF OnePatch, Count, Decided
    <3> QED
      BY <1>2, <2>1, <3>1, <3>3, RecordFields
  <2>2. CASE ~Has("approvals_count")
    BY <1>2, <1>4, <2>2, RecordFields DEF Fine
  <2> QED
    BY <2>1, <2>2
<1>5. ASSUME patches \in Seq(Helpful), Approved(r)
      PROVE  Approved(c)
  <2>1. ASSUME NEW f, Has(f)
        PROVE  /\ f = "status" => value(f) = "approved"
               /\ f = "decided_at" => value(f) = TRUE
               /\ f = "approvals_count" => value(f) = 1
    <3>1. PICK i \in DOMAIN patches : f \in DOMAIN patches[i] /\ value(f) = patches[i][f]
      BY <1>1, <2>1
    <3>2. patches[i] \in Helpful
      BY <1>5, <3>1
    <3>3. CASE patches[i] = Count(1)
      BY <3>1, <3>3 DEF Count
    <3>4. CASE patches[i] = Status("approved")
      BY <3>1, <3>4 DEF Status
    <3>5. CASE patches[i] = Decided
      BY <3>1, <3>5 DEF Decided
    <3> QED
      BY <3>2, <3>3, <3>4, <3>5 DEF Helpful
  <2>2. r.status = "approved" /\ r.decided_at /\ r.approvals_count = 1
    BY <1>5 DEF Approved
  <2>3. c.status = "approved" /\ c.approvals_count = 1
    BY <1>2, <2>1, <2>2, RecordFields
  <2>4. c.decided_at
    BY <1>2, <2>1, <2>2, RecordFields
  <2> QED
    BY <2>3, <2>4 DEF Approved
<1>6. ASSUME patches \in Seq(Unripe), r.status # "approved"
      PROVE  c.status # "approved"
  <2>1. CASE Has("status")
    <3>1. PICK i \in DOMAIN patches : /\ "status" \in DOMAIN patches[i]
                                      /\ value("status") = patches[i]["status"]
      BY <1>1, <2>1
    <3>2. patches[i] \in Unripe
      BY <1>6, <3>1
    <3>3. \/ patches[i] \in [status: Statuses]
          \/ patches[i] \in [approvals_count: Nat]
          \/ patches[i] \in [decided_at: {TRUE}]
      BY <3>2 DEF Unripe, PatchType
    <3>4. patches[i] = [status |-> patches[i].status]
      BY <3>1, <3>3
    <3>5. patches[i].status # "approved"
      BY <3>2, <3>4 DEF Unripe, Status
    <3> QED
      BY <1>2, <2>1, <3>1, <3>5, RecordFields
  <2>2. CASE ~Has("status")
    BY <1>2, <1>6, <2>2, RecordFields
  <2> QED
    BY <2>1, <2>2
<1> QED
  BY <1>3, <1>4, <1>5, <1>6 DEF Fine, c

LEMMA ChangeTyped ==
  ASSUME NEW r \in RecordType, NEW patches \in Seq(PatchType)
  PROVE  Change(r, patches) \in RecordType
<1> DEFINE req == r.required_personas
           acks == r.persona_state \cup req
<1>1. r \in SafeRecord(req, acks)
  BY DEF SafeRecord
<1>2. SafePatch(req, acks) = PatchType
  BY DEF SafePatch, SafeStatus, PatchType
<1> HIDE DEF req, acks
<1>3. Change(r, patches) \in SafeRecord(req, acks)
  BY <1>1, <1>2, ChangeSafe
<1> QED
  BY <1>3 DEF SafeRecord

\* What a process reads.
LEMMA ReadFields ==
  ASSUME Covered, NEW p \in Pods
  PROVE  /\ getRequest(p) \in RecordType
         /\ getRequest(p).min_approvals = record.min_approvals
         /\ Fine(record) => Fine(getRequest(p))
         /\ Fine(record) /\ p \in snapshot => Approved(getRequest(p))
         /\ p \notin snapshot => getRequest(p) = record
<1>1. record \in RecordType /\ getRequest(p) \in RecordType
  BY OverlaySafe DEF Covered, SafeRecord
<1>2. CASE p \notin snapshot
  BY <1>1, <1>2 DEF getRequest, Overlay
<1>3. CASE p \in snapshot
  <2>1. getRequest(p) = [record EXCEPT !.status = "approved", !.decided_at = TRUE,
                                       !.approvals_count = IF @ > 1 THEN @ ELSE 1]
    BY <1>3 DEF getRequest, Overlay
  <2>2. /\ getRequest(p).status = "approved" /\ getRequest(p).decided_at
        /\ getRequest(p).min_approvals = record.min_approvals
        /\ getRequest(p).approvals_count = IF record.approvals_count > 1
                                           THEN record.approvals_count ELSE 1
    BY <1>1, <2>1 DEF RecordType
  <2> QED
    BY <1>1, <1>3, <2>2 DEF Fine, Approved
<1> QED
  BY <1>2, <1>3

-----------------------------------------------------------------------------
(* The approval: what a handler replies to the command it has executed *)

Single(p) == Fine(record) /\ Tame(Arg(p)) /\ (Voting(Arg(p)) => approvals = << >>)

Tracks(p, cmds) ==
  /\ Arg(p).op = "setApprovals" => approvals' = Arg(p).list
  /\ Arg(p).op # "setApprovals" => approvals' = approvals
  /\ Arg(p).op = "addApproval" => Len(cmds) = 1 /\ Voting(cmds[1])
  /\ Arg(p).op # "addApproval" => \A j \in DOMAIN cmds : ~Voting(cmds[j])

SameQuorum(cmds) ==
  \A j \in DOMAIN cmds : Writes(cmds[j]) => cmds[j].record.min_approvals = record.min_approvals
AllTame(cmds) == \A j \in DOMAIN cmds : Tame(cmds[j])

\* A command that carries an approval, and a process that meets none.
Ripe(c) ==
  \/ Writes(c) /\ c.record.status = "approved"
  \/ c.op = "updateFields" /\ \E i \in DOMAIN c.patches : c.patches[i] = Status("approved")
  \/ c.op = "persist" /\ c.patch = Status("approved")
Green(p) == record.status # "approved" /\ p \notin snapshot /\ ~Ripe(Arg(p))

Replies(p, cmds) ==
  /\ cmds \in Seq(CommandType)
  /\ Issue(p, cmds)
  /\ record' = Left(record, Arg(p))
  /\ UNCHANGED <<snapshot, lost>>
  /\ "approved" \in outcomes' <=> "approved" \in outcomes
  /\ Tracks(p, cmds)
  /\ SameQuorum(cmds)
  /\ Green(p) => \A j \in DOMAIN cmds : ~Ripe(cmds[j])
  /\ Single(p) => AllTame(cmds)
  /\ Single(p) /\ Approved(getRequest(p)) => Answers(pipe[p], record, cmds)

Unmoved(p) ==
  /\ UNCHANGED <<snapshot, lost>>
  /\ "approved" \in outcomes' <=> "approved" \in outcomes

\* Nothing.
LEMMA RepliesNothing ==
  ASSUME NEW p \in Pods, Issue(p, << >>), Unmoved(p), record' = Left(record, Arg(p)),
         approvals' = approvals,
         Arg(p).op \notin {"addApproval", "setApprovals", "updateFields", "persist"}
  PROVE  Replies(p, << >>)
<1>1. << >> \in Seq(CommandType) /\ DOMAIN << >> = {} /\ Len(<< >>) = 0
  OBVIOUS
<1>2. Tracks(p, << >>) /\ SameQuorum(<< >>) /\ AllTame(<< >>)
  BY <1>1 DEF Tracks, SameQuorum, AllTame
<1>3. NoUndoing(<< >>, 1) /\ Led(<< >>) /\ Clean(<< >>)
  BY <1>1 DEF NoUndoing, Led, Clean
<1>4. Answers(pipe[p], record, << >>)
  BY <1>3 DEF Answers, Arg, Update
<1> QED
  BY <1>1, <1>2, <1>4 DEF Replies, Unmoved

\* One command, which may write the record.
LEMMA RepliesOne ==
  ASSUME NEW p \in Pods, NEW cmd \in CommandType, Issue(p, <<cmd>>), Unmoved(p),
         record' = Left(record, Arg(p)),
         Arg(p).op = "setApprovals" => approvals' = Arg(p).list,
         Arg(p).op # "setApprovals" => approvals' = approvals,
         Arg(p).op = "addApproval" <=> Voting(cmd),
         Arg(p).op # "updateFields", cmd.op \notin {"updateFields", "persist"},
         Arg(p).op = "persist" => Writes(cmd),
         Writes(cmd) => cmd.record.min_approvals = record.min_approvals,
         Writes(cmd) /\ Green(p) => cmd.record.status # "approved",
         Single(p) => Tame(cmd),
         Single(p) /\ Approved(getRequest(p)) /\ Writes(cmd)
           /\ (Arg(p).op = "persist" => Arg(p).patch \in Helpful /\ Approved(record))
           => Approved(cmd.record)
  PROVE  Replies(p, <<cmd>>)
<1> DEFINE cmds == <<cmd>>
<1>1. /\ cmds \in Seq(CommandType) /\ DOMAIN cmds = {1} /\ Len(cmds) = 1 /\ cmds[1] = cmd
      /\ Issue(p, cmds)
  OBVIOUS
<1> HIDE DEF cmds
<1>2. Tracks(p, cmds) /\ SameQuorum(cmds)
  BY <1>1 DEF Tracks, SameQuorum
<1>3. Single(p) => AllTame(cmds)
  BY <1>1 DEF AllTame
<1>5. Green(p) => \A j \in DOMAIN cmds : ~Ripe(cmds[j])
  BY <1>1 DEF Ripe
<1>4. ASSUME Single(p), Approved(getRequest(p))
      PROVE  Answers(pipe[p], record, cmds)
  <2>1. NoUndoing(cmds, 1) /\ Led(cmds)
    BY <1>1 DEF NoUndoing, Led
  <2>2. (Arg(p).op = "persist" => Arg(p).patch \in Helpful /\ Approved(record)) => Clean(cmds)
    BY <1>1, <1>4 DEF Clean
  <2> QED
    BY <1>1, <2>1, <2>2 DEF Answers, Arg, Update
<1> QED
  BY <1>1, <1>2, <1>3, <1>4, <1>5 DEF Replies, Unmoved, cmds

LEMMA ElementOf ==
  ASSUME NEW T, NEW t \in Seq(T), NEW j \in 1 .. Len(t)
  PROVE  t[j] \in T
OBVIOUS

\* The elements of what Persist issues.
LEMMA PersistElements ==
  ASSUME NEW S, NEW patches \in Seq(S), NEW n \in Copies(patches)
  PROVE  /\ Persist(patches, n) \in Seq([op: {"persist"}, patch: S])
         /\ Len(patches) > 0 => Len(Persist(patches, n)) > 0
         /\ \A j \in 1 .. Len(Persist(patches, n)) :
              Persist(patches, n)[j].op = "persist" /\ Persist(patches, n)[j].patch \in S
<1> DEFINE P == Persist(patches, n)
<1>1. P \in Seq([op: {"persist"}, patch: S]) /\ (Len(patches) > 0 => Len(P) > 0)
  BY PersistSafe
<1> HIDE DEF P
<1>2. ASSUME NEW j \in 1 .. Len(P)
      PROVE  P[j].op = "persist" /\ P[j].patch \in S
  <2>1. P[j] \in [op: {"persist"}, patch: S]
    BY <1>1, ElementOf
  <2>2. \A c \in [op: {"persist"}, patch: S] : c.op = "persist" /\ c.patch \in S
    OBVIOUS
  <2> QED
    BY <2>1, <2>2
<1> QED
  BY <1>1, <1>2 DEF P

\* The record, written, and then the field patches of a proxy.
LEMMA RepliesWrite ==
  ASSUME NEW p \in Pods, NEW cmd \in CommandType, Writes(cmd), NEW patches \in Seq(PatchType),
         NEW n \in Copies(patches), Issue(p, <<cmd>> \o Persist(patches, n)), Unmoved(p),
         record' = record, approvals' = approvals, Arg(p).op \in {"updateFields", "countApprovals"},
         Arg(p).op = "updateFields" => patches = Arg(p).patches,
         Arg(p).op = "countApprovals" /\ Single(p) => patches \in Seq(Helpful),
         cmd.record.min_approvals = record.min_approvals,
         Green(p) => cmd.record.status # "approved" /\ patches \in Seq(Unripe),
         Single(p) => Fine(cmd.record) /\ patches \in Seq(OnePatch),
         Single(p) /\ Approved(getRequest(p)) /\ patches \in Seq(Helpful) => Approved(cmd.record)
  PROVE  Replies(p, <<cmd>> \o Persist(patches, n))
<1> DEFINE P == Persist(patches, n)
           cmds == <<cmd>> \o P
<1>1. /\ P \in Seq([op: {"persist"}, patch: PatchType])
      /\ Len(patches) > 0 => Len(P) > 0
      /\ \A j \in 1 .. Len(P) : P[j].op = "persist"
      /\ patches \in Seq(OnePatch) => \A j \in 1 .. Len(P) : P[j].patch \in OnePatch
      /\ patches \in Seq(Helpful) => \A j \in 1 .. Len(P) : P[j].patch \in Helpful
      /\ patches \in Seq(Unripe) => \A j \in 1 .. Len(P) : P[j].patch \in Unripe
  <2>1. /\ Persist(patches, n) \in Seq([op: {"persist"}, patch: PatchType])
        /\ Len(patches) > 0 => Len(Persist(patches, n)) > 0
    BY PersistElements
  <2>5. \A j \in 1 .. Len(P) : P[j].op = "persist"
    <3>1. P \in Seq([op: {"persist"}, patch: PatchType])
      BY <2>1
    <3> HIDE DEF P
    <3>2. \A j \in 1 .. Len(P) : P[j] \in [op: {"persist"}, patch: PatchType]
      BY <3>1, ElementOf
    <3> QED
      BY <3>2
  <2>2. ASSUME patches \in Seq(OnePatch)
        PROVE  \A j \in 1 .. Len(Persist(patches, n)) : Persist(patches, n)[j].patch \in OnePatch
    BY <2>2, PersistElements
  <2>3. ASSUME patches \in Seq(Helpful)
        PROVE  \A j \in 1 .. Len(Persist(patches, n)) : Persist(patches, n)[j].patch \in Helpful
    BY <2>3, PersistElements
  <2>4. ASSUME patches \in Seq(Unripe)
        PROVE  \A j \in 1 .. Len(Persist(patches, n)) : Persist(patches, n)[j].patch \in Unripe
    BY <2>4, PersistElements
  <2> QED
    BY <2>1, <2>2, <2>3, <2>4, <2>5
<1>2. [op: {"persist"}, patch: PatchType] \subseteq CommandType
  BY DEF CommandType
<1> HIDE DEF P
<1> DEFINE one == <<cmd>>
<1>3. P \in Seq(CommandType) /\ one \in Seq(CommandType)
  <2>1. Seq([op: {"persist"}, patch: PatchType]) \subseteq Seq(CommandType)
    BY <1>2, SeqMonotone
  <2>2. one \in Seq(CommandType)
    OBVIOUS
  <2> HIDE DEF one
  <2> QED
    BY <1>1, <2>1, <2>2
<1>4. /\ cmds \in Seq(CommandType) /\ Len(cmds) = 1 + Len(P) /\ DOMAIN cmds = 1 .. Len(cmds)
      /\ Len(P) \in Nat /\ cmds[1] = cmd
      /\ \A j \in 2 .. Len(cmds) : j - 1 \in 1 .. Len(P) /\ cmds[j] = P[j - 1]
  BY <1>3
<1> HIDE DEF cmds
<1>5. \A j \in 2 .. Len(cmds) : cmds[j].op = "persist"
  BY <1>1, <1>4
<1>6. \A j \in DOMAIN cmds : j = 1 \/ j \in 2 .. Len(cmds)
  BY <1>4
<1>7. \A j \in DOMAIN cmds : j # 1 => cmds[j].op = "persist"
  BY <1>5, <1>6
<1>8. Tracks(p, cmds) /\ SameQuorum(cmds)
  BY <1>4, <1>7 DEF Tracks, SameQuorum, Voting, Writes
<1>11. ASSUME Green(p) PROVE \A j \in DOMAIN cmds : ~Ripe(cmds[j])
  <2>1. \A j \in 2 .. Len(cmds) : cmds[j].patch # Status("approved")
    BY <1>1, <1>4, <1>11 DEF Unripe
  <2> QED
    BY <1>4, <1>6, <1>7, <1>11, <2>1 DEF Ripe, Writes
<1>9. ASSUME Single(p) PROVE AllTame(cmds)
  <2>1. \A j \in 2 .. Len(cmds) : cmds[j].patch \in OnePatch
    BY <1>1, <1>4, <1>9
  <2> QED
    BY <1>4, <1>6, <1>7, <1>9, <2>1 DEF AllTame, Tame, Writes
<1>10. ASSUME Single(p), Approved(getRequest(p))
       PROVE  Answers(pipe[p], record, cmds)
  <2>1. NoUndoing(cmds, 1)
    BY <1>4, <1>7 DEF NoUndoing, Writes
  <2>2. ASSUME patches \in Seq(Helpful)
        PROVE  Led(cmds) /\ Clean(cmds)
    <3>1. Clean(cmds)
      BY <1>4, <1>7, <1>10, <2>2 DEF Clean, Writes
    <3>2. \A j \in 2 .. Len(cmds) : cmds[j].patch \in Helpful
      BY <1>1, <1>4, <2>2
    <3> QED
      BY <1>4, <1>6, <3>1, <3>2 DEF Led, Writes
  <2>3. (Arg(p).op = "updateFields" => Arg(p).patches \in Seq(Helpful))
          => Led(cmds) /\ Clean(cmds)
    BY <1>10, <2>2
  <2>4. Arg(p) = Update(Decision) => Len(cmds) > 1 /\ cmds[2].op = "persist"
    <3> SUFFICES ASSUME Arg(p) = Update(Decision) PROVE Len(cmds) > 1 /\ 2 \in 2 .. Len(cmds)
      BY <1>5
    <3>1. patches = Decision
      BY DEF Update
    <3>2. Len(patches) > 0
      BY <3>1 DEF Decision
    <3> QED
      BY <1>1, <1>4, <3>2
  <2>5. Arg(p).op # "persist" /\ Writes(cmds[1])
    BY <1>4
  <2> QED
    BY <2>1, <2>3, <2>4, <2>5 DEF Answers, Arg
<1> QED
  BY <1>4, <1>8, <1>9, <1>10, <1>11 DEF Replies, Unmoved, Left, Writes, cmds, P

\* Commands that write nothing, from a handler that did not find the request approved.
LEMMA RepliesUnapproved ==
  ASSUME NEW p \in Pods, NEW cmds \in Seq(CommandType), Issue(p, cmds), Unmoved(p),
         record' = Left(record, Arg(p)), approvals' = approvals,
         Arg(p).op \notin {"addApproval", "setApprovals"}, ~Approved(getRequest(p)),
         \A j \in DOMAIN cmds : cmds[j].op \in {"persist", "updateFields"} /\ Tame(cmds[j]),
         \A j \in DOMAIN cmds : ~Ripe(cmds[j])
  PROVE  Replies(p, cmds)
<1>1. \A j \in DOMAIN cmds : ~Voting(cmds[j]) /\ ~Writes(cmds[j])
  BY DEF Voting, Writes
<1>2. Tracks(p, cmds) /\ SameQuorum(cmds) /\ AllTame(cmds)
  BY <1>1 DEF Tracks, SameQuorum, AllTame
<1> QED
  BY <1>2 DEF Replies, Unmoved

\* The command a process executes is one of those it can issue.
LEMMA HeadTyped ==
  ASSUME Covered, NEW p \in Pods, pipe[p] # << >>
  PROVE  /\ Arg(p) \in CommandType
         /\ Arg(p).op = "setApprovals" => Arg(p).list \in Seq(Users)
         /\ Arg(p).op = "countApprovals" => Arg(p).count \in Nat
         /\ Writes(Arg(p)) => Arg(p).record \in RecordType
         /\ Arg(p).op = "updateFields" => Arg(p).patches \in Seq(PatchType)
         /\ Arg(p).op = "persist" => Arg(p).patch \in PatchType
         /\ Arg(p).op \in {"approve", "deny", "addApproval"} => Arg(p).by \in Users
         /\ Arg(p).op \in {"ack", "updatePersonaState"} => Arg(p).persona \in Personas
<1>1. Arg(p) \in CommandType
  <2>1. Commands \subseteq CommandType
    BY SafeIsTyped DEF Covered, Commands
  <2> QED
    BY <2>1, HeadSafe
<1> QED
  BY <1>1 DEF CommandType, Writes

LEMMA PatchTypes ==
  /\ \A n \in Nat : Count(n) \in PatchType
  /\ \A st \in Statuses : Status(st) \in PatchType /\ Status(st) \in OnePatch
  /\ Decided \in PatchType /\ Decided \in OnePatch /\ Count(1) \in OnePatch
  /\ Count(1) \in Helpful
  /\ Helpful \subseteq OnePatch /\ Helpful \subseteq PatchType
BY DEF Count, Status, Decided, PatchType, OnePatch, Helpful, Statuses, Terminal

LEMMA UnripePatches ==
  /\ \A n \in Nat : Count(n) \in Unripe
  /\ Decided \in Unripe
  /\ \A st \in Statuses \ {"approved"} : Status(st) \in Unripe
<1>1. \A st \in Statuses \ {"approved"} : Status(st) # Status("approved")
  <2> SUFFICES ASSUME NEW st \in Statuses \ {"approved"}, Status(st) = Status("approved")
               PROVE  FALSE
    OBVIOUS
  <2>1. Status(st).status = Status("approved").status
    OBVIOUS
  <2> QED
    BY <2>1 DEF Status
<1>2. Decided # Status("approved")
  <2>1. "status" \in DOMAIN Status("approved") /\ "status" \notin DOMAIN Decided
    BY DEF Status, Decided
  <2> QED
    BY <2>1
<1>3. \A n \in Nat : Count(n) # Status("approved")
  <2> SUFFICES ASSUME NEW n \in Nat PROVE Count(n) # Status("approved")
    OBVIOUS
  <2>1. "status" \in DOMAIN Status("approved") /\ "status" \notin DOMAIN Count(n)
    BY DEF Status, Count
  <2> QED
    BY <2>1
<1> QED
  BY <1>1, <1>2, <1>3, PatchTypes DEF Unripe

LEMMA RefusalReplies ==
  ASSUME Covered, NEW p \in Pods, ApproveFound(p), getRequest(p).status # "ready_for_approval"
  PROVE  \E cmds : Replies(p, cmds)
<1> DEFINE cmd == [op |-> "get"]
<1>1. /\ Arg(p).op = "approve" /\ Issue(p, <<cmd>>) /\ UNCHANGED <<record, approvals>>
      /\ Unmoved(p) /\ record' = Left(record, Arg(p))
  BY DEF ApproveFound, Executes, Arg, server, Unmoved, Left, Writes
<1>2. cmd \in CommandType /\ cmd.op = "get" /\ ~Writes(cmd) /\ ~Voting(cmd) /\ Tame(cmd)
  BY DEF CommandType, Writes, Voting, Tame
<1> HIDE DEF cmd
<1>3. Replies(p, <<cmd>>)
  BY <1>1, <1>2, RepliesOne
<1> QED
  BY <1>3

LEMMA DenyReplies ==
  ASSUME Covered, Proxied, NEW p \in Pods, DenyFound(p)
  PROVE  \E cmds : Replies(p, cmds)
<1> DEFINE denial == <<Status("denied"), Decided>>
<1>1. /\ Arg(p).op = "deny" /\ UNCHANGED <<record, approvals, snapshot, lost>>
      /\ record' = Left(record, Arg(p))
      /\ Unmoved(p)
  BY DEF DenyFound, Executes, Arg, server, Left, Writes, Unmoved
<1>2. CASE Issue(p, << >>)
  <2>1. Replies(p, << >>)
    BY <1>1, <1>2, RepliesNothing
  <2> QED
    BY <2>1
<1>3. ASSUME getRequest(p).status \notin Terminal, NEW n \in Copies(denial),
             Issue(p, Persist(denial, n))
      PROVE  \E cmds : Replies(p, cmds)
  <2> DEFINE patches == denial
             cmds == Persist(patches, n)
  <2>1. patches \in Seq(PatchType) /\ patches \in Seq(OnePatch) /\ patches \in Seq(Unripe)
    <3>1. Status("denied") \in Unripe /\ Decided \in Unripe
      BY UnripePatches DEF Statuses, Terminal
    <3>2. patches \in Seq(PatchType) /\ patches \in Seq(OnePatch)
      BY PatchTypes DEF Statuses, Terminal
    <3> QED
      BY <3>1, <3>2
  <2>0. n \in Copies(patches) /\ Issue(p, cmds)
    BY <1>3
  <2> HIDE DEF patches
  <2>2. /\ cmds \in Seq([op: {"persist"}, patch: PatchType])
        /\ \A j \in 1 .. Len(cmds) : cmds[j].op = "persist" /\ cmds[j].patch \in OnePatch
        /\ \A j \in 1 .. Len(cmds) : cmds[j].patch \in Unripe
    <3>1. \A j \in 1 .. Len(cmds) : cmds[j].patch \in Unripe
      BY <2>0, <2>1, PersistElements
    <3> QED
      BY <2>0, <2>1, <3>1, PersistElements
  <2>3. Issue(p, cmds)
    BY <2>0
  <2> HIDE DEF cmds
  <2>4. cmds \in Seq(CommandType)
    <3>1. [op: {"persist"}, patch: PatchType] \subseteq CommandType
      BY DEF CommandType
    <3>2. Seq([op: {"persist"}, patch: PatchType]) \subseteq Seq(CommandType)
      BY <3>1, SeqMonotone
    <3> QED
      BY <2>2, <3>2
  <2>5. DOMAIN cmds = 1 .. Len(cmds)
    BY <2>4
  <2>6. \A j \in DOMAIN cmds : cmds[j].op \in {"persist", "updateFields"} /\ Tame(cmds[j])
    BY <2>2, <2>5 DEF Tame, Writes
  <2>7. ~Approved(getRequest(p))
    BY <1>3 DEF Approved, Terminal
  <2>9. \A j \in DOMAIN cmds : ~Ripe(cmds[j])
    BY <2>2, <2>5 DEF Ripe, Writes, Unripe
  <2>8. Replies(p, cmds)
    BY <1>1, <2>3, <2>4, <2>6, <2>7, <2>9, RepliesUnapproved
  <2> QED
    BY <2>8
<1>4. \/ Issue(p, << >>)
      \/ /\ getRequest(p).status \notin Terminal
         /\ \E n \in Reach(p, denial) : Issue(p, Persist(denial, n))
  BY DEF DenyFound
<1> HIDE DEF denial
<1> QED
  BY <1>2, <1>3, <1>4, ReachCounts

LEMMA AckReplies ==
  ASSUME Covered, NEW p \in Pods, AckFound(p)
  PROVE  \E cmds : Replies(p, cmds)
<1>1. /\ pipe[p] # << >> /\ Arg(p).op = "ack" /\ UNCHANGED <<record, approvals, snapshot, lost>>
      /\ record' = Left(record, Arg(p))
      /\ Unmoved(p)
  BY DEF AckFound, Executes, Arg, server, Left, Writes, Unmoved
<1>2. CASE Issue(p, << >>)
  <2>1. Replies(p, << >>)
    BY <1>1, <1>2, RepliesNothing
  <2> QED
    BY <2>1
<1>3. CASE Issue(p, <<[op |-> "updatePersonaState", persona |-> Arg(p).persona]>>)
  <2> DEFINE cmd == [op |-> "updatePersonaState", persona |-> Arg(p).persona]
  <2>1. cmd \in CommandType
    BY <1>1, HeadTyped DEF CommandType
  <2>2. cmd.op = "updatePersonaState" /\ ~Writes(cmd) /\ ~Voting(cmd) /\ Tame(cmd)
    BY DEF Writes, Voting, Tame
  <2>3. Issue(p, <<cmd>>)
    BY <1>3
  <2> HIDE DEF cmd
  <2>4. Replies(p, <<cmd>>)
    BY <1>1, <2>1, <2>2, <2>3, RepliesOne
  <2> QED
    BY <2>4
<1> QED
  BY <1>2, <1>3 DEF AckFound

LEMMA ApprovalsReplies ==
  ASSUME Covered, NEW p \in Pods, ApprovalsRead(p) \/ ApprovalsWritten(p)
  PROVE  \E cmds : Replies(p, cmds)
<1>1. /\ pipe[p] # << >> /\ UNCHANGED record /\ Unmoved(p)
      /\ Arg(p).op \in {"addApproval", "setApprovals"}
      /\ record' = Left(record, Arg(p))
  BY DEF ApprovalsRead, ApprovalsWritten, Executes, Arg, server, memory, ghosts, Left, Writes,
         Unmoved
<1>2. CASE ApprovalsRead(p)
  <2> DEFINE list == Append(approvals, Arg(p).by)
             cmd == [op |-> "setApprovals", list |-> list]
  <2>1. Arg(p).op = "addApproval" /\ approvals' = approvals /\ Issue(p, <<cmd>>)
    BY <1>2 DEF ApprovalsRead, Executes, Arg, server
  <2>2. approvals \in Seq(Users) /\ Arg(p).by \in Users
    BY <1>1, <2>1, HeadTyped DEF Covered
  <2>3. list \in Seq(Users) /\ (approvals = << >> => Len(list) = 1)
    BY <2>2
  <2> HIDE DEF list
  <2>4. cmd \in CommandType
    BY <2>3 DEF CommandType
  <2>5. /\ cmd.op = "setApprovals" /\ ~Writes(cmd) /\ Voting(cmd)
        /\ approvals = << >> => Tame(cmd)
    BY <2>3 DEF Writes, Voting, Tame
  <2>6. Single(p) => Tame(cmd)
    BY <2>1, <2>5 DEF Single, Voting
  <2> HIDE DEF cmd
  <2>7. Replies(p, <<cmd>>)
    BY <1>1, <2>1, <2>4, <2>5, <2>6, RepliesOne
  <2> QED
    BY <2>7
<1>3. CASE ApprovalsWritten(p)
  <2> DEFINE cmd == [op |-> "countApprovals", count |-> Len(Arg(p).list)]
  <2>1. Arg(p).op = "setApprovals" /\ approvals' = Arg(p).list /\ Issue(p, <<cmd>>)
    BY <1>3 DEF ApprovalsWritten, Executes, Arg
  <2>2. Arg(p).list \in Seq(Users)
    BY <1>1, <2>1, HeadTyped
  <2>3. Len(Arg(p).list) \in Nat
    BY <2>2
  <2>4. cmd \in CommandType
    BY <2>3 DEF CommandType
  <2>5. /\ cmd.op = "countApprovals" /\ ~Writes(cmd) /\ ~Voting(cmd)
        /\ Len(Arg(p).list) = 1 => Tame(cmd)
    BY DEF Writes, Voting, Tame
  <2>6. Single(p) => Tame(cmd)
    BY <2>1, <2>5 DEF Single, Tame
  <2> HIDE DEF cmd
  <2>7. Replies(p, <<cmd>>)
    BY <1>1, <2>1, <2>4, <2>5, <2>6, RepliesOne
  <2> QED
    BY <2>7
<1> QED
  BY <1>2, <1>3

\* The two read-modify-writes that change the record by field patches.
LEMMA UpdateReplies ==
  ASSUME Covered, Proxied, NEW p \in Pods, ApprovalsCounted(p) \/ UpdateRead(p)
  PROVE  \E cmds : Replies(p, cmds)
<1>1. pipe[p] # << >> /\ UNCHANGED <<record, approvals>> /\ Unmoved(p)
  BY DEF ApprovalsCounted, UpdateRead, Rewrites, Executes, server, ghosts, Unmoved
<1>2. ASSUME NEW patches \in Seq(PatchType), NEW n \in Copies(patches),
             Issue(p, <<SetRecord(Change(getRequest(p), patches))>> \o Persist(patches, n)),
             Arg(p).op \in {"updateFields", "countApprovals"},
             Arg(p).op = "updateFields" => patches = Arg(p).patches,
             Arg(p).op = "countApprovals" /\ Single(p) => patches \in Seq(Helpful),
             Single(p) => patches \in Seq(OnePatch),
             Green(p) => patches \in Seq(Unripe)
      PROVE  \E cmds : Replies(p, cmds)
  <2> DEFINE new == Change(getRequest(p), patches)
             cmd == SetRecord(new)
  <2>1. /\ getRequest(p) \in RecordType
        /\ getRequest(p).min_approvals = record.min_approvals
        /\ Fine(record) => Fine(getRequest(p))
        /\ Green(p) => getRequest(p).status # "approved"
    BY ReadFields DEF Green
  <2>2. /\ new.min_approvals = record.min_approvals
        /\ Green(p) => new.status # "approved"
        /\ Single(p) => Fine(new)
        /\ Approved(getRequest(p)) /\ patches \in Seq(Helpful) => Approved(new)
    BY <1>2, <2>1, ChangeFields DEF Single
  <2>3. new \in RecordType
    BY <2>1, ChangeTyped
  <2> HIDE DEF new
  <2>4. cmd \in CommandType
    BY <2>3 DEF SetRecord, CommandType
  <2>5. Writes(cmd) /\ cmd.record = new
    BY DEF SetRecord, Writes
  <2>6. Issue(p, <<cmd>> \o Persist(patches, n))
    BY <1>2 DEF new
  <2> HIDE DEF cmd
  <2>7. Replies(p, <<cmd>> \o Persist(patches, n))
    BY <1>1, <1>2, <2>2, <2>4, <2>5, <2>6, RepliesWrite
  <2> QED
    BY <2>7
<1>3. CASE ApprovalsCounted(p)
  <2> DEFINE patches == <<Count(Arg(p).count)>>
  <2>1. Arg(p).op = "countApprovals"
    BY <1>3 DEF ApprovalsCounted, Executes, Arg
  <2>2. PICK n \in Copies(patches) :
          Issue(p, <<SetRecord(Change(getRequest(p), patches))>> \o Persist(patches, n))
    BY <1>3, ReachCounts DEF ApprovalsCounted, Rewrites
  <2>3. patches \in Seq(PatchType)
    <3>1. Count(Arg(p).count) \in PatchType
      BY <1>1, <2>1, HeadTyped, PatchTypes
    <3> QED
      BY <3>1
  <2>4. Single(p) => patches \in Seq(Helpful) /\ patches \in Seq(OnePatch)
    <3> SUFFICES ASSUME Single(p)
                 PROVE  patches \in Seq(Helpful) /\ patches \in Seq(OnePatch)
      OBVIOUS
    <3>1. Arg(p).count = 1
      BY <2>1 DEF Single, Tame
    <3>2. Count(Arg(p).count) \in Helpful /\ Count(Arg(p).count) \in OnePatch
      BY <3>1, PatchTypes
    <3> QED
      BY <3>2
  <2>5. patches \in Seq(Unripe)
    <3>1. Count(Arg(p).count) \in Unripe
      BY <1>1, <2>1, HeadTyped, UnripePatches
    <3> QED
      BY <3>1
  <2> HIDE DEF patches
  <2> QED
    BY <1>2, <2>1, <2>2, <2>3, <2>4, <2>5
<1>4. CASE UpdateRead(p)
  <2> DEFINE patches == Arg(p).patches
  <2>1. Arg(p).op = "updateFields"
    BY <1>4 DEF UpdateRead, Executes, Arg
  <2>2. PICK n \in Copies(patches) :
          Issue(p, <<SetRecord(Change(getRequest(p), patches))>> \o Persist(patches, n))
    BY <1>4, ReachCounts DEF UpdateRead, Rewrites
  <2>3. patches \in Seq(PatchType)
    BY <1>1, <2>1, HeadTyped
  <2>4. Single(p) => patches \in Seq(OnePatch)
    BY <2>1 DEF Single, Tame
  <2> HIDE DEF patches
  <2>5. Arg(p).op = "updateFields" => patches = Arg(p).patches
    BY DEF patches
  <2>6. Green(p) => patches \in Seq(Unripe)
    <3> SUFFICES ASSUME Green(p) PROVE patches \in Seq(Unripe)
      OBVIOUS
    <3>1. \A i \in DOMAIN patches : patches[i] # Status("approved")
      BY <2>1 DEF Green, Ripe, patches
    <3>2. \A i \in 1 .. Len(patches) : patches[i] \in Unripe
      BY <2>3, <3>1 DEF Unripe
    <3> QED
      BY <2>3, <3>2
  <2> QED
    BY <1>2, <2>1, <2>2, <2>3, <2>4, <2>5, <2>6
<1> QED
  BY <1>3, <1>4

\* Handlers that write back what they read, with a field of their own changed.
LEMMA CopyReplies ==
  ASSUME Covered, NEW p \in Pods, PersonaStateRead(p) \/ SlackMessageRead(p)
  PROVE  \E cmds : Replies(p, cmds)
<1> DEFINE r == getRequest(p)
<1>1. /\ pipe[p] # << >> /\ UNCHANGED <<record, approvals>> /\ Unmoved(p)
      /\ Arg(p).op \in {"updatePersonaState", "setSlackMessage"}
      /\ record' = Left(record, Arg(p))
  BY DEF PersonaStateRead, SlackMessageRead, Executes, Arg, server, memory, ghosts, Left, Writes,
         Unmoved
<1>2. /\ r \in RecordType /\ r.min_approvals = record.min_approvals
      /\ Fine(record) => Fine(r)
  BY ReadFields
<1>3. ASSUME NEW cmd \in CommandType, Issue(p, <<cmd>>), Writes(cmd),
             cmd.record.min_approvals = r.min_approvals,
             Fine(r) => Fine(cmd.record), Approved(r) => Approved(cmd.record),
             cmd.record.status = r.status
      PROVE  \E cmds : Replies(p, cmds)
  <2>1. Single(p) => Tame(cmd)
    BY <1>2, <1>3 DEF Single, Tame, Writes
  <2>2. ~Voting(cmd) /\ cmd.op \notin {"updateFields", "persist"}
    BY <1>3 DEF Writes, Voting
  <2>4. Green(p) => cmd.record.status # "approved"
    BY <1>3, ReadFields DEF Green
  <2>3. Replies(p, <<cmd>>)
    BY <1>1, <1>2, <1>3, <2>1, <2>2, <2>4, RepliesOne
  <2> QED
    BY <2>3
<1>4. CASE PersonaStateRead(p)
  <2> DEFINE new == [r EXCEPT !.persona_state = @ \cup {Arg(p).persona}]
             cmd == [op |-> "setPersona", record |-> new]
  <2>1. Arg(p).op = "updatePersonaState" /\ Issue(p, <<cmd>>)
    BY <1>4 DEF PersonaStateRead, Executes, Arg
  <2>2. Arg(p).persona \in Personas
    BY <1>1, <2>1, HeadTyped
  <2> HIDE DEF r
  <2>3. new \in RecordType
    BY <1>2, <2>2 DEF RecordType
  <2>4. /\ new.min_approvals = r.min_approvals /\ new.status = r.status
        /\ Fine(r) => Fine(new)
    BY <1>2 DEF RecordType, Fine
  <2>5. Approved(r) => Approved(new)
    BY <1>2 DEF RecordType, Approved
  <2> HIDE DEF new
  <2>6. cmd \in CommandType
    BY <2>3 DEF CommandType
  <2>7. Writes(cmd) /\ cmd.record = new
    BY DEF Writes
  <2> HIDE DEF cmd
  <2> QED
    BY <1>3, <2>1, <2>4, <2>5, <2>6, <2>7
<1>5. CASE SlackMessageRead(p)
  <2> DEFINE new == [r EXCEPT !.slack_message_ts = TRUE]
             cmd == SetRecord(new)
  <2>1. Issue(p, <<cmd>>)
    BY <1>5 DEF SlackMessageRead
  <2> HIDE DEF r
  <2>2. new \in RecordType
    BY <1>2 DEF RecordType
  <2>3. /\ new.min_approvals = r.min_approvals /\ new.status = r.status
        /\ Fine(r) => Fine(new)
    BY <1>2 DEF RecordType, Fine
  <2>4. Approved(r) => Approved(new)
    BY <1>2 DEF RecordType, Approved
  <2> HIDE DEF new
  <2>5. cmd \in CommandType
    BY <2>2 DEF SetRecord, CommandType
  <2>6. Writes(cmd) /\ cmd.record = new
    BY DEF SetRecord, Writes
  <2> HIDE DEF cmd
  <2> QED
    BY <1>3, <2>1, <2>3, <2>4, <2>5, <2>6
<1> QED
  BY <1>4, <1>5

LEMMA PersistReplies ==
  ASSUME Covered, NEW p \in Pods, PersistRead(p)
  PROVE  \E cmds : Replies(p, cmds)
<1> DEFINE patches == <<Arg(p).patch>>
           new == Change(record, patches)
           cmd == SetRecord(new)
<1>1. /\ pipe[p] # << >> /\ Arg(p).op = "persist" /\ UNCHANGED <<record, approvals>>
      /\ Unmoved(p) /\ Issue(p, <<cmd>>)
      /\ record' = Left(record, Arg(p))
  BY DEF PersistRead, Executes, Arg, server, memory, ghosts, Left, Writes, Unmoved
<1>2. /\ patches \in Seq(PatchType)
      /\ Arg(p).patch \in OnePatch => patches \in Seq(OnePatch)
      /\ Arg(p).patch \in Helpful => patches \in Seq(Helpful)
      /\ Arg(p).patch # Status("approved") => patches \in Seq(Unripe)
  <2>1. Arg(p).patch \in PatchType
    BY <1>1, HeadTyped
  <2> QED
    BY <2>1 DEF Unripe
<1>3. Single(p) => Fine(record) /\ Arg(p).patch \in OnePatch
  BY <1>1 DEF Single, Tame
<1>11. Green(p) => Arg(p).patch # Status("approved") /\ record.status # "approved"
  BY <1>1 DEF Green, Ripe
<1>4. record \in RecordType
  BY DEF Covered, SafeRecord
<1> HIDE DEF patches
<1>5. /\ new \in RecordType
      /\ new.min_approvals = record.min_approvals
      /\ Single(p) => Fine(new)
      /\ Green(p) => new.status # "approved"
      /\ Arg(p).patch \in Helpful /\ Approved(record) => Approved(new)
  BY <1>2, <1>3, <1>4, <1>11, ChangeTyped, ChangeFields
<1> HIDE DEF new
<1>6. cmd \in CommandType
  BY <1>5 DEF SetRecord, CommandType
<1>7. Writes(cmd) /\ cmd.record = new /\ cmd.op = "set"
  BY DEF SetRecord, Writes
<1> HIDE DEF cmd
<1>8. Single(p) => Tame(cmd)
  BY <1>5, <1>7 DEF Tame
<1>9. ~Voting(cmd)
  BY <1>7 DEF Voting
<1>10. Replies(p, <<cmd>>)
  BY <1>1, <1>5, <1>6, <1>7, <1>8, <1>9, RepliesOne
<1> QED
  BY <1>10

LEMMA WrittenReplies ==
  ASSUME Covered, NEW p \in Pods, PersonaStateWritten(p) \/ RecordWritten(p)
  PROVE  \E cmds : Replies(p, cmds)
<1>1. /\ pipe[p] # << >> /\ UNCHANGED approvals /\ Unmoved(p)
      /\ Arg(p).op \in {"setPersona", "set"} /\ record' = Left(record, Arg(p))
  BY DEF PersonaStateWritten, RecordWritten, Executes, Arg, memory, ghosts, Left, Writes, Unmoved
<1>2. CASE Issue(p, << >>)
  <2>1. Replies(p, << >>)
    BY <1>1, <1>2, RepliesNothing
  <2> QED
    BY <2>1
<1>3. CASE Issue(p, <<[op |-> "settle"]>>)
  <2> DEFINE cmd == [op |-> "settle"]
  <2>1. cmd \in CommandType
    BY DEF CommandType
  <2>2. cmd.op = "settle" /\ ~Writes(cmd) /\ ~Voting(cmd) /\ Tame(cmd)
    BY DEF Writes, Voting, Tame
  <2>3. Issue(p, <<cmd>>)
    BY <1>3
  <2> HIDE DEF cmd
  <2>4. Replies(p, <<cmd>>)
    BY <1>1, <2>1, <2>2, <2>3, RepliesOne
  <2> QED
    BY <2>4
<1> QED
  BY <1>2, <1>3 DEF PersonaStateWritten, RecordWritten

LEMMA SettledReplies ==
  ASSUME Covered, Proxied, NEW p \in Pods, PersonaSettled(p)
  PROVE  \E cmds : Replies(p, cmds)
<1> DEFINE open == <<Status("ready_for_approval")>>
<1>1. /\ pipe[p] # << >> /\ Arg(p).op = "settle" /\ UNCHANGED approvals /\ Unmoved(p)
      /\ record' = Left(record, Arg(p))
  BY DEF PersonaSettled, Settles, Executes, Arg, server, ghosts, Left, Writes, Unmoved
<1>2. CASE Issue(p, << >>)
  <2>1. Replies(p, << >>)
    BY <1>1, <1>2, RepliesNothing
  <2> QED
    BY <2>1
<1>3. ASSUME getRequest(p).status = "awaiting_personas", NEW n \in Copies(open),
             Issue(p, <<Update(open)>> \o Persist(open, n))
      PROVE  \E cmds : Replies(p, cmds)
  <2>1. open \in Seq(PatchType) /\ open \in Seq(OnePatch) /\ open \in Seq(Unripe)
    <3>1. Status("ready_for_approval") \in Unripe
      BY UnripePatches DEF Statuses
    <3>2. open \in Seq(PatchType) /\ open \in Seq(OnePatch)
      BY PatchTypes DEF Statuses
    <3> QED
      BY <3>1, <3>2
  <2> HIDE DEF open
  <2> DEFINE cmd == Update(open)
             P == Persist(open, n)
  <2>2. cmd \in CommandType /\ cmd.op = "updateFields" /\ Tame(cmd)
    BY <2>1 DEF Update, CommandType, Tame, Writes
  <2>11. ~Ripe(cmd)
    <3>1. cmd.op = "updateFields" /\ cmd.patches = open
      BY DEF Update
    <3>2. \A i \in DOMAIN open : open[i] \in Unripe
      BY <2>1
    <3> QED
      BY <3>1, <3>2 DEF Ripe, Writes, Unripe
  <2>3. /\ P \in Seq([op: {"persist"}, patch: PatchType])
        /\ \A j \in 1 .. Len(P) : P[j].op = "persist" /\ P[j].patch \in OnePatch
        /\ \A j \in 1 .. Len(P) : P[j].patch \in Unripe
    <3>1. \A j \in 1 .. Len(P) : P[j].patch \in Unripe
      BY <2>1, PersistElements
    <3> QED
      BY <2>1, <3>1, PersistElements
  <2>4. P \in Seq(CommandType)
    <3>1. [op: {"persist"}, patch: PatchType] \subseteq CommandType
      BY DEF CommandType
    <3>2. Seq([op: {"persist"}, patch: PatchType]) \subseteq Seq(CommandType)
      BY <3>1, SeqMonotone
    <3> HIDE DEF P
    <3> QED
      BY <2>3, <3>2
  <2> DEFINE cmds == <<cmd>> \o P
  <2>5. Issue(p, cmds)
    BY <1>3
  <2> HIDE DEF P, cmd
  <2>6. \A j \in 1 .. Len(P) : P[j].op \in {"persist", "updateFields"} /\ Tame(P[j])
    BY <2>3 DEF Tame, Writes
  <2>7. /\ cmds \in Seq(CommandType) /\ DOMAIN cmds = 1 .. Len(cmds) /\ cmds[1] = cmd
        /\ \A j \in DOMAIN cmds : j = 1 \/ (j - 1 \in 1 .. Len(P) /\ cmds[j] = P[j - 1])
    BY <2>2, <2>4
  <2> HIDE DEF cmds
  <2>8. \A j \in DOMAIN cmds : cmds[j].op \in {"persist", "updateFields"} /\ Tame(cmds[j])
    BY <2>2, <2>6, <2>7
  <2>9. ~Approved(getRequest(p))
    BY <1>3 DEF Approved
  <2>12. \A j \in 1 .. Len(P) : ~Ripe(P[j])
    BY <2>3 DEF Ripe, Writes, Unripe
  <2>13. \A j \in DOMAIN cmds : ~Ripe(cmds[j])
    BY <2>7, <2>11, <2>12
  <2>10. Replies(p, cmds)
    BY <1>1, <2>5, <2>7, <2>8, <2>9, <2>13, RepliesUnapproved
  <2> QED
    BY <2>10
<1>4. \/ Issue(p, << >>)
      \/ /\ getRequest(p).status = "awaiting_personas"
         /\ \E n \in Reach(p, open) : Issue(p, <<Update(open)>> \o Persist(open, n))
  BY DEF PersonaSettled, Settles
<1> HIDE DEF open
<1> QED
  BY <1>2, <1>3, <1>4, ReachCounts

\* A read and a scan ask for nothing.
LEMMA ReadReplies ==
  ASSUME Covered, NEW p \in Pods, Scanned(p) \/ GetAnswered(p)
  PROVE  Replies(p, << >>)
<1>1. /\ Arg(p).op \in {"scan", "get"} /\ Issue(p, << >>) /\ UNCHANGED <<record, approvals>>
      /\ Unmoved(p)
  BY DEF Scanned, GetAnswered, Executes, Arg, server, ghosts, Unmoved
<1> QED
  BY <1>1, RepliesNothing DEF Left, Writes

\* Every step of a connection replies, but for the approval that decides.
LEMMA StepReplies ==
  ASSUME Covered, Proxied, NEW p \in Pods, Step(p),
         ~(ApproveFound(p) /\ getRequest(p).status = "ready_for_approval")
  PROVE  \E cmds : Replies(p, cmds)
<1>1. ApproveFound(p) => \E cmds : Replies(p, cmds)
  BY RefusalReplies
<1>2. Scanned(p) \/ GetAnswered(p) => \E cmds : Replies(p, cmds)
  BY ReadReplies
<1> QED
  BY <1>1, <1>2, DenyReplies, AckReplies, ApprovalsReplies, UpdateReplies, CopyReplies,
     PersistReplies, WrittenReplies, SettledReplies DEF Step

-----------------------------------------------------------------------------
(* The approval: the course a single process takes                         *)

NoVote(t)  == \A j \in DOMAIN t : ~Voting(t[j])
OneVote(t) == \E k \in DOMAIN t : Voting(t[k]) /\ \A j \in DOMAIN t : Voting(t[j]) => j = k

\* The request needs several approvals, and is never decided by one.
Several(p) ==
  /\ record.min_approvals # 1 /\ "approved" \notin outcomes
  /\ \A j \in DOMAIN pipe[p] : Writes(pipe[p][j]) => pipe[p][j].record.min_approvals # 1

\* One approval decides, and nobody has approved.
Undecided(p) ==
  /\ "approved" \notin outcomes /\ snapshot = {} /\ approvals = << >> /\ Fine(record)
  /\ AllTame(pipe[p]) /\ NoVote(pipe[p])

\* One approval has decided: its vote is in the list or on its way there, and either the
\* decision is still on its way, shown meanwhile by the snapshot, or nothing undoes it.
Voted(list, t) == \/ list = << >> /\ OneVote(t)
                  \/ Len(list) = 1 /\ NoVote(t)
Reaching(p) ==
  \/ snapshot = {p} /\ (ToUpdate(pipe[p]) \/ ToPatch(record, pipe[p]))
  \/ /\ snapshot = {p} \/ (Approved(record) /\ Clean(pipe[p]))
     /\ Settled(record, pipe[p])
Announced(p) ==
  /\ "approved" \in outcomes /\ Fine(record) /\ AllTame(pipe[p])
  /\ Voted(approvals, pipe[p]) /\ Reaching(p)

Course(p) == Several(p) \/ Undecided(p) \/ Announced(p)

LEMMA PipeTyped ==
  ASSUME Covered, NEW p \in Pods
  PROVE  pipe[p] \in Seq(CommandType)
<1>1. Commands \subseteq CommandType
  BY SafeIsTyped DEF Covered, Commands
<1>2. Seq(Commands) \subseteq Seq(CommandType)
  BY <1>1, SeqMonotone
<1> QED
  BY <1>2 DEF Covered

LEMMA PipeIssued ==
  ASSUME Covered, NEW p \in Pods, NEW cmds, Issue(p, cmds)
  PROVE  pipe'[p] = Tail(pipe[p]) \o cmds
BY DEF Covered, Issue

\* Where the commands of a connection come from.
LEMMA Origins ==
  ASSUME NEW X, NEW t \in Seq(X), t # << >>, NEW cmds \in Seq(X)
  PROVE  \A j \in DOMAIN (Tail(t) \o cmds) :
           \/ j + 1 \in DOMAIN t /\ (Tail(t) \o cmds)[j] = t[j + 1]
           \/ j - Len(Tail(t)) \in DOMAIN cmds /\ (Tail(t) \o cmds)[j] = cmds[j - Len(Tail(t))]
<1> DEFINE u == Tail(t)
           w == u \o cmds
<1>1. /\ u \in Seq(X) /\ Len(u) = Len(t) - 1 /\ Len(t) \in Nat \ {0}
      /\ \A j \in 1 .. Len(t) - 1 : u[j] = t[j + 1]
      /\ DOMAIN t = 1 .. Len(t)
  BY TailOf
<1> HIDE DEF u
<1>2. /\ w \in Seq(X) /\ Len(w) = Len(u) + Len(cmds) /\ Len(cmds) \in Nat
      /\ DOMAIN cmds = 1 .. Len(cmds)
      /\ \A j \in 1 .. Len(u) : w[j] = u[j]
      /\ \A j \in Len(u) + 1 .. Len(u) + Len(cmds) :
           j - Len(u) \in 1 .. Len(cmds) /\ w[j] = cmds[j - Len(u)]
  <2>1. /\ w \in Seq(X) /\ Len(w) = Len(u) + Len(cmds) /\ Len(cmds) \in Nat
        /\ DOMAIN cmds = 1 .. Len(cmds)
    BY <1>1, JoinOf
  <2>2. \A j \in 1 .. Len(u) : w[j] = u[j]
    BY <1>1, JoinOf
  <2>3. \A j \in Len(u) + 1 .. Len(u) + Len(cmds) :
           j - Len(u) \in 1 .. Len(cmds) /\ w[j] = cmds[j - Len(u)]
    BY <1>1, JoinOf
  <2> QED
    BY <2>1, <2>2, <2>3
<1>3. DOMAIN w = 1 .. Len(w)
  BY <1>2
<1> HIDE DEF w
<1>4. ASSUME NEW j \in DOMAIN w
      PROVE  \/ j + 1 \in DOMAIN t /\ w[j] = t[j + 1]
             \/ j - Len(u) \in DOMAIN cmds /\ w[j] = cmds[j - Len(u)]
  <2>1. CASE j <= Len(u)
    <3>1. j \in 1 .. Len(u) /\ j \in 1 .. Len(t) - 1 /\ j + 1 \in 1 .. Len(t)
      BY <1>1, <1>2, <1>3, <2>1
    <3> QED
      BY <1>1, <1>2, <3>1
  <2>2. CASE j > Len(u)
    <3>1. j \in Len(u) + 1 .. Len(u) + Len(cmds)
      BY <1>1, <1>2, <1>3, <2>2
    <3> QED
      BY <1>2, <3>1
  <2>3. j \in Int /\ Len(u) \in Int
    BY <1>1, <1>2, <1>3
  <2> QED
    BY <2>1, <2>2, <2>3
<1> QED
  BY <1>4 DEF w, u

LEMMA TameOn ==
  ASSUME NEW X, NEW t \in Seq(X), t # << >>, NEW cmds \in Seq(X), AllTame(t), AllTame(cmds)
  PROVE  AllTame(Tail(t) \o cmds)
BY Origins DEF AllTame

LEMMA CleanOn ==
  ASSUME NEW X, NEW t \in Seq(X), t # << >>, NEW cmds \in Seq(X), Clean(t), Clean(cmds)
  PROVE  Clean(Tail(t) \o cmds)
BY Origins DEF Clean

LEMMA NoVoteOn ==
  ASSUME NEW X, NEW t \in Seq(X), t # << >>, NEW cmds \in Seq(X), NoVote(cmds),
         \A j \in DOMAIN t : Voting(t[j]) => j = 1
  PROVE  NoVote(Tail(t) \o cmds)
<1> DEFINE u == Tail(t) \o cmds
<1>1. \A j \in DOMAIN u : j \in Nat \ {0}
  BY TailOf, JoinOf
<1>2. ASSUME NEW j \in DOMAIN u PROVE ~Voting(u[j])
  <2>1. j + 1 # 1
    BY <1>1
  <2> QED
    BY <2>1, Origins DEF NoVote
<1> QED
  BY <1>2 DEF NoVote

\* The one vote that is on its way moves up.
LEMMA OneVoteOn ==
  ASSUME NEW X, NEW t \in Seq(X), t # << >>, NEW cmds \in Seq(X), NoVote(cmds), OneVote(t),
         ~Voting(Head(t))
  PROVE  OneVote(Tail(t) \o cmds)
<1> DEFINE u == Tail(t)
           w == u \o cmds
<1>1. /\ u \in Seq(X) /\ Len(u) = Len(t) - 1 /\ Len(t) \in Nat \ {0} /\ Head(t) = t[1]
      /\ \A j \in 1 .. Len(t) - 1 : u[j] = t[j + 1]
      /\ DOMAIN t = 1 .. Len(t)
  BY TailOf
<1>2. /\ w \in Seq(X) /\ Len(w) = Len(u) + Len(cmds) /\ Len(cmds) \in Nat
      /\ \A j \in 1 .. Len(u) : w[j] = u[j]
  BY <1>1, JoinOf
<1>3. DOMAIN w = 1 .. Len(w)
  BY <1>2
<1>4. \A j \in DOMAIN w : \/ j + 1 \in DOMAIN t /\ w[j] = t[j + 1]
                          \/ j - Len(u) \in DOMAIN cmds /\ w[j] = cmds[j - Len(u)]
  BY Origins
<1> HIDE DEF u, w
<1>5. PICK k \in DOMAIN t : Voting(t[k]) /\ \A j \in DOMAIN t : Voting(t[j]) => j = k
  BY DEF OneVote
<1>6. k - 1 \in 1 .. Len(t) - 1 /\ (k - 1) + 1 = k /\ k - 1 \in 1 .. Len(u)
  <2>1. k # 1
    BY <1>1, <1>5
  <2> QED
    BY <1>1, <1>5, <2>1
<1>7. w[k - 1] = t[k] /\ k - 1 \in DOMAIN w
  BY <1>1, <1>2, <1>3, <1>6
<1>8. ASSUME NEW j \in DOMAIN w, Voting(w[j]) PROVE j = k - 1
  <2>1. j + 1 \in DOMAIN t /\ w[j] = t[j + 1]
    BY <1>4, <1>8 DEF NoVote
  <2>2. j + 1 = k
    BY <1>5, <1>8, <2>1
  <2> QED
    BY <1>3, <1>6, <2>2
<1> QED
  BY <1>5, <1>7, <1>8 DEF OneVote, w, u

\* A vote joins a connection that carries none after its head.
LEMMA VoteJoins ==
  ASSUME NEW X, NEW t \in Seq(X), t # << >>, NEW cmds \in Seq(X), NEW k \in 1 .. Len(cmds),
         \A j \in DOMAIN t : Voting(t[j]) => j = 1,
         Voting(cmds[k]), \A j \in DOMAIN cmds : Voting(cmds[j]) => j = k
  PROVE  OneVote(Tail(t) \o cmds)
<1> DEFINE u == Tail(t)
           w == u \o cmds
<1>1. /\ u \in Seq(X) /\ Len(u) \in Nat /\ DOMAIN t = 1 .. Len(t)
      /\ Len(u) = Len(t) - 1 /\ Len(t) \in Nat
  BY TailOf
<1>2. /\ w \in Seq(X) /\ Len(w) = Len(u) + Len(cmds) /\ Len(cmds) \in Nat
      /\ DOMAIN cmds = 1 .. Len(cmds)
      /\ \A j \in 1 .. Len(cmds) : w[Len(u) + j] = cmds[j]
  BY <1>1, JoinOf
<1>3. DOMAIN w = 1 .. Len(w)
  BY <1>2
<1>4. \A j \in DOMAIN w : \/ j + 1 \in DOMAIN t /\ w[j] = t[j + 1]
                          \/ j - Len(u) \in DOMAIN cmds /\ w[j] = cmds[j - Len(u)]
  BY Origins
<1> HIDE DEF u, w
<1>5. k \in Nat \ {0} /\ Len(u) + k \in DOMAIN w
  BY <1>1, <1>2, <1>3
<1>6. Voting(w[Len(u) + k])
  BY <1>2
<1>7. ASSUME NEW j \in DOMAIN w, Voting(w[j]) PROVE j = Len(u) + k
  <2>1. j \in Nat \ {0}
    BY <1>3
  <2>2. CASE j + 1 \in DOMAIN t /\ w[j] = t[j + 1]
    <3>1. j + 1 = 1
      BY <1>7, <2>2
    <3> QED
      BY <2>1, <3>1
  <2>3. CASE j - Len(u) \in DOMAIN cmds /\ w[j] = cmds[j - Len(u)]
    <3>1. j - Len(u) = k
      BY <1>7, <2>3
    <3>2. j \in Int /\ Len(u) \in Int /\ k \in Int
      BY <1>1, <1>5, <2>1
    <3> QED
      BY <3>1, <3>2
  <2> QED
    BY <1>4, <2>2, <2>3
<1> QED
  BY <1>5, <1>6, <1>7 DEF OneVote, w, u

LEMMA SeveralReplies ==
  ASSUME Covered, NEW p \in Pods, pipe[p] # << >>, NEW cmds, Replies(p, cmds), Several(p)
  PROVE  Several(p)'
<1> DEFINE t == pipe[p]
           w == Tail(t) \o cmds
<1>1. /\ t \in Seq(CommandType) /\ cmds \in Seq(CommandType) /\ pipe'[p] = w
      /\ Head(t) = t[1] /\ 1 \in DOMAIN t /\ Arg(p) = Head(t)
      /\ record' = Left(record, Head(t))
  <2>1. t \in Seq(CommandType) /\ cmds \in Seq(CommandType)
    BY PipeTyped DEF Replies
  <2>2. pipe'[p] = w
    BY PipeIssued DEF Replies
  <2>3. Head(t) = t[1] /\ 1 \in DOMAIN t
    BY <2>1
  <2>4. Arg(p) = Head(t) /\ record' = Left(record, Head(t))
    BY DEF Arg, Replies
  <2> QED
    BY <2>1, <2>2, <2>3, <2>4
<1>2. \A j \in DOMAIN w : \/ j + 1 \in DOMAIN t /\ w[j] = t[j + 1]
                          \/ j - Len(Tail(t)) \in DOMAIN cmds /\ w[j] = cmds[j - Len(Tail(t))]
  BY <1>1, Origins
<1>3. SameQuorum(cmds) /\ "approved" \notin outcomes'
  BY DEF Replies, Several
<1> HIDE DEF w
<1>4. ASSUME NEW j \in DOMAIN w, Writes(w[j]) PROVE w[j].record.min_approvals # 1
  BY <1>2, <1>3, <1>4 DEF Several, SameQuorum
<1>5. record'.min_approvals # 1
  BY <1>1 DEF Left, Several
<1> QED
  BY <1>1, <1>3, <1>4, <1>5 DEF Several

LEMMA UndecidedReplies ==
  ASSUME Covered, NEW p \in Pods, pipe[p] # << >>, NEW cmds, Replies(p, cmds), Undecided(p)
  PROVE  Undecided(p)'
<1> DEFINE t == pipe[p]
           w == Tail(t) \o cmds
<1>1. t \in Seq(CommandType) /\ cmds \in Seq(CommandType) /\ pipe'[p] = w
  <2>1. t \in Seq(CommandType) /\ cmds \in Seq(CommandType)
    BY PipeTyped DEF Replies
  <2>2. pipe'[p] = w
    BY PipeIssued DEF Replies
  <2> QED
    BY <2>1, <2>2
<1>2. Head(t) = t[1] /\ 1 \in DOMAIN t
  BY <1>1
<1>3. Tame(Arg(p)) /\ ~Voting(Arg(p))
  BY <1>2 DEF Arg, Undecided, AllTame, NoVote
<1>4. Single(p)
  BY <1>3 DEF Single, Undecided
<1>5. AllTame(cmds) /\ NoVote(cmds) /\ approvals' = approvals
  BY <1>3, <1>4 DEF Replies, Tracks, NoVote, Voting
<1>6. Fine(record')
  BY <1>3 DEF Replies, Left, Tame, Undecided
<1> HIDE DEF w
<1>7. AllTame(w)
  BY <1>1, <1>5, TameOn DEF w, Undecided
<1>8. NoVote(w)
  BY <1>1, <1>5, NoVoteOn DEF w, Undecided, NoVote
<1>9. "approved" \notin outcomes' /\ snapshot' = {} /\ approvals' = << >>
  BY <1>5 DEF Undecided, Replies
<1> QED
  BY <1>1, <1>6, <1>7, <1>8, <1>9 DEF Undecided, AllTame, NoVote, Fine

LEMMA VotedReplies ==
  ASSUME Covered, NEW p \in Pods, pipe[p] # << >>, NEW cmds, Replies(p, cmds),
         AllTame(pipe[p]), AllTame(cmds), Voted(approvals, pipe[p])
  PROVE  Voted(approvals', Tail(pipe[p]) \o cmds)
<1> DEFINE t == pipe[p]
           w == Tail(t) \o cmds
<1>1. t \in Seq(CommandType) /\ cmds \in Seq(CommandType) /\ t # << >>
  BY PipeTyped DEF Replies
<1>2. Head(t) = t[1] /\ 1 \in DOMAIN t /\ Arg(p) = Head(t)
  BY <1>1 DEF Arg
<1>3. Tracks(p, cmds) /\ Tame(Arg(p))
  BY <1>2 DEF Replies, AllTame
<1>4. CASE Voting(Arg(p))
  <2>1. approvals = << >> /\ \A j \in DOMAIN t : Voting(t[j]) => j = 1
    BY <1>2, <1>4 DEF Voted, OneVote, NoVote
  <2>2. CASE Arg(p).op = "addApproval"
    <3>1. Len(cmds) = 1 /\ Voting(cmds[1]) /\ approvals' = approvals
      BY <1>3, <2>2 DEF Tracks
    <3>2. 1 \in 1 .. Len(cmds) /\ \A j \in DOMAIN cmds : Voting(cmds[j]) => j = 1
      <4>1. DOMAIN cmds = 1 .. 1
        BY <1>1, <3>1
      <4> QED
        BY <3>1, <4>1
    <3>3. OneVote(w)
      BY <1>1, <2>1, <3>1, <3>2, VoteJoins
    <3> QED
      BY <2>1, <3>1, <3>3 DEF Voted
  <2>3. CASE Arg(p).op = "setApprovals"
    <3>1. approvals' = Arg(p).list /\ Len(Arg(p).list) = 1 /\ NoVote(cmds)
      BY <1>3, <2>3 DEF Tracks, Tame, NoVote
    <3>2. NoVote(w)
      BY <1>1, <2>1, <3>1, NoVoteOn
    <3> QED
      BY <3>1, <3>2 DEF Voted
  <2> QED
    BY <1>4, <2>2, <2>3 DEF Voting
<1>5. CASE ~Voting(Arg(p))
  <2>1. approvals' = approvals /\ NoVote(cmds)
    BY <1>3, <1>5 DEF Tracks, Voting, NoVote
  <2>2. CASE approvals = << >> /\ OneVote(t)
    <3>1. OneVote(w)
      BY <1>1, <1>2, <1>5, <2>1, <2>2, OneVoteOn
    <3> QED
      BY <2>1, <2>2, <3>1 DEF Voted
  <2>3. CASE Len(approvals) = 1 /\ NoVote(t)
    <3>1. NoVote(w)
      BY <1>1, <2>1, <2>3, NoVoteOn DEF NoVote
    <3> QED
      BY <2>1, <2>3, <3>1 DEF Voted
  <2> QED
    BY <2>2, <2>3 DEF Voted
<1> QED
  BY <1>4, <1>5

\* A process that has announced an approval reads the request approved.
LEMMA AnnouncedRead ==
  ASSUME Covered, NEW p \in Pods, Announced(p)
  PROVE  Approved(getRequest(p))
<1>1. p \in snapshot \/ Approved(record)
  BY DEF Announced, Reaching
<1> QED
  BY <1>1, ReadFields DEF Announced

LEMMA AnnouncedReplies ==
  ASSUME Covered, NEW p \in Pods, pipe[p] # << >>, NEW cmds, Replies(p, cmds), Announced(p)
  PROVE  Announced(p)'
<1> DEFINE t == pipe[p]
           w == Tail(t) \o cmds
           new == Left(record, Head(t))
<1>1. /\ t \in Seq(CommandType) /\ t # << >> /\ cmds \in Seq(CommandType) /\ pipe'[p] = w
      /\ record' = new /\ Arg(p) = Head(t)
  <2>1. t \in Seq(CommandType) /\ cmds \in Seq(CommandType)
    BY PipeTyped DEF Replies
  <2>2. pipe'[p] = w
    BY PipeIssued DEF Replies
  <2>3. record' = new /\ Arg(p) = Head(t)
    BY DEF Arg, Replies
  <2> QED
    BY <2>1, <2>2, <2>3
<1>2. Head(t) = t[1] /\ 1 \in DOMAIN t
  BY <1>1
<1>3. Tame(Arg(p)) /\ (Voting(Arg(p)) => approvals = << >>)
  BY <1>1, <1>2 DEF Announced, AllTame, Voted, NoVote
<1>4. Single(p) /\ Approved(getRequest(p))
  BY <1>3, AnnouncedRead DEF Single, Announced
<1>5. AllTame(cmds) /\ Answers(t, record, cmds)
  BY <1>4 DEF Replies
<1>6. Fine(new)
  BY <1>1, <1>3 DEF Left, Tame, Announced
<1>7. AllTame(w)
  <2> HIDE DEF t
  <2>1. AllTame(t)
    BY DEF Announced, t
  <2> QED
    BY <1>1, <1>5, <2>1, TameOn
<1>8. Voted(approvals', w)
  BY <1>5, VotedReplies DEF Announced
<1>9. snapshot' = snapshot /\ "approved" \in outcomes'
  BY DEF Replies, Announced
<1> HIDE DEF t, w, new
<1>10. \/ snapshot' = {p} /\ (ToUpdate(w) \/ ToPatch(new, w))
       \/ /\ snapshot' = {p} \/ (Approved(new) /\ Clean(w))
          /\ Settled(new, w)
  <2>1. CASE snapshot = {p} /\ ToUpdate(t)
    <3>1. ToUpdate(w) \/ ToPatch(new, w)
      BY <1>1, <1>5, <2>1, ToUpdateOn DEF w, new
    <3> QED
      BY <1>9, <2>1, <3>1
  <2>2. CASE snapshot = {p} /\ ToPatch(record, t)
    <3>1. ToPatch(new, w) \/ Settled(new, w)
      BY <1>1, <1>5, <2>2, ToPatchOn DEF w, new
    <3> QED
      BY <1>9, <2>2, <3>1
  <2>3. CASE Settled(record, t) /\ (snapshot = {p} \/ (Approved(record) /\ Clean(t)))
    <3>1. Clean(cmds) /\ Settled(new, w)
      BY <1>1, <1>5, <2>3, SettledOn DEF w, new
    <3>2. CASE snapshot = {p}
      BY <1>9, <3>1, <3>2
    <3>3. CASE Approved(record) /\ Clean(t)
      <4>1. Clean(w)
        BY <1>1, <3>1, <3>3, CleanOn DEF w
      <4>2. Approved(new)
        BY <1>2, <3>3 DEF Clean, Left, new
      <4> QED
        BY <3>1, <4>1, <4>2
    <3> QED
      BY <2>3, <3>2, <3>3
  <2> QED
    BY <2>1, <2>2, <2>3 DEF Announced, Reaching, t
<1> QED
  BY <1>1, <1>6, <1>7, <1>8, <1>9, <1>10 DEF Announced, Reaching, AllTame, Fine

-----------------------------------------------------------------------------
(* The approval: what is not a reply                                       *)

\* The commands that come from outside.
Outside(cmd) == cmd.op \in {"approve", "deny", "ack", "get", "setSlackMessage", "scan"}

\* A command joins the end of a connection, which loses none.
LEMMA Joined ==
  ASSUME Covered, NEW p \in Pods, Course(p), NEW cmd \in CommandType, Outside(cmd), Call(p, cmd)
  PROVE  Course(p)'
<1> DEFINE t == pipe[p]
           cmds == <<cmd>>
           w == t \o cmds
<1>1. /\ t \in Seq(CommandType) /\ UNCHANGED <<record, approvals, snapshot, outcomes>>
  BY PipeTyped DEF Call, server, memory, ghosts
<1>2. /\ cmds \in Seq(CommandType) /\ Len(cmds) = 1 /\ DOMAIN cmds = 1 .. 1 /\ cmds[1] = cmd
  OBVIOUS
<1>3. pipe'[p] = w
  BY <1>1 DEF Covered, Call
<1>4. /\ cmd.op \in {"approve", "deny", "ack", "get", "setSlackMessage", "scan"}
      /\ ~Writes(cmd) /\ ~Voting(cmd) /\ Tame(cmd)
  BY DEF Outside, Writes, Voting, Tame
<1> HIDE DEF cmds
<1>5. /\ w \in Seq(CommandType) /\ Len(w) = Len(t) + 1 /\ Len(t) \in Nat
      /\ DOMAIN t = 1 .. Len(t) /\ DOMAIN w = 1 .. Len(t) + 1
      /\ \A j \in 1 .. Len(t) : w[j] = t[j]
      /\ w[Len(t) + 1] = cmd
  <2>1. /\ w \in Seq(CommandType) /\ Len(w) = Len(t) + 1 /\ Len(t) \in Nat
        /\ \A j \in 1 .. Len(t) : w[j] = t[j]
    BY <1>1, <1>2, JoinOf
  <2>2. w[Len(t) + 1] = cmds[1]
    <3>1. 1 \in 1 .. Len(cmds)
      BY <1>2
    <3> QED
      BY <1>1, <1>2, <3>1, JoinOf
  <2> HIDE DEF w
  <2> QED
    BY <1>1, <1>2, <2>1, <2>2
<1>6. \A j \in DOMAIN w : (j \in DOMAIN t /\ w[j] = t[j]) \/ w[j] = cmd
  BY <1>5
<1>7. \A j \in DOMAIN t : j \in DOMAIN w /\ w[j] = t[j]
  BY <1>5
<1>8. NoUndoing(cmds, 1) /\ Led(cmds) /\ Clean(cmds)
  BY <1>2, <1>4 DEF NoUndoing, Led, Clean
<1> HIDE DEF t, w
<1>9. CASE Several(p)
  <2>1. \A j \in DOMAIN w : Writes(w[j]) => w[j].record.min_approvals # 1
    BY <1>4, <1>6, <1>9 DEF Several, t
  <2> QED
    BY <1>1, <1>3, <1>9, <2>1 DEF Several, Course
<1>10. AllTame(t) => AllTame(w)
  BY <1>4, <1>6 DEF AllTame
<1>11. NoVote(t) => NoVote(w)
  BY <1>4, <1>6 DEF NoVote
<1>12. CASE Undecided(p)
  <2>1. AllTame(w) /\ NoVote(w)
    BY <1>10, <1>11, <1>12 DEF Undecided, t
  <2> QED
    BY <1>1, <1>3, <1>12, <2>1 DEF Undecided, Course, AllTame, NoVote, Fine
<1>13. CASE Announced(p)
  <2>1. AllTame(w)
    BY <1>10, <1>13 DEF Announced, t
  <2>2. Voted(approvals, w)
    <3>1. OneVote(t) => OneVote(w)
      BY <1>4, <1>6, <1>7 DEF OneVote
    <3> QED
      BY <1>11, <1>13, <3>1 DEF Announced, Voted, t
  <2>3. ToUpdate(t) => ToUpdate(w)
    <3> SUFFICES ASSUME ToUpdate(t) PROVE ToUpdate(w)
      OBVIOUS
    <3>1. PICK k \in 1 .. Len(t) : t[k] = Update(Decision) /\ NoUndoing(t, k)
      BY DEF ToUpdate
    <3>2. k \in 1 .. Len(t) + 1 /\ k \in 1 .. Len(w) /\ w[k] = t[k]
      BY <1>5
    <3>3. NoUndoing(w, k)
      BY <1>1, <1>2, <1>8, <3>1, <3>2, JoinNoUndoing DEF w
    <3> QED
      BY <3>1, <3>2, <3>3 DEF ToUpdate
  <2>4. ToPatch(record, t) => ToPatch(record, w)
    <3> SUFFICES ASSUME ToPatch(record, t) PROVE ToPatch(record, w)
      OBVIOUS
    <3>1. PICK k \in 1 .. Len(t) : t[k].op = "persist" /\ PatchesHelp(record, t, k)
      BY DEF ToPatch
    <3>2. k \in 1 .. Len(t) + 1 /\ k \in 1 .. Len(w) /\ w[k] = t[k] /\ 1 \in 1 .. Len(t) + 1
      BY <1>5
    <3>3. PatchesHelp(record, w, k)
      BY <1>1, <1>2, <1>8, <3>1, <3>2, JoinPatches DEF w
    <3>4. NoUndoing(w, 1)
      BY <1>1, <1>2, <1>8, <3>2, JoinNoUndoing DEF w, ToPatch
    <3> QED
      BY <3>1, <3>2, <3>3, <3>4 DEF ToPatch
  <2>5. Settled(record, t) => Settled(record, w)
    BY <1>1, <1>2, <1>8, SettledBy DEF w, Settled
  <2>6. Clean(t) => Clean(w)
    BY <1>4, <1>6 DEF Clean
  <2>7. \/ snapshot = {p} /\ (ToUpdate(w) \/ ToPatch(record, w))
        \/ /\ snapshot = {p} \/ (Approved(record) /\ Clean(w))
           /\ Settled(record, w)
    BY <1>13, <2>3, <2>4, <2>5, <2>6 DEF Announced, Reaching, t
  <2> QED
    BY <1>1, <1>3, <1>13, <2>1, <2>2, <2>7 DEF Announced, Reaching, Course, AllTame, Fine
<1> QED
  BY <1>9, <1>12, <1>13 DEF Course

LEMMA AppendThree ==
  ASSUME NEW X, NEW a \in X, NEW b \in X, NEW c \in X, NEW d \in X
  PROVE  Append(<<a, b, c>>, d) = <<a, b, c, d>>
<1>1. <<a, b, c>> \in Seq(X) /\ <<a, b, c, d>> \in Seq(X)
  OBVIOUS
<1>2. Append(<<a, b, c>>, d) \in Seq(X) /\ Len(Append(<<a, b, c>>, d)) = 4
  BY <1>1
<1>3. /\ Append(<<a, b, c>>, d)[1] = a /\ Append(<<a, b, c>>, d)[2] = b
      /\ Append(<<a, b, c>>, d)[3] = c /\ Append(<<a, b, c>>, d)[4] = d
  BY <1>1
<1>4. Len(<<a, b, c, d>>) = 4
  OBVIOUS
<1>5. \A i \in 1 .. 4 : Append(<<a, b, c>>, d)[i] = <<a, b, c, d>>[i]
  BY <1>3
<1> QED
  BY <1>1, <1>2, <1>4, <1>5, SeqEqual

\* What an accepted approval issues: a read, its vote, its count, a last command, and then field
\* patches.
LEMMA VoteIssued ==
  ASSUME NEW p \in Pods, NEW get, NEW vote, NEW count, NEW last, NEW S,
         NEW patches \in Seq(S), S \subseteq PatchType, NEW n \in Copies(patches),
         get \in CommandType, vote \in CommandType, count \in CommandType, last \in CommandType,
         Issue(p, Append(<<get, vote, count>>, last) \o Persist(patches, n))
  PROVE  \E cmds \in Seq(CommandType) :
           /\ Issue(p, cmds)
           /\ DOMAIN cmds = 1 .. Len(cmds) /\ Len(cmds) \in Nat /\ Len(cmds) >= 4
           /\ cmds[1] = get /\ cmds[2] = vote /\ cmds[3] = count /\ cmds[4] = last
           /\ \A j \in 5 .. Len(cmds) : cmds[j].op = "persist" /\ cmds[j].patch \in S
<1> DEFINE P == Persist(patches, n)
           lead == <<get, vote, count, last>>
           cmds == lead \o P
<1>1. /\ P \in Seq([op: {"persist"}, patch: S])
      /\ \A j \in 1 .. Len(P) : P[j].op = "persist" /\ P[j].patch \in S
  BY PersistElements
<1>2. Issue(p, cmds)
  <2>1. Append(<<get, vote, count>>, last) = lead
    BY AppendThree
  <2> QED
    BY <2>1
<1> HIDE DEF P
<1>3. P \in Seq(CommandType)
  <2>1. [op: {"persist"}, patch: S] \subseteq CommandType
    BY DEF CommandType
  <2>2. Seq([op: {"persist"}, patch: S]) \subseteq Seq(CommandType)
    BY <2>1, SeqMonotone
  <2> QED
    BY <1>1, <2>2
<1>4. /\ lead \in Seq(CommandType) /\ Len(lead) = 4
      /\ lead[1] = get /\ lead[2] = vote /\ lead[3] = count /\ lead[4] = last
  OBVIOUS
<1> HIDE DEF lead
<1>5. /\ cmds \in Seq(CommandType) /\ Len(cmds) = 4 + Len(P) /\ Len(P) \in Nat
      /\ \A j \in 1 .. 4 : cmds[j] = lead[j]
      /\ \A j \in 5 .. 4 + Len(P) : j - 4 \in 1 .. Len(P) /\ cmds[j] = P[j - 4]
  <2>1. /\ cmds \in Seq(CommandType) /\ Len(P) \in Nat /\ Len(cmds) = Len(lead) + Len(P)
        /\ \A j \in 1 .. Len(lead) : cmds[j] = lead[j]
    BY <1>3, <1>4, JoinOf
  <2>2. \A j \in Len(lead) + 1 .. Len(lead) + Len(P) :
          j - Len(lead) \in 1 .. Len(P) /\ cmds[j] = P[j - Len(lead)]
    BY <1>3, <1>4, JoinOf
  <2> HIDE DEF cmds
  <2> QED
    BY <1>4, <2>1, <2>2
<1>6. DOMAIN cmds = 1 .. Len(cmds)
  BY <1>5
<1> HIDE DEF cmds
<1>7. /\ cmds[1] = get /\ cmds[2] = vote /\ cmds[3] = count /\ cmds[4] = last
  BY <1>4, <1>5
<1>8. \A j \in 5 .. Len(cmds) : cmds[j].op = "persist" /\ cmds[j].patch \in S
  BY <1>1, <1>5
<1>9. Len(cmds) \in Nat /\ Len(cmds) >= 4
  BY <1>5
<1> QED
  BY <1>2, <1>5, <1>6, <1>7, <1>8, <1>9

\* The approval that decides finds the request undecided, or in need of several approvals.
LEMMA DecisionTaken ==
  ASSUME Covered, Proxied, NEW p \in Pods, Pods = {p}, Course(p), ApproveFound(p),
         getRequest(p).status = "ready_for_approval"
  PROVE  Course(p)'
<1> DEFINE t == pipe[p]
           get == [op |-> "get"]
           vote == [op |-> "addApproval", by |-> Arg(p).by]
           count == Update(<<Count(1)>>)
           r == getRequest(p)
<1>1. /\ t \in Seq(CommandType) /\ t # << >> /\ Arg(p).op = "approve" /\ Arg(p) = Head(t)
      /\ UNCHANGED <<record, approvals>>
  BY PipeTyped DEF ApproveFound, Executes, Arg, server
<1>2. /\ r \in RecordType /\ r.min_approvals = record.min_approvals
      /\ record.min_approvals \in Nat \ {0}
  <2>1. r \in RecordType /\ r.min_approvals = record.min_approvals
    BY ReadFields
  <2>2. record.min_approvals \in Mins
    BY DEF Covered, SafeRecord, RecordType
  <2> QED
    BY <2>1, <2>2, BoundsAssumption
<1>3. ~Announced(p)
  BY AnnouncedRead DEF Approved
<1>4. /\ get \in CommandType /\ get.op = "get"
      /\ vote \in CommandType /\ vote.op = "addApproval"
      /\ count \in CommandType /\ count.op = "updateFields" /\ count.patches \in Seq(OnePatch)
  <2>1. vote \in CommandType /\ get \in CommandType
    <3>1. Arg(p).by \in Users
      BY <1>1, HeadTyped
    <3> QED
      BY <3>1 DEF CommandType
  <2>2. <<Count(1)>> \in Seq(PatchType) /\ <<Count(1)>> \in Seq(OnePatch)
    BY PatchTypes
  <2> QED
    BY <2>1, <2>2 DEF Update, CommandType
<1>5. CASE record.min_approvals # 1
  <2> DEFINE patches == <<Count(1)>>
  <2>1. Several(p)
    BY <1>3, <1>5 DEF Course, Undecided, Fine
  <2>2. outcomes' = outcomes
    BY <1>2, <1>5 DEF ApproveFound, QuorumReached
  <2>3. PICK n \in Copies(patches) :
          Issue(p, Append(<<get, vote, count>>, get) \o Persist(patches, n))
    BY <1>2, <1>5, ReachCounts DEF ApproveFound, QuorumReached
  <2>4. patches \in Seq(PatchType)
    BY PatchTypes
  <2> HIDE DEF get, vote, count, patches
  <2>5. PICK cmds \in Seq(CommandType) :
          /\ Issue(p, cmds)
          /\ DOMAIN cmds = 1 .. Len(cmds) /\ Len(cmds) \in Nat /\ Len(cmds) >= 4
          /\ cmds[1] = get /\ cmds[2] = vote /\ cmds[3] = count /\ cmds[4] = get
          /\ \A j \in 5 .. Len(cmds) : cmds[j].op = "persist" /\ cmds[j].patch \in PatchType
    BY <1>4, <2>3, <2>4, VoteIssued
  <2> DEFINE w == Tail(t) \o cmds
  <2>6. \A j \in DOMAIN cmds : j \in {1, 2, 3, 4} \/ j \in 5 .. Len(cmds)
    BY <2>5
  <2>7. \A j \in DOMAIN cmds : ~Writes(cmds[j])
    BY <1>4, <2>5, <2>6 DEF Writes
  <2>8. \A j \in DOMAIN w : \/ j + 1 \in DOMAIN t /\ w[j] = t[j + 1]
                            \/ j - Len(Tail(t)) \in DOMAIN cmds /\ w[j] = cmds[j - Len(Tail(t))]
    BY <1>1, Origins
  <2>9. pipe'[p] = w
    BY <2>5, PipeIssued
  <2> HIDE DEF w
  <2>10. \A j \in DOMAIN w : Writes(w[j]) => w[j].record.min_approvals # 1
    BY <2>1, <2>7, <2>8 DEF Several
  <2> QED
    BY <1>1, <2>1, <2>2, <2>9, <2>10 DEF Several, Course
<1>6. CASE record.min_approvals = 1
  <2> DEFINE field == <<Count(1), Status("approved"), Decided>>
             decide == Update(Decision)
  <2>1. Undecided(p)
    BY <1>3, <1>6 DEF Course, Several
  <2>2. snapshot' = {p} /\ "approved" \in outcomes'
    BY <1>2, <1>6, <2>1 DEF ApproveFound, QuorumReached, Undecided
  <2>3. PICK n \in Copies(field) :
          Issue(p, Append(<<get, vote, count>>, decide) \o Persist(field, n))
    BY <1>2, <1>6, ReachCounts DEF ApproveFound, QuorumReached, Decision
  <2>4. /\ decide \in CommandType /\ decide.op = "updateFields"
        /\ decide.patches \in Seq(Helpful) /\ decide.patches \in Seq(OnePatch)
    <3>1. Decision \in Seq(PatchType) /\ Decision \in Seq(OnePatch) /\ Decision \in Seq(Helpful)
      BY PatchTypes DEF Decision, Helpful, Statuses, Terminal
    <3> QED
      BY <3>1 DEF Update, CommandType
  <2>5. field \in Seq(OnePatch) /\ OnePatch \subseteq PatchType
    <3>1. field \in Seq(OnePatch)
      BY PatchTypes DEF Statuses, Terminal
    <3>2. Count(1) \in PatchType /\ Decided \in PatchType
      BY PatchTypes
    <3> QED
      BY <3>1, <3>2 DEF OnePatch, PatchType
  <2> HIDE DEF get, vote, count, field, decide
  <2>6. PICK cmds \in Seq(CommandType) :
          /\ Issue(p, cmds)
          /\ DOMAIN cmds = 1 .. Len(cmds) /\ Len(cmds) \in Nat /\ Len(cmds) >= 4
          /\ cmds[1] = get /\ cmds[2] = vote /\ cmds[3] = count /\ cmds[4] = decide
          /\ \A j \in 5 .. Len(cmds) : cmds[j].op = "persist" /\ cmds[j].patch \in OnePatch
    BY <1>4, <2>3, <2>4, <2>5, VoteIssued
  <2> DEFINE w == Tail(t) \o cmds
  <2>7. \A j \in DOMAIN cmds : j \in {1, 2, 3, 4} \/ j \in 5 .. Len(cmds)
    BY <2>6
  <2>8. \A j \in 5 .. Len(cmds) : Tame(cmds[j]) /\ ~Voting(cmds[j])
    BY <2>6 DEF Tame, Writes, Voting
  <2>9. Tame(get) /\ Tame(vote) /\ Tame(count) /\ Tame(decide)
    BY <1>4, <2>4 DEF Tame, Writes
  <2>10. AllTame(cmds)
    BY <2>6, <2>7, <2>8, <2>9 DEF AllTame
  <2>11. Voting(cmds[2]) /\ \A j \in DOMAIN cmds : Voting(cmds[j]) => j = 2
    <3>1. Voting(vote) /\ ~Voting(get) /\ ~Voting(count) /\ ~Voting(decide)
      BY <1>4, <2>4 DEF Voting
    <3> QED
      BY <2>6, <2>7, <2>8, <3>1
  <2>12. AllTame(w)
    BY <1>1, <2>1, <2>10, TameOn DEF Undecided
  <2>13. OneVote(w)
    <3>1. 2 \in 1 .. Len(cmds)
      BY <2>6
    <3>2. \A j \in DOMAIN t : Voting(t[j]) => j = 1
      BY <2>1 DEF Undecided, NoVote
    <3> QED
      BY <1>1, <2>11, <3>1, <3>2, VoteJoins
  <2>14. ToUpdate(w)
    <3> DEFINE u == Tail(t)
               k == Len(u) + 4
    <3>1. u \in Seq(CommandType) /\ Len(u) \in Nat
      BY <1>1, TailOf
    <3>2. /\ Len(w) = Len(u) + Len(cmds)
          /\ \A j \in 1 .. Len(cmds) : w[Len(u) + j] = cmds[j]
      <4>1. w = u \o cmds
        OBVIOUS
      <4> HIDE DEF u, w
      <4> QED
        BY <3>1, <4>1, JoinOf
    <3>3. \A j \in Len(u) + 1 .. Len(u) + Len(cmds) :
            j - Len(u) \in 1 .. Len(cmds) /\ w[j] = cmds[j - Len(u)]
      <4>1. w = u \o cmds
        OBVIOUS
      <4> HIDE DEF u, w
      <4> QED
        BY <3>1, <4>1, JoinOf
    <3> HIDE DEF u, w
    <3>4. k \in 1 .. Len(w) /\ 4 \in 1 .. Len(cmds)
      BY <2>6, <3>1, <3>2
    <3>5. w[k] = decide
      BY <2>6, <3>2, <3>4
    <3>6. ASSUME NEW j \in k .. Len(w), w[j].op = "updateFields"
          PROVE  w[j].patches \in Seq(Helpful)
      <4>1. j \in Len(u) + 1 .. Len(u) + Len(cmds) /\ j - Len(u) >= 4
        BY <2>6, <3>1, <3>2
      <4>2. j - Len(u) \in 1 .. Len(cmds) /\ w[j] = cmds[j - Len(u)]
        BY <3>3, <4>1
      <4>3. j - Len(u) = 4 \/ j - Len(u) \in 5 .. Len(cmds)
        BY <2>6, <4>1, <4>2
      <4>4. CASE j - Len(u) = 4
        BY <2>4, <2>6, <4>2, <4>4
      <4>5. CASE j - Len(u) \in 5 .. Len(cmds)
        <5>1. w[j].op = "persist"
          BY <2>6, <4>2, <4>5
        <5> QED
          BY <3>6, <5>1
      <4> QED
        BY <4>3, <4>4, <4>5
    <3> QED
      BY <3>4, <3>5, <3>6 DEF ToUpdate, NoUndoing, decide
  <2>15. pipe'[p] = w
    BY <2>6, PipeIssued
  <2> HIDE DEF w
  <2> QED
    BY <1>1, <2>1, <2>2, <2>12, <2>13, <2>14, <2>15
       DEF Undecided, Announced, Reaching, Voted, Course, AllTame, Fine
<1> QED
  BY <1>5, <1>6

\* A restart that loses nothing happens to a process at rest.
LEMMA Restarted ==
  ASSUME Covered, NEW p \in Pods, Course(p), Restart(p), ~lost'
  PROVE  Course(p)'
<1>1. pipe[p] = << >> /\ pipe'[p] = << >> /\ snapshot' = snapshot \ {p}
      /\ UNCHANGED <<record, approvals, outcomes>>
  <2>1. pipe[p] = << >>
    BY Zenon DEF Restart
  <2>2. pipe'[p] = << >> /\ snapshot' = snapshot \ {p}
        /\ UNCHANGED <<record, approvals, outcomes>>
    BY DEF Restart, Covered, server
  <2> QED
    BY <2>1, <2>2
<1>2. CASE Several(p)
  BY <1>1, <1>2 DEF Several, Course
<1>3. CASE Undecided(p)
  BY <1>1, <1>3 DEF Undecided, Course, AllTame, NoVote, Fine
<1>4. CASE Announced(p)
  <2>1. Len(pipe[p]) = 0 /\ DOMAIN pipe[p] = {}
    BY <1>1
  <2>2. Settled(record, << >>)
    BY <1>1, <1>4, <2>1 DEF Announced, Reaching, ToUpdate, ToPatch
  <2>3. Approved(record)
    BY <2>2 DEF Settled, Sees
  <2>4. Clean(<< >>)
    BY DEF Clean
  <2>5. AllTame(<< >>) /\ Voted(approvals, << >>)
    BY <1>1, <1>4 DEF Announced
  <2> QED
    BY <1>1, <1>4, <2>2, <2>3, <2>4, <2>5 DEF Announced, Reaching, Course, Fine, AllTame
<1> QED
  BY <1>2, <1>3, <1>4 DEF Course

\* What moves a connection: it executes a command, or a call joins it.
LEMMA StepExecutes ==
  ASSUME NEW p \in Pods, Step(p)
  PROVE  pipe[p] # << >>
BY DEF Step, ApproveFound, DenyFound, AckFound, ApprovalsRead, ApprovalsWritten,
       ApprovalsCounted, PersonaStateRead, PersonaStateWritten, PersonaSettled,
       Rewrites, Settles, GetAnswered, SlackMessageRead, Scanned, UpdateRead, PersistRead,
       RecordWritten, Executes

LEMMA OutsideCalls ==
  ASSUME NEW p \in Pods,
         \/ \E u \in Users : PressApprove(p, u) \/ PressDeny(p, u)
         \/ \E a \in Personas : PressAck(p, a)
         \/ Reader(p) \/ SlackPosted(p) \/ ScanStart(p)
  PROVE  \E cmd \in CommandType : Outside(cmd) /\ Call(p, cmd)
<1>1. \A u \in Users : /\ [op |-> "approve", by |-> u] \in CommandType
                       /\ [op |-> "deny", by |-> u] \in CommandType
                       /\ Outside([op |-> "approve", by |-> u])
                       /\ Outside([op |-> "deny", by |-> u])
  BY DEF CommandType, Outside
<1>2. \A a \in Personas : /\ [op |-> "ack", persona |-> a] \in CommandType
                          /\ Outside([op |-> "ack", persona |-> a])
  BY DEF CommandType, Outside
<1>3. \A o \in {"get", "setSlackMessage", "scan"} :
        [op |-> o] \in CommandType /\ Outside([op |-> o])
  BY DEF CommandType, Outside
<1> QED
  BY <1>1, <1>2, <1>3 DEF PressApprove, PressDeny, PressAck, Reader, SlackPosted, ScanStart

\* What was lost, what was decided, and who voted stays so, and one step adds at most one voter.
Grows == /\ lost => lost'
         /\ outcomes \subseteq outcomes'
         /\ voters' = voters \/ \E u : voters' = voters \cup {u}

LEMMA Remembered ==
  ASSUME [Next]_vars
  PROVE  Grows
<1>1. ASSUME NEW p \in Pods, NEW cmd, Call(p, cmd) PROVE Grows
  BY <1>1 DEF Call, ghosts, Grows
<1>2. ASSUME NEW p \in Pods,
             \/ \E u \in Users : PressApprove(p, u) \/ PressDeny(p, u)
             \/ \E a \in Personas : PressAck(p, a)
             \/ Reader(p) \/ SlackPosted(p) \/ ScanStart(p)
      PROVE  Grows
  BY <1>1, <1>2 DEF PressApprove, PressDeny, PressAck, Reader, SlackPosted, ScanStart
<1>3. ASSUME NEW p \in Pods, ApproveFound(p) \/ DenyFound(p) \/ PassExpires(p) PROVE Grows
  <2>1. lost' = lost
    BY <1>3 DEF ApproveFound, DenyFound, PassExpires
  <2>2. outcomes \subseteq outcomes'
    BY <1>3 DEF ApproveFound, DenyFound, PassExpires
  <2>3. voters' = voters \/ \E u : voters' = voters \cup {u}
    BY <1>3 DEF ApproveFound, DenyFound, PassExpires
  <2> QED
    BY <2>1, <2>2, <2>3 DEF Grows
<1>4. ASSUME NEW p \in Pods,
             \/ AckFound(p) \/ ApprovalsRead(p) \/ ApprovalsWritten(p) \/ ApprovalsCounted(p)
             \/ PersonaStateRead(p) \/ PersonaStateWritten(p) \/ PersonaSettled(p)
             \/ GetAnswered(p) \/ SlackMessageRead(p) \/ Scanned(p)
             \/ UpdateRead(p) \/ PersistRead(p) \/ RecordWritten(p)
      PROVE  Grows
  <2>1. UNCHANGED <<outcomes, voters, lost>>
    BY <1>4 DEF AckFound, ApprovalsRead, ApprovalsWritten, ApprovalsCounted, PersonaStateRead,
                PersonaStateWritten, PersonaSettled, GetAnswered, SlackMessageRead, Scanned,
                UpdateRead, PersistRead, RecordWritten, Rewrites, Settles, ghosts
  <2> QED
    BY <2>1 DEF Grows
<1>5. ASSUME NEW p \in Pods, Restart(p) PROVE Grows
  <2>1. lost => lost'
    BY <1>5, Zenon DEF Restart
  <2>2. outcomes' = outcomes /\ voters' = voters
    BY <1>5 DEF Restart
  <2> QED
    BY <2>1, <2>2 DEF Grows
<1>6. CASE ExpiresAtPassed \/ UNCHANGED vars
  BY <1>6 DEF ExpiresAtPassed, vars, ghosts, Grows
<1> QED
  BY <1>2, <1>3, <1>4, <1>5, <1>6 DEF Next, Step

-----------------------------------------------------------------------------
(* The approval: the theorem                                               *)

Intact    == ~lost /\ "expired" \notin outcomes
OnCourse(p) == Intact => Course(p)

LEMMA CourseStarts ==
  ASSUME NEW p \in Pods, Init
  PROVE  Course(p)
<1>1. /\ record.approvals_count = 0 /\ approvals = << >> /\ snapshot = {} /\ outcomes = {}
      /\ pipe[p] = << >>
  BY DEF Init
<1>2. DOMAIN pipe[p] = {}
  BY <1>1
<1>3. CASE record.min_approvals # 1
  BY <1>1, <1>2, <1>3 DEF Several, Course
<1>4. CASE record.min_approvals = 1
  BY <1>1, <1>2, <1>4 DEF Undecided, Course, Fine, AllTame, NoVote
<1> QED
  BY <1>3, <1>4

LEMMA CourseKept ==
  ASSUME NEW p \in Pods, Pods = {p}, Covered, Proxied, OnCourse(p), [Next]_vars
  PROVE  OnCourse(p)'
<1> SUFFICES ASSUME Intact' PROVE Course(p)'
  BY DEF OnCourse
<1>1. ~lost' /\ "expired" \notin outcomes' /\ Course(p)
  BY Remembered DEF Grows, Intact, OnCourse
<1>2. ASSUME Step(p) PROVE Course(p)'
  <2>1. pipe[p] # << >>
    BY <1>2, StepExecutes
  <2>2. CASE ApproveFound(p) /\ getRequest(p).status = "ready_for_approval"
    BY <1>1, <2>2, DecisionTaken
  <2>3. CASE ~(ApproveFound(p) /\ getRequest(p).status = "ready_for_approval")
    <3>1. PICK cmds : Replies(p, cmds)
      BY <1>1, <1>2, <2>3, StepReplies
    <3>2. Several(p)' \/ Undecided(p)' \/ Announced(p)'
      BY <1>1, <2>1, <3>1, SeveralReplies, UndecidedReplies, AnnouncedReplies DEF Course
    <3> QED
      BY <3>2 DEF Course
  <2> QED
    BY <2>2, <2>3
<1>4. CASE \/ \E u \in Users : PressApprove(p, u) \/ PressDeny(p, u)
           \/ \E a \in Personas : PressAck(p, a)
           \/ Reader(p) \/ SlackPosted(p) \/ ScanStart(p)
  <2>1. PICK cmd \in CommandType : Outside(cmd) /\ Call(p, cmd)
    BY <1>4, OutsideCalls
  <2> QED
    BY <1>1, <2>1, Joined
<1>5. CASE Restart(p)
  BY <1>1, <1>5, Restarted
<1>6. CASE ExpiresAtPassed \/ UNCHANGED vars
  <2>1. UNCHANGED <<record, approvals, pipe, snapshot, outcomes>>
    BY <1>6 DEF ExpiresAtPassed, vars, server, memory, ghosts
  <2> QED
    BY <1>1, <2>1 DEF Course, Several, Undecided, Announced, Reaching, AllTame, NoVote, Fine
<1>7. ~PassExpires(p)
  BY <1>1 DEF PassExpires
<1> QED
  BY <1>2, <1>4, <1>5, <1>6, <1>7 DEF Next

LEMMA CourseEnds ==
  ASSUME NEW p \in Pods, OnCourse(p)
  PROVE  ApprovalStored
<1> SUFFICES ASSUME AtRest, ~lost, "approved" \in outcomes, "expired" \notin outcomes
             PROVE  /\ record.status = "approved" /\ record.decided_at
                    /\ Len(approvals) = 1 /\ record.approvals_count = 1
  BY DEF ApprovalStored
<1>1. Announced(p) /\ pipe[p] = << >>
  BY DEF OnCourse, Intact, Course, Several, Undecided, AtRest
<1>2. Len(pipe[p]) = 0 /\ DOMAIN pipe[p] = {}
  BY <1>1
<1>3. Settled(record, << >>)
  BY <1>1, <1>2 DEF Announced, Reaching, ToUpdate, ToPatch
<1>4. Approved(record)
  BY <1>3 DEF Settled, Sees
<1>5. Len(approvals) = 1
  BY <1>1, <1>2 DEF Announced, Voted, OneVote
<1> QED
  BY <1>4, <1>5 DEF Approved

\* Where one process serves the request, an approval that it announced is what Redis holds, with
\* its approver and its count, once its connection is quiet, and unless commands were lost or the
\* scheduler expired the request: whatever handlers, field patches and older copies were under way.
THEOREM RedisApprovalStored ==
  ASSUME NEW p, Pods = {p}
  PROVE  Spec => []ApprovalStored
<1>1. Init => OnCourse(p)
  BY CourseStarts DEF OnCourse
<1>2. Covered /\ Proxied /\ OnCourse(p) /\ [Next]_vars => OnCourse(p)'
  BY CourseKept
<1>3. OnCourse(p) => ApprovalStored
  BY CourseEnds
<1> QED
  BY Initially, ProxiedStarts, Inductive, ProxiedKept, <1>1, <1>2, <1>3, PTL DEF Spec
-----------------------------------------------------------------------------
(* The approval that is stored was announced                               *)

\* Every copy of the record that is on its way has the quorum of the record.
Uniform ==
  \A q \in Pods : \A i \in DOMAIN pipe[q] :
    Writes(pipe[q][i]) => pipe[q][i].record.min_approvals = record.min_approvals

\* An approval was announced of a request that one vote decides, and somebody gave that vote, or
\* none is stored, shown by a snapshot or on its way.
Earned  == "approved" \in outcomes /\ record.min_approvals = 1 /\ voters # {}
Unready == /\ record.status # "approved" /\ snapshot = {}
           /\ \A q \in Pods : \A i \in DOMAIN pipe[q] : ~Ripe(pipe[q][i])
Ground  == Uniform /\ IsFiniteSet(voters) /\ (Earned \/ Unready)

LEMMA GroundStarts == Init => Ground
<1> SUFFICES ASSUME Init PROVE Ground
  OBVIOUS
<1>1. \A q \in Pods : DOMAIN pipe[q] = {}
  BY DEF Init
<1>2. record.status # "approved" /\ snapshot = {} /\ voters = {}
  BY DEF Init
<1>3. IsFiniteSet(voters)
  BY <1>2, FS_EmptySet
<1> QED
  BY <1>1, <1>2, <1>3 DEF Ground, Uniform, Unready

LEMMA VotersFinite ==
  ASSUME IsFiniteSet(voters), Grows
  PROVE  IsFiniteSet(voters') /\ voters \subseteq voters'
BY FS_AddElement DEF Grows

\* A connection executes its head and issues commands that carry no other quorum, and no
\* approval before one is announced.
LEMMA GroundOn ==
  ASSUME Covered, Ground, NEW p \in Pods, pipe[p] # << >>, NEW cmds \in Seq(CommandType),
         Issue(p, cmds), record' = Left(record, Arg(p)), SameQuorum(cmds),
         Grows,
         Unready => \/ "approved" \in outcomes' /\ record.min_approvals = 1 /\ voters' # {}
                    \/ snapshot' = {} /\ \A j \in DOMAIN cmds : ~Ripe(cmds[j])
  PROVE  Ground'
<1> DEFINE t == pipe[p]
           w == Tail(t) \o cmds
<1>1. /\ t \in Seq(CommandType) /\ t # << >> /\ Arg(p) = t[1] /\ 1 \in DOMAIN t
  <2>1. t \in Seq(CommandType)
    BY PipeTyped
  <2> QED
    BY <2>1 DEF Arg
<1>2. pipe'[p] = w /\ \A q \in Pods : q # p => pipe'[q] = pipe[q]
  BY DEF Covered, Issue
<1>3. \A j \in DOMAIN w : \/ j + 1 \in DOMAIN t /\ w[j] = t[j + 1]
                          \/ j - Len(Tail(t)) \in DOMAIN cmds /\ w[j] = cmds[j - Len(Tail(t))]
  BY <1>1, Origins
<1> HIDE DEF w
<1>4. record'.min_approvals = record.min_approvals
  BY <1>1 DEF Left, Ground, Uniform
<1>5. ASSUME NEW q \in Pods, NEW i \in DOMAIN pipe'[q], Writes(pipe'[q][i])
      PROVE  pipe'[q][i].record.min_approvals = record.min_approvals
  <2>1. CASE q = p
    BY <1>2, <1>3, <1>5, <2>1 DEF Ground, Uniform, SameQuorum
  <2>2. CASE q # p
    BY <1>2, <1>5, <2>2 DEF Ground, Uniform
  <2> QED
    BY <2>1, <2>2
<1>6. Uniform'
  BY <1>4, <1>5 DEF Uniform
<1>9. outcomes \subseteq outcomes' /\ voters \subseteq voters' /\ IsFiniteSet(voters')
  BY VotersFinite DEF Grows, Ground
<1>7. CASE Earned \/ ("approved" \in outcomes' /\ record.min_approvals = 1 /\ voters' # {})
  <2>1. Earned'
    BY <1>4, <1>7, <1>9 DEF Earned
  <2> QED
    BY <1>6, <1>9, <2>1 DEF Ground
<1>8. ASSUME Unready, snapshot' = {}, \A j \in DOMAIN cmds : ~Ripe(cmds[j])
      PROVE  Unready'
  <2>1. record'.status # "approved"
    BY <1>1, <1>8 DEF Left, Unready, Ripe
  <2>2. \A j \in DOMAIN w : ~Ripe(w[j])
    BY <1>3, <1>8 DEF Unready
  <2>3. \A q \in Pods : \A i \in DOMAIN pipe'[q] : ~Ripe(pipe'[q][i])
    BY <1>2, <1>8, <2>2 DEF Unready
  <2> QED
    BY <1>8, <2>1, <2>3 DEF Unready
<1> QED
  BY <1>6, <1>7, <1>8, <1>9 DEF Ground

\* What replies leaves the ground.
LEMMA GroundReplies ==
  ASSUME Covered, Ground, NEW p \in Pods, pipe[p] # << >>, NEW cmds, Replies(p, cmds), Grows
  PROVE  Ground'
<1>1. /\ cmds \in Seq(CommandType) /\ Issue(p, cmds) /\ record' = Left(record, Arg(p))
      /\ SameQuorum(cmds) /\ snapshot' = snapshot
      /\ Green(p) => \A j \in DOMAIN cmds : ~Ripe(cmds[j])
  BY DEF Replies
<1>2. Unready => Green(p)
  <2>1. pipe[p] \in Seq(CommandType)
    BY PipeTyped
  <2>2. Arg(p) = pipe[p][1] /\ 1 \in DOMAIN pipe[p]
    BY <2>1 DEF Arg
  <2> QED
    BY <2>2 DEF Unready, Green
<1>3. Unready => snapshot' = {}
  BY <1>1 DEF Unready
<1> QED
  BY <1>1, <1>2, <1>3, GroundOn

\* The vote that is counted decides only where one is enough.
LEMMA GroundApproved ==
  ASSUME Covered, Proxied, Ground, NEW p \in Pods, ApproveFound(p),
         getRequest(p).status = "ready_for_approval", Grows
  PROVE  Ground'
<1> DEFINE get == [op |-> "get"]
           vote == [op |-> "addApproval", by |-> Arg(p).by]
           count == Update(<<Count(1)>>)
           r == getRequest(p)
<1>1. /\ pipe[p] # << >> /\ Arg(p).op = "approve" /\ UNCHANGED record
      /\ record' = Left(record, Arg(p))
  BY DEF ApproveFound, Executes, Arg, server, Left, Writes
<1>2. /\ r.min_approvals = record.min_approvals /\ record.min_approvals \in Nat \ {0}
  <2>1. r.min_approvals = record.min_approvals
    BY ReadFields
  <2>2. record.min_approvals \in Mins
    BY DEF Covered, SafeRecord, RecordType
  <2> QED
    BY <2>1, <2>2, BoundsAssumption
<1>3. /\ get \in CommandType /\ ~Ripe(get) /\ ~Writes(get)
      /\ vote \in CommandType /\ ~Ripe(vote) /\ ~Writes(vote)
      /\ count \in CommandType /\ ~Ripe(count) /\ ~Writes(count)
  <2>1. vote \in CommandType /\ get \in CommandType
    <3>1. Arg(p).by \in Users
      BY <1>1, HeadTyped
    <3> QED
      BY <3>1 DEF CommandType
  <2> DEFINE patches == <<Count(1)>>
  <2>2. patches \in Seq(PatchType) /\ patches \in Seq(Unripe)
    BY UnripePatches DEF Unripe
  <2> HIDE DEF patches
  <2>3. count = Update(patches)
    BY DEF patches
  <2>4. count \in CommandType /\ count.op = "updateFields" /\ count.patches = patches
    BY <2>2, <2>3 DEF Update, CommandType
  <2>5. ~Ripe(count) /\ ~Writes(count)
    BY <2>2, <2>4 DEF Ripe, Writes, Unripe
  <2>6. ~Ripe(vote) /\ ~Ripe(get) /\ ~Writes(vote) /\ ~Writes(get)
    BY DEF Ripe, Writes
  <2> QED
    BY <2>1, <2>4, <2>5, <2>6
<1>4. CASE record.min_approvals # 1
  <2> DEFINE patches == <<Count(1)>>
  <2>1. snapshot' = snapshot
    BY <1>2, <1>4 DEF ApproveFound, QuorumReached
  <2>2. PICK n \in Copies(patches) :
          Issue(p, Append(<<get, vote, count>>, get) \o Persist(patches, n))
    BY <1>2, <1>4, ReachCounts DEF ApproveFound, QuorumReached
  <2>3. patches \in Seq(Unripe) /\ Unripe \subseteq PatchType
    BY UnripePatches DEF Unripe
  <2> HIDE DEF get, vote, count, patches
  <2>4. PICK cmds \in Seq(CommandType) :
          /\ Issue(p, cmds)
          /\ DOMAIN cmds = 1 .. Len(cmds) /\ Len(cmds) \in Nat /\ Len(cmds) >= 4
          /\ cmds[1] = get /\ cmds[2] = vote /\ cmds[3] = count /\ cmds[4] = get
          /\ \A j \in 5 .. Len(cmds) : cmds[j].op = "persist" /\ cmds[j].patch \in Unripe
    BY <1>3, <2>2, <2>3, VoteIssued
  <2>5. \A j \in DOMAIN cmds : j \in {1, 2, 3, 4} \/ j \in 5 .. Len(cmds)
    BY <2>4
  <2>6. \A j \in 5 .. Len(cmds) : ~Ripe(cmds[j]) /\ ~Writes(cmds[j])
    BY <2>4 DEF Ripe, Writes, Unripe
  <2>7. \A j \in DOMAIN cmds : ~Ripe(cmds[j]) /\ ~Writes(cmds[j])
    BY <1>3, <2>4, <2>5, <2>6
  <2>8. SameQuorum(cmds) /\ (Unready => snapshot' = {})
    BY <2>1, <2>7 DEF SameQuorum, Unready
  <2> QED
    BY <1>1, <2>4, <2>7, <2>8, GroundOn
<1>5. CASE record.min_approvals = 1
  <2> DEFINE field == <<Count(1), Status("approved"), Decided>>
             decide == Update(Decision)
  <2>1. "approved" \in outcomes' /\ voters' # {}
    BY <1>2, <1>5 DEF ApproveFound, QuorumReached
  <2>2. PICK n \in Copies(field) :
          Issue(p, Append(<<get, vote, count>>, decide) \o Persist(field, n))
    BY <1>2, <1>5, ReachCounts DEF ApproveFound, QuorumReached, Decision
  <2>3. decide \in CommandType /\ ~Writes(decide)
    <3>1. Decision \in Seq(PatchType)
      BY PatchTypes DEF Decision, Helpful, Statuses, Terminal
    <3> QED
      BY <3>1 DEF Update, CommandType, Writes
  <2>4. field \in Seq(PatchType)
    BY PatchTypes DEF Statuses, Terminal
  <2> HIDE DEF get, vote, count, field, decide
  <2>5. PICK cmds \in Seq(CommandType) :
          /\ Issue(p, cmds)
          /\ DOMAIN cmds = 1 .. Len(cmds) /\ Len(cmds) \in Nat /\ Len(cmds) >= 4
          /\ cmds[1] = get /\ cmds[2] = vote /\ cmds[3] = count /\ cmds[4] = decide
          /\ \A j \in 5 .. Len(cmds) : cmds[j].op = "persist" /\ cmds[j].patch \in PatchType
    BY <1>3, <2>2, <2>3, <2>4, VoteIssued
  <2>6. \A j \in DOMAIN cmds : j \in {1, 2, 3, 4} \/ j \in 5 .. Len(cmds)
    BY <2>5
  <2>7. SameQuorum(cmds)
    <3>1. \A j \in 5 .. Len(cmds) : ~Writes(cmds[j])
      BY <2>5 DEF Writes
    <3> QED
      BY <1>3, <2>3, <2>5, <2>6, <3>1 DEF SameQuorum
  <2> QED
    BY <1>1, <1>5, <2>1, <2>5, <2>7, GroundOn
<1> QED
  BY <1>4, <1>5

\* A command that writes no record and carries no approval joins the end of a connection.
LEMMA GroundJoined ==
  ASSUME Covered, Ground, NEW p \in Pods, NEW cmd \in CommandType, ~Writes(cmd), ~Ripe(cmd),
         pipe' = [pipe EXCEPT ![p] = Append(@, cmd)], UNCHANGED <<record, snapshot, voters>>,
         outcomes \subseteq outcomes'
  PROVE  Ground'
<1> DEFINE t == pipe[p]
           w == Append(t, cmd)
<1>1. t \in Seq(CommandType)
  BY PipeTyped
<1>2. pipe'[p] = w /\ \A q \in Pods : q # p => pipe'[q] = pipe[q]
  BY DEF Covered
<1>3. \A j \in DOMAIN w : (j \in DOMAIN t /\ w[j] = t[j]) \/ w[j] = cmd
  BY <1>1
<1> HIDE DEF w
<1>4. \A j \in DOMAIN w : Writes(w[j]) => w[j].record.min_approvals = record.min_approvals
  BY <1>3 DEF Ground, Uniform
<1>5. Uniform'
  BY <1>2, <1>4 DEF Ground, Uniform
<1>6. Unready => Unready'
  <2> SUFFICES ASSUME Unready PROVE Unready'
    OBVIOUS
  <2>1. \A j \in DOMAIN w : ~Ripe(w[j])
    BY <1>3 DEF Unready
  <2> QED
    BY <1>2, <2>1 DEF Unready
<1>7. Earned => Earned'
  BY DEF Earned
<1> QED
  BY <1>5, <1>6, <1>7 DEF Ground

LEMMA GroundCalled ==
  ASSUME Covered, Ground, NEW p \in Pods, NEW cmd \in CommandType, Outside(cmd), Call(p, cmd)
  PROVE  Ground'
<1>1. /\ UNCHANGED <<record, snapshot, voters, outcomes>>
      /\ pipe' = [pipe EXCEPT ![p] = Append(@, cmd)]
  BY DEF Call, server, memory, ghosts
<1>2. ~Writes(cmd) /\ ~Ripe(cmd)
  BY DEF Outside, Writes, Ripe
<1> QED
  BY <1>1, <1>2, GroundJoined

LEMMA GroundExpired ==
  ASSUME Covered, Ground, NEW p \in Pods, PassExpires(p)
  PROVE  Ground'
<1> DEFINE patches == <<Status("expired"), Decided>>
           cmd == Update(patches)
<1>1. /\ UNCHANGED <<record, snapshot, voters>> /\ outcomes \subseteq outcomes'
      /\ pipe' = [pipe EXCEPT ![p] = Append(@, cmd)]
  BY DEF PassExpires, server
<1>2. patches \in Seq(PatchType) /\ patches \in Seq(Unripe)
  <2>1. Status("expired") \in Unripe /\ Decided \in Unripe
    BY UnripePatches DEF Statuses, Terminal
  <2> QED
    BY <2>1 DEF Unripe
<1> HIDE DEF patches
<1>3. cmd \in CommandType /\ cmd.op = "updateFields" /\ cmd.patches = patches
  BY <1>2 DEF Update, CommandType
<1>4. ~Ripe(cmd) /\ ~Writes(cmd)
  BY <1>2, <1>3 DEF Ripe, Writes, Unripe
<1> HIDE DEF cmd
<1> QED
  BY <1>1, <1>3, <1>4, GroundJoined

LEMMA GroundRestarted ==
  ASSUME Covered, Ground, NEW p \in Pods, Restart(p)
  PROVE  Ground'
<1>1. /\ UNCHANGED <<record, outcomes, voters>> /\ snapshot' = snapshot \ {p}
      /\ pipe'[p] = << >> /\ \A q \in Pods : q # p => pipe'[q] = pipe[q]
  BY DEF Restart, Covered, server
<1>2. DOMAIN pipe'[p] = {}
  BY <1>1
<1>3. Uniform'
  BY <1>1, <1>2 DEF Ground, Uniform
<1>4. Unready => Unready'
  BY <1>1, <1>2 DEF Unready
<1>5. Earned => Earned'
  BY <1>1 DEF Earned
<1> QED
  BY <1>1, <1>3, <1>4, <1>5 DEF Ground

LEMMA GroundKept == Covered /\ Proxied /\ Ground /\ [Next]_vars => Ground'
<1> SUFFICES ASSUME Covered, Proxied, Ground, [Next]_vars PROVE Ground'
  OBVIOUS
<1>1. Grows
  BY Remembered
<1>2. ASSUME NEW p \in Pods, Step(p) PROVE Ground'
  <2>1. pipe[p] # << >>
    BY <1>2, StepExecutes
  <2>2. CASE ApproveFound(p) /\ getRequest(p).status = "ready_for_approval"
    BY <1>1, <2>2, GroundApproved
  <2>3. CASE ~(ApproveFound(p) /\ getRequest(p).status = "ready_for_approval")
    <3>1. PICK cmds : Replies(p, cmds)
      BY <1>2, <2>3, StepReplies
    <3> QED
      BY <1>1, <2>1, <3>1, GroundReplies
  <2> QED
    BY <2>2, <2>3
<1>3. ASSUME NEW p \in Pods,
             \/ \E u \in Users : PressApprove(p, u) \/ PressDeny(p, u)
             \/ \E a \in Personas : PressAck(p, a)
             \/ Reader(p) \/ SlackPosted(p) \/ ScanStart(p)
      PROVE  Ground'
  <2>1. PICK cmd \in CommandType : Outside(cmd) /\ Call(p, cmd)
    BY <1>3, OutsideCalls
  <2> QED
    BY <2>1, GroundCalled
<1>4. ASSUME NEW p \in Pods, PassExpires(p) \/ Restart(p) PROVE Ground'
  BY <1>4, GroundExpired, GroundRestarted
<1>5. CASE ExpiresAtPassed \/ UNCHANGED vars
  <2>1. UNCHANGED <<record, pipe, snapshot, outcomes, voters>>
    BY <1>5 DEF ExpiresAtPassed, vars, server, memory, ghosts
  <2> QED
    BY <2>1 DEF Ground, Uniform, Earned, Unready
<1> QED
  BY <1>2, <1>3, <1>4, <1>5 DEF Next

LEMMA GroundEarned == Ground => ApprovalEarned
<1> SUFFICES ASSUME Ground, record.status = "approved"
             PROVE  "approved" \in outcomes /\ Cardinality(voters) >= record.min_approvals
  BY DEF ApprovalEarned
<1>1. Earned /\ IsFiniteSet(voters)
  BY DEF Ground, Unready
<1>2. Cardinality(voters) \in Nat /\ Cardinality(voters) # 0
  BY <1>1, FS_CardinalityType, FS_EmptySet DEF Earned
<1> QED
  BY <1>1, <1>2 DEF Earned

\* For any number of processes, Redis holds an approval only if one was announced, and only of a
\* request that as many distinct users approved as it requires, whatever copies and patches are
\* under way and whatever was lost or expired.
THEOREM RedisApprovalEarned == Spec => []ApprovalEarned
BY Initially, ProxiedStarts, Inductive, ProxiedKept, GroundStarts, GroundKept, GroundEarned,
   PTL DEF Spec
=============================================================================
