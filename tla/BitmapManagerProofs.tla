------------------------ MODULE BitmapManagerProofs ------------------------
(***************************************************************************)
(* Proofs about the pool of bitmaps, for any number of references,         *)
(* pictures and threads and without the bounds of the runs: a bitmap has   *)
(* at most one owner (OneOwner), and a picture that is being drawn keeps   *)
(* its bitmaps (DrawnKept); no bitmap is lost (Reclaimable), and the       *)
(* counter of the memory in use is never too small (UsedCounted), on which *)
(* `memoryUsed is not negative' of the type invariant rests.               *)
(***************************************************************************)
EXTENDS BitmapManager, FiniteSetTheorems, SequenceTheorems, TLAPS

(***************************************************************************)
(* The inductive invariant.                                                *)
(***************************************************************************)
Label == {"idle", "get", "try", "create", "reuse", "getShrink", "getShrunk", "old", "test",
          "clearOld", "clearTest", "drain", "free", "clearPic", "put", "shrink", "shrunk", "evict"}

Typed ==
    /\ created \subseteq Ref /\ flag \in [Ref -> BOOLEAN]
    /\ pool \in Seq(Entry) /\ lastNo \in Nat /\ releasing \in Seq(Ref \cup Pic)
    /\ pc \in [Thread -> Label]
    /\ todo \in [Thread -> SUBSET Ref] /\ local \in [Thread -> SUBSET Ref]
    /\ shown \subseteq made /\ made \subseteq Pic /\ parts \in [Pic -> SUBSET Ref]
    /\ cur \in [Thread -> Entry \cup Ref \cup Pic \cup {None}]

\* Which reference a thread stands on, by where it is
Standing ==
    \A t \in Thread :
        /\ pc[t] \in {"try", "reuse", "test", "clearTest", "shrunk", "getShrunk"} =>
              cur[t] \in Entry /\ cur[t].ref \in created
        /\ pc[t] = "put" => cur[t] \in created
        /\ pc[t] = "clearPic" => cur[t] \in Pic

\* Only references that were made get into the pool.
Known == \A j \in 1..Len(pool) : pool[j].ref \in created

\* An owner of a reference as in Owners, and what is to be known of a reference:
\* whoever may take it finds its flag set while it has one.
Owns(r, kind, x) ==
    \/ kind = "thread" /\ x \in Thread /\ r \in local[x]
    \/ kind = "taking" /\ x \in Thread /\ pc[x] = "reuse" /\ cur[x].ref = r
    \/ kind = "freeing" /\ x \in Thread /\ r \in todo[x]
    \/ kind = "picture" /\ x \in Pic /\ r \in parts[x]
    \/ kind = "queued" /\ x \in 1..Len(releasing) /\ releasing[x] = r

Owned(r) ==
    /\ \A k, x, l, y : Owns(r, k, x) /\ Owns(r, l, y) => k = l /\ x = y
    /\ \A k, x : Owns(r, k, x) => flag[r] /\ r \in created

\* The drawing thread draws what its picture holds.
Drawing ==
    /\ drawPc \in {"idle", "picked", "drawing"}
    /\ drawPc # "idle" => pic \in made
    /\ drawPc = "drawing" => drawn \subseteq parts[pic]
    /\ drawPc # "drawing" => drawn = {}

Inv == Typed /\ Standing /\ Known /\ (\A r \in Ref : Owned(r)) /\ Drawing

LEMMA InitInv == Init => Inv
<1> SUFFICES ASSUME Init PROVE Inv
  OBVIOUS
<1>1. Typed
  BY DEF Init, Typed, Label
<1>2. Standing /\ Known /\ Drawing
  BY DEF Init, Standing, Known, Drawing
<1>3. ASSUME NEW r \in Ref, NEW k, NEW x PROVE ~Owns(r, k, x)
  BY DEF Init, Owns
<1>4. \A r \in Ref : Owned(r)
  BY <1>3 DEF Owned
<1> QED BY <1>1, <1>2, <1>4 DEF Inv

(***************************************************************************)
(* What a step may do to the owners of a reference.                        *)
(***************************************************************************)
\* It has the owners it had, or fewer.
LEMMA Fewer ==
    ASSUME NEW r \in Ref, Owned(r),
           \A k, x : Owns(r, k, x)' => Owns(r, k, x),
           flag'[r] = flag[r], created \subseteq created'
    PROVE  Owned(r)'
BY DEF Owned

\* It has one owner, that may have taken it over from another.
LEMMA Only ==
    ASSUME NEW r \in Ref, NEW l, NEW y,
           \A k, x : Owns(r, k, x)' => k = l /\ x = y,
           flag'[r], r \in created'
    PROVE  Owned(r)'
BY DEF Owned

\* With one owner there is no other.
LEMMA Sole ==
    ASSUME NEW r \in Ref, Owned(r), NEW l, NEW y, Owns(r, l, y)
    PROVE  \A k, x : Owns(r, k, x) => k = l /\ x = y
BY DEF Owned

\* No reference changes hands.
LEMMA Kept ==
    ASSUME Inv, UNCHANGED <<local, todo, parts, releasing, flag, created>>,
           \A u \in Thread : pc'[u] = "reuse" => pc[u] = "reuse" /\ cur'[u] = cur[u]
    PROVE  \A r \in Ref : Owned(r)'
<1> SUFFICES ASSUME NEW r \in Ref PROVE Owned(r)'
  OBVIOUS
<1>1. \A k, x : Owns(r, k, x)' => Owns(r, k, x)
  BY DEF Owns
<1> QED BY <1>1, Fewer DEF Inv

\* The drawing thread is not disturbed.
LEMMA DrawingKept ==
    ASSUME Inv, UNCHANGED drawVars, made \subseteq made',
           drawPc = "drawing" => parts'[pic] = parts[pic]
    PROVE  Drawing'
BY DEF Inv, Drawing, drawVars

\* What RemoveAt leaves.
LEMMA RemovedPool ==
    ASSUME Typed, Known, NEW e
    PROVE  /\ Removed(e) \in Seq(Entry)
           /\ \A j \in 1..Len(Removed(e)) : Removed(e)[j].ref \in created
<1>1. CASE e \notin ToSet(pool)
  BY <1>1 DEF Removed, Typed, Known
<1>2. CASE e \in ToSet(pool)
  <2> DEFINE i == CHOOSE j \in DOMAIN pool : pool[j] = e
             s == SubSeq(pool, 1, i - 1)
             u == SubSeq(pool, i + 1, Len(pool))
  <2>1. i \in 1..Len(pool)
    BY <1>2 DEF ToSet, Typed
  <2>2. Removed(e) = s \o u
    BY <1>2 DEF Removed, RemoveAt
  <2> HIDE DEF i
  <2>3. s \in Seq(Entry) /\ u \in Seq(Entry)
    BY <2>1 DEF Typed
  <2>4. /\ \A j \in 1..Len(s) : s[j].ref \in created
        /\ \A j \in 1..Len(u) : u[j].ref \in created
    BY <2>1, SubSeqProperties DEF Typed, Known
  <2> HIDE DEF s, u
  <2>5. Removed(e) \in Seq(Entry)
    BY <2>2, <2>3
  <2>6. ASSUME NEW j \in 1..Len(s \o u) PROVE (s \o u)[j].ref \in created
    <3>1. Len(s \o u) = Len(s) + Len(u) /\ Len(s) \in Nat /\ Len(u) \in Nat
      BY <2>3
    <3>2. (s \o u)[j] = IF j <= Len(s) THEN s[j] ELSE u[j - Len(s)]
      BY <2>3, <3>1
    <3>3. CASE j <= Len(s)
      BY <2>4, <3>1, <3>2, <3>3
    <3>4. CASE ~(j <= Len(s))
      <4>1. j - Len(s) \in 1..Len(u)
        BY <3>1, <3>4
      <4> QED BY <2>4, <3>2, <3>4, <4>1
    <3> QED BY <3>3, <3>4
  <2> QED BY <2>2, <2>5, <2>6
<1> QED BY <1>1, <1>2

LEMMA PoolEntry ==
    ASSUME Typed, Known, NEW e \in ToSet(pool)
    PROVE  e \in Entry /\ e.ref \in created
<1>1. PICK j \in 1..Len(pool) : e = pool[j]
  BY DEF ToSet, Typed
<1> QED BY <1>1 DEF Typed, Known

LEMMA PoolHead ==
    ASSUME Typed, Known, pool # <<>>
    PROVE  /\ Head(pool) \in Entry /\ Head(pool).ref \in created
           /\ Tail(pool) \in Seq(Entry)
           /\ \A j \in 1..Len(Tail(pool)) : Tail(pool)[j].ref \in created
<1>1. pool \in Seq(Entry) /\ Len(pool) \in Nat /\ Len(pool) # 0
  BY DEF Typed
<1>2. Len(Tail(pool)) = Len(pool) - 1 /\ \A j \in 1..Len(Tail(pool)) : Tail(pool)[j] = pool[j + 1]
  BY <1>1
<1>3. Head(pool) = pool[1] /\ pool[1] \in Entry /\ Tail(pool) \in Seq(Entry)
  BY <1>1
<1> QED BY <1>1, <1>2, <1>3 DEF Known

(***************************************************************************)
(* The steps that leave the owners alone.                                  *)
(***************************************************************************)
LEMMA GetBitmapInv == ASSUME Inv, NEW t \in Thread, GetBitmap(t) PROVE Inv'
<1> USE DEF Inv, GetBitmap, Goto, Set, refVars, poolVars, countVars, threadVars, picVars
<1>1. Typed'
  BY RemovedPool DEF Typed, Standing, Label
<1>2. Standing'
  BY DEF Typed, Standing, Known
<1>3. Known'
  BY RemovedPool DEF Typed, Standing, Known
<1>4. \A r \in Ref : Owned(r)'
  BY Kept DEF Typed
<1>5. Drawing'
  BY DrawingKept DEF Typed
<1> QED BY <1>1, <1>2, <1>3, <1>4, <1>5

LEMMA NextFreeInv == ASSUME Inv, NEW t \in Thread, NextFree(t) PROVE Inv'
<1> USE DEF Inv, NextFree, Goto, Set, refVars, poolVars, countVars, threadVars, picVars
<1>1. Typed'
  BY PoolEntry DEF Ahead, Typed, Label
<1>2. Standing'
  BY PoolEntry DEF Ahead, Typed, Standing
<1>3. Known'
  BY RemovedPool DEF Typed, Standing, Known
<1>4. \A r \in Ref : Owned(r)'
  BY Kept DEF Typed
<1>5. Drawing'
  BY DrawingKept DEF Typed
<1> QED BY <1>1, <1>2, <1>3, <1>4, <1>5

LEMMA ReleaseInv == ASSUME Inv, NEW t \in Thread, Release(t) PROVE Inv'
<1> USE DEF Inv, Release, Goto, Set, refVars, poolVars, countVars, threadVars, picVars
<1>1. Typed'
  BY RemovedPool DEF Typed, Standing, Label
<1>2. Standing'
  BY DEF Typed, Standing, Known
<1>3. Known'
  BY RemovedPool DEF Typed, Standing, Known
<1>4. \A r \in Ref : Owned(r)'
  BY Kept DEF Typed
<1>5. Drawing'
  BY DrawingKept DEF Typed
<1> QED BY <1>1, <1>2, <1>3, <1>4, <1>5

LEMMA ClearInv == ASSUME Inv, NEW t \in Thread, Clear(t) PROVE Inv'
<1> USE DEF Inv, Clear, Goto, Set, refVars, poolVars, countVars, threadVars, picVars
<1>1. Typed'
  BY RemovedPool DEF Typed, Standing, Label
<1>2. Standing'
  BY DEF Typed, Standing, Known
<1>3. Known'
  BY RemovedPool DEF Typed, Standing, Known
<1>4. \A r \in Ref : Owned(r)'
  BY Kept DEF Typed
<1>5. Drawing'
  BY DrawingKept DEF Typed
<1> QED BY <1>1, <1>2, <1>3, <1>4, <1>5

LEMMA NextOldInv == ASSUME Inv, NEW t \in Thread, NextOld(t) PROVE Inv'
<1> USE DEF Inv, NextOld, Goto, Set, refVars, poolVars, countVars, threadVars, picVars
<1>1. Typed'
  BY PoolEntry DEF Ahead, Typed, Label
<1>2. Standing'
  BY PoolEntry DEF Ahead, Typed, Standing
<1>3. Known'
  BY RemovedPool DEF Typed, Standing, Known
<1>4. \A r \in Ref : Owned(r)'
  BY Kept DEF Typed
<1>5. Drawing'
  BY DrawingKept DEF Typed
<1> QED BY <1>1, <1>2, <1>3, <1>4, <1>5

LEMMA TestOldInv == ASSUME Inv, NEW t \in Thread, TestOld(t) PROVE Inv'
<1> USE DEF Inv, TestOld, Goto, Set, refVars, poolVars, countVars, threadVars, picVars
<1>1. Typed'
  BY RemovedPool DEF Typed, Standing, Label
<1>2. Standing'
  BY DEF Typed, Standing, Known
<1>3. Known'
  BY RemovedPool DEF Typed, Standing, Known
<1>4. \A r \in Ref : Owned(r)'
  BY Kept DEF Typed
<1>5. Drawing'
  BY DrawingKept DEF Typed
<1> QED BY <1>1, <1>2, <1>3, <1>4, <1>5

LEMMA PutRefInv == ASSUME Inv, NEW t \in Thread, PutRef(t) PROVE Inv'
<1> USE DEF Inv, PutRef, Goto, Set, refVars, poolVars, countVars, threadVars, picVars
<1>1. Typed'
  BY DEF Typed, Standing, Label, Entry
<1>2. Standing'
  BY DEF Typed, Standing, Known
<1>3. Known'
  <2> DEFINE e == [ref |-> cur[t], no |-> lastNo + 1]
  <2>1. e \in Entry /\ e.ref \in created
    BY DEF Typed, Standing, Entry
  <2>2. pool' = Append(pool, e) /\ UNCHANGED created
    OBVIOUS
  <2> QED BY <2>1, <2>2, AppendProperties DEF Typed, Known
<1>4. \A r \in Ref : Owned(r)'
  BY Kept DEF Typed
<1>5. Drawing'
  BY DrawingKept DEF Typed
<1> QED BY <1>1, <1>2, <1>3, <1>4, <1>5

LEMMA EvictAllInv == ASSUME Inv, NEW t \in Thread, EvictAll(t) PROVE Inv'
<1> USE DEF Inv, EvictAll, Goto, Set, refVars, poolVars, countVars, threadVars, picVars
<1>1. Typed'
  BY RemovedPool DEF Typed, Standing, Label
<1>2. Standing'
  BY DEF Typed, Standing, Known
<1>3. Known'
  BY RemovedPool DEF Typed, Standing, Known
<1>4. \A r \in Ref : Owned(r)'
  BY Kept DEF Typed
<1>5. Drawing'
  BY DrawingKept DEF Typed
<1> QED BY <1>1, <1>2, <1>3, <1>4, <1>5

LEMMA ShrinkInv == ASSUME Inv, NEW t \in Thread, Shrink(t) PROVE Inv'
<1> USE DEF Inv, Shrink, Goto, Set, refVars, poolVars, countVars, threadVars, picVars
<1>1. Typed'
  BY PoolHead DEF Typed, Label
<1>2. Standing'
  BY PoolHead DEF Typed, Standing
<1>3. Known'
  BY PoolHead DEF Known
<1>4. \A r \in Ref : Owned(r)'
  BY Kept DEF Typed
<1>5. Drawing'
  BY DrawingKept DEF Typed
<1> QED BY <1>1, <1>2, <1>3, <1>4, <1>5

LEMMA ShrunkInv == ASSUME Inv, NEW t \in Thread, Shrunk(t) PROVE Inv'
<1> USE DEF Inv, Shrunk, Goto, Set, refVars, poolVars, countVars, threadVars, picVars
<1>1. Typed'
  BY RemovedPool DEF Typed, Standing, Label
<1>2. Standing'
  BY DEF Typed, Standing, Known
<1>3. Known'
  BY RemovedPool DEF Typed, Standing, Known
<1>4. \A r \in Ref : Owned(r)'
  BY Kept DEF Typed
<1>5. Drawing'
  BY DrawingKept DEF Typed
<1> QED BY <1>1, <1>2, <1>3, <1>4, <1>5

(***************************************************************************)
(* The steps by which a reference changes hands.                           *)
(***************************************************************************)
LEMMA TryRefInv == ASSUME Inv, NEW t \in Thread, TryRef(t) PROVE Inv'
<1> USE DEF Inv, TryRef, Goto, Set, refVars, poolVars, countVars, threadVars, picVars
<1>1. Typed'
  BY RemovedPool DEF Typed, Standing, Label
<1>2. Standing'
  BY DEF Typed, Standing, Known
<1>3. Known'
  BY RemovedPool DEF Typed, Standing, Known
<1>4. \A r \in Ref : Owned(r)'
  <2> DEFINE q == cur[t].ref
  <2>0. q \in created /\ created \subseteq Ref
    BY DEF Typed, Standing
  <2>1. CASE flag[q]
    BY <2>1, Kept DEF Typed
  <2>2. CASE ~flag[q]
    <3> SUFFICES ASSUME NEW r \in Ref PROVE Owned(r)'
      OBVIOUS
    <3>1. CASE r = q
      <4>1. \A k, x : ~Owns(r, k, x)
        BY <2>2, <3>1 DEF Owned
      <4>2. \A k, x : Owns(r, k, x)' => k = "taking" /\ x = t
        BY <2>2, <4>1 DEF Owns, Typed
      <4>3. flag'[r] /\ r \in created'
        BY <2>0, <2>2, <3>1 DEF Typed
      <4> QED BY <4>2, <4>3, Only
    <3>2. CASE r # q
      <4>1. \A k, x : Owns(r, k, x)' => Owns(r, k, x)
        BY <2>2, <3>2 DEF Owns, Typed
      <4> QED BY <2>0, <2>2, <3>2, <4>1, Fewer DEF Typed
    <3> QED BY <3>1, <3>2
  <2> QED BY <2>1, <2>2
<1>5. Drawing'
  BY DrawingKept DEF Typed
<1> QED BY <1>1, <1>2, <1>3, <1>4, <1>5

LEMMA ReuseInv == ASSUME Inv, NEW t \in Thread, Reuse(t) PROVE Inv'
<1> USE DEF Inv, Reuse, Goto, Set, refVars, poolVars, countVars, threadVars, picVars
<1>1. Typed'
  BY RemovedPool DEF Typed, Standing, Label
<1>2. Standing'
  BY DEF Typed, Standing, Known
<1>3. Known'
  BY RemovedPool DEF Typed, Standing, Known
<1>4. \A r \in Ref : Owned(r)'
  <2> SUFFICES ASSUME NEW r \in Ref PROVE Owned(r)'
    OBVIOUS
  <2>1. CASE r = cur[t].ref
    <3>1. Owns(r, "taking", t)
      BY <2>1 DEF Owns, Typed
    <3>2. \A k, x : Owns(r, k, x)' => k = "thread" /\ x = t
      BY <2>1, <3>1, ZenonT(30) DEF Owned, Owns, Typed
    <3>3. flag'[r] /\ r \in created'
      BY <3>1 DEF Owned
    <3> QED BY <3>2, <3>3, Only
  <2>2. CASE r # cur[t].ref
    <3>1. \A k, x : Owns(r, k, x)' => Owns(r, k, x)
      BY <2>2 DEF Owns, Typed
    <3> QED BY <3>1, Fewer
  <2> QED BY <2>1, <2>2
<1>5. Drawing'
  BY DrawingKept DEF Typed
<1> QED BY <1>1, <1>2, <1>3, <1>4, <1>5

LEMMA CreateInv == ASSUME Inv, NEW t \in Thread, Create(t) PROVE Inv'
<1> USE DEF Inv, Create, Goto, Set, refVars, poolVars, countVars, threadVars, picVars
<1>1. Typed'
  BY RemovedPool DEF Typed, Standing, Label
<1>2. Standing'
  BY DEF Typed, Standing, Known
<1>3. Known'
  BY RemovedPool DEF Typed, Standing, Known
<1>4. \A r \in Ref : Owned(r)'
  <2> SUFFICES ASSUME NEW r \in Ref PROVE Owned(r)'
    OBVIOUS
  <2>0. PICK q \in Ref \ created :
          /\ created' = created \cup {q} /\ flag' = Set(flag, q, TRUE)
          /\ local' = Set(local, t, local[t] \cup {q})
    OBVIOUS
  <2>1. CASE r = q
    <3>1. \A k, x : ~Owns(r, k, x)
      BY <2>0, <2>1 DEF Owned
    <3>2. \A k, x : Owns(r, k, x)' => k = "thread" /\ x = t
      BY <2>0, <3>1 DEF Owns, Typed
    <3>3. flag'[r] /\ r \in created'
      BY <2>0, <2>1 DEF Typed
    <3> QED BY <3>2, <3>3, Only
  <2>2. CASE r # q
    <3>1. \A k, x : Owns(r, k, x)' => Owns(r, k, x)
      BY <2>0, <2>2 DEF Owns, Typed
    <3> QED BY <2>0, <2>2, <3>1, Fewer DEF Typed
  <2> QED BY <2>1, <2>2
<1>5. Drawing'
  BY DrawingKept DEF Typed
<1> QED BY <1>1, <1>2, <1>3, <1>4, <1>5

LEMMA MakePicInv == ASSUME Inv, NEW t \in Thread, NEW b \in Pic, NEW some \in SUBSET Ref,
                          MakePic(t, b, some) PROVE Inv'
<1> USE DEF Inv, MakePic, Goto, Set, refVars, poolVars, countVars, threadVars, picVars
<1>1. Typed'
  BY RemovedPool DEF Typed, Standing, Label
<1>2. Standing'
  BY DEF Typed, Standing, Known
<1>3. Known'
  BY RemovedPool DEF Typed, Standing, Known
<1>4. \A r \in Ref : Owned(r)'
  <2> SUFFICES ASSUME NEW r \in Ref PROVE Owned(r)'
    OBVIOUS
  <2>1. CASE r \in some
    <3>1. Owns(r, "thread", t)
      BY <2>1 DEF Owns, Typed
    <3>2. \A k, x : Owns(r, k, x) => k = "thread" /\ x = t
      BY <3>1 DEF Owned
    <3>3. \A x : ~Owns(r, "thread", x)'
      BY <2>1, <3>2 DEF Owns, Typed
    <3>4. ASSUME NEW x, Owns(r, "picture", x)' PROVE x = b
      <4>1. x # b => Owns(r, "picture", x)
        BY <3>4 DEF Owns, Typed
      <4>2. ~Owns(r, "picture", x)
        BY <3>2
      <4> QED BY <4>1, <4>2
    <3>5. \A k, x : k \notin {"thread", "picture"} /\ Owns(r, k, x)' => Owns(r, k, x)
      BY DEF Owns
    <3>6. \A k, x : Owns(r, k, x)' => k = "picture" /\ x = b
      BY <3>2, <3>3, <3>4, <3>5
    <3>7. flag'[r] /\ r \in created'
      BY <3>1 DEF Owned
    <3> QED BY <3>6, <3>7, Only
  <2>2. CASE r \notin some
    <3>1. \A k, x : Owns(r, k, x)' => Owns(r, k, x)
      BY <2>2 DEF Owns, Typed
    <3> QED BY <3>1, Fewer
  <2> QED BY <2>1, <2>2
<1>5. Drawing'
  BY DrawingKept DEF Typed, Drawing
<1> QED BY <1>1, <1>2, <1>3, <1>4, <1>5

LEMMA ReleaseRefInv == ASSUME Inv, NEW t \in Thread, NEW q \in Ref, ReleaseRef(t, q) PROVE Inv'
<1> USE DEF Inv, ReleaseRef, Goto, Set, refVars, poolVars, countVars, threadVars, picVars
<1>1. Typed'
  BY RemovedPool DEF Typed, Standing, Label
<1>2. Standing'
  BY DEF Typed, Standing, Known
<1>3. Known'
  BY RemovedPool DEF Typed, Standing, Known
<1>4. \A r \in Ref : Owned(r)'
  <2> SUFFICES ASSUME NEW r \in Ref PROVE Owned(r)'
    OBVIOUS
  <2>0. /\ Len(releasing) \in Nat /\ Len(releasing') = Len(releasing) + 1
        /\ \A i \in 1..Len(releasing) : releasing'[i] = releasing[i]
        /\ releasing'[Len(releasing) + 1] = q
    BY AppendProperties DEF Typed
  <2>1. CASE r = q
    <3>1. Owns(r, "thread", t)
      BY <2>1 DEF Owns
    <3>2. \A k, x : Owns(r, k, x) => k = "thread" /\ x = t
      BY <3>1, Sole
    <3>3. \A x : ~Owns(r, "queued", x)
      BY <3>2
    <3>4. \A k, x : Owns(r, k, x)' /\ k # "queued" => Owns(r, k, x) /\ ~(k = "thread" /\ x = t)
      BY <2>1 DEF Owns, Typed
    <3>5. \A x : Owns(r, "queued", x)' => x = Len(releasing) + 1
      BY <2>0, <3>3 DEF Owns
    <3>6. \A k, x : Owns(r, k, x)' => k = "queued" /\ x = Len(releasing) + 1
      BY <2>1, <3>2, <3>4, <3>5
    <3>7. flag'[r] /\ r \in created'
      BY <3>1 DEF Owned
    <3> QED BY <3>6, <3>7, Only
  <2>2. CASE r # q
    <3>1. \A k, x : Owns(r, k, x)' => Owns(r, k, x)
      BY <2>0, <2>2 DEF Owns, Typed
    <3> QED BY <3>1, Fewer
  <2> QED BY <2>1, <2>2
<1>5. Drawing'
  BY DrawingKept DEF Typed
<1> QED BY <1>1, <1>2, <1>3, <1>4, <1>5

LEMMA ReleasePicInv == ASSUME Inv, NEW b \in Pic, ReleasePic(b) PROVE Inv'
<1> USE DEF Inv, ReleasePic, Goto, Set, refVars, poolVars, countVars, threadVars, picVars
<1>1. Typed'
  BY RemovedPool DEF Typed, Standing, Label
<1>2. Standing'
  BY DEF Typed, Standing, Known
<1>3. Known'
  BY RemovedPool DEF Typed, Standing, Known
<1>4. \A r \in Ref : Owned(r)'
  <2> SUFFICES ASSUME NEW r \in Ref PROVE Owned(r)'
    OBVIOUS
  <2>1. /\ Len(releasing) \in Nat /\ Len(releasing') = Len(releasing) + 1
        /\ \A i \in 1..Len(releasing) : releasing'[i] = releasing[i]
        /\ releasing'[Len(releasing) + 1] # r
    BY AppendProperties, BitmapAssumption DEF Typed
  <2>2. \A k, x : Owns(r, k, x)' => Owns(r, k, x)
    BY <2>1 DEF Owns
  <2> QED BY <2>2, Fewer
<1>5. Drawing'
  BY DrawingKept DEF Typed
<1> QED BY <1>1, <1>2, <1>3, <1>4, <1>5

LEMMA DrainInv == ASSUME Inv, NEW t \in Thread, Drain(t) PROVE Inv'
<1> USE DEF Inv, Drain, Goto, Set, refVars, poolVars, countVars, threadVars, picVars
<1>1. Typed'
  <2>1. releasing # <<>> => Head(releasing) \in Ref \cup Pic /\ Tail(releasing) \in Seq(Ref \cup Pic)
    BY DEF Typed
  <2>2. CASE releasing = <<>>
    BY <2>2 DEF Typed, Label
  <2>3. CASE releasing # <<>> /\ Head(releasing) \in Ref
    <3>1. todo' \in [Thread -> SUBSET Ref]
      BY <2>3, SMTT(30) DEF Typed
    <3>2. releasing' \in Seq(Ref \cup Pic) /\ pc' \in [Thread -> Label] /\ cur' = cur
      BY <2>1, <2>3 DEF Typed, Label
    <3> QED BY <3>1, <3>2 DEF Typed
  <2>4. CASE releasing # <<>> /\ Head(releasing) \notin Ref
    <3>1. cur' \in [Thread -> Entry \cup Ref \cup Pic \cup {None}]
      BY <2>1, <2>4 DEF Typed
    <3>2. releasing' \in Seq(Ref \cup Pic) /\ pc' \in [Thread -> Label] /\ todo' = todo
      BY <2>1, <2>4 DEF Typed, Label
    <3> QED BY <3>1, <3>2 DEF Typed
  <2> QED BY <2>2, <2>3, <2>4
<1>2. Standing'
  <2>1. releasing # <<>> => Head(releasing) \in Ref \cup Pic
    BY DEF Typed
  <2> QED BY <2>1 DEF Typed, Standing
<1>3. Known'
  BY RemovedPool DEF Typed, Standing, Known
<1>4. \A r \in Ref : Owned(r)'
  <2>1. CASE releasing = <<>>
    BY <2>1, Kept DEF Typed
  <2>2. CASE releasing # <<>>
    <3> SUFFICES ASSUME NEW r \in Ref PROVE Owned(r)'
      OBVIOUS
    <3> DEFINE n == Len(releasing)
               h == releasing[1]
    <3>0. releasing \in Seq(Ref \cup Pic) /\ releasing' = Tail(releasing) /\ n \in Nat /\ n # 0
      BY <2>2 DEF Typed
    <3>1. /\ n \in Nat /\ n >= 1 /\ Len(releasing') = n - 1
          /\ \A i \in 1..(n - 1) : releasing'[i] = releasing[i + 1]
          /\ h = Head(releasing) /\ h \in Ref \cup Pic
      BY <3>0
    <3>2. \A x : Owns(r, "queued", x)' => x \in Int /\ Owns(r, "queued", x + 1)
      BY <3>1 DEF Owns
    <3>3. CASE r = h
      <4>1. Owns(r, "queued", 1)
        BY <3>1, <3>3 DEF Owns
      <4>2. \A x : ~Owns(r, "queued", x)'
        <5> SUFFICES ASSUME NEW x, Owns(r, "queued", x)' PROVE FALSE
          OBVIOUS
        <5>1. x + 1 = 1 /\ x \in 1..(n - 1)
          <6>1. Owns(r, "queued", x + 1) /\ x \in 1..(n - 1)
            BY <3>1, <3>2 DEF Owns
          <6>2. x + 1 = 1
            BY <4>1, <6>1, Sole
          <6> QED BY <6>1, <6>2
        <5> QED BY <5>1, <3>1
      <4>3. \A k, x : Owns(r, k, x)' => k = "freeing" /\ x = t
        <5>1. \A k, x : Owns(r, k, x) => k = "queued" /\ x = 1
          BY <4>1, Sole
        <5>2. \A k, x : Owns(r, k, x)' => Owns(r, k, x) \/ k = "queued" \/ (k = "freeing" /\ x = t)
          BY <2>2, <3>1 DEF Owns, Typed
        <5> QED BY <4>2, <5>1, <5>2
      <4>4. flag'[r] /\ r \in created'
        BY <4>1 DEF Owned
      <4> QED BY <4>3, <4>4, Only
    <3>4. CASE r # h
      <4>1. \A k, x : k # "queued" /\ Owns(r, k, x)' => Owns(r, k, x)
        BY <2>2, <3>1, <3>4 DEF Owns, Typed
      <4>2. ASSUME NEW k, NEW x, Owns(r, k, x)' PROVE flag'[r] /\ r \in created'
        BY <3>2, <4>1, <4>2 DEF Owned
      <4>3. ASSUME NEW k, NEW x, NEW l, NEW y, Owns(r, k, x)', Owns(r, l, y)'
            PROVE  k = l /\ x = y
        <5>1. CASE k # "queued" /\ l # "queued"
          BY <4>1, <4>3, <5>1 DEF Owned
        <5>2. CASE k = "queued" /\ l = "queued"
          <6>1. x + 1 = y + 1 /\ x \in Int /\ y \in Int
            BY <3>2, <4>3, <5>2 DEF Owned
          <6> QED BY <5>2, <6>1
        <5>3. CASE (k = "queued") # (l = "queued")
          BY <3>2, <4>1, <4>3, <5>3 DEF Owned
        <5> QED BY <5>1, <5>2, <5>3
      <4> QED BY <4>2, <4>3 DEF Owned
    <3> QED BY <3>3, <3>4
  <2> QED BY <2>1, <2>2
<1>5. Drawing'
  BY DrawingKept DEF Typed
<1> QED BY <1>1, <1>2, <1>3, <1>4, <1>5

LEMMA ClearPicInv == ASSUME Inv, NEW t \in Thread, ClearPic(t) PROVE Inv'
<1> USE DEF Inv, ClearPic, Goto, Set, refVars, poolVars, countVars, threadVars, picVars
<1>1. Typed'
  BY RemovedPool DEF Typed, Standing, Label
<1>2. Standing'
  BY DEF Typed, Standing, Known
<1>3. Known'
  BY RemovedPool DEF Typed, Standing, Known
<1>4. \A r \in Ref : Owned(r)'
  <2> SUFFICES ASSUME NEW r \in Ref PROVE Owned(r)'
    OBVIOUS
  <2>1. CASE r \in parts[cur[t]]
    <3>1. Owns(r, "picture", cur[t])
      BY <2>1 DEF Owns, Typed, Standing
    <3>2. \A k, x : Owns(r, k, x)' => k = "freeing" /\ x = t
      <4>0. PICK b \in Pic : b = cur[t]
        BY DEF Standing
      <4>1. \A k, x : Owns(r, k, x) => k = "picture" /\ x = b
        BY <3>1, <4>0, Sole
      <4>2. \A k, x : Owns(r, k, x)' => Owns(r, k, x) \/ (k = "freeing" /\ x = t)
        BY DEF Owns, Typed
      <4>3. ~Owns(r, "picture", b)'
        BY <4>0 DEF Owns, Typed
      <4> QED BY <4>1, <4>2, <4>3
    <3>3. flag'[r] /\ r \in created'
      BY <3>1 DEF Owned
    <3> QED BY <3>2, <3>3, Only
  <2>2. CASE r \notin parts[cur[t]]
    <3>1. \A k, x : Owns(r, k, x)' => Owns(r, k, x)
      BY <2>2 DEF Owns, Typed, Standing
    <3> QED BY <3>1, Fewer
  <2> QED BY <2>1, <2>2
<1>5. Drawing'
  BY DEF Typed, Drawing, drawVars
<1> QED BY <1>1, <1>2, <1>3, <1>4, <1>5

LEMMA FreeRefInv == ASSUME Inv, NEW t \in Thread, FreeRef(t) PROVE Inv'
<1> USE DEF Inv, FreeRef, Goto, Set, refVars, poolVars, countVars, threadVars, picVars
<1>1. Typed'
  <2>1. CASE todo[t] = {}
    BY <2>1 DEF Typed, Label
  <2>2. CASE todo[t] # {}
    <3>1. PICK q \in todo[t] :
            /\ todo' = Set(todo, t, todo[t] \ {q}) /\ flag' = Set(flag, q, FALSE)
            /\ cur' = Set(cur, t, q) /\ pc' = Set(pc, t, "put")
      BY <2>2
    <3>2. q \in Ref
      BY DEF Typed
    <3>3. todo' \in [Thread -> SUBSET Ref] /\ flag' \in [Ref -> BOOLEAN]
      BY <3>1 DEF Typed
    <3>4. cur' \in [Thread -> Entry \cup Ref \cup Pic \cup {None}]
      BY <3>1, <3>2 DEF Typed
    <3>5. pc' \in [Thread -> Label]
      BY <3>1 DEF Typed, Label
    <3> QED BY <3>3, <3>4, <3>5 DEF Typed
  <2> QED BY <2>1, <2>2
<1>2. Standing'
  <2>1. \A r \in todo[t] : r \in created
    BY DEF Owned, Owns, Typed
  <2> QED BY <2>1 DEF Typed, Standing
<1>3. Known'
  BY RemovedPool DEF Typed, Standing, Known
<1>4. \A r \in Ref : Owned(r)'
  <2>1. CASE todo[t] = {}
    BY <2>1, Kept DEF Typed
  <2>2. CASE todo[t] # {}
    <3> SUFFICES ASSUME NEW r \in Ref PROVE Owned(r)'
      OBVIOUS
    <3>0. PICK q \in todo[t] :
            /\ todo' = Set(todo, t, todo[t] \ {q}) /\ flag' = Set(flag, q, FALSE)
            /\ cur' = Set(cur, t, q) /\ pc' = Set(pc, t, "put")
      BY <2>2
    <3>1. \A k, x : Owns(r, k, x)' => Owns(r, k, x)
      BY <3>0 DEF Owns, Typed
    <3>2. CASE r = q
      <4>1. Owns(r, "freeing", t)
        BY <3>0, <3>2 DEF Owns
      <4>2. \A k, x : ~Owns(r, k, x)'
        <5>1. \A k, x : Owns(r, k, x) => k = "freeing" /\ x = t
          BY <4>1, Sole
        <5>2. ~Owns(r, "freeing", t)'
          BY <3>0, <3>2 DEF Owns, Typed
        <5> QED BY <3>1, <5>1, <5>2
      <4> QED BY <4>2 DEF Owned
    <3>3. CASE r # q
      BY <3>0, <3>1, <3>3, Fewer DEF Typed
    <3> QED BY <3>2, <3>3
  <2> QED BY <2>1, <2>2
<1>5. Drawing'
  BY DrawingKept DEF Typed
<1> QED BY <1>1, <1>2, <1>3, <1>4, <1>5

(***************************************************************************)
(* The drawing thread, and the theorems.                                   *)
(***************************************************************************)
LEMMA PickPicInv == ASSUME Inv, NEW b \in Pic, PickPic(b) PROVE Inv'
<1> USE DEF Inv, PickPic, refVars, poolVars, countVars, threadVars, picVars
<1>1. Typed' /\ Standing' /\ Known'
  BY DEF Typed, Standing, Known
<1>2. \A r \in Ref : Owned(r)'
  BY Kept
<1>3. Drawing'
  BY DEF Typed, Drawing
<1> QED BY <1>1, <1>2, <1>3

LEMMA BeginDrawInv == ASSUME Inv, BeginDraw PROVE Inv'
<1> USE DEF Inv, BeginDraw, refVars, poolVars, countVars, threadVars, picVars
<1>1. Typed' /\ Standing' /\ Known'
  BY DEF Typed, Standing, Known
<1>2. \A r \in Ref : Owned(r)'
  BY Kept
<1>3. Drawing'
  BY DEF Drawing
<1> QED BY <1>1, <1>2, <1>3

LEMMA EndDrawInv == ASSUME Inv, EndDraw PROVE Inv'
<1> USE DEF Inv, EndDraw, refVars, poolVars, countVars, threadVars, picVars
<1>1. Typed' /\ Standing' /\ Known'
  BY DEF Typed, Standing, Known
<1>2. \A r \in Ref : Owned(r)'
  BY Kept
<1>3. Drawing'
  BY DEF Drawing
<1> QED BY <1>1, <1>2, <1>3

LEMMA StutterInv == ASSUME Inv, UNCHANGED vars PROVE Inv'
<1> USE DEF Inv, vars, refVars, poolVars, countVars, threadVars, picVars, drawVars
<1>1. Typed' /\ Standing' /\ Known' /\ Drawing'
  BY DEF Typed, Standing, Known, Drawing
<1>2. \A r \in Ref : Owned(r)'
  BY Kept
<1> QED BY <1>1, <1>2

LEMMA StepInv == Inv /\ [Next]_vars => Inv'
<1> SUFFICES ASSUME Inv, [Next]_vars PROVE Inv'
  OBVIOUS
<1>1. ASSUME NEW t \in Thread, GetStep(t) PROVE Inv'
  BY <1>1, GetBitmapInv, NextFreeInv, TryRefInv, ReuseInv, CreateInv DEF GetStep
<1>2. ASSUME NEW t \in Thread, CleanStep(t) PROVE Inv'
  BY <1>2, ReleaseInv, ClearInv, NextOldInv, TestOldInv, DrainInv, ClearPicInv, FreeRefInv,
     PutRefInv, EvictAllInv DEF CleanStep
<1>3. ASSUME NEW t \in Thread, Shrink(t) \/ Shrunk(t) PROVE Inv'
  BY <1>3, ShrinkInv, ShrunkInv
<1>4. ASSUME NEW t \in Thread, NEW b \in Pic, NEW some \in SUBSET Ref, MakePic(t, b, some)
      PROVE  Inv'
  BY <1>4, MakePicInv
<1>5. ASSUME NEW t \in Thread, NEW r \in Ref, ReleaseRef(t, r) PROVE Inv'
  BY <1>5, ReleaseRefInv
<1>6. ASSUME NEW b \in Pic, ReleasePic(b) \/ PickPic(b) PROVE Inv'
  BY <1>6, ReleasePicInv, PickPicInv
<1>7. CASE BeginDraw \/ EndDraw
  BY <1>7, BeginDrawInv, EndDrawInv
<1>8. CASE Quiet \/ UNCHANGED vars
  BY <1>8, StutterInv DEF Quiet
<1> QED BY <1>1, <1>2, <1>3, <1>4, <1>5, <1>6, <1>7, <1>8 DEF Next, Thread

\* The set of the owners, as the properties have it, and the owners of the invariant.
LEMMA OwnersAre ==
    ASSUME NEW r, NEW o \in Owners(r)
    PROVE  \E k, x : o = <<k, x>> /\ Owns(r, k, x)
BY DEF Owners, Owns

LEMMA OwnersOne ==
    ASSUME Inv, NEW r \in Ref
    PROVE  \A o, p \in Owners(r) : o = p
<1> SUFFICES ASSUME NEW o \in Owners(r), NEW p \in Owners(r) PROVE o = p
  OBVIOUS
<1>1. PICK k, x : o = <<k, x>> /\ Owns(r, k, x)
  BY OwnersAre
<1>2. PICK l, y : p = <<l, y>> /\ Owns(r, l, y)
  BY OwnersAre
<1>3. k = l /\ x = y
  BY <1>1, <1>2 DEF Inv, Owned
<1> QED BY <1>1, <1>2, <1>3

\* A bitmap has at most one owner among the renderings, the pictures, the queue of
\* what is to be released and the threads that take or free it: the compareAndSet of
\* getBitmap is enough, whatever iterators stand on and although releaseImpl returns
\* references to the pool unconditionally.
THEOREM OneOwnerAlways == Spec => []OneOwner
<1>1. Inv => OneOwner
  <2> SUFFICES ASSUME Inv, NEW r \in Ref PROVE Cardinality(Owners(r)) <= 1
    BY DEF OneOwner
  <2>1. CASE Owners(r) = {}
    BY <2>1, FS_EmptySet
  <2>2. CASE Owners(r) # {}
    <3>1. PICK o \in Owners(r) : TRUE
      BY <2>2
    <3>2. Owners(r) = {o}
      BY <3>1, OwnersOne
    <3> QED BY <3>2, FS_Singleton
  <2> QED BY <2>1, <2>2
<1> QED BY <1>1, InitInv, StepInv, PTL DEF Spec

\* The drawing thread never draws a bitmap that its picture has lost: the lock of
\* Bitmaps.draw and Bitmaps.clear, and the test for null behind it, are enough.
THEOREM DrawnKeptAlways == Spec => []DrawnKept
<1>1. Inv => DrawnKept
  <2> SUFFICES ASSUME Inv, NEW r \in drawn PROVE Owners(r) = {<<"picture", pic>>}
    BY DEF DrawnKept
  <2>1. r \in parts[pic] /\ pic \in Pic /\ r \in Ref
    BY DEF Inv, Drawing, Typed
  <2>2. <<"picture", pic>> \in Owners(r)
    BY <2>1 DEF Owners
  <2> QED BY <2>1, <2>2, OwnersOne
<1> QED BY <1>1, InitInv, StepInv, PTL DEF Spec

---------------------------------------------------------------------------
(***************************************************************************)
(* The additions to the inductive invariant.                               *)
(***************************************************************************)
Numbers ==
    /\ bitmap \in [Ref -> BOOLEAN] /\ gen \in [Ref -> Nat] /\ used \subseteq created
    /\ generation \in Nat /\ memoryUsed \in Int /\ memoryPooled \in Int
    /\ clearing \in [Thread -> BOOLEAN] /\ limit \in [Thread -> {0, Limit}]
    /\ pic \in Pic \cup {None} /\ drawn \subseteq Ref

HasOwner(r) == \E k, x : Owns(r, k, x)
InPool(r) == \E e \in ToSet(pool) : e.ref = r

\* Thread t takes reference r to the pool, or out of it for good.
Moving(r, t) ==
    \/ pc[t] = "put" /\ cur[t] = r
    \/ pc[t] \in {"shrunk", "getShrunk"} /\ cur[t].ref = r

Reach(r) == ~bitmap[r] \/ HasOwner(r) \/ InPool(r) \/ \E t \in Thread : Moving(r, t)

\* Nothing is overwritten: neither what a thread has still to free nor the parts of a
\* picture.
Nothing ==
    /\ \A t \in Thread : todo[t] # {} => pc[t] \in {"free", "put"}
    /\ \A b \in Pic \ made : parts[b] = {}

Followed == Nothing /\ \A r \in created : Reach(r)

\* The counter against the references that somebody has who has been counted.
InUse == {r \in Ref : \E k, x : k # "taking" /\ Owns(r, k, x)}
Counted == IsFiniteSet(InUse) /\ Cardinality(InUse) <= memoryUsed

All == Inv /\ Numbers /\ Followed /\ Counted

LEMMA InitAll == Init => All
<1> SUFFICES ASSUME Init PROVE All
  OBVIOUS
<1>1. Inv
  BY InitInv
<1>2. Numbers /\ Followed
  BY BitmapAssumption DEF Init, Numbers, Followed, Nothing
<1>3. InUse = {}
  BY DEF Init, InUse, Owns
<1>4. Counted
  BY <1>3, FS_EmptySet DEF Init, Counted
<1> QED BY <1>1, <1>2, <1>4 DEF All

(***************************************************************************)
(* What a step may do.                                                     *)
(***************************************************************************)
\* Fewer references in use, or one more that is counted.
LEMMA StillCounted ==
    ASSUME Counted, InUse' \subseteq InUse, memoryUsed' = memoryUsed, memoryUsed \in Int
    PROVE  Counted'
<1>1. IsFiniteSet(InUse') /\ Cardinality(InUse') <= Cardinality(InUse)
  BY FS_Subset DEF Counted
<1>2. Cardinality(InUse') \in Nat /\ Cardinality(InUse) \in Nat
  BY <1>1, FS_CardinalityType DEF Counted
<1> QED BY <1>1, <1>2 DEF Counted

LEMMA OneMoreCounted ==
    ASSUME Counted, NEW q, InUse' \subseteq InUse \cup {q}, memoryUsed' = memoryUsed + 1,
           memoryUsed \in Int
    PROVE  Counted'
<1> DEFINE S == InUse \cup {q}
<1>0. IsFiniteSet(InUse) /\ Cardinality(InUse) \in Nat
  BY FS_CardinalityType DEF Counted
<1>4. /\ IsFiniteSet(S)
      /\ Cardinality(S) = IF q \in InUse THEN Cardinality(InUse) ELSE Cardinality(InUse) + 1
  BY <1>0, FS_AddElement
<1>1. IsFiniteSet(S) /\ Cardinality(S) <= Cardinality(InUse) + 1 /\ Cardinality(InUse) \in Nat
  BY <1>0, <1>4
<1>2. IsFiniteSet(InUse') /\ Cardinality(InUse') <= Cardinality(S)
  BY <1>1, FS_Subset
<1>3. Cardinality(InUse') \in Nat /\ Cardinality(S) \in Nat
  BY <1>1, <1>2, FS_CardinalityType
<1> QED BY <1>1, <1>2, <1>3 DEF Counted

\* One that was in use is so no longer, and the counter has gone down by one at most.
LEMMA OneLessCounted ==
    ASSUME Counted, NEW q \in InUse, InUse' \subseteq InUse \ {q},
           memoryUsed' \in {memoryUsed, memoryUsed - 1}, memoryUsed \in Int
    PROVE  Counted'
<1> DEFINE S == InUse \ {q}
<1>1. IsFiniteSet(S) /\ Cardinality(S) = Cardinality(InUse) - 1 /\ Cardinality(InUse) \in Nat
  BY FS_RemoveElement, FS_CardinalityType DEF Counted
<1>2. IsFiniteSet(InUse') /\ Cardinality(InUse') <= Cardinality(S)
  BY <1>1, FS_Subset
<1>3. Cardinality(InUse') \in Nat
  BY <1>2, FS_CardinalityType
<1> QED BY <1>1, <1>2, <1>3 DEF Counted

\* A step that moves no reference
LEMMA Unmoved ==
    ASSUME All,
           UNCHANGED <<created, bitmap, pool, releasing, memoryUsed, todo, local, made, parts>>,
           \A u \in Thread :
              /\ pc[u] \in {"reuse", "put", "shrunk", "getShrunk"} =>
                    pc'[u] = pc[u] /\ cur'[u] = cur[u]
              /\ pc[u] = "free" /\ todo[u] # {} => pc'[u] = "free"
    PROVE  Followed' /\ Counted'
<1> USE DEF All, Inv
<1>1. Nothing'
  BY DEF Followed, Nothing
<1>2. \A r, k, x : Owns(r, k, x) => Owns(r, k, x)'
  BY DEF Owns
<1>3. \A r \in created : Reach(r)'
  BY <1>2 DEF Followed, Reach, HasOwner, InPool, Moving
<1>4. InUse' \subseteq InUse
  BY DEF InUse, Owns
<1>5. Counted'
  BY <1>4, StillCounted DEF Numbers
<1> QED BY <1>1, <1>3, <1>5 DEF Followed

\* What RemoveAt leaves
LEMMA RemovedKeeps ==
    ASSUME Typed, NEW e, NEW f \in ToSet(pool), f # e
    PROVE  f \in ToSet(Removed(e))
<1>1. CASE e \notin ToSet(pool)
  BY <1>1 DEF Removed
<1>2. CASE e \in ToSet(pool)
  <2> DEFINE i == CHOOSE j \in DOMAIN pool : pool[j] = e
             s == SubSeq(pool, 1, i - 1)
             u == SubSeq(pool, i + 1, Len(pool))
  <2>1. i \in 1..Len(pool) /\ pool[i] = e
    BY <1>2 DEF ToSet, Typed
  <2>2. Removed(e) = s \o u
    BY <1>2 DEF Removed, RemoveAt
  <2>3. PICK j \in 1..Len(pool) : pool[j] = f
    BY DEF ToSet, Typed
  <2>4. j # i
    BY <2>1, <2>3
  <2> HIDE DEF i
  <2>5. /\ s \in Seq(Entry) /\ u \in Seq(Entry) /\ Len(s) = i - 1 /\ Len(u) = Len(pool) - i
        /\ \A n \in 1..(i - 1) : s[n] = pool[n]
        /\ \A n \in 1..(Len(pool) - i) : u[n] = pool[n + i]
    BY <2>1, SubSeqProperties DEF Typed
  <2> HIDE DEF s, u
  <2>6. Len(pool) \in Nat
    BY DEF Typed
  <2>7. \E n \in 1..Len(s \o u) : (s \o u)[n] = f
    <3>1. CASE j < i
      <4>1. j \in 1..Len(s) /\ j \in 1..Len(s \o u) /\ (s \o u)[j] = s[j]
        BY <2>1, <2>5, <2>6, <3>1
      <4> QED BY <4>1, <2>3, <2>5
    <3>2. CASE j > i
      <4>1. /\ j - i \in 1..Len(u) /\ j - 1 \in 1..Len(s \o u) /\ (j - i) + i = j
            /\ (s \o u)[j - 1] = u[j - i]
        BY <2>1, <2>5, <2>6, <3>2
      <4> QED BY <4>1, <2>3, <2>5
    <3> QED BY <2>1, <2>4, <3>1, <3>2
  <2>8. DOMAIN (s \o u) = 1..Len(s \o u)
    BY <2>5
  <2> QED BY <2>2, <2>7, <2>8 DEF ToSet
<1> QED BY <1>1, <1>2

(***************************************************************************)
(* The steps that move no reference.                                       *)
(***************************************************************************)
LEMMA GetBitmapAll == ASSUME All, NEW t \in Thread, GetBitmap(t) PROVE All'
<1>1. Inv'
  BY GetBitmapInv DEF All
<1> USE DEF All, GetBitmap, Goto, Set, refVars, poolVars, countVars, threadVars, picVars, drawVars
<1>2. Numbers'
  BY BitmapAssumption DEF Inv, Typed, Drawing, Numbers
<1>3. Followed' /\ Counted'
  BY Unmoved DEF Inv, Typed
<1> QED BY <1>1, <1>2, <1>3

LEMMA NextFreeAll == ASSUME All, NEW t \in Thread, NextFree(t) PROVE All'
<1>1. Inv'
  BY NextFreeInv DEF All
<1> USE DEF All, NextFree, Goto, Set, refVars, poolVars, countVars, threadVars, picVars, drawVars
<1>2. Numbers'
  BY BitmapAssumption DEF Inv, Typed, Drawing, Numbers
<1>3. Followed' /\ Counted'
  BY Unmoved DEF Inv, Typed
<1> QED BY <1>1, <1>2, <1>3

LEMMA TryRefAll == ASSUME All, NEW t \in Thread, TryRef(t) PROVE All'
<1>1. Inv'
  BY TryRefInv DEF All
<1> USE DEF All, TryRef, Goto, Set, refVars, poolVars, countVars, threadVars, picVars, drawVars
<1>2. Numbers'
  BY BitmapAssumption DEF Inv, Typed, Drawing, Numbers
<1>3. Followed' /\ Counted'
  BY Unmoved DEF Inv, Typed
<1> QED BY <1>1, <1>2, <1>3

LEMMA ReleaseAll == ASSUME All, NEW t \in Thread, Release(t) PROVE All'
<1>1. Inv'
  BY ReleaseInv DEF All
<1> USE DEF All, Release, Goto, Set, refVars, poolVars, countVars, threadVars, picVars, drawVars
<1>2. Numbers'
  BY BitmapAssumption DEF Inv, Typed, Drawing, Numbers
<1>3. Followed' /\ Counted'
  BY Unmoved DEF Inv, Typed
<1> QED BY <1>1, <1>2, <1>3

LEMMA ClearAll == ASSUME All, NEW t \in Thread, Clear(t) PROVE All'
<1>1. Inv'
  BY ClearInv DEF All
<1> USE DEF All, Clear, Goto, Set, refVars, poolVars, countVars, threadVars, picVars, drawVars
<1>2. Numbers'
  BY BitmapAssumption DEF Inv, Typed, Drawing, Numbers
<1>3. Followed' /\ Counted'
  BY Unmoved DEF Inv, Typed
<1> QED BY <1>1, <1>2, <1>3

LEMMA NextOldAll == ASSUME All, NEW t \in Thread, NextOld(t) PROVE All'
<1>1. Inv'
  BY NextOldInv DEF All
<1> USE DEF All, NextOld, Goto, Set, refVars, poolVars, countVars, threadVars, picVars, drawVars
<1>2. Numbers'
  BY BitmapAssumption DEF Inv, Typed, Drawing, Numbers
<1>3. Followed' /\ Counted'
  BY Unmoved DEF Inv, Typed
<1> QED BY <1>1, <1>2, <1>3

LEMMA EvictAllAll == ASSUME All, NEW t \in Thread, EvictAll(t) PROVE All'
<1>1. Inv'
  BY EvictAllInv DEF All
<1> USE DEF All, EvictAll, Goto, Set, refVars, poolVars, countVars, threadVars, picVars, drawVars
<1>2. Numbers'
  BY BitmapAssumption, ZenonT(30) DEF Inv, Typed, Drawing, Numbers
<1>3. Followed' /\ Counted'
  BY Unmoved DEF Inv, Typed
<1> QED BY <1>1, <1>2, <1>3

LEMMA PickPicAll == ASSUME All, NEW b \in Pic, PickPic(b) PROVE All'
<1>1. Inv'
  BY PickPicInv DEF All
<1> USE DEF All, PickPic, Goto, Set, refVars, poolVars, countVars, threadVars, picVars, drawVars
<1>2. Numbers'
  BY BitmapAssumption DEF Inv, Typed, Drawing, Numbers
<1>3. Followed' /\ Counted'
  BY Unmoved DEF Inv, Typed
<1> QED BY <1>1, <1>2, <1>3

LEMMA BeginDrawAll == ASSUME All, BeginDraw PROVE All'
<1>1. Inv'
  BY BeginDrawInv DEF All
<1> USE DEF All, BeginDraw, Goto, Set, refVars, poolVars, countVars, threadVars, picVars, drawVars
<1>2. Numbers'
  BY BitmapAssumption DEF Inv, Typed, Drawing, Numbers
<1>3. Followed' /\ Counted'
  BY Unmoved DEF Inv, Typed
<1> QED BY <1>1, <1>2, <1>3

LEMMA EndDrawAll == ASSUME All, EndDraw PROVE All'
<1>1. Inv'
  BY EndDrawInv DEF All
<1> USE DEF All, EndDraw, Goto, Set, refVars, poolVars, countVars, threadVars, picVars, drawVars
<1>2. Numbers'
  BY BitmapAssumption DEF Inv, Typed, Drawing, Numbers
<1>3. Followed' /\ Counted'
  BY Unmoved DEF Inv, Typed
<1> QED BY <1>1, <1>2, <1>3

(***************************************************************************)
(* The steps that move one.                                                *)
(***************************************************************************)
LEMMA ShrinkAll == ASSUME All, NEW t \in Thread, Shrink(t) PROVE All'
<1>1. Inv'
  BY ShrinkInv DEF All
<1> USE DEF All, Shrink, Goto, Set, refVars, poolVars, countVars, threadVars, picVars, drawVars
<1>2. Numbers'
  BY BitmapAssumption DEF Inv, Typed, Standing, Drawing, Numbers
<1>3. Nothing'
  BY DEF Inv, Typed, Followed, Nothing
<1>4. \A r, k, x : Owns(r, k, x) => Owns(r, k, x)'
  BY DEF Owns, Inv, Typed
<1>5. \A r \in created' : Reach(r)'
  <2>1. \A r \in created : ~bitmap[r] \/ HasOwner(r) => ~bitmap'[r] \/ HasOwner(r)'
    BY <1>4 DEF HasOwner
  <2>2. \A r \in created, u \in Thread : Moving(r, u) => Moving(r, u)'
    BY DEF Moving, Inv, Typed
  <2>3. \A e \in ToSet(pool) : e \in ToSet(pool)' \/ Moving(e.ref, t)'
    <3>1. CASE pool' = pool
      BY <3>1
    <3>2. CASE pool' # pool
      <4>0. /\ pool # <<>> /\ pool' = Tail(pool) /\ cur' = [cur EXCEPT ![t] = Head(pool)]
            /\ \E l \in {"shrunk", "getShrunk"} : pc' = [pc EXCEPT ![t] = l]
        BY <3>2
      <4>5. cur'[t] = Head(pool) /\ pc'[t] \in {"shrunk", "getShrunk"}
        BY <4>0 DEF Inv, Typed
      <4>8. PICK h : h = Head(pool)
        OBVIOUS
      <4>1. pool # <<>> /\ pool' = Tail(pool) /\ Moving(h.ref, t)'
        BY <4>0, <4>5, <4>8 DEF Moving
      <4>2. /\ pool \in Seq(Entry) /\ Len(pool) \in Nat /\ Len(pool) # 0
            /\ Head(pool) = pool[1] /\ Len(Tail(pool)) = Len(pool) - 1
            /\ Tail(pool) \in Seq(Entry)
            /\ \A j \in 1..Len(Tail(pool)) : Tail(pool)[j] = pool[j + 1]
        BY <4>1 DEF Inv, Typed
      <4>6. \A e \in ToSet(pool) : \E j \in 1..Len(pool) : e = pool[j]
        BY <4>2 DEF ToSet
      <4>9. DOMAIN Tail(pool) = 1..Len(Tail(pool))
        BY <4>2
      <4>7. \A j \in 1..Len(Tail(pool)) : Tail(pool)[j] \in ToSet(Tail(pool))
        BY <4>9 DEF ToSet
      <4> SUFFICES ASSUME NEW e, NEW j \in 1..Len(pool), e = pool[j]
                   PROVE  e \in ToSet(Tail(pool)) \/ Moving(e.ref, t)'
        BY <4>1, <4>6
      <4>3. CASE j = 1
        <5>1. e = h
          BY <4>2, <4>3, <4>8
        <5> QED BY <4>1, <5>1
      <4>4. CASE j # 1
        <5>1. j - 1 \in 1..Len(Tail(pool)) /\ Tail(pool)[j - 1] = pool[j]
          BY <4>2, <4>4
        <5> QED BY <4>7, <5>1
      <4> QED BY <4>3, <4>4
    <3> QED BY <3>1, <3>2
  <2> QED BY <2>1, <2>2, <2>3 DEF Followed, Reach, InPool
<1>6. Counted'
  <2>1. InUse' \subseteq InUse
    BY DEF InUse, Owns, Inv, Typed
  <2> QED BY <2>1, StillCounted DEF Numbers
<1> QED BY <1>1, <1>2, <1>3, <1>5, <1>6 DEF Followed

LEMMA ShrunkAll == ASSUME All, NEW t \in Thread, Shrunk(t) PROVE All'
<1>1. Inv'
  BY ShrunkInv DEF All
<1> USE DEF All, Shrunk, Goto, Set, refVars, poolVars, countVars, threadVars, picVars, drawVars
<1>2. Numbers'
  BY BitmapAssumption DEF Inv, Typed, Standing, Drawing, Numbers
<1>3. Nothing'
  BY DEF Inv, Typed, Followed, Nothing
<1>4. \A r, k, x : Owns(r, k, x) => Owns(r, k, x)'
  BY DEF Owns, Inv, Typed
<1>5. \A r \in created' : Reach(r)'
  <2>1. \A r \in created : ~bitmap[r] \/ HasOwner(r) \/ InPool(r) =>
                              ~bitmap'[r] \/ HasOwner(r)' \/ InPool(r)'
    BY <1>4 DEF HasOwner, InPool, Inv, Typed, Numbers
  <2>2. \A r \in created, u \in Thread : Moving(r, u) => ~bitmap'[r] \/ Moving(r, u)'
    BY DEF Moving, Inv, Typed, Numbers
  <2> QED BY <2>1, <2>2 DEF Followed, Reach
<1>6. Counted'
  <2>1. InUse' \subseteq InUse
    BY DEF InUse, Owns, Inv, Typed
  <2> QED BY <2>1, StillCounted DEF Numbers
<1> QED BY <1>1, <1>2, <1>3, <1>5, <1>6 DEF Followed

LEMMA TestOldAll == ASSUME All, NEW t \in Thread, TestOld(t) PROVE All'
<1>1. Inv'
  BY TestOldInv DEF All
<1> USE DEF All, TestOld, Goto, Set, refVars, poolVars, countVars, threadVars, picVars, drawVars
<1>2. Numbers'
  <2>1. bitmap' \in [Ref -> BOOLEAN]
    BY DEF Numbers
  <2>2. memoryPooled' \in Int
    BY DEF Numbers
  <2> QED BY <2>1, <2>2 DEF Numbers
<1>3. Nothing'
  BY DEF Inv, Typed, Followed, Nothing
<1>4. \A r, k, x : Owns(r, k, x) => Owns(r, k, x)'
  BY DEF Owns, Inv, Typed
<1>5. \A r \in created' : Reach(r)'
  <2>1. \A r \in created : ~bitmap[r] \/ HasOwner(r) => ~bitmap'[r] \/ HasOwner(r)'
    BY <1>4 DEF HasOwner, Inv, Typed, Numbers
  <2>2. \A r \in created, u \in Thread : Moving(r, u) => Moving(r, u)'
    BY DEF Moving, Inv, Typed
  <2>3. \A e \in ToSet(pool) : e \in ToSet(pool)' \/ ~bitmap'[e.ref]
    <3> SUFFICES ASSUME NEW e \in ToSet(pool) PROVE e \in ToSet(pool)' \/ ~bitmap'[e.ref]
      OBVIOUS
    <3>1. CASE pool' = pool
      BY <3>1
    <3>2. CASE pool' # pool
      <4>1. pool' = Removed(cur[t]) /\ bitmap' = [bitmap EXCEPT ![cur[t].ref] = FALSE]
        BY <3>2
      <4>2. cur[t].ref \in Ref
        BY DEF Inv, Standing, Typed
      <4>3. CASE e = cur[t]
        BY <4>1, <4>2, <4>3 DEF Numbers
      <4>4. CASE e # cur[t]
        BY <4>1, <4>4, RemovedKeeps DEF Inv
      <4> QED BY <4>3, <4>4
    <3> QED BY <3>1, <3>2
  <2> QED BY <2>1, <2>2, <2>3 DEF Followed, Reach, InPool
<1>6. Counted'
  <2>1. InUse' \subseteq InUse
    BY DEF InUse, Owns, Inv, Typed
  <2> QED BY <2>1, StillCounted DEF Numbers
<1> QED BY <1>1, <1>2, <1>3, <1>5, <1>6 DEF Followed

LEMMA ReuseAll == ASSUME All, NEW t \in Thread, Reuse(t) PROVE All'
<1>1. Inv'
  BY ReuseInv DEF All
<1> USE DEF All, Reuse, Goto, Set, refVars, poolVars, countVars, threadVars, picVars, drawVars
<1>2. Numbers'
  BY BitmapAssumption DEF Inv, Typed, Standing, Drawing, Numbers
<1>3. Nothing'
  BY DEF Inv, Typed, Followed, Nothing
<1>4. \A r : HasOwner(r) => HasOwner(r)'
  <2>1. \A r, k, x : Owns(r, k, x) /\ ~(k = "taking" /\ x = t) => Owns(r, k, x)'
    BY DEF Owns, Inv, Typed
  <2>2. \A r : Owns(r, "taking", t) => Owns(r, "thread", t)'
    BY DEF Owns, Inv, Typed
  <2> QED BY <2>1, <2>2 DEF HasOwner
<1>5. \A r \in created' : Reach(r)'
  <2>1. Owns(cur[t].ref, "taking", t)
    BY DEF Owns
  <2>2. \A r \in created, u \in Thread : Moving(r, u) => Moving(r, u)'
    BY DEF Moving, Inv, Typed
  <2>3. \A e \in ToSet(pool) : e \in ToSet(pool)' \/ HasOwner(e.ref)'
    BY <1>4, <2>1, RemovedKeeps DEF HasOwner, Inv
  <2> QED BY <1>4, <2>2, <2>3 DEF Followed, Reach, InPool
<1>6. Counted'
  <2>1. InUse' \subseteq InUse \cup {cur[t].ref}
    BY DEF InUse, Owns, Inv, Typed
  <2> QED BY <2>1, OneMoreCounted DEF Numbers
<1> QED BY <1>1, <1>2, <1>3, <1>5, <1>6 DEF Followed

LEMMA CreateAll == ASSUME All, NEW t \in Thread, Create(t) PROVE All'
<1>1. Inv'
  BY CreateInv DEF All
<1> USE DEF All, Create, Goto, Set, refVars, poolVars, countVars, threadVars, picVars, drawVars
<1>0. PICK q \in Ref \ created :
        /\ created' = created \cup {q} /\ bitmap' = Set(bitmap, q, TRUE)
        /\ flag' = Set(flag, q, TRUE) /\ gen' = Set(gen, q, generation)
        /\ used' = used \cup {q} /\ local' = Set(local, t, local[t] \cup {q})
  OBVIOUS
<1>2. Numbers'
  BY <1>0, BitmapAssumption DEF Inv, Typed, Standing, Drawing, Numbers
<1>3. Nothing'
  BY DEF Inv, Typed, Followed, Nothing
<1>4. \A r, k, x : Owns(r, k, x) => Owns(r, k, x)'
  BY <1>0 DEF Owns, Inv, Typed
<1>5. \A r \in created' : Reach(r)'
  <2>1. HasOwner(q)'
    BY <1>0 DEF HasOwner, Owns, Inv, Typed
  <2>2. ASSUME NEW r \in created PROVE Reach(r)'
    <3>1. bitmap'[r] = bitmap[r]
      BY <1>0 DEF Numbers, Inv, Typed
    <3>2. \A u \in Thread : Moving(r, u) => Moving(r, u)'
      BY DEF Moving, Inv, Typed
    <3> QED BY <1>4, <3>1, <3>2 DEF Followed, Reach, HasOwner, InPool
  <2> QED BY <1>0, <2>1, <2>2 DEF Reach
<1>6. Counted'
  <2>1. InUse' \subseteq InUse \cup {q}
    BY <1>0, ZenonT(30) DEF InUse, Owns, Inv, Typed
  <2> QED BY <2>1, OneMoreCounted DEF Numbers
<1> QED BY <1>1, <1>2, <1>3, <1>5, <1>6 DEF Followed

LEMMA MakePicAll == ASSUME All, NEW t \in Thread, NEW b \in Pic, NEW some \in SUBSET Ref,
                     MakePic(t, b, some) PROVE All'
<1>1. Inv'
  BY MakePicInv DEF All
<1> USE DEF All, MakePic, Goto, Set, refVars, poolVars, countVars, threadVars, picVars, drawVars
<1>2. Numbers'
  BY BitmapAssumption DEF Inv, Typed, Standing, Drawing, Numbers
<1>3. Nothing'
  BY DEF Inv, Typed, Followed, Nothing
<1>4. \A r : HasOwner(r) => HasOwner(r)'
  <2>1. \A r \in some : Owns(r, "picture", b)'
    BY DEF Owns, Inv, Typed
  <2>2. \A r, k, x : r \notin some /\ Owns(r, k, x) => Owns(r, k, x)'
    BY DEF Owns, Inv, Typed, Followed, Nothing
  <2> QED BY <2>1, <2>2 DEF HasOwner
<1>5. \A r \in created' : Reach(r)'
  <2>1. \A r \in created, u \in Thread : Moving(r, u) => Moving(r, u)'
    BY DEF Moving, Inv, Typed
  <2> QED BY <1>4, <2>1 DEF Followed, Reach, InPool
<1>6. Counted'
  <2>1. InUse' \subseteq InUse
    <3> SUFFICES ASSUME NEW r \in Ref, NEW k, NEW x, k # "taking", Owns(r, k, x)'
                 PROVE  r \in InUse
      BY DEF InUse
    <3>1. CASE r \in some
      BY <3>1 DEF InUse, Owns
    <3>2. CASE r \notin some
      <4>1. Owns(r, k, x)
        BY <3>2 DEF Owns, Inv, Typed
      <4> QED BY <4>1 DEF InUse
    <3> QED BY <3>1, <3>2
  <2> QED BY <2>1, StillCounted DEF Numbers
<1> QED BY <1>1, <1>2, <1>3, <1>5, <1>6 DEF Followed

LEMMA ReleaseRefAll == ASSUME All, NEW t \in Thread, NEW q \in Ref, ReleaseRef(t, q) PROVE All'
<1>1. Inv'
  BY ReleaseRefInv DEF All
<1> USE DEF All, ReleaseRef, Goto, Set, refVars, poolVars, countVars, threadVars, picVars, drawVars
<1>0. /\ Len(releasing) \in Nat /\ Len(releasing') = Len(releasing) + 1
      /\ \A i \in 1..Len(releasing) : releasing'[i] = releasing[i]
      /\ releasing'[Len(releasing) + 1] = q
  BY AppendProperties DEF Inv, Typed
<1>2. Numbers'
  BY BitmapAssumption DEF Inv, Typed, Standing, Drawing, Numbers
<1>3. Nothing'
  BY DEF Inv, Typed, Followed, Nothing
<1>4. \A r : HasOwner(r) => HasOwner(r)'
  <2>0. PICK n \in 1..Len(releasing') : releasing'[n] = q
    BY <1>0
  <2>1. Owns(q, "queued", n)'
    BY <2>0 DEF Owns
  <2>2. \A r, k, x : r # q /\ Owns(r, k, x) => Owns(r, k, x)'
    BY <1>0 DEF Owns, Inv, Typed
  <2> QED BY <2>1, <2>2 DEF HasOwner
<1>5. \A r \in created' : Reach(r)'
  <2>1. \A r \in created, u \in Thread : Moving(r, u) => Moving(r, u)'
    BY DEF Moving, Inv, Typed
  <2> QED BY <1>4, <2>1 DEF Followed, Reach, InPool
<1>6. Counted'
  <2>1. InUse' \subseteq InUse
    <3> SUFFICES ASSUME NEW r \in Ref, NEW k, NEW x, k # "taking", Owns(r, k, x)'
                 PROVE  r \in InUse
      BY DEF InUse
    <3>1. CASE r = q
      BY <3>1 DEF InUse, Owns
    <3>2. CASE r # q
      <4>1. Owns(r, k, x)
        BY <1>0, <3>2 DEF Owns, Inv, Typed
      <4> QED BY <4>1 DEF InUse
    <3> QED BY <3>1, <3>2
  <2> QED BY <2>1, StillCounted DEF Numbers
<1> QED BY <1>1, <1>2, <1>3, <1>5, <1>6 DEF Followed

LEMMA ReleasePicAll == ASSUME All, NEW b \in Pic, ReleasePic(b) PROVE All'
<1>1. Inv'
  BY ReleasePicInv DEF All
<1> USE DEF All, ReleasePic, Goto, Set, refVars, poolVars, countVars, threadVars, picVars, drawVars
<1>0. /\ Len(releasing) \in Nat /\ Len(releasing') = Len(releasing) + 1
      /\ \A i \in 1..Len(releasing) : releasing'[i] = releasing[i]
      /\ releasing'[Len(releasing) + 1] = b
  BY AppendProperties DEF Inv, Typed
<1>2. Numbers'
  BY BitmapAssumption DEF Inv, Typed, Standing, Drawing, Numbers
<1>3. Nothing'
  BY DEF Inv, Typed, Followed, Nothing
<1>4. \A r : HasOwner(r) => HasOwner(r)'
  BY <1>0 DEF HasOwner, Owns
<1>5. \A r \in created' : Reach(r)'
  <2>1. \A r \in created, u \in Thread : Moving(r, u) => Moving(r, u)'
    BY DEF Moving, Inv, Typed
  <2> QED BY <1>4, <2>1 DEF Followed, Reach, InPool
<1>6. Counted'
  <2>1. \A r \in Ref : \A k, x : Owns(r, k, x)' => Owns(r, k, x)
    BY <1>0, BitmapAssumption DEF Owns
  <2>2. InUse' \subseteq InUse
    BY <2>1 DEF InUse
  <2> QED BY <2>2, StillCounted DEF Numbers
<1> QED BY <1>1, <1>2, <1>3, <1>5, <1>6 DEF Followed

LEMMA DrainAll == ASSUME All, NEW t \in Thread, Drain(t) PROVE All'
<1>1. Inv'
  BY DrainInv DEF All
<1> USE DEF All, Drain, Goto, Set, refVars, poolVars, countVars, threadVars, picVars, drawVars
<1>2. Numbers'
  BY BitmapAssumption DEF Inv, Typed, Standing, Drawing, Numbers
<1>7. CASE releasing = <<>>
  <2>1. Followed' /\ Counted'
    BY <1>7, Unmoved DEF Inv, Typed
  <2> QED BY <1>1, <1>2, <2>1
<1>8. CASE releasing # <<>>
  <2>0. PICK n, h : n = Len(releasing) /\ h = releasing[1]
    OBVIOUS
  <2>1. /\ n \in Nat /\ n >= 1 /\ Len(releasing') = n - 1
        /\ \A i \in 1..(n - 1) : releasing'[i] = releasing[i + 1]
        /\ h = Head(releasing) /\ h \in Ref \cup Pic
    <3>1. releasing \in Seq(Ref \cup Pic) /\ releasing' = Tail(releasing) /\ n \in Nat /\ n # 0
      BY <1>8, <2>0 DEF Inv, Typed
    <3> QED BY <2>0, <3>1
  <2>2. todo[t] = {}
    BY DEF Followed, Nothing
  <2>3. Nothing'
    BY <1>8 DEF Inv, Typed, Followed, Nothing
  <2>4. \A r \in Ref : HasOwner(r) => HasOwner(r)'
    <3>1. h \in Ref => Owns(h, "freeing", t)'
      <4>1. h \in Ref => todo' = [todo EXCEPT ![t] = {h}]
        BY <1>8, <2>1
      <4> QED BY <4>1 DEF Owns, Inv, Typed
    <3>2. \A r, x : r # h /\ Owns(r, "queued", x) => Owns(r, "queued", x - 1)'
      <4> SUFFICES ASSUME NEW r, NEW x, r # h, Owns(r, "queued", x)
                   PROVE  Owns(r, "queued", x - 1)'
        OBVIOUS
      <4>1. x \in 1..n /\ releasing[x] = r /\ x # 1
        BY <2>0 DEF Owns
      <4>2. x - 1 \in 1..(n - 1) /\ (x - 1) + 1 = x
        BY <2>1, <4>1
      <4> QED BY <2>1, <4>1, <4>2 DEF Owns
    <3>3. \A r, k, x : k # "queued" /\ Owns(r, k, x) => Owns(r, k, x)'
      BY <1>8, <2>2, SMTT(30) DEF Owns, Inv, Typed
    <3> SUFFICES ASSUME NEW r \in Ref, NEW k, NEW x, Owns(r, k, x) PROVE HasOwner(r)'
      BY DEF HasOwner
    <3>4. CASE k # "queued"
      <4>1. Owns(r, k, x)'
        BY <3>3, <3>4
      <4> QED BY <4>1 DEF HasOwner
    <3>5. CASE k = "queued" /\ r = h
      <4>1. Owns(r, "freeing", t)'
        BY <3>1, <3>5
      <4> QED BY <4>1 DEF HasOwner
    <3>6. CASE k = "queued" /\ r # h
      <4>1. Owns(r, "queued", x - 1)'
        BY <3>2, <3>6
      <4> QED BY <4>1 DEF HasOwner
    <3> QED BY <3>4, <3>5, <3>6
  <2>5. \A r \in created' : Reach(r)'
    <3>1. \A r \in created, u \in Thread : Moving(r, u) => Moving(r, u)'
      BY DEF Moving, Inv, Typed
    <3>2. created \subseteq Ref
      BY DEF Inv, Typed
    <3> QED BY <2>4, <3>1, <3>2 DEF Followed, Reach, InPool
  <2>6. InUse' \subseteq InUse
    <3> SUFFICES ASSUME NEW r \in Ref, NEW k, NEW x, k # "taking", Owns(r, k, x)'
                 PROVE  r \in InUse
      BY DEF InUse
    <3>1. CASE k = "queued"
      <4>1. Owns(r, "queued", x + 1)
        BY <2>0, <2>1, <3>1 DEF Owns
      <4> QED BY <4>1 DEF InUse
    <3>2. CASE k = "freeing" /\ x = t
      <4>1. r = h
        BY <1>8, <2>1, <2>2, <3>2 DEF Owns, Inv, Typed
      <4>2. Owns(r, "queued", 1)
        BY <2>0, <2>1, <4>1 DEF Owns
      <4> QED BY <4>2 DEF InUse
    <3>3. CASE k # "queued" /\ ~(k = "freeing" /\ x = t)
      <4>1. Owns(r, k, x)
        BY <1>8, <3>3 DEF Owns, Inv, Typed
      <4> QED BY <4>1 DEF InUse
    <3> QED BY <3>1, <3>2, <3>3
  <2>7. Counted'
    BY <2>6, StillCounted DEF Numbers
  <2> QED BY <1>1, <1>2, <2>3, <2>5, <2>7 DEF Followed
<1> QED BY <1>7, <1>8

LEMMA ClearPicAll == ASSUME All, NEW t \in Thread, ClearPic(t) PROVE All'
<1>1. Inv'
  BY ClearPicInv DEF All
<1> USE DEF All, ClearPic, Goto, Set, refVars, poolVars, countVars, threadVars, picVars, drawVars
<1>2. Numbers'
  BY BitmapAssumption DEF Inv, Typed, Standing, Drawing, Numbers
<1>0. /\ cur[t] \in Pic /\ todo[t] = {}
      /\ todo' = [todo EXCEPT ![t] = parts[cur[t]]] /\ parts' = [parts EXCEPT ![cur[t]] = {}]
  BY DEF Inv, Standing, Followed, Nothing
<1>3. Nothing'
  BY <1>0 DEF Inv, Typed, Followed, Nothing
<1>4. \A r : HasOwner(r) => HasOwner(r)'
  <2>1. \A r : Owns(r, "picture", cur[t]) => Owns(r, "freeing", t)'
    BY <1>0 DEF Owns, Inv, Typed
  <2>2. \A r, k, x : Owns(r, k, x) /\ ~(k = "picture" /\ x = cur[t]) => Owns(r, k, x)'
    BY <1>0 DEF Owns, Inv, Typed
  <2> QED BY <2>1, <2>2 DEF HasOwner
<1>5. \A r \in created' : Reach(r)'
  <2>1. \A r \in created, u \in Thread : Moving(r, u) => Moving(r, u)'
    BY DEF Moving, Inv, Typed
  <2> QED BY <1>4, <2>1 DEF Followed, Reach, InPool
<1>6. Counted'
  <2>1. InUse' \subseteq InUse
    <3> SUFFICES ASSUME NEW r \in Ref, NEW k, NEW x, k # "taking", Owns(r, k, x)'
                 PROVE  r \in InUse
      BY DEF InUse
    <3>1. CASE k = "freeing" /\ x = t
      <4>1. Owns(r, "picture", cur[t])
        BY <1>0, <3>1 DEF Owns, Inv, Typed
      <4> QED BY <4>1 DEF InUse
    <3>2. CASE ~(k = "freeing" /\ x = t)
      <4>1. Owns(r, k, x)
        BY <1>0, <3>2 DEF Owns, Inv, Typed
      <4> QED BY <4>1 DEF InUse
    <3> QED BY <3>1, <3>2
  <2> QED BY <2>1, StillCounted DEF Numbers
<1> QED BY <1>1, <1>2, <1>3, <1>5, <1>6 DEF Followed

LEMMA FreeRefAll == ASSUME All, NEW t \in Thread, FreeRef(t) PROVE All'
<1>1. Inv'
  BY FreeRefInv DEF All
<1> USE DEF All, FreeRef, Goto, Set, refVars, poolVars, countVars, threadVars, picVars, drawVars
<1>7. CASE todo[t] = {}
  <2>1. Numbers'
    BY <1>7 DEF Numbers
  <2>2. Followed' /\ Counted'
    BY <1>7, Unmoved DEF Inv, Typed
  <2> QED BY <1>1, <2>1, <2>2
<1>8. CASE todo[t] # {}
  <2>1. PICK q \in todo[t] :
          /\ todo' = [todo EXCEPT ![t] = todo[t] \ {q}] /\ cur' = [cur EXCEPT ![t] = q]
          /\ flag' = [flag EXCEPT ![q] = FALSE] /\ pc' = [pc EXCEPT ![t] = "put"]
          /\ memoryUsed' \in {memoryUsed, memoryUsed - 1} /\ used' \subseteq used
    BY <1>8
  <2>2. q \in Ref
    BY DEF Inv, Typed
  <2>3. Numbers'
    BY <2>1 DEF Numbers
  <2>4. Nothing'
    BY <2>1 DEF Inv, Typed, Followed, Nothing
  <2>5. \A r \in created' : Reach(r)'
    <3>1. Moving(q, t)'
      BY <2>1 DEF Moving, Inv, Typed
    <3>2. \A r, k, x : r # q /\ Owns(r, k, x) => Owns(r, k, x)'
      BY <2>1 DEF Owns, Inv, Typed
    <3>3. \A r \in created, u \in Thread : Moving(r, u) => Moving(r, u)'
      BY <2>1 DEF Moving, Inv, Typed
    <3> QED BY <3>1, <3>2, <3>3 DEF Followed, Reach, HasOwner, InPool
  <2>6. q \in InUse
    BY <2>2 DEF InUse, Owns
  <2>7. InUse' \subseteq InUse \ {q}
    <3>1. \A r, k, x : Owns(r, k, x)' => Owns(r, k, x)
      BY <2>1 DEF Owns, Inv, Typed
    <3>2. \A k, x : ~Owns(q, k, x)'
      <4>1. ~flag'[q]
        BY <2>1, <2>2 DEF Inv, Typed
      <4> QED BY <1>1, <2>2, <4>1 DEF Inv, Owned
    <3> QED BY <3>1, <3>2 DEF InUse
  <2>8. Counted'
    BY <2>1, <2>6, <2>7, OneLessCounted DEF Numbers
  <2> QED BY <1>1, <2>3, <2>4, <2>5, <2>8 DEF Followed
<1> QED BY <1>7, <1>8

LEMMA PutRefAll == ASSUME All, NEW t \in Thread, PutRef(t) PROVE All'
<1>1. Inv'
  BY PutRefInv DEF All
<1> USE DEF All, PutRef, Goto, Set, refVars, poolVars, countVars, threadVars, picVars, drawVars
<1>2. Numbers'
  BY BitmapAssumption DEF Inv, Typed, Standing, Drawing, Numbers
<1>3. Nothing'
  BY DEF Inv, Typed, Followed, Nothing
<1>4. \A r, k, x : Owns(r, k, x) => Owns(r, k, x)'
  BY DEF Owns, Inv, Typed
<1>5. \A r \in created' : Reach(r)'
  <2> DEFINE e == [ref |-> cur[t], no |-> lastNo + 1]
  <2>1. /\ Len(pool) \in Nat /\ Len(pool') = Len(pool) + 1 /\ pool' \in Seq(Entry)
        /\ \A j \in 1..Len(pool) : pool'[j] = pool[j]
        /\ pool'[Len(pool) + 1] = e
    <3>1. e \in Entry
      BY DEF Entry, Inv, Typed, Standing
    <3>2. pool \in Seq(Entry) /\ pool' = Append(pool, e)
      BY DEF Inv, Typed
    <3> QED BY <3>1, <3>2, AppendProperties
  <2>2. e \in ToSet(pool)' /\ e.ref = cur[t]
    BY <2>1 DEF ToSet
  <2>3. \A f \in ToSet(pool) : f \in ToSet(pool)'
    <3>1. \A f \in ToSet(pool) : \E j \in 1..Len(pool) : f = pool[j]
      BY DEF ToSet, Inv, Typed
    <3>2. \A j \in 1..Len(pool') : pool'[j] \in ToSet(pool')
      BY <2>1 DEF ToSet
    <3>3. \A j \in 1..Len(pool) : j \in 1..Len(pool')
      BY <2>1
    <3> QED BY <2>1, <3>1, <3>2, <3>3
  <2>4. \A r \in created, u \in Thread : Moving(r, u) => Moving(r, u)' \/ (u = t /\ r = cur[t])
    BY DEF Moving, Inv, Typed
  <2> QED BY <1>4, <2>2, <2>3, <2>4 DEF Followed, Reach, HasOwner, InPool
<1>6. Counted'
  <2>1. InUse' \subseteq InUse
    BY DEF InUse, Owns, Inv, Typed
  <2> QED BY <2>1, StillCounted DEF Numbers
<1> QED BY <1>1, <1>2, <1>3, <1>5, <1>6 DEF Followed

(***************************************************************************)
(* The theorems.                                                           *)
(***************************************************************************)
LEMMA StutterAll == ASSUME All, UNCHANGED vars PROVE All'
<1>1. Inv'
  BY StutterInv DEF All
<1> USE DEF All, vars, refVars, poolVars, countVars, threadVars, picVars, drawVars
<1>2. Numbers'
  BY DEF Numbers
<1>3. Followed' /\ Counted'
  BY Unmoved
<1> QED BY <1>1, <1>2, <1>3

LEMMA StepAll == All /\ [Next]_vars => All'
<1> SUFFICES ASSUME All, [Next]_vars PROVE All'
  OBVIOUS
<1>1. ASSUME NEW t \in Thread, GetStep(t) PROVE All'
  BY <1>1, GetBitmapAll, NextFreeAll, TryRefAll, ReuseAll, CreateAll DEF GetStep
<1>2. ASSUME NEW t \in Thread, CleanStep(t) PROVE All'
  BY <1>2, ReleaseAll, ClearAll, NextOldAll, TestOldAll, DrainAll, ClearPicAll, FreeRefAll,
     PutRefAll, EvictAllAll DEF CleanStep
<1>3. ASSUME NEW t \in Thread, Shrink(t) \/ Shrunk(t) PROVE All'
  BY <1>3, ShrinkAll, ShrunkAll
<1>4. ASSUME NEW t \in Thread, NEW b \in Pic, NEW some \in SUBSET Ref, MakePic(t, b, some)
      PROVE  All'
  BY <1>4, MakePicAll
<1>5. ASSUME NEW t \in Thread, NEW r \in Ref, ReleaseRef(t, r) PROVE All'
  BY <1>5, ReleaseRefAll
<1>6. ASSUME NEW b \in Pic, ReleasePic(b) \/ PickPic(b) PROVE All'
  BY <1>6, ReleasePicAll, PickPicAll
<1>7. CASE BeginDraw \/ EndDraw
  BY <1>7, BeginDrawAll, EndDrawAll
<1>8. CASE Quiet \/ UNCHANGED vars
  BY <1>8, StutterAll DEF Quiet
<1> QED BY <1>1, <1>2, <1>3, <1>4, <1>5, <1>6, <1>7, <1>8 DEF Next, Thread

LEMMA OwnsIsOwner ==
    ASSUME NEW r, NEW k, NEW x, Owns(r, k, x) PROVE <<k, x>> \in Owners(r)
BY DEF Owners, Owns

\* A bitmap that nobody owns is in the pool or on its way into it or out of it: no
\* order of getBitmap, removeOldRefs, releaseImpl and shrinkPool on several threads
\* loses one, for any number of them.
THEOREM ReclaimableAlways == Spec => []Reclaimable
<1>1. All => Reclaimable
  BY OwnsIsOwner DEF All, Followed, Reach, HasOwner, InPool, Moving, Reclaimable
<1> QED BY <1>1, InitAll, StepAll, PTL DEF Spec

\* memoryUsed never falls short of the bitmaps in use, although releaseImpl counts
\* down only what it finds in the LruCache that print() empties.
THEOREM UsedCountedAlways == Spec => []UsedCounted
<1>1. All => UsedCounted
  <2> SUFFICES ASSUME All PROVE UsedCounted
    OBVIOUS
  <2> DEFINE S == {r \in Ref : \E o \in Owners(r) : o[1] # "taking"}
  <2>1. S \subseteq InUse
    <3> SUFFICES ASSUME NEW r \in Ref, NEW o \in Owners(r), o[1] # "taking" PROVE r \in InUse
      OBVIOUS
    <3>1. PICK k, x : o = <<k, x>> /\ Owns(r, k, x)
      BY OwnersAre
    <3> QED BY <3>1 DEF InUse
  <2>2. Cardinality(S) <= Cardinality(InUse) /\ IsFiniteSet(S) /\ IsFiniteSet(InUse)
    BY <2>1, FS_Subset DEF All, Counted
  <2>3. Cardinality(S) \in Nat /\ Cardinality(InUse) \in Nat
    BY <2>2, FS_CardinalityType
  <2> QED BY <2>2, <2>3 DEF All, Counted, Numbers, UsedCounted
<1> QED BY <1>1, InitAll, StepAll, PTL DEF Spec

\* The fields of the manager and the locals of its threads have their types; that
\* memoryUsed never becomes negative follows from the count of what is in use.
THEOREM TypeCorrect == Spec => []TypeOK
<1>1. All => TypeOK
  <2> SUFFICES ASSUME All PROVE TypeOK
    OBVIOUS
  <2>1. memoryUsed \in Nat
    <3>1. Cardinality(InUse) \in Nat
      BY FS_CardinalityType DEF All, Counted
    <3> QED BY <3>1 DEF All, Counted, Numbers
  <2> QED BY <2>1 DEF All, Inv, Typed, Numbers, TypeOK
<1> QED BY <1>1, InitAll, StepAll, PTL DEF Spec
=============================================================================
