--------------------------- MODULE BitmapManager ---------------------------
(***************************************************************************)
(* The pool of bitmaps the renderings are drawn into: BitmapManager with   *)
(* its BitmapRefs, and the Bitmaps objects that hold the parts of a node's *)
(* picture.  Nothing here is locked but a Bitmaps object: the executor,    *)
(* the image loader and the UI thread work on concurrent queues, atomic    *)
(* counters and the `used' flag of each reference.                         *)
(*                                                                         *)
(* Every bitmap has size 1.  An entry of the pool has a number of its own, *)
(* since a reference can leave the queue and come back to it while another *)
(* thread's iterator still stands on the old entry.                        *)
(***************************************************************************)
EXTENDS Integers, Sequences, FiniteSets, SequencesExt

CONSTANTS
    Ref,        \* bitmap references
    Pic,        \* Bitmaps objects
    Renderer,   \* threads that ask for bitmaps: the executor, the image loader
    Cleaner,    \* threads that release bitmaps: the executor, the UI thread
    None,
    Limit,      \* BITMAP_MEMORY_LIMIT, in bitmaps
    Threshold,  \* GENERATION_THRESHOLD
    MaxGen,     \* bound: no release() is begun from this generation on
    MaxPut      \* bound: no getBitmap() is begun after this many returns to the pool

Thread == Renderer \cup Cleaner

ASSUME BitmapAssumption ==
    /\ Limit \in Nat /\ Threshold \in Nat /\ MaxGen \in Nat /\ MaxPut \in Nat
    /\ None \notin Ref \cup Pic /\ Ref \cap Pic = {}

Entry == [ref: Ref, no: Nat]

VARIABLES
    created,        \* references made so far
    bitmap,         \* BitmapRef.bitmap is not null
    flag,           \* BitmapRef.used
    gen,            \* BitmapRef.gen
    pool, lastNo,   \* the queue of free references; number of its newest entry
    releasing,      \* the queue of references and pictures to release
    used,           \* keys of the LruCache of references in use
    generation, memoryUsed, memoryPooled,
    pc, cur, pos, now, todo, clearing, limit,   \* locals of the threads
    local,          \* references a rendering thread works on
    shown, made,    \* pictures in the holder of a node; pictures ever made
    parts,          \* Bitmaps.bitmaps ({}: null)
    drawPc, pic, drawn  \* the drawing thread: picture taken from a holder, parts being drawn

refVars == <<created, bitmap, flag, gen>>
poolVars == <<pool, lastNo>>
countVars == <<generation, memoryUsed, memoryPooled>>
threadVars == <<cur, pos, now, todo, clearing, limit>>
picVars == <<shown, made, parts>>
drawVars == <<drawPc, pic, drawn>>
vars == <<refVars, poolVars, releasing, used, countVars, pc, threadVars, local, picVars, drawVars>>

Init ==
    /\ created = {} /\ bitmap = [r \in Ref |-> FALSE]
    /\ flag = [r \in Ref |-> FALSE] /\ gen = [r \in Ref |-> 0]
    /\ pool = <<>> /\ lastNo = 0 /\ releasing = <<>> /\ used = {}
    /\ generation = 0 /\ memoryUsed = 0 /\ memoryPooled = 0
    /\ pc = [t \in Thread |-> "idle"] /\ cur = [t \in Thread |-> None]
    /\ pos = [t \in Thread |-> 0] /\ now = [t \in Thread |-> 0]
    /\ todo = [t \in Thread |-> {}] /\ clearing = [t \in Thread |-> FALSE]
    /\ limit = [t \in Thread |-> Limit]
    /\ local = [t \in Thread |-> {}]
    /\ shown = {} /\ made = {} /\ parts = [b \in Pic |-> {}]
    /\ drawPc = "idle" /\ pic = None /\ drawn = {}

Goto(t, label) == pc' = [pc EXCEPT ![t] = label]
Set(f, t, v) == [f EXCEPT ![t] = v]

\* The iterators of ConcurrentLinkedQueue: what comes after the entry last returned,
\* in the order of the queue; remove() of an entry that is gone does nothing.
Ahead(t) == {e \in ToSet(pool) : e.no > pos[t]}
Removed(e) ==
    IF e \in ToSet(pool) THEN RemoveAt(pool, CHOOSE i \in DOMAIN pool : pool[i] = e) ELSE pool

----------------------------------------------------------------------------
(***************************************************************************)
(* getBitmap                                                               *)
(***************************************************************************)
Getting == {t \in Thread : pc[t] \in {"get", "try", "create"}}

GetBitmap(t) ==
    /\ pc[t] = "idle"
    /\ lastNo < MaxPut
    /\ Cardinality(Getting) < Cardinality(Ref \ created)
    /\ Goto(t, "get") /\ pos' = Set(pos, t, 0)
    /\ UNCHANGED <<refVars, poolVars, releasing, used, countVars, cur, now, todo, clearing, limit,
                   local, picVars, drawVars>>

\* The next entry with a bitmap of the size and configuration asked for, if any.
NextFree(t) ==
    /\ pc[t] = "get"
    /\ \/ \E e \in Ahead(t) : bitmap[e.ref] /\ cur' = Set(cur, t, e) /\ Goto(t, "try")
       \/ Goto(t, "create") /\ UNCHANGED cur
    /\ UNCHANGED <<refVars, poolVars, releasing, used, countVars, pos, now, todo, clearing, limit,
                   local, picVars, drawVars>>

\* MUTANT of TryRef: the flag is set after a test instead of by compareAndSet.
TryRefUnguarded(t) ==
    /\ pc[t] = "try"
    /\ flag' = Set(flag, cur[t].ref, TRUE) /\ Goto(t, "reuse") /\ UNCHANGED pos
    /\ UNCHANGED <<created, bitmap, gen, poolVars, releasing, used, countVars, cur, now, todo,
                   clearing, limit, local, picVars, drawVars>>

\* ref.used.compareAndSet(false, true)
TryRef(t) ==
    /\ pc[t] = "try"
    /\ IF flag[cur[t].ref]
       THEN pos' = Set(pos, t, cur[t].no) /\ Goto(t, "get") /\ UNCHANGED flag
       ELSE flag' = Set(flag, cur[t].ref, TRUE) /\ Goto(t, "reuse") /\ UNCHANGED pos
    /\ UNCHANGED <<created, bitmap, gen, poolVars, releasing, used, countVars, cur, now, todo,
                   clearing, limit, local, picVars, drawVars>>

\* MUTANT of Reuse: the reused bitmap is not counted as used.
ReuseUncounted(t) ==
    /\ pc[t] = "reuse"
    /\ pool' = Removed(cur[t])
    /\ gen' = Set(gen, cur[t].ref, generation)
    /\ used' = used \cup {cur[t].ref}
    /\ memoryPooled' = memoryPooled - 1
    /\ local' = Set(local, t, local[t] \cup {cur[t].ref})
    /\ cur' = Set(cur, t, None) /\ Goto(t, "idle")
    /\ UNCHANGED <<memoryUsed, created, bitmap, flag, lastNo, releasing, generation, pos, now, todo,
                   clearing, limit, picVars, drawVars>>

\* MUTANT of Reuse: the queue is polled instead of the entry removed.
ReusePolls(t) ==
    /\ pc[t] = "reuse"
    /\ pool' = IF pool = <<>> THEN pool ELSE Tail(pool)
    /\ gen' = Set(gen, cur[t].ref, generation)
    /\ used' = used \cup {cur[t].ref}
    /\ memoryPooled' = memoryPooled - 1 /\ memoryUsed' = memoryUsed + 1
    /\ local' = Set(local, t, local[t] \cup {cur[t].ref})
    /\ cur' = Set(cur, t, None) /\ Goto(t, "idle")
    /\ UNCHANGED <<created, bitmap, flag, lastNo, releasing, generation, pos, now, todo,
                   clearing, limit, picVars, drawVars>>

\* The entry leaves the pool, the reference counts as used from now on.
Reuse(t) ==
    /\ pc[t] = "reuse"
    /\ pool' = Removed(cur[t])
    /\ gen' = Set(gen, cur[t].ref, generation)
    /\ used' = used \cup {cur[t].ref}
    /\ memoryPooled' = memoryPooled - 1 /\ memoryUsed' = memoryUsed + 1
    /\ local' = Set(local, t, local[t] \cup {cur[t].ref})
    /\ cur' = Set(cur, t, None) /\ Goto(t, "idle")
    /\ UNCHANGED <<created, bitmap, flag, lastNo, releasing, generation, pos, now, todo,
                   clearing, limit, picVars, drawVars>>

Create(t) ==
    /\ pc[t] = "create"
    /\ \E r \in Ref \ created :
          /\ created' = created \cup {r}
          /\ bitmap' = Set(bitmap, r, TRUE)
          /\ flag' = Set(flag, r, TRUE)
          /\ gen' = Set(gen, r, generation)
          /\ used' = used \cup {r}
          /\ local' = Set(local, t, local[t] \cup {r})
    /\ memoryUsed' = memoryUsed + 1
    /\ limit' = Set(limit, t, Limit) /\ Goto(t, "getShrink")
    /\ UNCHANGED <<poolVars, releasing, generation, memoryPooled, cur, pos, now, todo, clearing,
                   picVars, drawVars>>

----------------------------------------------------------------------------
(***************************************************************************)
(* The life of a picture.                                                  *)
(***************************************************************************)
\* new Bitmaps(...) and its way into the holder of a node.
MakePic(t, b, some) ==
    /\ pc[t] = "idle"
    /\ b \notin made
    /\ some # {} /\ some \subseteq local[t]
    /\ parts' = Set(parts, b, some)
    /\ local' = Set(local, t, local[t] \ some)
    /\ made' = made \cup {b} /\ shown' = shown \cup {b}
    /\ UNCHANGED <<refVars, poolVars, releasing, used, countVars, pc, threadVars, drawVars>>

\* release(BitmapRef): the bitmap of the page, once its parts have been copied.
ReleaseRef(t, r) ==
    /\ pc[t] = "idle"
    /\ r \in local[t]
    /\ local' = Set(local, t, local[t] \ {r})
    /\ releasing' = Append(releasing, r)
    /\ UNCHANGED <<refVars, poolVars, used, countVars, pc, threadVars, picVars, drawVars>>

\* release(List<Bitmaps>): getAndSet takes the picture from its holder first, when
\* the node is recycled (by the UI thread or a finalizer) or shows another picture.
ReleasePic(b) ==
    /\ b \in shown
    /\ shown' = shown \ {b}
    /\ releasing' = Append(releasing, b)
    /\ UNCHANGED <<refVars, poolVars, used, countVars, pc, threadVars, local, made, parts, drawVars>>

\* drawBitmap takes the picture from the holder; draw() locks it for reading and
\* returns at once when it has been cleared in the meantime.
PickPic(b) ==
    /\ drawPc = "idle" /\ b \in shown
    /\ pic' = b /\ drawPc' = "picked"
    /\ UNCHANGED <<refVars, poolVars, releasing, used, countVars, pc, threadVars, local, picVars, drawn>>

BeginDraw ==
    /\ drawPc = "picked"
    /\ drawn' = parts[pic]
    /\ IF parts[pic] = {} THEN drawPc' = "idle" /\ pic' = None
                          ELSE drawPc' = "drawing" /\ UNCHANGED pic
    /\ UNCHANGED <<refVars, poolVars, releasing, used, countVars, pc, threadVars, local, picVars>>

EndDraw ==
    /\ drawPc = "drawing"
    /\ drawPc' = "idle" /\ pic' = None /\ drawn' = {}
    /\ UNCHANGED <<refVars, poolVars, releasing, used, countVars, pc, threadVars, local, picVars>>

----------------------------------------------------------------------------
(***************************************************************************)
(* release() and clear()                                                   *)
(***************************************************************************)
\* release(): the generation moves on; removeOldRefs reads it.
Release(t) ==
    /\ pc[t] = "idle"
    /\ generation < MaxGen
    /\ generation' = generation + 1
    /\ now' = Set(now, t, generation') /\ pos' = Set(pos, t, 0)
    /\ clearing' = Set(clearing, t, FALSE) /\ Goto(t, "old")
    /\ UNCHANGED <<refVars, poolVars, releasing, used, memoryUsed, memoryPooled, cur, todo, limit,
                   local, picVars, drawVars>>

\* clear(): every free bitmap becomes old; removeOldRefs, then release().
Clear(t) ==
    /\ pc[t] = "idle"
    /\ generation < MaxGen
    /\ generation' = generation + 2 * Threshold
    /\ now' = Set(now, t, generation') /\ pos' = Set(pos, t, 0)
    /\ clearing' = Set(clearing, t, TRUE) /\ Goto(t, "clearOld")
    /\ UNCHANGED <<refVars, poolVars, releasing, used, memoryUsed, memoryPooled, cur, todo, limit,
                   local, picVars, drawVars>>

\* The iteration of removeOldRefs; clear() goes on with release().
NextOld(t) ==
    /\ pc[t] \in {"old", "clearOld"}
    /\ \/ \E e \in Ahead(t) :
             /\ \A f \in Ahead(t) : e.no <= f.no
             /\ cur' = Set(cur, t, e)
             /\ Goto(t, IF pc[t] = "old" THEN "test" ELSE "clearTest")
             /\ UNCHANGED <<generation, now, pos>>
       \/ /\ Ahead(t) = {} /\ pc[t] = "clearOld"
          /\ generation' = generation + 1
          /\ now' = Set(now, t, generation') /\ pos' = Set(pos, t, 0)
          /\ Goto(t, "old")
          /\ UNCHANGED cur
       \/ /\ Ahead(t) = {} /\ pc[t] = "old"
          /\ Goto(t, "drain")
          /\ UNCHANGED <<generation, now, pos, cur>>
    /\ UNCHANGED <<refVars, poolVars, releasing, used, memoryUsed, memoryPooled, todo, clearing,
                   limit, local, picVars, drawVars>>

\* An old reference leaves the pool and loses its bitmap.
TestOld(t) ==
    /\ pc[t] \in {"test", "clearTest"}
    /\ IF now[t] - gen[cur[t].ref] > Threshold
       THEN /\ pool' = Removed(cur[t])
            /\ bitmap' = Set(bitmap, cur[t].ref, FALSE)
            /\ memoryPooled' = memoryPooled - 1
       ELSE UNCHANGED <<pool, bitmap, memoryPooled>>
    /\ pos' = Set(pos, t, cur[t].no) /\ cur' = Set(cur, t, None)
    /\ Goto(t, IF pc[t] = "test" THEN "old" ELSE "clearOld")
    /\ UNCHANGED <<created, flag, gen, lastNo, releasing, used, generation, memoryUsed, now, todo,
                   clearing, limit, local, picVars, drawVars>>

\* releasing.poll()
Drain(t) ==
    /\ pc[t] = "drain"
    /\ IF releasing = <<>>
       THEN /\ Goto(t, "shrink") /\ limit' = Set(limit, t, Limit)
            /\ UNCHANGED <<releasing, todo, cur>>
       ELSE /\ releasing' = Tail(releasing)
            /\ IF Head(releasing) \in Ref
               THEN Goto(t, "free") /\ todo' = Set(todo, t, {Head(releasing)}) /\ UNCHANGED cur
               ELSE Goto(t, "clearPic") /\ cur' = Set(cur, t, Head(releasing)) /\ UNCHANGED todo
            /\ UNCHANGED limit
    /\ UNCHANGED <<refVars, poolVars, used, countVars, pos, now, clearing, local, picVars, drawVars>>

\* MUTANT of ClearPic: Bitmaps.clear() does not take the write lock.
ClearPicUnlocked(t) ==
    /\ pc[t] = "clearPic"
    /\ todo' = Set(todo, t, parts[cur[t]])
    /\ parts' = Set(parts, cur[t], {})
    /\ cur' = Set(cur, t, None) /\ Goto(t, "free")
    /\ UNCHANGED <<refVars, poolVars, releasing, used, countVars, pos, now, clearing, limit, local,
                   shown, made, drawVars>>

\* Bitmaps.clear(): the write lock waits for the drawing of the picture to end.
ClearPic(t) ==
    /\ pc[t] = "clearPic"
    /\ ~(drawPc = "drawing" /\ pic = cur[t])
    /\ todo' = Set(todo, t, parts[cur[t]])
    /\ parts' = Set(parts, cur[t], {})
    /\ cur' = Set(cur, t, None) /\ Goto(t, "free")
    /\ UNCHANGED <<refVars, poolVars, releasing, used, countVars, pos, now, clearing, limit, local,
                   shown, made, drawVars>>

\* releaseImpl: the flag and the count of what is in use ...
FreeRef(t) ==
    /\ pc[t] = "free"
    /\ IF todo[t] = {}
       THEN Goto(t, "drain") /\ UNCHANGED <<todo, cur, flag, used, memoryUsed>>
       ELSE \E r \in todo[t] :
              /\ todo' = Set(todo, t, todo[t] \ {r})
              /\ cur' = Set(cur, t, r)
              /\ flag' = Set(flag, r, FALSE)
              /\ IF flag[r] /\ r \in used
                 THEN used' = used \ {r} /\ memoryUsed' = memoryUsed - 1
                 ELSE UNCHANGED <<used, memoryUsed>>
              /\ Goto(t, "put")
    /\ UNCHANGED <<created, bitmap, gen, poolVars, releasing, generation, memoryPooled, pos, now,
                   clearing, limit, local, picVars, drawVars>>

\* ... and the return to the pool, whether or not the flag was set.
PutRef(t) ==
    /\ pc[t] = "put"
    /\ pool' = Append(pool, [ref |-> cur[t], no |-> lastNo + 1])
    /\ lastNo' = lastNo + 1
    /\ memoryPooled' = memoryPooled + 1
    /\ cur' = Set(cur, t, None) /\ Goto(t, "free")
    /\ UNCHANGED <<refVars, releasing, used, generation, memoryUsed, pos, now, todo, clearing,
                   limit, local, picVars, drawVars>>

\* shrinkPool: the oldest entries go while the memory is above the limit.
Shrink(t) ==
    /\ pc[t] \in {"shrink", "getShrink"}
    /\ IF memoryPooled + memoryUsed > limit[t] /\ pool # <<>>
       THEN /\ cur' = Set(cur, t, Head(pool))
            /\ pool' = Tail(pool)
            /\ Goto(t, IF pc[t] = "shrink" THEN "shrunk" ELSE "getShrunk")
       ELSE /\ Goto(t, IF pc[t] = "shrink" THEN "evict" ELSE "idle")
            /\ UNCHANGED <<cur, pool>>
    /\ UNCHANGED <<refVars, lastNo, releasing, used, countVars, pos, now, todo, clearing, limit,
                   local, picVars, drawVars>>

\* MUTANT of Shrunk: the size is taken off the wrong counter.
ShrunkUsed(t) ==
    /\ pc[t] \in {"shrunk", "getShrunk"}
    /\ bitmap' = Set(bitmap, cur[t].ref, FALSE)
    /\ memoryUsed' = memoryUsed - 1
    /\ cur' = Set(cur, t, None)
    /\ Goto(t, IF pc[t] = "shrunk" THEN "shrink" ELSE "getShrink")
    /\ UNCHANGED <<created, flag, gen, poolVars, releasing, used, generation, memoryPooled, pos, now,
                   todo, clearing, limit, local, picVars, drawVars>>

Shrunk(t) ==
    /\ pc[t] \in {"shrunk", "getShrunk"}
    /\ bitmap' = Set(bitmap, cur[t].ref, FALSE)
    /\ memoryPooled' = memoryPooled - 1
    /\ cur' = Set(cur, t, None)
    /\ Goto(t, IF pc[t] = "shrunk" THEN "shrink" ELSE "getShrink")
    /\ UNCHANGED <<created, flag, gen, poolVars, releasing, used, generation, memoryUsed, pos, now,
                   todo, clearing, limit, local, picVars, drawVars>>

\* print(): used.evictAll(); clear() then empties the pool and prints again.
EvictAll(t) ==
    /\ pc[t] = "evict"
    /\ used' = {}
    /\ IF clearing[t]
       THEN Goto(t, "shrink") /\ limit' = Set(limit, t, 0) /\ clearing' = Set(clearing, t, FALSE)
       ELSE Goto(t, "idle") /\ UNCHANGED <<limit, clearing>>
    /\ UNCHANGED <<refVars, poolVars, releasing, countVars, cur, pos, now, todo, local, picVars,
                   drawVars>>

----------------------------------------------------------------------------
GetStep(t) == GetBitmap(t) \/ NextFree(t) \/ TryRef(t) \/ Reuse(t) \/ Create(t)

CleanStep(t) ==
    \/ Release(t) \/ Clear(t) \/ NextOld(t) \/ TestOld(t) \/ Drain(t) \/ ClearPic(t)
    \/ FreeRef(t) \/ PutRef(t) \/ EvictAll(t)

\* Nobody has to call, and the bounds may be used up.
Quiet == (\A t \in Thread : pc[t] = "idle") /\ drawPc = "idle" /\ UNCHANGED vars

Next ==
    \/ \E t \in Renderer : GetStep(t)
    \/ \E t \in Cleaner : CleanStep(t)
    \/ \E t \in Thread : Shrink(t) \/ Shrunk(t)
    \/ \E t \in Renderer \cap Cleaner :
          \/ \E b \in Pic, some \in SUBSET Ref : MakePic(t, b, some)
          \/ \E r \in Ref : ReleaseRef(t, r)
    \/ \E b \in Pic : ReleasePic(b) \/ PickPic(b)
    \/ BeginDraw \/ EndDraw
    \/ Quiet

Spec == Init /\ [][Next]_vars

----------------------------------------------------------------------------
(***************************************************************************)
(* Properties.                                                             *)
(***************************************************************************)
\* Type invariant of the manager's fields and of the locals of its threads.
TypeOK ==
    /\ created \subseteq Ref /\ used \subseteq created
    /\ bitmap \in [Ref -> BOOLEAN] /\ flag \in [Ref -> BOOLEAN] /\ gen \in [Ref -> Nat]
    /\ pool \in Seq(Entry) /\ lastNo \in Nat /\ releasing \in Seq(Ref \cup Pic)
    /\ generation \in Nat /\ memoryUsed \in Nat /\ memoryPooled \in Int
    /\ cur \in [Thread -> Entry \cup Ref \cup Pic \cup {None}]
    /\ todo \in [Thread -> SUBSET Ref] /\ local \in [Thread -> SUBSET Ref]
    /\ clearing \in [Thread -> BOOLEAN] /\ limit \in [Thread -> {0, Limit}]
    /\ shown \subseteq made /\ made \subseteq Pic /\ parts \in [Pic -> SUBSET Ref]
    /\ pic \in Pic \cup {None} /\ drawn \subseteq Ref

\* Who may draw into, draw or give back reference r.
Owners(r) ==
    {<<"thread", t>> : t \in {u \in Thread : r \in local[u]}}
    \cup {<<"taking", t>> : t \in {u \in Thread : pc[u] = "reuse" /\ cur[u].ref = r}}
    \cup {<<"freeing", t>> : t \in {u \in Thread : r \in todo[u]}}
    \cup {<<"picture", b>> : b \in {c \in Pic : r \in parts[c]}}
    \cup {<<"queued", i>> : i \in {j \in 1..Len(releasing) : releasing[j] = r}}

\* A bitmap belongs to one rendering or one picture at a time: no page is ever
\* painted over another, although iterators of getBitmap may stand on entries that
\* are long gone and releaseImpl returns references to the pool unconditionally.
OneOwner == \A r \in Ref : Cardinality(Owners(r)) <= 1

\* A picture that is being drawn keeps its bitmaps to the end of the drawing, also
\* when its node is recycled and another thread drains the queue (the lock of
\* Bitmaps.draw and Bitmaps.clear).
DrawnKept == \A r \in drawn : Owners(r) = {<<"picture", pic>>}

\* A bitmap that nobody owns any more is in the pool, or on its way into it or out
\* of it: whatever the race, its memory can be reused or reclaimed.
Reclaimable ==
    \A r \in created :
        \/ ~bitmap[r] \/ Owners(r) # {}
        \/ \E e \in ToSet(pool) : e.ref = r
        \/ \E t \in Thread :
              \/ pc[t] = "put" /\ cur[t] = r
              \/ pc[t] \in {"shrunk", "getShrunk"} /\ cur[t].ref = r

\* memoryUsed never falls short of the bitmaps in use, so that shrinkPool, which
\* compares it with the limit, cannot let the pool grow on top of them.  (It may
\* exceed them: print() empties the LruCache that releaseImpl consults.)
UsedCounted ==
    memoryUsed >= Cardinality({r \in Ref : \E o \in Owners(r) : o[1] # "taking"})
=============================================================================
