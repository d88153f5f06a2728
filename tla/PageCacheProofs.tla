-------------------------- MODULE PageCacheProofs --------------------------
(***************************************************************************)
(* Proofs, for any number of pages and holders and any size of the cache,  *)
(* of every safety property the runs check: the types; a page the executor *)
(* works on stays locked and is freed by nobody but the closing of the     *)
(* book, although performDecode unlocks holders that it never locked; the  *)
(* cache outgrows its sizes only behind a page an edit has locked; where   *)
(* native pages not freed are; what native calls find; which deletions may *)
(* miss; which closings may fail.                                          *)
(*                                                                         *)
(* One inductive invariant stands behind them all.  It comes first, then   *)
(* what the changes of the map do to the cells in it, then one lemma for   *)
(* each action, and last the theorems.                                     *)
(***************************************************************************)
EXTENDS PageCache, ListsProofs

Entry == [key : Page \cup {None}, cell : Cell \cup {None}]

\* Where the executor works on an open page; where a decoding has its page and has
\* not unlocked it yet; where it holds on to what the map had for it; and
\* everywhere it has a task
Working == {"check", "render", "rendering", "check2", "read", "edit", "answer"}
Decoding == {"check", "render", "rendering", "check2", "read", "unlock", "oomput", "putwait", "oomfree"}
Holding == {"evict", "evictwait", "evicting", "get", "check", "render", "rendering"}
Busy == Decoding \cup {"lookup", "evict", "evictwait", "evicting", "get", "edit", "delete", "clear", "answer"}

---------------------------------------------------------------------------
\* The inductive invariant.

\* TypeOK, by the kind of its variables
TypedCells ==
    /\ page \in [Cell -> {"none", "live", "lost", "orphan"}] /\ locks \in [Cell -> Int]
    /\ shown \in [Page -> Cell \cup {None}]
    /\ dropped \subseteq Cell /\ late \subseteq Cell /\ edited \subseteq Cell
TypedExec ==
    /\ xpc \in Busy \cup {"idle", "end", "died", "crashed"}
    /\ task \in Task \cup {Idle} /\ cur \in Cell \cup {None} /\ victim \in Cell \cup {None}
TypedSeqs ==
    /\ order \in Seq(Entry)
    /\ asked \in Seq(Request)
    /\ visit \in Seq(Cell \cup {None})
TypedFlags ==
    /\ cpc \in {"idle", "visit", "free", "document", "field", "stop", "end", "failed", "aborted"}
    /\ straggler \in {"none", "clobbered", "taken"}
    /\ document \in {"open", "freed", "null"}
    /\ answering \in BOOLEAN /\ cancelled \in BOOLEAN /\ unpinned \in BOOLEAN
    /\ isRecycled \in BOOLEAN /\ stale \in BOOLEAN /\ run \in BOOLEAN /\ quiet \in BOOLEAN
    /\ missed \in BOOLEAN /\ pushed \in BOOLEAN
TypedBounds ==
    /\ visible \in 1..MaxVisible /\ widest \in Nat \ {0}
    /\ InMemory > 0 => InMemory <= widest /\ visible <= widest
    /\ puts \in 0..(InMemory + 1) /\ tries \in 0..MaxAsked /\ trouble \in 0..MaxTrouble
    /\ wild \subseteq {"open", "render", "read", "edit", "delete"}

\* What each place of the executor says of its task, and each place of the closer
\* of the document
PlacesX ==
    /\ xpc \in Busy => task \in Task
    /\ xpc \in Decoding => task.kind = "decode"
    /\ xpc = "delete" => task.kind = "delete"
    /\ xpc = "evicting" => victim \in Cell
    /\ xpc \in {"idle", "lookup"} => cur = None
    /\ None \in Cells => xpc \in {"oomput", "putwait"}
PlacesC ==
    /\ cpc # "idle" <=> isRecycled
    /\ ~isRecycled => late = {}
    /\ cpc \in {"document", "field", "stop", "end"} => visit = <<>>
    /\ document # "open" => cpc \in {"field", "stop", "end"}
    /\ cpc = "free" => visit # <<>>
    /\ ~run => cpc = "end"

Types == TypedCells /\ TypedExec /\ TypedSeqs /\ TypedFlags /\ TypedBounds /\ PlacesX /\ PlacesC

\* Only a page that is gone can have been unlocked once too often; whoever frees a
\* page has found it live.
Counted ==
    \A c \in Cell :
        /\ page[c] = "live" => locks[c] >= 0
        /\ Closing(c) => page[c] = "live"

\* The eldest is being recycled in one place, and not by the closer as well.
Victim ==
    /\ victim # None => xpc = "evicting"
    /\ xpc = "evicting" => ~Closing(victim)

\* The lock of the executor's holder, by where the executor is.
Held ==
    /\ xpc \in {"evict", "evictwait", "evicting", "get"} => cur \in Cell /\ locks[cur] >= 0
    /\ xpc \in Working => cur \in Cell /\ locks[cur] >= 1
    /\ xpc \in Working => page[cur] = "live" \/ isRecycled
    /\ xpc \in {"oomput", "putwait", "oomfree", "unlock"} /\ cur # None =>
          cur \in Cell /\ locks[cur] >= 0 /\ (page[cur] = "live" => locks[cur] >= 1)

Counts == Counted /\ Victim /\ Held

\* A holder is in the map or cleared from it, never both; what the executor holds
\* on to is not cleared, and is in the map unless closing has taken the map away.
Mapped ==
    /\ Cells \cap dropped = {}
    /\ xpc = "oomfree" => order = <<>>
    /\ xpc \in Holding => cur \notin dropped
    /\ xpc \in {"evict", "evictwait", "evicting", "get"} => cur \in Cells \/ isRecycled
    /\ xpc = "evictwait" => isRecycled
    /\ xpc = "evict" /\ order # <<>> => Eldest # cur
    /\ xpc = "evicting" => victim # cur /\ (order # <<>> => Eldest = victim)

\* NativePagesAccounted of the live pages, also by the closer's iterator while it has holders to return
Reached ==
    \A c \in Cell : page[c] = "live" /\ c \notin dropped \cup late =>
       /\ c \in Cells
       /\ cpc \in {"visit", "free"} => c \in Range(visit)

Tracking == Mapped /\ Reached

\* A decoding that closing finds under way is cancelled, unless a decodePage past
\* its test shows, and if it renders, its page is one the closer still has before it.
Cancels ==
    straggler = "none" /\ cpc \notin {"idle", "failed", "aborted"} =>
        /\ task.kind = "decode" => cancelled
        /\ xpc \in {"render", "rendering"} /\ page[cur] = "live" => cur \in Range(visit)

\* Nothing moves under the iterator of a closing that began at rest.
Quiet ==
    quiet => /\ xpc \in {"idle", "end"} /\ ~stale
             /\ None \notin Range(visit) /\ isRecycled /\ cpc \notin {"idle", "failed", "aborted"}

\* A page whose handle is shown or asked for has been opened, so it is without one
\* only when it was freed.
Handles ==
    \A c \in Cell : page[c] = "none" =>
       \/ pushed
       \/ /\ \A p \in Page : shown[p] # c
          /\ \A i \in 1..Len(asked) : asked[i].target # c
          /\ task.target # c

Promises == Cancels /\ Quiet /\ Handles /\ NativeCallsSafe /\ SecondTapFindsPage

\* The locks of the cells no edit has locked, and of those one has: a decoding
\* under way counts for one.
Decoded(c) == c = cur /\ xpc \in Decoding

Unlocked ==
    xpc # "crashed" =>
        /\ \A c \in Cell \ edited : locks[c] <= IF Decoded(c) THEN 1 ELSE 0
        /\ xpc = "evicting" => locks[victim] <= 0

Pinned ==
    xpc # "crashed" /\ ~isRecycled =>
        \A c \in Cell : c \in Cells /\ c \in edited =>
            unpinned \/ (page[c] = "live" /\ locks[c] >= IF Decoded(c) THEN 2 ELSE 1)

\* OverfullOnlyByEdits at every place; while the eldest is looked at, the map may
\* have one entry more.
Room == IF xpc \in {"evict", "evicting"} THEN widest + 1 ELSE widest
Overfull ==
    xpc \notin {"crashed", "oomput", "putwait"} /\ ~isRecycled /\ Len(order) > Room => Eldest \in edited \/ unpinned

Sizes == Unlocked /\ Pinned /\ Overfull

IInv == Types /\ Counts /\ Tracking /\ Promises /\ Sizes

LEMMA TypedParts == TypedCells /\ TypedExec /\ TypedSeqs /\ TypedFlags /\ TypedBounds => TypeOK
BY DEF TypeOK, TypedCells, TypedExec, TypedSeqs, TypedFlags, TypedBounds, Busy, Decoding, Entry

LEMMA MaxOfTwo == ASSUME NEW a \in Int, NEW b \in Int
  PROVE Max({a, b}) \in {a, b} /\ a <= Max({a, b}) /\ b <= Max({a, b})
<1>1. \E m \in {a, b} : \A x \in {a, b} : m >= x
  <2>1. CASE a <= b
    BY <2>1
  <2>2. CASE b <= a
    BY <2>2
  <2> QED BY <2>1, <2>2
<1>2. Max({a, b}) \in {a, b} /\ \A x \in {a, b} : Max({a, b}) >= x
  BY <1>1 DEF Max
<1> QED BY <1>2

LEMMA Wider == ASSUME NEW a \in Nat, NEW b \in Nat, a <= b, NEW n \in Nat, n > b + 1 PROVE n > a + 1
OBVIOUS

LEMMA SizeOfRange == ASSUME NEW v \in Nat \ {0}, NEW s, s = IF InMemory = 0 THEN 1 ELSE Max({v, InMemory})
  PROVE s \in Nat \ {0} /\ (InMemory > 0 => InMemory <= s /\ v <= s) /\ (InMemory = 0 => s = 1)
<1>1. InMemory \in Nat
  BY CacheAssumption
<1>2. Max({v, InMemory}) \in {v, InMemory} /\ v <= Max({v, InMemory}) /\ InMemory <= Max({v, InMemory})
  BY <1>1, MaxOfTwo
<1>3. CASE InMemory = 0
  BY <1>3
<1>4. CASE InMemory # 0
  <2>1. s = Max({v, InMemory})
    BY <1>4
  <2> QED BY <1>1, <1>2, <1>4, <2>1
<1> QED BY <1>3, <1>4

\* The size of the cache has been allowed since the map was cleared last.
LEMMA SizeFacts ==
  ASSUME TypedBounds
  PROVE  /\ getCacheSize \in Nat \ {0} /\ getCacheSize <= widest
         /\ InMemory > 0 => InMemory <= getCacheSize /\ visible <= getCacheSize
<1>1. visible \in Nat \ {0} /\ widest \in Nat \ {0} /\ InMemory \in Nat
      /\ (InMemory > 0 => InMemory <= widest /\ visible <= widest)
  BY CacheAssumption DEF TypedBounds
<1>2. getCacheSize \in Nat \ {0} /\ (InMemory > 0 => InMemory <= getCacheSize /\ visible <= getCacheSize)
      /\ (InMemory = 0 => getCacheSize = 1)
  BY <1>1, SizeOfRange DEF getCacheSize
<1>3. InMemory > 0 => getCacheSize \in {visible, InMemory}
  BY <1>1, MaxOfTwo DEF getCacheSize
<1> QED BY <1>1, <1>2, <1>3

---------------------------------------------------------------------------
\* What the changes of the map do to the cells in it.

EntryCells(s) == {s[i].cell : i \in 1..Len(s)}

LEMMA CellsEmpty == EntryCells(<<>>) = {} /\ Range(<<>>) = {}
BY DEF EntryCells, Range

LEMMA CellsAppend == ASSUME NEW s \in Seq(Entry), NEW e \in Entry
  PROVE Append(s, e) \in Seq(Entry) /\ EntryCells(Append(s, e)) = EntryCells(s) \cup {e.cell}
        /\ Len(Append(s, e)) = Len(s) + 1
        /\ (s # <<>> => Head(Append(s, e)) = Head(s)) /\ (s = <<>> => Head(Append(s, e)) = e)
BY DEF EntryCells

LEMMA CellsTail == ASSUME NEW s \in Seq(Entry), s # <<>>
  PROVE /\ Tail(s) \in Seq(Entry) /\ Len(Tail(s)) = Len(s) - 1 /\ Head(s).cell \in Cell \cup {None}
        /\ Head(s) \in Entry
        /\ EntryCells(s) = EntryCells(Tail(s)) \cup {Head(s).cell}
<1>1. Len(s) \in Nat \ {0} /\ Head(s) = s[1]
  OBVIOUS
<1>2. \A i \in 1..Len(s) : s[i] \in Entry
  OBVIOUS
<1>3. Tail(s) \in Seq(Entry) /\ Len(Tail(s)) = Len(s) - 1
  OBVIOUS
<1>4. \A i \in 1..(Len(s) - 1) : Tail(s)[i] = s[i + 1]
  OBVIOUS
<1>5. \A i \in 1..Len(s) : i = 1 \/ (i - 1 \in 1..(Len(s) - 1) /\ s[i] = Tail(s)[i - 1])
  BY <1>1, <1>4
<1>6. EntryCells(s) \subseteq EntryCells(Tail(s)) \cup {Head(s).cell}
  BY <1>1, <1>3, <1>5 DEF EntryCells
<1>7. EntryCells(Tail(s)) \subseteq EntryCells(s)
  <2>1. \A i \in 1..(Len(s) - 1) : i + 1 \in 1..Len(s)
    BY <1>1
  <2> QED BY <1>3, <1>4, <2>1 DEF EntryCells
<1>8. Head(s).cell \in EntryCells(s) /\ Head(s) \in Entry
  BY <1>1, <1>2 DEF EntryCells
<1>9. Head(s).cell \in Cell \cup {None}
  BY <1>8 DEF Entry
<1> QED BY <1>3, <1>6, <1>7, <1>8, <1>9

LEMMA CellsFilter == ASSUME NEW s \in Seq(Entry), NEW I \in SUBSET (1..Len(s))
  PROVE EntryCells(Filter(s, I)) = {s[i].cell : i \in I}
<1>1. /\ \A i \in 1..Len(Filter(s, I)) : \E j \in I : Filter(s, I)[i] = s[j]
      /\ \A j \in I : \E i \in 1..Len(Filter(s, I)) : Filter(s, I)[i] = s[j]
  BY FilterEntries
<1> DEFINE f == Filter(s, I)
<1> HIDE DEF f
<1>2. EntryCells(f) \subseteq {s[i].cell : i \in I}
  BY <1>1 DEF EntryCells, f
<1>3. {s[i].cell : i \in I} \subseteq EntryCells(f)
  <2> SUFFICES ASSUME NEW i \in I PROVE s[i].cell \in EntryCells(f)
    OBVIOUS
  <2>1. PICK k \in 1..Len(f) : f[k] = s[i]
    BY <1>1 DEF f
  <2>2. f[k].cell \in EntryCells(f)
    BY DEF EntryCells
  <2> QED BY <2>1, <2>2
<1> QED BY <1>2, <1>3 DEF f

LEMMA CellsTyped == order \in Seq(Entry) => Cells \subseteq Cell \cup {None}
<1> SUFFICES ASSUME order \in Seq(Entry) PROVE Cells \subseteq Cell \cup {None}
  OBVIOUS
<1>1. \A i \in 1..Len(order) : order[i] \in Entry
  OBVIOUS
<1> QED BY <1>1 DEF Cells, Entry

LEMMA KeptFacts ==
  ASSUME order \in Seq(Entry)
  PROVE  /\ Kept \in Seq(Entry) /\ Len(Kept) <= Len(order)
         /\ EntryCells(Kept) = {c \in Cells : ~IsInvalid(c)}
         /\ order # <<>> /\ ~IsInvalid(Eldest) => Kept # <<>> /\ Head(Kept) = Head(order)
         /\ order # <<>> /\ IsInvalid(Eldest) => Len(Kept) < Len(order)
<1> DEFINE I == {i \in 1..Len(order) : ~IsInvalid(order[i].cell)}
<1>1. I \in SUBSET (1..Len(order)) /\ Kept = Filter(order, I)
  BY DEF Kept
<1>2. order # <<>> => 1 \in 1..Len(order) /\ Head(order) = order[1]
  OBVIOUS
<1>3. order # <<>> /\ ~IsInvalid(Eldest) => 1 \in I
  BY <1>2 DEF Eldest
<1>4. order # <<>> /\ IsInvalid(Eldest) => 1 \notin I
  BY <1>2 DEF Eldest
<1>5. EntryCells(Filter(order, I)) = {c \in Cells : ~IsInvalid(c)}
  BY <1>1, CellsFilter DEF Cells
<1> HIDE DEF I
<1>6. Filter(order, I) \in Seq(Entry) /\ Len(Filter(order, I)) <= Len(order)
      /\ (order # <<>> /\ 1 \notin I => Len(Filter(order, I)) < Len(order))
  BY <1>1, <1>2, FilterType
<1>7. 1 \in I => Len(Filter(order, I)) > 0 /\ Filter(order, I)[1] = order[1]
  BY <1>1, FilterFirst
<1>8. order # <<>> /\ 1 \in I => Filter(order, I) # <<>> /\ Head(Filter(order, I)) = Head(order)
  BY <1>2, <1>6, <1>7
<1> QED BY <1>1, <1>3, <1>4, <1>5, <1>6, <1>8

LEMMA WithoutFacts ==
  ASSUME order \in Seq(Entry), NEW c
  PROVE  /\ Without(c) \in Seq(Entry) /\ Len(Without(c)) <= Len(order)
         /\ EntryCells(Without(c)) = Cells \ {c}
         /\ order # <<>> /\ Eldest = c => Len(Without(c)) < Len(order)
<1> DEFINE I == {i \in 1..Len(order) : order[i].cell # c}
<1>1. I \in SUBSET (1..Len(order)) /\ Without(c) = Filter(order, I)
  BY DEF Without
<1>2. order # <<>> => 1 \in 1..Len(order) /\ Head(order) = order[1]
  OBVIOUS
<1>3. order # <<>> /\ Eldest = c => 1 \notin I
  BY <1>2 DEF Eldest
<1>4. EntryCells(Filter(order, I)) = Cells \ {c}
  BY <1>1, CellsFilter DEF Cells
<1> HIDE DEF I
<1>5. Filter(order, I) \in Seq(Entry) /\ Len(Filter(order, I)) <= Len(order)
      /\ (order # <<>> /\ 1 \notin I => Len(Filter(order, I)) < Len(order))
  BY <1>1, <1>2, FilterType
<1> QED BY <1>1, <1>3, <1>4, <1>5

\* What getPageHolder does to the map
LookupResult ==
    /\ xpc = "lookup" /\ order' \in Seq(Entry) /\ stale' \in BOOLEAN
    /\ UNCHANGED <<visible, widest, taskVars, askVars, shown, closeVars, unpinned, pushed, faultVars>>
    /\ \/ /\ order' = Kept /\ cur' \in Cell /\ cur' \in Cells' /\ ~IsInvalid(cur')
          /\ xpc' = "get" /\ Cells' = {c \in Cells : ~IsInvalid(c)}
          /\ UNCHANGED <<page, locks, dropped, late, edited>>
       \/ /\ cur' \in Fresh /\ order' # <<>> /\ Len(order') = Len(Kept) + 1
          /\ Kept # <<>> => Eldest' = Head(Kept).cell /\ Eldest' \in Cells
          /\ Kept = <<>> => Eldest' = cur'
          /\ order' = Append(Kept, [key |-> task.page, cell |-> cur'])
          /\ Cells' = {c \in Cells : ~IsInvalid(c)} \cup {cur'}
          /\ page' = [page EXCEPT ![cur'] = IF document = "null" THEN "orphan" ELSE "none"]
          /\ locks' = [locks EXCEPT ![cur'] = 0]
          /\ dropped' = dropped \ {cur'} /\ late' = late \ {cur'} /\ edited' = edited \ {cur'}
          /\ xpc' = IF Len(order') > getCacheSize THEN "evict" ELSE "get"

LEMMA LookupEffect == ASSUME Types, Lookup PROVE LookupResult
<1> USE DEF LookupResult
<1> DEFINE mine == {c \in Cell : ~IsInvalid(c) /\ [key |-> task.page, cell |-> c] \in Range(order)}
           new == CHOOSE c \in Fresh : TRUE
<1>0. order \in Seq(Entry) /\ xpc = "lookup" /\ task \in Task /\ stale \in BOOLEAN /\ task.page \in Page
  <2>1. xpc = "lookup"
    BY DEF Lookup
  <2>2. task \in Task
    BY <2>1 DEF Types, PlacesX, Busy
  <2>3. task.page \in Page
    BY <2>2, CacheAssumption DEF Task, Request
  <2> QED BY <2>1, <2>2, <2>3 DEF Types, TypedSeqs, TypedFlags
<1>1. UNCHANGED <<visible, widest, taskVars, askVars, shown, closeVars, unpinned, pushed, faultVars>>
  BY DEF Lookup
<1>2. stale' \in BOOLEAN
  BY <1>0 DEF Lookup
<1>3. Kept \in Seq(Entry) /\ EntryCells(Kept) = {c \in Cells : ~IsInvalid(c)}
  BY <1>0, KeptFacts
<1>4. Cells' = EntryCells(order')
  BY DEF Cells, EntryCells
<1>5. CASE mine # {}
  <2>1. /\ order' = Kept /\ cur' \in mine /\ xpc' = "get"
        /\ UNCHANGED <<page, locks, dropped, late, edited>>
    BY <1>5 DEF Lookup, Go
  <2>2. cur' \in Cell /\ ~IsInvalid(cur') /\ [key |-> task.page, cell |-> cur'] \in Range(order)
    BY <2>1
  <2>3. PICK i \in 1..Len(order) : order[i] = [key |-> task.page, cell |-> cur']
    BY <1>0, <2>2 DEF Range
  <2>4. cur' \in Cells
    BY <2>3 DEF Cells
  <2> QED BY <1>0, <1>1, <1>2, <1>3, <1>4, <2>1, <2>2, <2>4
<1>6. CASE mine = {}
  <2>1. Fresh # {}
    BY <1>6 DEF Lookup
  <2>2. new \in Fresh /\ new \in Cell
    BY <2>1 DEF Fresh
  <2> HIDE DEF new
  <2>3. /\ order' = Append(Kept, [key |-> task.page, cell |-> new]) /\ cur' = new
        /\ page' = [page EXCEPT ![new] = IF document = "null" THEN "orphan" ELSE "none"]
        /\ locks' = [locks EXCEPT ![new] = 0]
        /\ dropped' = dropped \ {new} /\ late' = late \ {new} /\ edited' = edited \ {new}
        /\ xpc' = IF Len(order') > getCacheSize THEN "evict" ELSE "get"
    BY <1>6 DEF Lookup, Go, new
  <2>4. [key |-> task.page, cell |-> new] \in Entry
    BY <1>0, <2>2 DEF Entry
  <2>5. order' \in Seq(Entry) /\ EntryCells(order') = EntryCells(Kept) \cup {new}
        /\ Len(order') = Len(Kept) + 1
        /\ (Kept # <<>> => Head(order') = Head(Kept))
        /\ (Kept = <<>> => Head(order') = [key |-> task.page, cell |-> new])
    <3>1. [key |-> task.page, cell |-> new].cell = new
      OBVIOUS
    <3> QED BY <1>3, <2>3, <2>4, <3>1, CellsAppend
  <2>6. Kept # <<>> => Head(Kept).cell \in Cells
    <3>1. Kept # <<>> => Head(Kept).cell \in EntryCells(Kept)
      BY <1>3, CellsTail
    <3> QED BY <1>3, <3>1
  <2>7. order' # <<>> /\ (Kept # <<>> => Eldest' = Head(Kept).cell) /\ (Kept = <<>> => Eldest' = cur')
    <3>1. order' # <<>>
      BY <1>3, <2>3
    <3> QED BY <2>3, <2>5, <3>1 DEF Eldest
  <2> QED BY <1>0, <1>1, <1>2, <1>3, <1>4, <2>2, <2>3, <2>5, <2>6, <2>7
<1> QED BY <1>5, <1>6

LEMMA EldestFacts ==
  ASSUME order \in Seq(Entry), order # <<>>
  PROVE  /\ Eldest \in Cells /\ Eldest \in Cell \cup {None} /\ Head(order).cell = Eldest
         /\ Tail(order) \in Seq(Entry) /\ Len(Tail(order)) = Len(order) - 1
         /\ Cells = EntryCells(Tail(order)) \cup {Eldest}
<1>1. Cells = EntryCells(order)
  BY DEF Cells, EntryCells
<1> QED BY <1>1, CellsTail DEF Eldest

\* What removeEldestEntry does to the map
EvictResult ==
    /\ xpc = "evict" /\ order' \in Seq(Entry) /\ None \notin Cells
    /\ Cells' \subseteq Cells /\ stale' \in BOOLEAN
    /\ UNCHANGED <<visible, widest, page, locks, cur, task, answering, cancelled, puts, askVars, shown, closeVars, histVars, faultVars>>
    /\ \/ /\ xpc' = "get" /\ UNCHANGED <<order, stale, victim>> /\ Cells' = Cells
          /\ order # <<>> => Eldest \in Cell /\ ~IsInvalid(Eldest) /\ locks[Eldest] > 0
       \/ /\ xpc' = "evictwait" /\ UNCHANGED <<order, stale, victim>> /\ Cells' = Cells
          /\ cpc = "free"
       \/ /\ xpc' = "get" /\ stale' = TRUE /\ UNCHANGED victim
          /\ order # <<>> /\ Eldest \in Cell /\ IsInvalid(Eldest) /\ order' = Tail(order)
          /\ Len(order') = Len(order) - 1 /\ Cells = Cells' \cup {Eldest}
       \/ /\ xpc' = "evicting" /\ UNCHANGED <<order, stale>> /\ Cells' = Cells
          /\ order # <<>> /\ Eldest \in Cell /\ victim' = Eldest
          /\ CanAccess(Eldest) /\ page[Eldest] = "live" /\ locks[Eldest] <= 0

LEMMA EvictEffect == ASSUME Types, Counts, Evict PROVE EvictResult
<1> USE DEF EvictResult
<1>1. xpc = "evict" /\ order \in Seq(Entry) /\ stale \in BOOLEAN
  BY DEF Evict, Types, TypedSeqs, TypedFlags
<1>2. None \notin Cells
  BY <1>1 DEF Types, PlacesX
<1>3. UNCHANGED <<visible, widest, page, locks, cur, task, answering, cancelled, puts, askVars, shown, closeVars, histVars, faultVars>>
  BY DEF Evict, mapVars
<1>4. order # <<>> => Eldest \in Cell
  BY <1>1, <1>2, EldestFacts
<1>5. CASE /\ order # <<>> /\ Eldest # None => ~IsInvalid(Eldest) /\ locks[Eldest] > 0
           /\ Go("get") /\ UNCHANGED <<mapVars, victim>>
  BY <1>1, <1>2, <1>3, <1>4, <1>5, CacheAssumption DEF Go, mapVars, Cells
<1>6. CASE /\ order # <<>> /\ Eldest # None /\ IsInvalid(Eldest)
           /\ order' = Tail(order) /\ stale' = TRUE
           /\ Go("get") /\ UNCHANGED <<visible, widest, victim>>
  <2>1. Cells' = EntryCells(order')
    BY DEF Cells, EntryCells
  <2>2. Tail(order) \in Seq(Entry) /\ Len(Tail(order)) = Len(order) - 1
        /\ Cells = EntryCells(Tail(order)) \cup {Eldest}
    BY <1>1, <1>6, EldestFacts
  <2> QED BY <1>1, <1>2, <1>3, <1>4, <1>6, <2>1, <2>2 DEF Go
<1>7. CASE /\ order # <<>> /\ Eldest # None /\ ~IsInvalid(Eldest) /\ locks[Eldest] <= 0
           /\ IF Closing(Eldest) THEN Go("evictwait") /\ UNCHANGED victim
              ELSE Go("evicting") /\ victim' = Eldest
           /\ UNCHANGED mapVars
  <2>1. victim = None
    BY <1>1 DEF Counts, Victim
  <2>2. ~Closing(Eldest) => CanAccess(Eldest)
    BY <1>4, <1>7, <2>1, CacheAssumption DEF CanAccess
  <2>3. CanAccess(Eldest) => page[Eldest] = "live"
    BY <1>7 DEF IsInvalid
  <2>4. Closing(Eldest) => cpc = "free"
    BY DEF Closing
  <2>5. Cells' = Cells /\ UNCHANGED <<order, stale>>
    BY <1>7 DEF mapVars, Cells
  <2> QED BY <1>1, <1>2, <1>3, <1>4, <1>7, <2>2, <2>3, <2>4, <2>5 DEF Go
<1> QED BY <1>5, <1>6, <1>7 DEF Evict

EvictEndsResult ==
    /\ xpc = "evicting" /\ xpc' = "get" /\ victim \in Cell /\ victim' = None
    /\ page' = [page EXCEPT ![victim] = "none"] /\ pushed' = TRUE
    /\ order' \in Seq(Entry) /\ stale' \in BOOLEAN
    /\ Cells' = Cells \ {victim} /\ Len(order') <= Len(order)
    /\ order # <<>> /\ Eldest = victim => Len(order') < Len(order)
    /\ UNCHANGED <<visible, widest, locks, cur, task, answering, cancelled, puts, askVars, shown, closeVars, dropped, late, edited, unpinned, faultVars>>

LEMMA EvictEndsEffect == ASSUME Types, EvictEnds PROVE EvictEndsResult
<1> USE DEF EvictEndsResult
<1>1. order \in Seq(Entry) /\ victim \in Cell /\ xpc = "evicting" /\ stale \in BOOLEAN
  BY DEF EvictEnds, Types, TypedSeqs, PlacesX, TypedFlags
<1>2. Cells' = EntryCells(order')
  BY DEF Cells, EntryCells
<1>3. /\ Without(victim) \in Seq(Entry) /\ Len(Without(victim)) <= Len(order)
      /\ EntryCells(Without(victim)) = Cells \ {victim}
      /\ order # <<>> /\ Eldest = victim => Len(Without(victim)) < Len(order)
  BY <1>1, WithoutFacts
<1>4. order' = Without(victim)
  BY DEF EvictEnds
<1>5. stale' \in BOOLEAN
  BY <1>1 DEF EvictEnds
<1>6. /\ Without(victim)  \in Seq(Entry) /\ EntryCells(order') = Cells \ {victim}
  BY <1>3, <1>4
<1>7. /\ xpc' = "get" /\ victim' = None
      /\ page' = [page EXCEPT ![victim] = "none"] /\ pushed' = TRUE
      /\ UNCHANGED <<visible, widest, locks, cur, task, answering, cancelled, puts, askVars, shown, closeVars, dropped, late, edited, unpinned, faultVars>>
  BY DEF EvictEnds, Go
<1> QED BY <1>1, <1>2, <1>3, <1>4, <1>5, <1>6, <1>7

\* What the handler of OutOfMemoryError does to the map with one null holder
PutNullResult ==
    /\ xpc = "oomput" /\ order' \in Seq(Entry) /\ stale' = TRUE
    /\ puts <= InMemory /\ puts' = puts + 1 /\ xpc' \in {"oomput", "putwait"}
    /\ UNCHANGED <<visible, widest, locks, cur, task, victim, answering, cancelled, askVars, shown, closeVars, dropped, late, edited, unpinned, faultVars>>
    /\ \/ /\ Cells' = Cells \cup {None} /\ UNCHANGED page /\ pushed' \in {pushed, TRUE}
       \/ \E c \in Cell : /\ Cells' \cup {c} = Cells \cup {None} /\ CanAccess(c)
                          /\ IsInvalid(c) \/ locks[c] <= 0
                          /\ page' = IF page[c] = "live" THEN [page EXCEPT ![c] = "none"] ELSE page
                          /\ pushed' = TRUE

LEMMA PutNullEffect == ASSUME Types, Counts, PutNull PROVE PutNullResult
<1> USE DEF PutNullResult
<1> DEFINE null == [key |-> None, cell |-> None]
           longer == Append(order, null)
           c == Head(longer).cell
           evicts == Len(longer) > getCacheSize /\ c # None /\ (IsInvalid(c) \/ locks[c] <= 0)
           frees == evicts /\ ~(evicts /\ Closing(c))
<1>1. order \in Seq(Entry) /\ xpc = "oomput" /\ pushed \in BOOLEAN /\ puts \in Nat
  BY CacheAssumption DEF PutNull, PutNulls, Types, TypedSeqs, TypedFlags, TypedBounds
<1>2. /\ longer \in Seq(Entry) /\ EntryCells(longer) = Cells \cup {None} /\ longer # <<>>
  <2>1. Cells = EntryCells(order) /\ null \in Entry
    BY DEF Cells, EntryCells, Entry
  <2>2. null.cell = None
    OBVIOUS
  <2>3. longer \in Seq(Entry) /\ EntryCells(longer) = EntryCells(order) \cup {null.cell}
        /\ Len(longer) = Len(order) + 1
    <3> HIDE DEF null
    <3> QED BY <1>1, <2>1, CellsAppend
  <2>4. longer # <<>>
    BY <1>1
  <2> HIDE DEF longer, null
  <2> QED BY <2>1, <2>2, <2>3, <2>4
<1> HIDE DEF null
<1>3. /\ Tail(longer) \in Seq(Entry) /\ EntryCells(longer) = EntryCells(Tail(longer)) \cup {c}
      /\ c \in Cell \cup {None}
  <2> HIDE DEF longer
  <2> QED BY <1>2, CellsTail
<1>4. Cells' = EntryCells(order')
  BY DEF Cells, EntryCells
<1>5. /\ puts < InMemory + 1
      /\ order' = IF frees THEN Tail(longer) ELSE longer
      /\ page' = IF frees /\ page[c] = "live" THEN [page EXCEPT ![c] = "none"] ELSE page
      /\ stale' = TRUE /\ puts' = puts + 1
      /\ pushed' = (pushed \/ evicts) /\ xpc' \in {"oomput", "putwait"}
      /\ UNCHANGED <<visible, widest, locks, cur, task, victim, answering, cancelled, askVars, shown, closeVars, dropped, late, edited, unpinned, faultVars>>
  BY DEF PutNull, PutNulls, Go, null
<1>6. puts <= InMemory
  BY <1>1, <1>5, CacheAssumption
<1>7. CASE frees
  <2> HIDE DEF longer, c
  <2>1. c \in Cell /\ (IsInvalid(c) \/ locks[c] <= 0) /\ evicts /\ ~Closing(c)
    BY <1>3, <1>7
  <2>0. CanAccess(c)
    BY <1>1, <2>1, CacheAssumption DEF CanAccess, Counts, Victim
  <2> HIDE DEF evicts, frees
  <2>2. /\ order' = Tail(longer) /\ CanAccess(c) /\ pushed' = TRUE
        /\ page' = IF page[c] = "live" THEN [page EXCEPT ![c] = "none"] ELSE page
    BY <1>1, <1>5, <1>7, <2>0, <2>1
  <2>3. Cells' \cup {c} = Cells \cup {None} /\ order' \in Seq(Entry)
    BY <1>2, <1>3, <1>4, <2>2
  <2>4. \E x \in Cell : /\ Cells' \cup {x} = Cells \cup {None} /\ CanAccess(x)
                        /\ IsInvalid(x) \/ locks[x] <= 0
                        /\ page' = IF page[x] = "live" THEN [page EXCEPT ![x] = "none"] ELSE page
                        /\ pushed' = TRUE
    BY <2>1, <2>2, <2>3
  <2>5. /\ stale' = TRUE /\ puts' = puts + 1 /\ xpc' \in {"oomput", "putwait"}
        /\ UNCHANGED <<visible, widest, locks, cur, task, victim, answering, cancelled, askVars, shown, closeVars, dropped, late, edited, unpinned, faultVars>>
    BY <1>5
  <2> QED BY <1>1, <1>6, <2>3, <2>4, <2>5
<1>8. CASE ~frees
  <2>1. pushed' \in {pushed, TRUE}
    <3>1. pushed' = (pushed \/ evicts) /\ pushed \in BOOLEAN
      BY <1>1, <1>5
    <3> HIDE DEF evicts, frees
    <3>2. CASE evicts
      BY <3>1, <3>2
    <3>3. CASE ~evicts
      BY <3>1, <3>3
    <3> QED BY <3>2, <3>3
  <2> HIDE DEF evicts, frees, longer, c
  <2> QED BY <2>1, <1>1, <1>2, <1>4, <1>5, <1>6, <1>8
<1> QED BY <1>7, <1>8

LEMMA CellsCleared == order' = <<>> => Cells' = {} /\ order' \in Seq(Entry)
BY DEF Cells

\* The holders an iterator has yet to return
LEMMA VisitTail == ASSUME visit \in Seq(Cell \cup {None}), visit # <<>>
  PROVE /\ Tail(visit) \in Seq(Cell \cup {None}) /\ Head(visit) \in Cell \cup {None}
        /\ Range(visit) = Range(Tail(visit)) \cup {Head(visit)}
<1>1. Len(visit) \in Nat \ {0} /\ Head(visit) = visit[1] /\ DOMAIN visit = 1..Len(visit)
  OBVIOUS
<1>2. \A i \in 1..Len(visit) : visit[i] \in Cell \cup {None}
  OBVIOUS
<1>3. Tail(visit) \in Seq(Cell \cup {None}) /\ DOMAIN Tail(visit) = 1..(Len(visit) - 1)
  OBVIOUS
<1>4. \A i \in 1..(Len(visit) - 1) : Tail(visit)[i] = visit[i + 1]
  OBVIOUS
<1>5. \A i \in 1..Len(visit) : i = 1 \/ (i - 1 \in 1..(Len(visit) - 1) /\ visit[i] = Tail(visit)[i - 1])
  BY <1>1, <1>4
<1>6. Range(visit) \subseteq Range(Tail(visit)) \cup {Head(visit)}
  <2> SUFFICES ASSUME NEW i \in 1..Len(visit) PROVE visit[i] \in Range(Tail(visit)) \cup {Head(visit)}
    BY <1>1 DEF Range
  <2>1. CASE i = 1
    BY <1>1, <2>1
  <2>2. CASE i # 1
    <3>1. i - 1 \in DOMAIN Tail(visit) /\ visit[i] = Tail(visit)[i - 1]
      BY <1>3, <1>5, <2>2
    <3> QED BY <3>1 DEF Range
  <2> QED BY <2>1, <2>2
<1>7. Range(Tail(visit)) \subseteq Range(visit)
  <2>1. \A i \in 1..(Len(visit) - 1) : i + 1 \in 1..Len(visit)
    BY <1>1
  <2> QED BY <1>1, <1>3, <1>4, <2>1 DEF Range
<1>8. Head(visit) \in Range(visit) /\ Head(visit) \in Cell \cup {None}
  BY <1>1, <1>2 DEF Range
<1> QED BY <1>3, <1>6, <1>7, <1>8

LEMMA VisitBegins == ASSUME order \in Seq(Entry), visit' = [i \in 1..Len(order) |-> order[i].cell]
  PROVE visit' \in Seq(Cell \cup {None}) /\ Range(visit') = Cells
<1>1. \A i \in 1..Len(order) : order[i].cell \in Cell \cup {None}
  <2>1. \A i \in 1..Len(order) : order[i] \in Entry
    OBVIOUS
  <2> QED BY <2>1 DEF Entry
<1>2. Len(order) \in Nat
  OBVIOUS
<1> DEFINE f == [i \in 1..Len(order) |-> order[i].cell]
<1>3. f \in Seq(Cell \cup {None})
  BY <1>1, <1>2
<1>4. Range(f) = Cells
  BY DEF Range, Cells
<1> QED BY <1>3, <1>4

---------------------------------------------------------------------------
\* One lemma for each action: it keeps the invariant.

\* The user and the collector ...

LEMMA AskInv == ASSUME IInv, NEW t \in Request, Ask(t) PROVE IInv'
<1> USE CacheAssumption DEF IInv, Types, Go, Closer, Allowed, Ask, mapVars, taskVars, askVars, closeVars,
   histVars, faultVars
<1>1. Types'
  BY DEF TypedCells, TypedExec, TypedSeqs, PlacesX, PlacesC, Counts, Held, Victim, Working, Task,
     Request, Busy, Decoding, Idle, TypedFlags, TypedBounds, Cells, Types
<1>2. Counts'
  BY DEF Counts, Counted, Victim, Held, Working, Closing, TypedCells, TypedExec, PlacesC
<1>3. Tracking'
  BY DEF Tracking, Mapped, Holding, TypedCells, TypedExec, PlacesX, PlacesC, Cells, Eldest, Reached
<1>4. Promises'
  BY DEF Promises, Cancels, TypedCells, TypedExec, PlacesX, PlacesC, Decoding, Task, Request, Idle,
     Quiet, TypedFlags, Handles, Busy, NativeCallsSafe, TypedBounds, Counts, Held, Working,
     SecondTapFindsPage
<1>5. Sizes'
  BY DEF Sizes, Unlocked, Decoded, Decoding, TypedCells, TypedExec, PlacesX, Counts, Held, Working,
     Task, Request, Idle, Cells, Eldest, Pinned, TypedFlags, Tracking, Mapped, Overfull, Room,
     TypedSeqs
<1> QED BY <1>1, <1>2, <1>3, <1>4, <1>5

LEMMA StopDecodingInv == ASSUME IInv, StopDecoding PROVE IInv'
<1> USE CacheAssumption DEF IInv, Types, Go, Closer, StopDecoding, mapVars, taskVars, askVars,
   closeVars, histVars, faultVars
<1>1. Types'
  BY DEF TypedCells, TypedExec, TypedSeqs, PlacesX, PlacesC, Counts, Held, Victim, Working, Task,
     Request, Busy, Decoding, Idle, TypedFlags, TypedBounds, Cells, Types
<1>2. Counts'
  BY DEF Counts, Counted, Victim, Held, Working, Closing, TypedCells, TypedExec, PlacesC
<1>3. Tracking'
  BY DEF Tracking, Mapped, Holding, TypedCells, TypedExec, PlacesX, PlacesC, Cells, Eldest, Reached
<1>4. Promises'
  BY DEF Promises, Cancels, TypedCells, TypedExec, PlacesX, PlacesC, Decoding, Task, Request, Idle,
     Quiet, TypedFlags, Handles, Busy, NativeCallsSafe, TypedBounds, Counts, Held, Working,
     SecondTapFindsPage
<1>5. Sizes'
  BY DEF Sizes, Unlocked, Decoded, Decoding, TypedCells, TypedExec, PlacesX, Counts, Held, Working,
     Task, Request, Idle, Cells, Eldest, Pinned, TypedFlags, Tracking, Mapped, Overfull, Room,
     TypedSeqs
<1> QED BY <1>1, <1>2, <1>3, <1>4, <1>5

LEMMA ScrollInv == ASSUME IInv, NEW n \in 1..MaxVisible, Scroll(n) PROVE IInv'
<1> USE CacheAssumption DEF IInv, Types, Go, Closer, Scroll, mapVars, taskVars, askVars, closeVars,
   histVars, faultVars
<1>0. /\ UNCHANGED <<order, stale, page, locks, xpc, cur, taskVars, asked, shown, closeVars, histVars, faultVars>>
      /\ tries' \in 0..MaxAsked /\ visible' \in 1..MaxVisible /\ widest' \in Nat \ {0} /\ widest <= widest'
      /\ InMemory > 0 => InMemory <= widest' /\ visible' <= widest'
  <2>1. n \in Nat \ {0} /\ widest \in Nat \ {0} /\ visible' = n /\ widest' = Max({widest, getCacheSize'})
    BY DEF TypedBounds
  <2>2. getCacheSize' \in Nat \ {0} /\ (InMemory > 0 => InMemory <= getCacheSize' /\ n <= getCacheSize')
    BY <2>1, SizeOfRange DEF getCacheSize
  <2>3. Max({widest, getCacheSize'}) \in {widest, getCacheSize'} /\ widest <= widest' /\ getCacheSize' <= widest'
    BY <2>1, <2>2, MaxOfTwo
  <2>4. InMemory > 0 => InMemory <= widest' /\ visible' <= widest'
    BY <2>1, <2>2, <2>3
  <2>5. tries' \in 0..MaxAsked
    BY DEF TypedBounds, Allowed
  <2> QED BY <2>1, <2>2, <2>3, <2>4, <2>5
<1> HIDE DEF Scroll
<1>1. Types'
  BY <1>0 DEF TypedCells, TypedExec, TypedSeqs, PlacesX, PlacesC, Counts, Held, Victim, Working, Task,
     Request, Busy, Decoding, Idle, TypedFlags, TypedBounds, Cells, Types
<1>2. Counts'
  BY <1>0 DEF Counts, Counted, Victim, Held, Working, Closing, TypedCells, TypedExec, PlacesC
<1>3. Tracking'
  BY <1>0 DEF Tracking, Mapped, Holding, TypedCells, TypedExec, PlacesX, PlacesC, Cells, Eldest, Reached
<1>4. Promises'
  BY <1>0 DEF Promises, Cancels, TypedCells, TypedExec, PlacesX, PlacesC, Decoding, Task, Request, Idle,
     Quiet, TypedFlags, Handles, Busy, NativeCallsSafe, TypedBounds, Counts, Held, Working,
     SecondTapFindsPage
<1>5. Sizes'
  <2> USE DEF Sizes
  <2>1. Unlocked'
    BY <1>0 DEF Unlocked, Decoded, Decoding, TypedCells, TypedExec, PlacesX, Counts, Held, Working
  <2>2. Pinned'
    BY <1>0 DEF Pinned, Decoded, Decoding, TypedCells, TypedExec, TypedFlags, PlacesX, PlacesC,
       Counts, Held, Working, Tracking, Mapped, Cells
  <2>3. Overfull'
    <3>1. widest \in Nat /\ widest' \in Nat /\ widest <= widest'
      BY <1>0 DEF TypedBounds
    <3>2. Len(order) \in Nat /\ order' = order
      BY <1>0 DEF TypedSeqs
    <3>3. UNCHANGED <<xpc, edited, unpinned, isRecycled>>
      BY <1>0
    <3>4. CASE xpc \in {"evict", "evicting"}
      BY <3>1, <3>2, <3>3, <3>4, Wider DEF Overfull, Room, Eldest
    <3>5. CASE xpc \notin {"evict", "evicting"}
      BY <3>1, <3>2, <3>3, <3>5 DEF Overfull, Room, Eldest
    <3> QED BY <3>4, <3>5
  <2> QED BY <2>1, <2>2, <2>3
<1> QED BY <1>1, <1>2, <1>3, <1>4, <1>5

LEMMA TakeDecodeInv == ASSUME IInv, NEW p \in Page, TakeDecode(p) PROVE IInv'
<1> USE CacheAssumption DEF IInv, Types, Go, Closer, Allowed, TakeDecode, mapVars, taskVars, askVars,
   closeVars, histVars, faultVars
<1>1. Types'
  <2>1. TypedCells'
    BY DEF TypedCells
  <2>2. TypedExec'
    BY DEF TypedExec, TypedSeqs, Busy, Task
  <2>3. TypedSeqs'
    BY DEF TypedSeqs
  <2>4. TypedFlags'
    BY DEF TypedFlags
  <2>5. TypedBounds'
    BY DEF TypedBounds
  <2>6. PlacesX'
    BY DEF TypedExec, TypedSeqs, PlacesX, Busy, Decoding, Task, Request, Cells
  <2>7. PlacesC'
    BY DEF PlacesC, TypedFlags
  <2> QED BY <2>1, <2>2, <2>3, <2>4, <2>5, <2>6, <2>7
<1>2. Counts'
  BY DEF Counts, Counted, Victim, Held, Working, Closing, TypedCells, TypedExec, PlacesC
<1>3. Tracking'
  BY DEF Tracking, Mapped, Holding, TypedCells, TypedExec, PlacesX, PlacesC, Cells, Eldest, Reached
<1>4. Promises'
  BY DEF Promises, Cancels, TypedCells, TypedExec, PlacesX, PlacesC, Decoding, Task, Request, Idle,
     Quiet, TypedFlags, Handles, Busy, NativeCallsSafe, TypedBounds, Counts, Held, Working,
     SecondTapFindsPage
<1>5. Sizes'
  BY DEF Sizes, Unlocked, Decoded, Decoding, TypedCells, TypedExec, PlacesX, Counts, Held, Working,
     Task, Request, Idle, Cells, Eldest, Pinned, TypedFlags, Tracking, Mapped, Overfull, Room,
     TypedSeqs
<1> QED BY <1>1, <1>2, <1>3, <1>4, <1>5

LEMMA CollectInv == ASSUME IInv, NEW c \in Cell, Collect(c) PROVE IInv'
<1> USE CacheAssumption DEF IInv, Types, Go, Closer, Allowed, Collect, mapVars, taskVars, askVars,
   closeVars, histVars, faultVars
<1>1. Types'
  BY DEF TypedCells, TypedExec, TypedSeqs, PlacesX, PlacesC, Counts, Held, Victim, Working, Task,
     Request, Busy, Decoding, Idle, TypedFlags, TypedBounds, Cells, Types
<1>2. Counts'
  BY DEF Counts, Counted, Victim, Held, Working, Closing, TypedCells, TypedExec, PlacesC
<1>3. Tracking'
  BY DEF Tracking, Mapped, Holding, TypedCells, TypedExec, PlacesX, PlacesC, Cells, Eldest, Reached
<1>4. Promises'
  BY DEF Promises, Cancels, TypedCells, TypedExec, PlacesX, PlacesC, Decoding, Task, Request, Idle,
     Quiet, TypedFlags, Handles, Busy, NativeCallsSafe, TypedBounds, Counts, Held, Working,
     SecondTapFindsPage
<1>5. Sizes'
  <2> USE DEF Sizes
  <2>1. Unlocked'
    BY DEF Sizes, Unlocked, Decoded, Decoding, TypedCells, TypedExec, PlacesX, Counts, Held,
       Working, Task, Request, Idle, Cells, Eldest
  <2>2. Pinned'
    <3> USE DEF Decoded, Decoding, Eldest, Cells
    <3>1. (unpinned => unpinned') /\ (c \in edited => unpinned')
      OBVIOUS
    <3>2. \A x \in Cell : x # c => page'[x] = page[x]
      OBVIOUS
    <3>3. UNCHANGED <<order, xpc, cur, edited, locks>>
      OBVIOUS
    <3> QED BY <3>1, <3>2, <3>3 DEF Pinned
  <2>3. Overfull'
    BY DEF Sizes, Overfull, Room, Decoded, Decoding, TypedFlags, TypedSeqs, Cells, Eldest
  <2> QED BY <2>1, <2>2, <2>3
<1> QED BY <1>1, <1>2, <1>3, <1>4, <1>5

\* ... the executor ...

LEMMA TakeEditInv == ASSUME IInv, TakeEdit PROVE IInv'
<1> USE CacheAssumption DEF IInv, Types, Go, Closer, TakeEdit, mapVars, taskVars, askVars,
   closeVars, histVars, faultVars
<1>1. Types'
  <2>1. TypedCells'
    BY DEF TypedCells
  <2>2. TypedExec'
    BY DEF TypedExec, TypedSeqs, Busy, Task
  <2>3. TypedSeqs'
    BY DEF TypedSeqs
  <2>4. TypedFlags'
    BY DEF TypedFlags
  <2>5. TypedBounds'
    BY DEF TypedBounds
  <2>6. PlacesX'
    BY DEF TypedExec, TypedSeqs, PlacesX, Busy, Decoding, Task, Request, Cells
  <2>7. PlacesC'
    BY DEF PlacesC, TypedFlags
  <2> QED BY <2>1, <2>2, <2>3, <2>4, <2>5, <2>6, <2>7
<1>2. Counts'
  BY DEF Counts, Counted, Victim, Held, Working, Closing, TypedCells, TypedExec, PlacesC
<1>3. Tracking'
  BY DEF Tracking, Mapped, Holding, TypedCells, TypedExec, PlacesX, PlacesC, Cells, Eldest, Reached
<1>4. Promises'
  <2> USE DEF Promises
  <2>1. Cancels'
    <3>1. task' \in Request
      BY DEF TypedSeqs
    <3>2. task'.kind # "decode" /\ xpc' \in {"delete", "lookup"}
      BY <3>1 DEF Request
    <3> QED BY <3>2 DEF Cancels
  <2>2. Quiet'
    BY DEF Promises, Quiet, PlacesC, PlacesX, TypedFlags
  <2>3. Handles'
    BY DEF Promises, Handles, TypedCells, TypedExec, TypedFlags, PlacesX, Task, Request, Idle, Busy
  <2>4. NativeCallsSafe'
    BY DEF Promises, NativeCallsSafe, TypedBounds, TypedExec, PlacesX, PlacesC, Counts, Held, Working
  <2>5. SecondTapFindsPage'
    BY DEF Promises, SecondTapFindsPage, TypedFlags
  <2> QED BY <2>1, <2>2, <2>3, <2>4, <2>5
<1>5. Sizes'
  BY DEF Sizes, Unlocked, Decoded, Decoding, TypedCells, TypedExec, PlacesX, Counts, Held, Working,
     Task, Request, Idle, Cells, Eldest, Pinned, TypedFlags, Tracking, Mapped, Overfull, Room,
     TypedSeqs
<1> QED BY <1>1, <1>2, <1>3, <1>4, <1>5

LEMMA ExecutorEndsInv == ASSUME IInv, ExecutorEnds PROVE IInv'
<1> USE CacheAssumption DEF IInv, Types, Go, Closer, ExecutorEnds, mapVars, taskVars, askVars,
   closeVars, histVars, faultVars
<1>1. Types'
  BY DEF TypedCells, TypedExec, TypedSeqs, PlacesX, PlacesC, Counts, Held, Victim, Working, Task,
     Request, Busy, Decoding, Idle, TypedFlags, TypedBounds, Cells, Types
<1>2. Counts'
  BY DEF Counts, Counted, Victim, Held, Working, Closing, TypedCells, TypedExec, PlacesC
<1>3. Tracking'
  BY DEF Tracking, Mapped, Holding, TypedCells, TypedExec, PlacesX, PlacesC, Cells, Eldest, Reached
<1>4. Promises'
  BY DEF Promises, Cancels, TypedCells, TypedExec, PlacesX, PlacesC, Decoding, Task, Request, Idle,
     Quiet, TypedFlags, Handles, Busy, NativeCallsSafe, TypedBounds, Counts, Held, Working,
     SecondTapFindsPage
<1>5. Sizes'
  BY DEF Sizes, Unlocked, Decoded, Decoding, TypedCells, TypedExec, PlacesX, Counts, Held, Working,
     Task, Request, Idle, Cells, Eldest, Pinned, TypedFlags, Tracking, Mapped, Overfull, Room,
     TypedSeqs
<1> QED BY <1>1, <1>2, <1>3, <1>4, <1>5

LEMMA LookupInv == ASSUME IInv, Lookup PROVE IInv'
<1>0. LookupResult
  BY LookupEffect DEF IInv
<1>1. cur' \in Cell
  BY <1>0 DEF Fresh, LookupResult
<1> USE CacheAssumption DEF IInv, Types, Go, Closer, LookupResult, taskVars, askVars, closeVars,
   histVars, faultVars
<1>2. Types'
  <2>1. TypedCells'
    <3>1. page' \in [Cell -> {"none", "live", "lost", "orphan"}]
      BY <1>0, <1>1 DEF TypedCells
    <3>2. locks' \in [Cell -> Int]
      BY <1>0, <1>1 DEF TypedCells
    <3>3. dropped' \subseteq Cell /\ late' \subseteq Cell /\ edited' \subseteq Cell /\ shown' = shown
      BY <1>0, <1>1 DEF TypedCells
    <3> QED BY <3>1, <3>2, <3>3 DEF TypedCells
  <2>2. TypedExec'
    BY <1>0 DEF TypedExec, PlacesX, TypedSeqs, Busy, Decoding, Task, Idle, Counts, Held, Working, Fresh
  <2>3. TypedSeqs'
    BY <1>0 DEF TypedSeqs
  <2>4. TypedFlags'
    BY <1>0 DEF TypedFlags
  <2>5. TypedBounds'
    BY <1>0 DEF TypedBounds
  <2>6. PlacesX'
    BY <1>0 DEF TypedExec, TypedSeqs, PlacesX, Busy, Decoding, Task, Request, Fresh
  <2>7. PlacesC'
    BY <1>0 DEF PlacesC, TypedFlags
  <2> QED BY <2>1, <2>2, <2>3, <2>4, <2>5, <2>6, <2>7
<1>3. Counts'
  <2> USE DEF Counts, Counted, Victim, Held, Working, Closing, TypedCells
  <2>1. victim = None /\ victim' = None /\ cpc' = cpc /\ visit' = visit
    BY <1>0
  <2>2. CASE UNCHANGED <<page, locks>> /\ ~IsInvalid(cur') /\ xpc' = "get"
    <3>1. locks[cur'] >= 0
      BY <1>1, <2>1, <2>2, CacheAssumption DEF IsInvalid, CanAccess
    <3> QED BY <1>1, <2>1, <2>2, <3>1
  <2>3. CASE /\ cur' \in Fresh /\ locks' = [locks EXCEPT ![cur'] = 0] /\ xpc' \in {"evict", "get"}
             /\ page' = [page EXCEPT ![cur'] = IF document = "null" THEN "orphan" ELSE "none"]
    <3>1. ~Closing(cur')
      BY <2>3 DEF Fresh, CanAccess
    <3>2. Counted'
      BY <1>1, <2>1, <2>3, <3>1
    <3>3. Victim' /\ Held'
      BY <1>1, <2>1, <2>3
    <3> QED BY <3>2, <3>3
  <2> QED BY <1>0, <2>2, <2>3
<1>4. Tracking'
  <2> USE DEF Tracking
  <2>1. Mapped'
    <3> USE DEF Holding, Eldest
    <3>1. Cells' \cap dropped' = {}
      BY <1>0 DEF Mapped
    <3>2. xpc' \in Holding => cur' \notin dropped'
      BY <1>0 DEF Mapped
    <3>3. cur' \in Cells' /\ xpc' \in {"evict", "get"}
      BY <1>0
    <3>4. xpc' = "evict" => Eldest' # cur'
      <4>1. ASSUME xpc' = "evict" PROVE cur' \in Fresh /\ Len(order') = Len(Kept) + 1 /\ Len(order') > getCacheSize
                                       /\ (Kept # <<>> => Eldest' \in Cells)
        BY <1>0, <4>1
      <4>2. Kept \in Seq(Entry)
        BY KeptFacts DEF TypedSeqs
      <4>3. ASSUME xpc' = "evict" PROVE Kept # <<>>
        BY <4>1, <4>2, <4>3, SizeFacts
      <4> QED BY <4>1, <4>3 DEF Fresh
    <3> QED BY <3>1, <3>2, <3>3, <3>4 DEF Mapped
  <2>2. Reached'
    <3> USE DEF Holding, Eldest
    <3>1. ASSUME NEW c \in Cell, page'[c] = "live", c \notin dropped' \cup late'
          PROVE  page[c] = "live" /\ c \notin dropped \cup late /\ ~IsInvalid(c)
      <4>1. CASE UNCHANGED <<page, dropped, late>>
        BY <3>1, <4>1 DEF IsInvalid
      <4>2. CASE /\ cur' \in Fresh /\ page' = [page EXCEPT ![cur'] = IF document = "null" THEN "orphan" ELSE "none"]
                 /\ dropped' = dropped \ {cur'} /\ late' = late \ {cur'}
        <5>1. c # cur'
          BY <3>1, <4>2 DEF TypedCells
        <5> QED BY <3>1, <4>2, <5>1 DEF TypedCells, IsInvalid
      <4> QED BY <1>0, <4>1, <4>2
    <3>2. {c \in Cells : ~IsInvalid(c)} \subseteq Cells'
      BY <1>0
    <3> QED BY <1>0, <3>1, <3>2 DEF Reached
  <2> QED BY <2>1, <2>2
<1>5. Promises'
  <2> USE DEF Promises
  <2>1. Cancels'
    BY <1>0 DEF Promises, Cancels, TypedCells, TypedExec, PlacesX, PlacesC, Decoding, Task, Request, Idle
  <2>2. Quiet'
    BY <1>0 DEF Promises, Quiet, PlacesC, PlacesX, TypedFlags
  <2>3. Handles'
    <3>1. ASSUME NEW c \in Cell, page'[c] = "none"
          PROVE  page[c] = "none" \/ c \in Fresh
      <4>1. CASE UNCHANGED page
        BY <3>1, <4>1
      <4>2. CASE cur' \in Fresh /\ page' = [page EXCEPT ![cur'] = IF document = "null" THEN "orphan" ELSE "none"]
        <5>1. c # cur' => page'[c] = page[c]
          BY <4>2
        <5> QED BY <3>1, <4>2, <5>1
      <4> QED BY <1>0, <4>1, <4>2
    <3>2. ASSUME NEW c \in Fresh
          PROVE  /\ \A p \in Page : shown[p] # c
                 /\ \A i \in 1..Len(asked) : asked[i].target # c
                 /\ task.target # c
      BY DEF Fresh
    <3> QED BY <1>0, <3>1, <3>2 DEF Handles
  <2>4. NativeCallsSafe'
    BY <1>0 DEF Promises, NativeCallsSafe, TypedBounds, TypedExec, PlacesX, PlacesC, Counts, Held,
       Working
  <2>5. SecondTapFindsPage'
    BY <1>0 DEF Promises, SecondTapFindsPage, TypedFlags
  <2> QED BY <2>1, <2>2, <2>3, <2>4, <2>5
<1>6. Sizes'
  <2> USE DEF Sizes
  <2>1. Unlocked'
    BY <1>0 DEF Sizes, Unlocked, Decoded, Decoding, TypedCells, TypedExec, PlacesX, Counts, Held,
       Working, Task, Request, Idle, Eldest
  <2>2. Pinned'
    BY <1>0 DEF Sizes, Pinned, Decoded, Decoding, TypedCells, TypedExec, TypedFlags, PlacesX,
       Counts, Held, Working, Tracking, Mapped, Eldest
  <2>3. Overfull'
    <3> USE DEF Decoded, Decoding, Eldest
    <3>1. xpc = "lookup" /\ UNCHANGED unpinned /\ order \in Seq(Entry) /\ order' \in Seq(Entry)
      BY <1>0 DEF TypedSeqs
    <3>2. /\ Kept \in Seq(Entry) /\ Len(Kept) <= Len(order)
          /\ order # <<>> /\ ~IsInvalid(Eldest) => Kept # <<>> /\ Head(Kept) = Head(order)
          /\ order # <<>> /\ IsInvalid(Eldest) => Len(Kept) < Len(order)
      BY <3>1, KeptFacts
    <3>0. widest \in Nat \ {0} /\ getCacheSize \in Nat /\ getCacheSize <= widest /\ widest' = widest
      BY <1>0, SizeFacts DEF TypedBounds
    <3>3. ASSUME ~isRecycled, Len(Kept) > widest
          PROVE  Kept # <<>> /\ ((Head(Kept).cell \in edited /\ Head(Kept).cell \in Cells) \/ unpinned)
      <4>1. order # <<>> /\ Kept # <<>> /\ Len(order) > widest
        BY <3>0, <3>1, <3>2, <3>3
      <4>2. Eldest \in edited \/ unpinned
        BY <3>1, <3>3, <4>1 DEF Overfull, Room
      <4>3. Eldest \in Cells
        BY <3>1, <4>1, EldestFacts
      <4>4. CASE IsInvalid(Eldest)
        BY <3>1, <3>3, <4>1, <4>2, <4>3, <4>4 DEF Pinned, IsInvalid, TypedCells
      <4>5. CASE ~IsInvalid(Eldest)
        <5>1. Head(Kept).cell = Eldest
          BY <3>2, <4>1, <4>5
        <5> QED BY <4>1, <4>2, <4>3, <5>1
      <4> QED BY <4>4, <4>5
    <3>4. CASE order' = Kept /\ xpc' = "get" /\ UNCHANGED edited
      <4>1. Kept # <<>> => Eldest' = Head(Kept).cell
        BY <3>4
      <4>2. isRecycled' = isRecycled
        BY <1>0
      <4> QED BY <3>0, <3>1, <3>3, <3>4, <4>1, <4>2 DEF Overfull, Room
    <3>5. CASE /\ cur' \in Fresh /\ Len(order') = Len(Kept) + 1
               /\ Kept # <<>> => Eldest' = Head(Kept).cell /\ Eldest' \in Cells
               /\ edited' = edited \ {cur'} /\ xpc' = IF Len(order') > getCacheSize THEN "evict" ELSE "get"
      <4>0. isRecycled' = isRecycled
        BY <1>0
      <4>1. ASSUME Len(order') > widest + 1 PROVE Len(Kept) > widest
        BY <3>0, <3>2, <3>5, <4>1
      <4>2. cur' \notin Cells
        BY <3>5 DEF Fresh
      <4>3. Len(order') \in Nat
        BY <3>1
      <4>4. ~isRecycled /\ Len(order') > widest + 1 => Eldest' \in edited' \/ unpinned'
        BY <3>1, <3>3, <3>5, <4>1, <4>2
      <4> QED BY <3>0, <3>5, <4>0, <4>3, <4>4 DEF Overfull, Room
    <3> QED BY <1>0, <3>4, <3>5
  <2> QED BY <2>1, <2>2, <2>3
<1> QED BY <1>2, <1>3, <1>4, <1>5, <1>6

LEMMA EvictInv == ASSUME IInv, Evict PROVE IInv'
<1>0. EvictResult
  BY EvictEffect DEF IInv
<1> USE CacheAssumption DEF IInv, Types, Go, Closer, EvictResult, taskVars, askVars, closeVars,
   histVars, faultVars
<1>1. Types'
  BY <1>0 DEF TypedCells, TypedExec, TypedSeqs, PlacesX, PlacesC, Counts, Held, Victim, Working,
     Task, Request, Busy, Decoding, Idle, TypedFlags, TypedBounds, Types
<1>2. Counts'
  BY <1>0 DEF Counts, Counted, Victim, Held, Working, Closing, TypedCells, TypedExec, PlacesC,
     IsInvalid, CanAccess
<1>3. Tracking'
  <2> USE DEF Tracking
  <2>1. Mapped'
    <3> USE DEF Holding, Eldest
    <3>1. Cells' \cap dropped' = {} /\ (xpc' = "oomfree" => order' = <<>>) /\ (xpc' \in Holding => cur' \notin dropped')
      BY <1>0 DEF Mapped
    <3>2. /\ xpc' \in {"evict", "evictwait", "evicting", "get"} => cur' \in Cells' \/ isRecycled'
          /\ xpc' = "evictwait" => isRecycled'
      BY <1>0 DEF Mapped, PlacesC
    <3>3. xpc' = "evict" /\ order' # <<>> => Eldest' # cur'
      BY <1>0 DEF Mapped
    <3>4. xpc' = "evicting" => victim' # cur' /\ (order' # <<>> => Eldest' = victim')
      BY <1>0 DEF Mapped
    <3> QED BY <3>1, <3>2, <3>3, <3>4 DEF Mapped
  <2>2. Reached'
    <3> USE DEF Holding, Eldest
    <3> SUFFICES ASSUME NEW c \in Cell, page[c] = "live", c \notin dropped \cup late
                 PROVE  c \in Cells' /\ (cpc \in {"visit", "free"} => c \in Range(visit))
      BY <1>0 DEF Reached
    <3>1. c \in Cells /\ (cpc \in {"visit", "free"} => c \in Range(visit)) /\ ~IsInvalid(c)
      BY DEF Reached, IsInvalid
    <3> QED BY <1>0, <3>1
  <2> QED BY <2>1, <2>2
<1>4. Promises'
  BY <1>0 DEF Promises, Cancels, TypedCells, TypedExec, PlacesX, PlacesC, Decoding, Task, Request,
     Idle, Quiet, TypedFlags, Handles, Busy, NativeCallsSafe, TypedBounds, Counts, Held, Working,
     SecondTapFindsPage
<1>5. Sizes'
  <2> USE DEF Sizes
  <2>1. Unlocked'
    BY <1>0 DEF Sizes, Unlocked, Decoded, Decoding, TypedCells, TypedExec, PlacesX, Counts, Held,
       Working, Task, Request, Idle, Eldest
  <2>2. Pinned'
    BY <1>0 DEF Sizes, Pinned, Decoded, Decoding, TypedCells, TypedExec, TypedFlags, PlacesX,
       Counts, Held, Working, Tracking, Mapped, Eldest
  <2>3. Overfull'
    <3> USE DEF Decoded, Decoding, Eldest
    <3>1. xpc = "evict" /\ UNCHANGED <<edited, unpinned, page, widest, isRecycled>> /\ widest \in Nat
      BY <1>0 DEF TypedBounds
    <3>2. order \in Seq(Entry) /\ order' \in Seq(Entry) /\ Len(order) \in Nat
      BY <1>0 DEF TypedSeqs
    <3>3. ~isRecycled /\ Len(order) > widest + 1 => Eldest \in edited \/ unpinned
      BY <3>1 DEF Overfull, Room
    <3>4. CASE /\ xpc' = "get" /\ UNCHANGED order
               /\ order # <<>> => Eldest \in Cell /\ ~IsInvalid(Eldest) /\ locks[Eldest] > 0
      <4>1. ASSUME Len(order) > widest PROVE Eldest \in edited
        <5>1. order # <<>>
          BY <3>1, <3>2, <4>1
        <5>2. Eldest \in Cell /\ locks[Eldest] > 0 /\ ~Decoded(Eldest) /\ locks[Eldest] \in Int
          BY <3>1, <3>4, <5>1 DEF TypedCells
        <5> QED BY <3>1, <5>2 DEF Unlocked
      <4> QED BY <3>1, <3>4, <4>1 DEF Overfull, Room
    <3>5. CASE /\ xpc' = "get" /\ order # <<>> /\ Eldest \in Cell /\ IsInvalid(Eldest)
               /\ Len(order') = Len(order) - 1
      <4>1. ASSUME ~isRecycled, Len(order') > widest PROVE unpinned
        <5>1. Len(order) > widest + 1
          BY <3>1, <3>2, <3>5, <4>1
        <5>2. Eldest \in Cells /\ page[Eldest] # "live"
          BY <3>2, <3>5, EldestFacts DEF IsInvalid
        <5> QED BY <3>1, <3>3, <3>5, <4>1, <5>1, <5>2 DEF Pinned
      <4> QED BY <3>1, <3>5, <4>1 DEF Overfull, Room
    <3>6. CASE xpc' = "evicting" /\ UNCHANGED order
      BY <3>1, <3>3, <3>6 DEF Overfull, Room
    <3>7. CASE xpc' = "evictwait" /\ cpc = "free"
      BY <3>1, <3>7 DEF Overfull, PlacesC
    <3> QED BY <1>0, <3>4, <3>5, <3>6, <3>7
  <2> QED BY <2>1, <2>2, <2>3
<1> QED BY <1>1, <1>2, <1>3, <1>4, <1>5

LEMMA EvictWaitedInv == ASSUME IInv, EvictWaited PROVE IInv'
<1> USE CacheAssumption DEF IInv, Types, Go, Closer, EvictWaited, mapVars, taskVars, askVars, closeVars,
   histVars, faultVars
<1>1. Types'
  BY DEF TypedCells, TypedExec, TypedSeqs, PlacesX, PlacesC, Counts, Held, Victim, Working, Task,
     Request, Busy, Decoding, Idle, TypedFlags, TypedBounds, Cells, Types
<1>2. Counts'
  BY DEF Counts, Counted, Victim, Held, Working, Closing, TypedCells, TypedExec, PlacesC
<1>3. Tracking'
  BY DEF Tracking, Mapped, Holding, TypedCells, TypedExec, PlacesX, PlacesC, Cells, Eldest, Reached
<1>4. Promises'
  BY DEF Promises, Cancels, TypedCells, TypedExec, PlacesX, PlacesC, Decoding, Task, Request, Idle,
     Quiet, TypedFlags, Handles, Busy, NativeCallsSafe, TypedBounds, Counts, Held, Working,
     SecondTapFindsPage
<1>5. Sizes'
  BY DEF Sizes, Unlocked, Decoded, Decoding, TypedCells, TypedExec, PlacesX, Counts, Held, Working,
     Task, Request, Idle, Cells, Eldest, Pinned, TypedFlags, Tracking, Mapped, Overfull, Room,
     TypedSeqs
<1> QED BY <1>1, <1>2, <1>3, <1>4, <1>5

LEMMA EvictEndsInv == ASSUME IInv, EvictEnds PROVE IInv'
<1>0. EvictEndsResult
  BY EvictEndsEffect DEF IInv
<1> USE CacheAssumption DEF IInv, Types, Go, Closer, EvictEndsResult, taskVars, askVars, closeVars,
   histVars, faultVars
<1>1. Types'
  BY <1>0 DEF TypedCells, TypedExec, TypedSeqs, PlacesX, PlacesC, Counts, Held, Victim, Working,
     Task, Request, Busy, Decoding, Idle, TypedFlags, TypedBounds, Types
<1>2. Counts'
  BY <1>0 DEF Counts, Counted, Victim, Held, Working, Closing, TypedCells, TypedExec, PlacesC
<1>3. Tracking'
  BY <1>0 DEF Tracking, Mapped, Holding, TypedCells, TypedExec, PlacesX, PlacesC, Eldest, Reached
<1>4. Promises'
  BY <1>0 DEF Promises, Cancels, TypedCells, TypedExec, PlacesX, PlacesC, Decoding, Task, Request,
     Idle, Quiet, TypedFlags, Handles, Busy, NativeCallsSafe, TypedBounds, Counts, Held, Working,
     SecondTapFindsPage
<1>5. Sizes'
  <2> USE DEF Sizes
  <2>1. Unlocked'
    BY <1>0 DEF Sizes, Unlocked, Decoded, Decoding, TypedCells, TypedExec, PlacesX, Counts, Held,
       Working, Task, Request, Idle, Eldest
  <2>2. Pinned'
    BY <1>0 DEF Sizes, Pinned, Decoded, Decoding, TypedCells, TypedExec, TypedFlags, PlacesX,
       Counts, Held, Working, Tracking, Mapped, Eldest
  <2>3. Overfull'
    <3> USE DEF Decoded, Decoding, Eldest
    <3>1. /\ xpc = "evicting" /\ xpc' = "get" /\ victim \in Cell /\ widest \in Nat
          /\ UNCHANGED <<edited, unpinned, widest, isRecycled>>
      BY <1>0 DEF TypedBounds
    <3>2. order \in Seq(Entry) /\ order' \in Seq(Entry) /\ Len(order') <= Len(order)
      BY <1>0 DEF TypedSeqs
    <3>3. ASSUME ~isRecycled, Len(order') > widest PROVE unpinned
      <4>1. order # <<>>
        BY <3>1, <3>2, <3>3
      <4>2. Eldest = victim /\ Eldest \in Cells
        BY <3>1, <3>2, <4>1, EldestFacts DEF Tracking, Mapped
      <4>3. Len(order) > widest + 1
        BY <1>0, <3>1, <3>2, <3>3, <4>1, <4>2
      <4>4. victim \in edited \/ unpinned
        BY <3>1, <3>3, <4>2, <4>3 DEF Overfull, Room
      <4>5. ~Decoded(victim) /\ locks[victim] <= 0 /\ locks[victim] \in Int
        BY <3>1 DEF Unlocked, TypedCells
      <4> QED BY <3>1, <3>3, <4>2, <4>4, <4>5 DEF Pinned
    <3> QED BY <3>1, <3>3 DEF Overfull, Room
  <2> QED BY <2>1, <2>2, <2>3
<1> QED BY <1>1, <1>2, <1>3, <1>4, <1>5

LEMMA GetPageInv == ASSUME IInv, GetPage PROVE IInv'
<1> USE CacheAssumption DEF IInv, Types, Go, Closer, GetPage, WithPage, Locked, mapVars, taskVars,
   askVars, closeVars, histVars, faultVars
<1>1. Types'
  BY DEF TypedCells, TypedExec, TypedSeqs, PlacesX, PlacesC, Counts, Held, Victim, Working, Task,
     Request, Busy, Decoding, Idle, TypedFlags, TypedBounds, Cells, Types
<1>2. Counts'
  BY DEF Counts, Counted, Victim, Held, Working, Closing, TypedCells, TypedExec, PlacesC
<1>3. Tracking'
  BY DEF Tracking, Mapped, Holding, TypedCells, TypedExec, PlacesX, PlacesC, Cells, Eldest, Reached
<1>4. Promises'
  BY DEF Promises, Cancels, TypedCells, TypedExec, PlacesX, PlacesC, Decoding, Task, Request, Idle,
     Quiet, TypedFlags, Handles, Busy, NativeCallsSafe, TypedBounds, Counts, Held, Working,
     SecondTapFindsPage
<1>5. Sizes'
  BY DEF Sizes, Unlocked, Decoded, Decoding, TypedCells, TypedExec, PlacesX, Counts, Held, Working,
     Task, Request, Idle, Cells, Eldest, Pinned, TypedFlags, Tracking, Mapped, Overfull, Room,
     TypedSeqs
<1> QED BY <1>1, <1>2, <1>3, <1>4, <1>5

LEMMA OpenPageInv == ASSUME IInv, OpenPage PROVE IInv'
<1> USE CacheAssumption DEF IInv, Types, Go, Closer, OpenPage, WithPage, NoPage, Locked, mapVars,
   taskVars, askVars, closeVars, histVars, faultVars
<1>1. Types'
  <2>1. TypedCells'
    <3>1. cur \in Cell /\ xpc = "get"
      BY DEF Counts, Held
    <3>2. page' \in {page, [page EXCEPT ![cur] = "live"]} /\ late' \in {late, late \cup {cur}}
      OBVIOUS
    <3>3. locks' \in {locks, [locks EXCEPT ![cur] = @ + 1]} /\ edited' \in {edited, edited \cup {cur}}
      OBVIOUS
    <3>4. shown' = shown /\ dropped' = dropped
      OBVIOUS
    <3>5. page' \in [Cell -> {"none", "live", "lost", "orphan"}] /\ locks' \in [Cell -> Int]
      BY <3>1, <3>2, <3>3 DEF TypedCells
    <3>6. late' \subseteq Cell /\ edited' \subseteq Cell
      BY <3>1, <3>2, <3>3 DEF TypedCells
    <3> QED BY <3>4, <3>5, <3>6 DEF TypedCells
  <2>2. TypedExec'
    BY DEF TypedExec, PlacesX, TypedSeqs, Busy, Decoding, Task, Idle, Counts, Held, Working
  <2>3. TypedSeqs'
    BY DEF TypedSeqs
  <2>4. TypedFlags'
    BY DEF TypedFlags
  <2>5. TypedBounds'
    BY DEF TypedBounds
  <2>6. PlacesX'
    BY DEF TypedExec, TypedSeqs, PlacesX, Busy, Decoding, Task, Request, Cells
  <2>7. PlacesC'
    BY DEF PlacesC, TypedFlags
  <2> QED BY <2>1, <2>2, <2>3, <2>4, <2>5, <2>6, <2>7
<1>2. Counts'
  BY DEF Counts, Counted, Victim, Held, Working, Closing, TypedCells, TypedExec, PlacesC
<1>3. Tracking'
  BY DEF Tracking, Mapped, Holding, TypedCells, TypedExec, PlacesX, PlacesC, Cells, Eldest, Reached
<1>4. Promises'
  BY DEF Promises, Cancels, TypedCells, TypedExec, PlacesX, PlacesC, Decoding, Task, Request, Idle,
     Quiet, TypedFlags, Handles, Busy, NativeCallsSafe, TypedBounds, Counts, Held, Working,
     SecondTapFindsPage
<1>5. Sizes'
  BY DEF Sizes, Unlocked, Decoded, Decoding, TypedCells, TypedExec, PlacesX, Counts, Held, Working,
     Task, Request, Idle, Cells, Eldest, Pinned, TypedFlags, Tracking, Mapped, Overfull, Room,
     TypedSeqs
<1> QED BY <1>1, <1>2, <1>3, <1>4, <1>5

LEMMA OpenFailsInv == ASSUME IInv, OpenFails PROVE IInv'
<1> USE CacheAssumption DEF IInv, Types, Go, Closer, Allowed, OpenFails, NoPage, mapVars, taskVars, askVars,
   closeVars, histVars, faultVars
<1>1. Types'
  BY DEF TypedCells, TypedExec, TypedSeqs, PlacesX, PlacesC, Counts, Held, Victim, Working, Task,
     Request, Busy, Decoding, Idle, TypedFlags, TypedBounds, Cells, Types
<1>2. Counts'
  BY DEF Counts, Counted, Victim, Held, Working, Closing, TypedCells, TypedExec, PlacesC
<1>3. Tracking'
  BY DEF Tracking, Mapped, Holding, TypedCells, TypedExec, PlacesX, PlacesC, Cells, Eldest, Reached
<1>4. Promises'
  BY DEF Promises, Cancels, TypedCells, TypedExec, PlacesX, PlacesC, Decoding, Task, Request, Idle,
     Quiet, TypedFlags, Handles, Busy, NativeCallsSafe, TypedBounds, Counts, Held, Working,
     SecondTapFindsPage
<1>5. Sizes'
  BY DEF Sizes, Unlocked, Decoded, Decoding, TypedCells, TypedExec, PlacesX, Counts, Held, Working,
     Task, Request, Idle, Cells, Eldest, Pinned, TypedFlags, Tracking, Mapped, Overfull, Room,
     TypedSeqs
<1> QED BY <1>1, <1>2, <1>3, <1>4, <1>5

LEMMA CheckTaskInv == ASSUME IInv, NEW from, NEW place, CheckTask(from, place),
           <<from, place>> \in {<<"check", "render">>, <<"check2", "read">>} PROVE IInv'
<1> USE CacheAssumption DEF IInv, Types, Go, Closer, CheckTask, mapVars, taskVars, askVars,
   closeVars, histVars, faultVars
<1>1. Types'
  BY DEF TypedCells, TypedExec, TypedSeqs, PlacesX, PlacesC, Counts, Held, Victim, Working, Task,
     Request, Busy, Decoding, Idle, TypedFlags, TypedBounds, Cells, Types
<1>2. Counts'
  BY DEF Counts, Counted, Victim, Held, Working, Closing, TypedCells, TypedExec, PlacesC
<1>3. Tracking'
  BY DEF Tracking, Mapped, Holding, TypedCells, TypedExec, PlacesX, PlacesC, Cells, Eldest, Reached
<1>4. Promises'
  BY DEF Promises, Cancels, TypedCells, TypedExec, PlacesX, PlacesC, Decoding, Task, Request, Idle,
     Quiet, TypedFlags, Handles, Busy, NativeCallsSafe, TypedBounds, Counts, Held, Working,
     SecondTapFindsPage
<1>5. Sizes'
  BY DEF Sizes, Unlocked, Decoded, Decoding, TypedCells, TypedExec, PlacesX, Counts, Held, Working,
     Task, Request, Idle, Cells, Eldest, Pinned, TypedFlags, Tracking, Mapped, Overfull, Room,
     TypedSeqs
<1> QED BY <1>1, <1>2, <1>3, <1>4, <1>5

LEMMA EnterRenderInv == ASSUME IInv, EnterRender PROVE IInv'
<1> USE CacheAssumption DEF IInv, Types, Go, Closer, EnterRender, mapVars, taskVars, askVars,
   closeVars, histVars, faultVars
<1>1. Types'
  BY DEF TypedCells, TypedExec, TypedSeqs, PlacesX, PlacesC, Counts, Held, Victim, Working, Task,
     Request, Busy, Decoding, Idle, TypedFlags, TypedBounds, Cells, Types
<1>2. Counts'
  BY DEF Counts, Counted, Victim, Held, Working, Closing, TypedCells, TypedExec, PlacesC
<1>3. Tracking'
  BY DEF Tracking, Mapped, Holding, TypedCells, TypedExec, PlacesX, PlacesC, Cells, Eldest, Reached
<1>4. Promises'
  BY DEF Promises, Cancels, TypedCells, TypedExec, PlacesX, PlacesC, Decoding, Task, Request, Idle,
     Quiet, TypedFlags, Handles, Busy, NativeCallsSafe, TypedBounds, Counts, Held, Working,
     SecondTapFindsPage
<1>5. Sizes'
  BY DEF Sizes, Unlocked, Decoded, Decoding, TypedCells, TypedExec, PlacesX, Counts, Held, Working,
     Task, Request, Idle, Cells, Eldest, Pinned, TypedFlags, Tracking, Mapped, Overfull, Room,
     TypedSeqs
<1> QED BY <1>1, <1>2, <1>3, <1>4, <1>5

LEMMA RenderInv == ASSUME IInv, Render PROVE IInv'
<1> USE CacheAssumption DEF IInv, Types, Go, Closer, Render, Native, mapVars, taskVars, askVars,
   closeVars, histVars, faultVars
<1>1. Types'
  <2>1. TypedCells'
    BY DEF TypedCells, TypedExec, TypedSeqs, PlacesX, PlacesC, Counts, Held, Victim, Working, Task,
       Request, Busy, Decoding
  <2>2. TypedExec'
    BY DEF TypedExec, PlacesX, TypedSeqs, Busy, Decoding, Task, Idle, Counts, Held, Working
  <2>3. TypedSeqs'
    BY DEF TypedSeqs
  <2>4. TypedFlags'
    BY DEF TypedFlags
  <2>5. TypedBounds'
    BY DEF TypedBounds
  <2>6. PlacesX'
    BY DEF TypedExec, TypedSeqs, PlacesX, Busy, Decoding, Task, Request, Cells
  <2>7. PlacesC'
    BY DEF PlacesC, TypedFlags
  <2> QED BY <2>1, <2>2, <2>3, <2>4, <2>5, <2>6, <2>7
<1>2. Counts'
  BY DEF Counts, Counted, Victim, Held, Working, Closing, TypedCells, TypedExec, PlacesC
<1>3. Tracking'
  BY DEF Tracking, Mapped, Holding, TypedCells, TypedExec, PlacesX, PlacesC, Cells, Eldest, Reached
<1>4. Promises'
  <2> USE DEF Promises
  <2>1. Cancels'
    BY DEF Promises, Cancels, TypedCells, TypedExec, PlacesX, PlacesC, Decoding, Task, Request, Idle
  <2>2. Quiet'
    BY DEF Promises, Quiet, PlacesC, PlacesX, TypedFlags
  <2>3. Handles'
    BY DEF Promises, Handles, TypedCells, TypedExec, TypedFlags, PlacesX, Task, Request, Idle, Busy
  <2>4. NativeCallsSafe'
    <3>1. wild' # wild => cur \in Cell /\ page[cur] = "live" /\ document # "open"
      BY DEF TypedExec, Counts, Held, Working
    <3>2. document # "open" => isRecycled /\ cpc \notin {"idle", "failed", "aborted"} /\ visit = <<>>
      BY DEF PlacesC
    <3>3. straggler = "none" => wild' = wild
      BY <3>1, <3>2, CellsEmpty DEF Cancels
    <3>4. wild' # wild => isRecycled
      BY <3>1, <3>2
    <3>5. UNCHANGED <<straggler, isRecycled>>
      OBVIOUS
    <3> QED BY <3>3, <3>4, <3>5 DEF NativeCallsSafe
  <2>5. SecondTapFindsPage'
    BY DEF Promises, SecondTapFindsPage, TypedFlags
  <2> QED BY <2>1, <2>2, <2>3, <2>4, <2>5
<1>5. Sizes'
  BY DEF Sizes, Unlocked, Decoded, Decoding, TypedCells, TypedExec, PlacesX, Counts, Held, Working,
     Task, Request, Idle, Cells, Eldest, Pinned, TypedFlags, Tracking, Mapped, Overfull, Room,
     TypedSeqs
<1> QED BY <1>1, <1>2, <1>3, <1>4, <1>5

LEMMA ReadPageInv == ASSUME IInv, ReadPage PROVE IInv'
<1> USE CacheAssumption DEF IInv, Types, Go, Closer, ReadPage, Native, mapVars, taskVars, askVars,
   closeVars, histVars, faultVars
<1>1. Types'
  <2>1. TypedCells'
    BY DEF TypedCells, TypedExec, TypedSeqs, PlacesX, PlacesC, Counts, Held, Victim, Working, Task,
       Request, Busy, Decoding
  <2>2. TypedExec'
    BY DEF TypedExec, PlacesX, TypedSeqs, Busy, Decoding, Task, Idle, Counts, Held, Working
  <2>3. TypedSeqs'
    BY DEF TypedSeqs
  <2>4. TypedFlags'
    BY DEF TypedFlags
  <2>5. TypedBounds'
    BY DEF TypedBounds
  <2>6. PlacesX'
    BY DEF TypedExec, TypedSeqs, PlacesX, Busy, Decoding, Task, Request, Cells
  <2>7. PlacesC'
    BY DEF PlacesC, TypedFlags
  <2> QED BY <2>1, <2>2, <2>3, <2>4, <2>5, <2>6, <2>7
<1>2. Counts'
  BY DEF Counts, Counted, Victim, Held, Working, Closing, TypedCells, TypedExec, PlacesC
<1>3. Tracking'
  BY DEF Tracking, Mapped, Holding, TypedCells, TypedExec, PlacesX, PlacesC, Cells, Eldest, Reached
<1>4. Promises'
  BY DEF Promises, Cancels, TypedCells, TypedExec, PlacesX, PlacesC, Decoding, Task, Request, Idle,
     Quiet, TypedFlags, Handles, Busy, NativeCallsSafe, TypedBounds, Counts, Held, Working,
     SecondTapFindsPage
<1>5. Sizes'
  BY DEF Sizes, Unlocked, Decoded, Decoding, TypedCells, TypedExec, PlacesX, Counts, Held, Working,
     Task, Request, Idle, Cells, Eldest, Pinned, TypedFlags, Tracking, Mapped, Overfull, Room,
     TypedSeqs
<1> QED BY <1>1, <1>2, <1>3, <1>4, <1>5

LEMMA UnlockInv == ASSUME IInv, Unlock PROVE IInv'
<1> USE CacheAssumption DEF IInv, Types, Go, Closer, Unlock, mapVars, taskVars, askVars, closeVars,
   histVars, faultVars
<1>1. Types'
  <2>1. TypedCells'
    BY DEF TypedCells, TypedExec, TypedSeqs, PlacesX, PlacesC, Counts, Held, Victim, Working, Task,
       Request, Busy, Decoding
  <2>2. TypedExec'
    BY DEF TypedExec, PlacesX, TypedSeqs, Busy, Decoding, Task, Idle, Counts, Held, Working
  <2>3. TypedSeqs'
    BY DEF TypedSeqs
  <2>4. TypedFlags'
    BY ZenonT(30) DEF TypedFlags
  <2>5. TypedBounds'
    BY DEF TypedBounds
  <2>6. PlacesX'
    BY DEF TypedExec, TypedSeqs, PlacesX, Busy, Decoding, Task, Request, Cells
  <2>7. PlacesC'
    BY DEF PlacesC, TypedFlags
  <2> QED BY <2>1, <2>2, <2>3, <2>4, <2>5, <2>6, <2>7
<1>2. Counts'
  BY DEF Counts, Counted, Victim, Held, Working, Closing, TypedCells, TypedExec, PlacesC
<1>3. Tracking'
  BY DEF Tracking, Mapped, Holding, TypedCells, TypedExec, PlacesX, PlacesC, Cells, Eldest, Reached
<1>4. Promises'
  BY DEF Promises, Cancels, TypedCells, TypedExec, PlacesX, PlacesC, Decoding, Task, Request, Idle,
     Quiet, TypedFlags, Handles, Busy, NativeCallsSafe, TypedBounds, Counts, Held, Working,
     SecondTapFindsPage
<1>5. Sizes'
  BY DEF Sizes, Unlocked, Decoded, Decoding, TypedCells, TypedExec, PlacesX, Counts, Held, Working,
     Task, Request, Idle, Cells, Eldest, Pinned, TypedFlags, Tracking, Mapped, Overfull, Room,
     TypedSeqs
<1> QED BY <1>1, <1>2, <1>3, <1>4, <1>5

LEMMA OutOfMemoryInv == ASSUME IInv, OutOfMemory PROVE IInv'
<1> USE CacheAssumption DEF IInv, Types, Go, Closer, Allowed, OutOfMemory, mapVars, taskVars, askVars,
   closeVars, histVars, faultVars
<1>1. Types'
  BY DEF TypedCells, TypedExec, TypedSeqs, PlacesX, PlacesC, Counts, Held, Victim, Working, Task,
     Request, Busy, Decoding, Idle, TypedFlags, TypedBounds, Cells, Types
<1>2. Counts'
  BY DEF Counts, Counted, Victim, Held, Working, Closing, TypedCells, TypedExec, PlacesX, PlacesC
<1>3. Tracking'
  BY DEF Tracking, Mapped, Holding, TypedCells, TypedExec, PlacesX, PlacesC, Cells, Eldest, Reached
<1>4. Promises'
  BY DEF Promises, Cancels, TypedCells, TypedExec, PlacesX, PlacesC, Decoding, Task, Request, Idle,
     Quiet, TypedFlags, Handles, Busy, NativeCallsSafe, TypedBounds, Counts, Held, Working,
     SecondTapFindsPage
<1>5. Sizes'
  BY DEF Sizes, Unlocked, Decoded, Decoding, TypedCells, TypedExec, PlacesX, Counts, Held, Working,
     Task, Request, Idle, Cells, Eldest, Pinned, TypedFlags, Tracking, Mapped, Overfull, Room,
     TypedSeqs
<1> QED BY <1>1, <1>2, <1>3, <1>4, <1>5

LEMMA PutNullInv == ASSUME IInv, PutNull PROVE IInv'
<1>0. PutNullResult
  BY PutNullEffect DEF IInv
<1> USE CacheAssumption DEF IInv, Types, Go, Closer, PutNullResult, taskVars, askVars, closeVars,
   histVars, faultVars
<1>1. Types'
  <2>1. TypedCells'
    BY <1>0 DEF TypedCells, TypedExec, TypedSeqs, PlacesX, PlacesC, Counts, Held, Victim, Working,
       Task, Request, Busy, Decoding
  <2>2. TypedExec'
    BY <1>0 DEF TypedExec, PlacesX, TypedSeqs, Busy, Decoding, Task, Idle, Counts, Held, Working
  <2>3. TypedSeqs'
    BY <1>0 DEF TypedSeqs
  <2>4. TypedFlags'
    BY <1>0, ZenonT(30) DEF TypedFlags
  <2>5. TypedBounds'
    BY <1>0 DEF TypedBounds
  <2>6. PlacesX'
    BY <1>0 DEF TypedExec, TypedSeqs, PlacesX, Busy, Decoding, Task, Request
  <2>7. PlacesC'
    BY <1>0 DEF PlacesC, TypedFlags
  <2> QED BY <2>1, <2>2, <2>3, <2>4, <2>5, <2>6, <2>7
<1>2. Counts'
  BY <1>0 DEF Counts, Counted, Victim, Held, Working, Closing, TypedCells, TypedExec, PlacesC, CanAccess
<1>3. Tracking'
  <2> USE DEF Tracking
  <2>1. UNCHANGED <<dropped, late, visit, cpc, cur, isRecycled>> /\ xpc' \in {"oomput", "putwait"}
    BY <1>0
  <2>2. /\ \A c \in Cell : c \in Cells' => c \in Cells
        /\ \A c \in Cell : page'[c] = "live" /\ c \in Cells => page[c] = "live" /\ c \in Cells'
        /\ \A c \in Cell : page'[c] = "live" => page[c] = "live"
    BY <1>0 DEF TypedCells
  <2>3. Mapped'
    BY <2>1, <2>2 DEF Mapped, Holding, TypedCells
  <2>4. Reached'
    BY <2>1, <2>2 DEF Reached
  <2> QED BY <2>3, <2>4
<1>4. Promises'
  <2> USE DEF Promises
  <2>1. Cancels'
    BY <1>0 DEF Promises, Cancels, TypedCells, TypedExec, PlacesX, PlacesC, Decoding, Task, Request, Idle
  <2>2. Quiet'
    BY <1>0 DEF Promises, Quiet, PlacesC, PlacesX, TypedFlags
  <2>3. Handles'
    <3>1. UNCHANGED <<shown, asked, task>>
      BY <1>0
    <3>2. CASE UNCHANGED page /\ pushed' \in {pushed, TRUE}
      <4>1. pushed => pushed'
        BY <3>2
      <4> QED BY <3>1, <3>2, <4>1 DEF Handles
    <3>3. CASE pushed' = TRUE
      BY <3>3 DEF Handles
    <3> QED BY <1>0, <3>2, <3>3
  <2>4. NativeCallsSafe'
    BY <1>0 DEF Promises, NativeCallsSafe, TypedBounds, TypedExec, PlacesX, PlacesC, Counts, Held,
       Working
  <2>5. SecondTapFindsPage'
    <3>1. missed' = missed /\ (pushed => pushed')
      <4>1. missed' = missed /\ pushed' \in {pushed, TRUE}
        BY <1>0
      <4>2. CASE pushed' = TRUE
        BY <4>1, <4>2
      <4>3. CASE pushed' = pushed
        BY <4>1, <4>3
      <4> QED BY <4>1, <4>2, <4>3
    <3> QED BY <3>1 DEF SecondTapFindsPage
  <2> QED BY <2>1, <2>2, <2>3, <2>4, <2>5
<1>5. Sizes'
  <2> USE DEF Sizes
  <2>1. Unlocked'
    BY <1>0 DEF Sizes, Unlocked, Decoded, Decoding, TypedCells, TypedExec, PlacesX, Counts, Held,
       Working, Task, Request, Idle, Eldest
  <2>2. Pinned'
    <3> USE DEF Decoded, Decoding, Eldest
    <3>1. /\ UNCHANGED <<cur, edited, locks, unpinned, isRecycled>>
          /\ xpc = "oomput" /\ xpc' \in {"oomput", "putwait"}
      BY <1>0
    <3>2. CASE Cells' = Cells \cup {None} /\ UNCHANGED page
      BY <3>1, <3>2 DEF Pinned
    <3>3. ASSUME NEW x \in Cell, Cells' \cup {x} = Cells \cup {None}, IsInvalid(x) \/ locks[x] <= 0,
                 page' = IF page[x] = "live" THEN [page EXCEPT ![x] = "none"] ELSE page
          PROVE  Pinned'
      <4>1. \A c \in Cell : c \in Cells' => c \in Cells
        BY <3>3
      <4>2. \A c \in Cell : c # x => page'[c] = page[c]
        BY <3>3
      <4>3. ~isRecycled /\ x \in Cells /\ x \in edited => unpinned
        <5>1. xpc # "crashed" /\ locks[x] \in Int
          BY <1>0 DEF TypedCells
        <5> QED BY <3>3, <5>1 DEF Pinned, IsInvalid
      <4> QED BY <3>1, <4>1, <4>2, <4>3 DEF Pinned
    <3> QED BY <1>0, <3>2, <3>3
  <2>3. Overfull'
    BY <1>0 DEF Sizes, Overfull, Room, Decoded, Decoding, TypedFlags, TypedSeqs, Eldest
  <2> QED BY <2>1, <2>2, <2>3
<1> QED BY <1>1, <1>2, <1>3, <1>4, <1>5

LEMMA ClearNullsInv == ASSUME IInv, ClearNulls PROVE IInv'
<1> USE CacheAssumption DEF IInv, Types, Go, Closer, ClearNulls, Clear, mapVars, taskVars, askVars,
   closeVars, histVars, faultVars
<1>1. Types'
  <2>1. TypedCells'
    BY CellsTyped DEF TypedCells, TypedExec, TypedSeqs, PlacesX, PlacesC, Counts, Held, Victim,
       Working, Task, Request, Busy, Decoding
  <2>2. TypedExec'
    BY DEF TypedExec, PlacesX, TypedSeqs, Busy, Decoding, Task, Idle, Counts, Held, Working
  <2>3. TypedSeqs'
    BY CellsCleared DEF TypedSeqs
  <2>4. TypedFlags'
    BY DEF TypedFlags
  <2>5. TypedBounds'
    BY SizeFacts DEF TypedBounds
  <2>6. PlacesX'
    BY CellsCleared DEF TypedExec, TypedSeqs, PlacesX, Busy, Decoding, Task, Request
  <2>7. PlacesC'
    BY DEF PlacesC, TypedFlags
  <2> QED BY <2>1, <2>2, <2>3, <2>4, <2>5, <2>6, <2>7
<1>2. Counts'
  BY DEF Counts, Counted, Victim, Held, Working, Closing, TypedCells, TypedExec, PlacesC
<1>3. Tracking'
  BY DEF Tracking, Mapped, Holding, TypedCells, TypedExec, PlacesX, PlacesC, Cells, Eldest, Reached
<1>4. Promises'
  BY DEF Promises, Cancels, TypedCells, TypedExec, PlacesX, PlacesC, Decoding, Task, Request, Idle,
     Quiet, TypedFlags, Handles, Busy, NativeCallsSafe, TypedBounds, Counts, Held, Working,
     SecondTapFindsPage
<1>5. Sizes'
  <2> USE DEF Sizes
  <2>1. Unlocked'
    BY DEF Unlocked, Decoded, Decoding, TypedCells, TypedExec, PlacesX, Counts, Held, Working
  <2>2. Pinned'
    BY DEF Pinned, Decoded, Decoding, TypedCells, TypedExec, TypedFlags, PlacesX, PlacesC,
       Counts, Held, Working, Tracking, Mapped, Cells
  <2>3. Overfull'
    <3>1. order' = <<>> /\ widest' \in Nat
      BY SizeFacts DEF TypedBounds
    <3>2. Len(<<>>) = 0
      OBVIOUS
    <3> QED BY <3>1, <3>2 DEF Overfull, Room
  <2> QED BY <2>1, <2>2, <2>3
<1> QED BY <1>1, <1>2, <1>3, <1>4, <1>5

LEMMA FreeOwnInv == ASSUME IInv, FreeOwn PROVE IInv'
<1> USE CacheAssumption DEF IInv, Types, Go, Closer, FreeOwn, mapVars, taskVars, askVars,
   closeVars, histVars, faultVars
<1>1. Types'
  BY DEF TypedCells, TypedExec, TypedSeqs, PlacesX, PlacesC, Counts, Held, Victim, Working, Task,
     Request, Busy, Decoding, Idle, TypedFlags, TypedBounds, Cells, Types
<1>2. Counts'
  BY DEF Counts, Counted, Victim, Held, Working, Closing, TypedCells, TypedExec, PlacesC
<1>3. Tracking'
  BY DEF Tracking, Mapped, Holding, TypedCells, TypedExec, PlacesX, PlacesC, Cells, Eldest, Reached
<1>4. Promises'
  BY DEF Promises, Cancels, TypedCells, TypedExec, PlacesX, PlacesC, Decoding, Task, Request, Idle,
     Quiet, TypedFlags, Handles, Busy, NativeCallsSafe, TypedBounds, Counts, Held, Working,
     SecondTapFindsPage
<1>5. Sizes'
  BY DEF Sizes, Unlocked, Decoded, Decoding, TypedCells, TypedExec, PlacesX, Counts, Held, Working,
     Task, Request, Idle, Cells, Eldest, Pinned, TypedFlags, Tracking, Mapped, Overfull, Room,
     TypedSeqs
<1> QED BY <1>1, <1>2, <1>3, <1>4, <1>5

LEMMA EditInv == ASSUME IInv, Edit PROVE IInv'
<1> USE CacheAssumption DEF IInv, Types, Go, Closer, Edit, Native, mapVars, taskVars, askVars,
   closeVars, histVars, faultVars
<1>1. Types'
  <2>1. TypedCells'
    BY DEF TypedCells, TypedExec, TypedSeqs, PlacesX, PlacesC, Counts, Held, Victim, Working, Task,
       Request, Busy, Decoding
  <2>2. TypedExec'
    BY DEF TypedExec, PlacesX, TypedSeqs, Busy, Decoding, Task, Idle, Counts, Held, Working
  <2>3. TypedSeqs'
    BY DEF TypedSeqs
  <2>4. TypedFlags'
    BY DEF TypedFlags
  <2>5. TypedBounds'
    BY DEF TypedBounds
  <2>6. PlacesX'
    BY DEF TypedExec, TypedSeqs, PlacesX, Busy, Decoding, Task, Request, Cells
  <2>7. PlacesC'
    BY DEF PlacesC, TypedFlags
  <2> QED BY <2>1, <2>2, <2>3, <2>4, <2>5, <2>6, <2>7
<1>2. Counts'
  BY DEF Counts, Counted, Victim, Held, Working, Closing, TypedCells, TypedExec, PlacesC
<1>3. Tracking'
  BY DEF Tracking, Mapped, Holding, TypedCells, TypedExec, PlacesX, PlacesC, Cells, Eldest, Reached
<1>4. Promises'
  BY DEF Promises, Cancels, TypedCells, TypedExec, PlacesX, PlacesC, Decoding, Task, Request, Idle,
     Quiet, TypedFlags, Handles, Busy, NativeCallsSafe, TypedBounds, Counts, Held, Working,
     SecondTapFindsPage
<1>5. Sizes'
  BY DEF Sizes, Unlocked, Decoded, Decoding, TypedCells, TypedExec, PlacesX, Counts, Held, Working,
     Task, Request, Idle, Cells, Eldest, Pinned, TypedFlags, Tracking, Mapped, Overfull, Room,
     TypedSeqs
<1> QED BY <1>1, <1>2, <1>3, <1>4, <1>5

LEMMA DeleteInv == ASSUME IInv, Delete PROVE IInv'
<1> USE CacheAssumption DEF IInv, Types, Go, Closer, Delete, mapVars, taskVars, askVars, closeVars,
   histVars, faultVars
<1>1. Types'
  <2>1. TypedCells'
    BY DEF TypedCells, TypedExec, TypedSeqs, PlacesX, PlacesC, Counts, Held, Victim, Working, Task,
       Request, Busy, Decoding
  <2>2. TypedExec'
    BY DEF TypedExec, PlacesX, TypedSeqs, Busy, Decoding, Task, Idle, Counts, Held, Working
  <2>3. TypedSeqs'
    BY DEF TypedSeqs
  <2>4. TypedFlags'
    BY ZenonT(30) DEF TypedFlags
  <2>5. TypedBounds'
    BY DEF TypedBounds
  <2>6. PlacesX'
    BY DEF TypedExec, TypedSeqs, PlacesX, Busy, Decoding, Task, Request, Cells
  <2>7. PlacesC'
    BY DEF PlacesC, TypedFlags
  <2> QED BY <2>1, <2>2, <2>3, <2>4, <2>5, <2>6, <2>7
<1>2. Counts'
  BY DEF Counts, Counted, Victim, Held, Working, Closing, TypedCells, TypedExec, PlacesC
<1>3. Tracking'
  BY DEF Tracking, Mapped, Holding, TypedCells, TypedExec, PlacesX, PlacesC, Cells, Eldest, Reached
<1>4. Promises'
  <2> USE DEF Promises
  <2>1. Cancels'
    BY DEF Promises, Cancels, TypedCells, TypedExec, PlacesX, PlacesC, Decoding, Task, Request, Idle
  <2>2. Quiet'
    BY DEF Promises, Quiet, PlacesC, PlacesX, TypedFlags
  <2>3. Handles'
    BY DEF Promises, Handles, TypedCells, TypedExec, TypedFlags, PlacesX, Task, Request, Idle, Busy
  <2>4. NativeCallsSafe'
    BY DEF Promises, NativeCallsSafe, TypedBounds, TypedExec, PlacesX, PlacesC, Counts, Held, Working
  <2>5. SecondTapFindsPage'
    <3>1. task \in Task /\ task.kind = "delete"
      BY DEF PlacesX, Busy
    <3>2. task.target \in Cell
      BY <3>1 DEF Task, Request
    <3>3. page[task.target] = "none" => pushed
      BY <3>2 DEF Handles
    <3>4. missed' => missed \/ page[task.target] = "none"
      OBVIOUS
    <3>5. pushed' = pushed
      OBVIOUS
    <3> QED BY <3>3, <3>4, <3>5 DEF SecondTapFindsPage
  <2> QED BY <2>1, <2>2, <2>3, <2>4, <2>5
<1>5. Sizes'
  BY DEF Sizes, Unlocked, Decoded, Decoding, TypedCells, TypedExec, PlacesX, Counts, Held, Working,
     Task, Request, Idle, Cells, Eldest, Pinned, TypedFlags, Tracking, Mapped, Overfull, Room,
     TypedSeqs
<1> QED BY <1>1, <1>2, <1>3, <1>4, <1>5

LEMMA ClearPagesInv == ASSUME IInv, ClearPages PROVE IInv'
<1> USE CacheAssumption DEF IInv, Types, Go, Closer, ClearPages, Clear, mapVars, taskVars, askVars,
   closeVars, histVars, faultVars
<1>1. Types'
  <2>1. TypedCells'
    BY CellsTyped DEF TypedCells, TypedExec, TypedSeqs, PlacesX, PlacesC, Counts, Held, Victim,
       Working, Task, Request, Busy, Decoding
  <2>2. TypedExec'
    BY DEF TypedExec, PlacesX, TypedSeqs, Busy, Decoding, Task, Idle, Counts, Held, Working
  <2>3. TypedSeqs'
    BY CellsCleared DEF TypedSeqs
  <2>4. TypedFlags'
    BY DEF TypedFlags
  <2>5. TypedBounds'
    BY SizeFacts DEF TypedBounds
  <2>6. PlacesX'
    BY CellsCleared DEF TypedExec, TypedSeqs, PlacesX, Busy, Decoding, Task, Request
  <2>7. PlacesC'
    BY DEF PlacesC, TypedFlags
  <2> QED BY <2>1, <2>2, <2>3, <2>4, <2>5, <2>6, <2>7
<1>2. Counts'
  BY DEF Counts, Counted, Victim, Held, Working, Closing, TypedCells, TypedExec, PlacesC
<1>3. Tracking'
  BY DEF Tracking, Mapped, Holding, TypedCells, TypedExec, PlacesX, PlacesC, Cells, Eldest, Reached
<1>4. Promises'
  BY DEF Promises, Cancels, TypedCells, TypedExec, PlacesX, PlacesC, Decoding, Task, Request, Idle,
     Quiet, TypedFlags, Handles, Busy, NativeCallsSafe, TypedBounds, Counts, Held, Working,
     SecondTapFindsPage
<1>5. Sizes'
  <2> USE DEF Sizes
  <2>1. Unlocked'
    BY DEF Unlocked, Decoded, Decoding, TypedCells, TypedExec, PlacesX, Counts, Held, Working
  <2>2. Pinned'
    BY DEF Pinned, Decoded, Decoding, TypedCells, TypedExec, TypedFlags, PlacesX, PlacesC,
       Counts, Held, Working, Tracking, Mapped, Cells
  <2>3. Overfull'
    <3>1. order' = <<>> /\ widest' \in Nat
      BY SizeFacts DEF TypedBounds
    <3>2. Len(<<>>) = 0
      OBVIOUS
    <3> QED BY <3>1, <3>2 DEF Overfull, Room
  <2> QED BY <2>1, <2>2, <2>3
<1> QED BY <1>1, <1>2, <1>3, <1>4, <1>5

LEMMA AnswerInv == ASSUME IInv, Answer PROVE IInv'
<1> USE CacheAssumption DEF IInv, Types, Go, Closer, Answer, Native, mapVars, taskVars, askVars,
   closeVars, histVars, faultVars
<1>1. Types'
  <2>1. TypedCells'
    BY DEF TypedCells, TypedExec, TypedSeqs, PlacesX, PlacesC, Counts, Held, Victim, Working, Task,
       Request, Busy, Decoding
  <2>2. TypedExec'
    BY DEF TypedExec, PlacesX, TypedSeqs, Busy, Decoding, Task, Idle, Counts, Held, Working
  <2>3. TypedSeqs'
    BY DEF TypedSeqs
  <2>4. TypedFlags'
    BY ZenonT(30) DEF TypedFlags
  <2>5. TypedBounds'
    BY DEF TypedBounds
  <2>6. PlacesX'
    BY DEF TypedExec, TypedSeqs, PlacesX, Busy, Decoding, Task, Request, Cells
  <2>7. PlacesC'
    BY DEF PlacesC, TypedFlags
  <2> QED BY <2>1, <2>2, <2>3, <2>4, <2>5, <2>6, <2>7
<1>2. Counts'
  BY DEF Counts, Counted, Victim, Held, Working, Closing, TypedCells, TypedExec, PlacesC
<1>3. Tracking'
  BY DEF Tracking, Mapped, Holding, TypedCells, TypedExec, PlacesX, PlacesC, Cells, Eldest, Reached
<1>4. Promises'
  BY DEF Promises, Cancels, TypedCells, TypedExec, PlacesX, PlacesC, Decoding, Task, Request, Idle,
     Quiet, TypedFlags, Handles, Busy, NativeCallsSafe, TypedBounds, Counts, Held, Working,
     SecondTapFindsPage
<1>5. Sizes'
  BY DEF Sizes, Unlocked, Decoded, Decoding, TypedCells, TypedExec, PlacesX, Counts, Held, Working,
     Task, Request, Idle, Cells, Eldest, Pinned, TypedFlags, Tracking, Mapped, Overfull, Room,
     TypedSeqs
<1> QED BY <1>1, <1>2, <1>3, <1>4, <1>5

\* ... and the closer.

LEMMA BeginCloseInv == ASSUME IInv, BeginClose PROVE IInv'
<1> USE CacheAssumption DEF IInv, Types, Go, Closer, Allowed, BeginClose, mapVars, taskVars, askVars,
   closeVars, histVars, faultVars
<1>1. Types'
  <2>1. TypedCells'
    BY DEF TypedCells, TypedExec, TypedSeqs, PlacesX, PlacesC, Counts, Held, Victim, Working, Task,
       Request, Busy, Decoding
  <2>2. TypedExec'
    BY DEF TypedExec, PlacesX, TypedSeqs, Busy, Decoding, Task, Idle, Counts, Held, Working
  <2>3. TypedSeqs'
    BY VisitBegins DEF TypedSeqs
  <2>4. TypedFlags'
    BY DEF TypedFlags
  <2>5. TypedBounds'
    BY DEF TypedBounds
  <2>6. PlacesX'
    BY DEF TypedExec, TypedSeqs, PlacesX, Busy, Decoding, Task, Request, Cells
  <2>7. PlacesC'
    BY DEF PlacesC, TypedFlags
  <2> QED BY <2>1, <2>2, <2>3, <2>4, <2>5, <2>6, <2>7
<1>2. Counts'
  BY DEF Counts, Counted, Victim, Held, Working, Closing, TypedCells, TypedExec, PlacesC
<1>3. Tracking'
  <2> USE DEF Tracking
  <2>1. Mapped'
    BY DEF Tracking, Mapped, Holding, TypedCells, TypedExec, PlacesX, PlacesC, Cells, Eldest
  <2>2. Reached'
    <3> USE DEF Holding, Eldest, Cells
    <3>1. Range(visit') = Cells
      BY VisitBegins DEF TypedSeqs
    <3> QED BY <3>1 DEF Reached
  <2> QED BY <2>1, <2>2
<1>4. Promises'
  <2> USE DEF Promises
  <2>1. Cancels'
    <3>1. Range(visit') = Cells
      BY VisitBegins DEF TypedSeqs
    <3>2. ASSUME xpc \in {"render", "rendering"}, page[cur] = "live" PROVE cur \in Cells
      <4>1. late = {} /\ cur \in Cell /\ cur \notin dropped
        BY <3>2 DEF PlacesC, Counts, Held, Working, Tracking, Mapped, Holding
      <4> QED BY <3>2, <4>1 DEF Tracking, Reached
    <3>3. straggler' = "none" => (task'.kind = "decode" => cancelled')
      OBVIOUS
    <3>4. UNCHANGED <<xpc, page, cur>>
      OBVIOUS
    <3> QED BY <3>1, <3>2, <3>3, <3>4 DEF Cancels
  <2>2. Quiet'
    <3>1. Range(visit') = Cells
      BY VisitBegins DEF TypedSeqs
    <3>2. xpc = "idle" => None \notin Cells
      BY DEF PlacesX
    <3>3. quiet' => xpc = "idle"
      OBVIOUS
    <3>4. xpc' = xpc /\ ~stale' /\ isRecycled' /\ cpc' = "visit"
      OBVIOUS
    <3> QED BY <3>1, <3>2, <3>3, <3>4 DEF Quiet
  <2>3. Handles'
    BY DEF Promises, Handles, TypedCells, TypedExec, TypedFlags, PlacesX, Task, Request, Idle, Busy
  <2>4. NativeCallsSafe'
    BY DEF Promises, NativeCallsSafe, TypedBounds, TypedExec, PlacesX, PlacesC, Counts, Held, Working
  <2>5. SecondTapFindsPage'
    BY DEF Promises, SecondTapFindsPage, TypedFlags
  <2> QED BY <2>1, <2>2, <2>3, <2>4, <2>5
<1>5. Sizes'
  BY DEF Sizes, Unlocked, Decoded, Decoding, TypedCells, TypedExec, PlacesX, Counts, Held, Working,
     Task, Request, Idle, Cells, Eldest, Pinned, TypedFlags, Tracking, Mapped, Overfull, Room,
     TypedSeqs
<1> QED BY <1>1, <1>2, <1>3, <1>4, <1>5

LEMMA CancelFailsInv == ASSUME IInv, CancelFails PROVE IInv'
<1> USE CacheAssumption DEF IInv, Types, Go, Closer, CancelFails, mapVars, taskVars, askVars,
   closeVars, histVars, faultVars
<1>1. Types'
  <2>1. TypedCells'
    BY DEF TypedCells, TypedExec, TypedSeqs, PlacesX, PlacesC, Counts, Held, Victim, Working, Task,
       Request, Busy, Decoding
  <2>2. TypedExec'
    BY DEF TypedExec, PlacesX, TypedSeqs, Busy, Decoding, Task, Idle, Counts, Held, Working
  <2>3. TypedSeqs'
    BY DEF TypedSeqs
  <2>4. TypedFlags'
    BY DEF TypedFlags
  <2>5. TypedBounds'
    BY DEF TypedBounds
  <2>6. PlacesX'
    BY DEF TypedExec, TypedSeqs, PlacesX, Busy, Decoding, Task, Request, Cells
  <2>7. PlacesC'
    BY DEF PlacesC, TypedFlags
  <2> QED BY <2>1, <2>2, <2>3, <2>4, <2>5, <2>6, <2>7
<1>2. Counts'
  BY DEF Counts, Counted, Victim, Held, Working, Closing, TypedCells, TypedExec, PlacesC
<1>3. Tracking'
  BY DEF Tracking, Mapped, Holding, TypedCells, TypedExec, PlacesX, PlacesC, Cells, Eldest, Reached
<1>4. Promises'
  BY DEF Promises, Cancels, TypedCells, TypedExec, PlacesX, PlacesC, Decoding, Task, Request, Idle,
     Quiet, TypedFlags, Handles, Busy, NativeCallsSafe, TypedBounds, Counts, Held, Working,
     SecondTapFindsPage
<1>5. Sizes'
  BY DEF Sizes, Unlocked, Decoded, Decoding, TypedCells, TypedExec, PlacesX, Counts, Held, Working,
     Task, Request, Idle, Cells, Eldest, Pinned, TypedFlags, Tracking, Mapped, Overfull, Room,
     TypedSeqs
<1> QED BY <1>1, <1>2, <1>3, <1>4, <1>5

LEMMA VisitFailsInv == ASSUME IInv, VisitFails PROVE IInv'
<1> USE CacheAssumption DEF IInv, Types, Go, Closer, VisitFails, mapVars, taskVars, askVars,
   closeVars, histVars, faultVars
<1>1. Types'
  BY DEF TypedCells, TypedExec, TypedSeqs, PlacesX, PlacesC, Counts, Held, Victim, Working, Task,
     Request, Busy, Decoding, Idle, TypedFlags, TypedBounds, Cells, Types
<1>2. Counts'
  BY DEF Counts, Counted, Victim, Held, Working, Closing, TypedCells, TypedExec, PlacesC
<1>3. Tracking'
  BY DEF Tracking, Mapped, Holding, TypedCells, TypedExec, PlacesX, PlacesC, Cells, Eldest, Reached
<1>4. Promises'
  <2> USE DEF Promises
  <2>1. Cancels'
    BY DEF Promises, Cancels, TypedCells, TypedExec, PlacesX, PlacesC, Decoding, Task, Request, Idle
  <2>2. Quiet'
    <3>1. Head(visit) \in Range(visit)
      BY VisitTail DEF TypedSeqs
    <3>2. ~quiet
      BY <3>1 DEF Quiet
    <3> QED BY <3>2 DEF Quiet
  <2>3. Handles'
    BY DEF Promises, Handles, TypedCells, TypedExec, TypedFlags, PlacesX, Task, Request, Idle, Busy
  <2>4. NativeCallsSafe'
    BY DEF Promises, NativeCallsSafe, TypedBounds, TypedExec, PlacesX, PlacesC, Counts, Held, Working
  <2>5. SecondTapFindsPage'
    BY DEF Promises, SecondTapFindsPage, TypedFlags
  <2> QED BY <2>1, <2>2, <2>3, <2>4, <2>5
<1>5. Sizes'
  BY DEF Sizes, Unlocked, Decoded, Decoding, TypedCells, TypedExec, PlacesX, Counts, Held, Working,
     Task, Request, Idle, Cells, Eldest, Pinned, TypedFlags, Tracking, Mapped, Overfull, Room,
     TypedSeqs
<1> QED BY <1>1, <1>2, <1>3, <1>4, <1>5

LEMMA VisitInv == ASSUME IInv, Visit PROVE IInv'
<1> USE CacheAssumption DEF IInv, Types, Go, Closer, Visit, mapVars, taskVars, askVars, closeVars,
   histVars, faultVars
<1>1. Types'
  <2>1. TypedCells'
    BY DEF TypedCells, TypedExec, TypedSeqs, PlacesX, PlacesC, Counts, Held, Victim, Working, Task,
       Request, Busy, Decoding
  <2>2. TypedExec'
    BY DEF TypedExec, PlacesX, TypedSeqs, Busy, Decoding, Task, Idle, Counts, Held, Working
  <2>3. TypedSeqs'
    BY VisitTail DEF TypedSeqs, PlacesC
  <2>4. TypedFlags'
    BY DEF TypedFlags
  <2>5. TypedBounds'
    BY DEF TypedBounds
  <2>6. PlacesX'
    BY DEF TypedExec, TypedSeqs, PlacesX, Busy, Decoding, Task, Request, Cells
  <2>7. PlacesC'
    BY DEF PlacesC, TypedFlags
  <2> QED BY <2>1, <2>2, <2>3, <2>4, <2>5, <2>6, <2>7
<1>2. Counts'
  BY DEF Counts, Counted, Victim, Held, Working, Closing, TypedCells, TypedExec, PlacesC, CanAccess
<1>3. Tracking'
  <2> USE DEF Tracking
  <2>1. Mapped'
    BY DEF Tracking, Mapped, Holding, TypedCells, TypedExec, PlacesX, PlacesC, Cells, Eldest
  <2>2. Reached'
    <3> USE DEF Holding, Eldest, Cells
    <3>1. visit \in Seq(Cell \cup {None}) /\ visit # <<>>
      BY DEF TypedSeqs, PlacesC
    <3>2. Range(visit) = Range(Tail(visit)) \cup {Head(visit)}
      BY <3>1, VisitTail
    <3>3. \A c \in Cell : page'[c] = "live" => page[c] = "live" /\ (c # Head(visit) \/ visit' = visit)
      BY <3>1 DEF TypedCells
    <3>4. visit' = visit \/ visit' = Tail(visit)
      OBVIOUS
    <3>5. cpc \in {"visit", "free"}
      OBVIOUS
    <3>6. UNCHANGED <<order, dropped, late>>
      OBVIOUS
    <3> QED BY <3>2, <3>3, <3>4, <3>5, <3>6 DEF Reached
  <2> QED BY <2>1, <2>2
<1>4. Promises'
  <2> USE DEF Promises
  <2>1. Cancels'
    <3>1. Range(visit) = Range(Tail(visit)) \cup {Head(visit)}
      BY VisitTail DEF TypedSeqs
    <3>2. page[cur] = "live" /\ cur \in Range(visit) => cur \in Range(visit')
      BY <3>1
    <3>3. UNCHANGED <<xpc, page, cur, task, cancelled>> /\ cpc = "visit" /\ cpc' \in {"visit", "free"}
      OBVIOUS
    <3> QED BY <3>2, <3>3 DEF Cancels
  <2>2. Quiet'
    <3>1. Range(visit) = Range(Tail(visit)) \cup {Head(visit)}
      BY VisitTail DEF TypedSeqs
    <3>2. Range(visit') \subseteq Range(visit)
      BY <3>1
    <3>3. UNCHANGED <<xpc, stale, isRecycled, quiet>> /\ cpc' \in {"visit", "free"}
      OBVIOUS
    <3> QED BY <3>2, <3>3 DEF Quiet
  <2>3. Handles'
    BY DEF Promises, Handles, TypedCells, TypedExec, TypedFlags, PlacesX, Task, Request, Idle, Busy
  <2>4. NativeCallsSafe'
    BY DEF Promises, NativeCallsSafe, TypedBounds, TypedExec, PlacesX, PlacesC, Counts, Held, Working
  <2>5. SecondTapFindsPage'
    BY DEF Promises, SecondTapFindsPage, TypedFlags
  <2> QED BY <2>1, <2>2, <2>3, <2>4, <2>5
<1>5. Sizes'
  BY DEF Sizes, Unlocked, Decoded, Decoding, TypedCells, TypedExec, PlacesX, Counts, Held, Working,
     Task, Request, Idle, Cells, Eldest, Pinned, TypedFlags, Tracking, Mapped, Overfull, Room,
     TypedSeqs
<1> QED BY <1>1, <1>2, <1>3, <1>4, <1>5

LEMMA FreeInv == ASSUME IInv, Free PROVE IInv'
<1> USE CacheAssumption DEF IInv, Types, Go, Closer, Free, mapVars, taskVars, askVars, closeVars,
   histVars, faultVars
<1>1. Types'
  <2>1. TypedCells'
    BY DEF TypedCells, TypedExec, TypedSeqs, PlacesX, PlacesC, Counts, Held, Victim, Working, Task,
       Request, Busy, Decoding
  <2>2. TypedExec'
    BY DEF TypedExec, PlacesX, TypedSeqs, Busy, Decoding, Task, Idle, Counts, Held, Working
  <2>3. TypedSeqs'
    BY VisitTail DEF TypedSeqs, PlacesC
  <2>4. TypedFlags'
    BY DEF TypedFlags
  <2>5. TypedBounds'
    BY DEF TypedBounds
  <2>6. PlacesX'
    BY DEF TypedExec, TypedSeqs, PlacesX, Busy, Decoding, Task, Request, Cells
  <2>7. PlacesC'
    BY DEF PlacesC, TypedFlags
  <2> QED BY <2>1, <2>2, <2>3, <2>4, <2>5, <2>6, <2>7
<1>2. Counts'
  BY DEF Counts, Counted, Victim, Held, Working, Closing, TypedCells, TypedExec, PlacesC
<1>3. Tracking'
  <2> USE DEF Tracking
  <2>1. Mapped'
    BY DEF Tracking, Mapped, Holding, TypedCells, TypedExec, PlacesX, PlacesC, Cells, Eldest
  <2>2. Reached'
    <3> USE DEF Holding, Eldest, Cells
    <3>1. visit \in Seq(Cell \cup {None}) /\ visit # <<>>
      BY DEF TypedSeqs, PlacesC
    <3>2. Range(visit) = Range(Tail(visit)) \cup {Head(visit)}
      BY <3>1, VisitTail
    <3>3. \A c \in Cell : page'[c] = "live" => page[c] = "live" /\ (c # Head(visit) \/ visit' = visit)
      BY <3>1 DEF TypedCells
    <3>4. visit' = visit \/ visit' = Tail(visit)
      OBVIOUS
    <3>5. cpc \in {"visit", "free"}
      OBVIOUS
    <3>6. UNCHANGED <<order, dropped, late>>
      OBVIOUS
    <3> QED BY <3>2, <3>3, <3>4, <3>5, <3>6 DEF Reached
  <2> QED BY <2>1, <2>2
<1>4. Promises'
  <2> USE DEF Promises
  <2>1. Cancels'
    <3>1. Range(visit) = Range(Tail(visit)) \cup {Head(visit)}
      BY VisitTail DEF TypedSeqs, PlacesC
    <3>2. page'[cur] = "live" /\ cur \in Cell => page[cur] = "live" /\ cur # Head(visit)
      BY DEF TypedCells
    <3>3. UNCHANGED <<xpc, cur, task, cancelled>> /\ cpc = "free" /\ visit' = Tail(visit)
      OBVIOUS
    <3>4. xpc \in {"render", "rendering"} => cur \in Cell
      BY DEF Counts, Held, Working
    <3> QED BY <3>1, <3>2, <3>3, <3>4 DEF Cancels
  <2>2. Quiet'
    <3>1. Range(visit) = Range(Tail(visit)) \cup {Head(visit)}
      BY VisitTail DEF TypedSeqs, PlacesC
    <3>2. Range(visit') \subseteq Range(visit)
      BY <3>1
    <3>3. UNCHANGED <<xpc, stale, isRecycled, quiet>> /\ cpc' = "visit"
      OBVIOUS
    <3> QED BY <3>2, <3>3 DEF Quiet
  <2>3. Handles'
    BY DEF Promises, Handles, TypedCells, TypedExec, TypedFlags, PlacesX, Task, Request, Idle, Busy
  <2>4. NativeCallsSafe'
    BY DEF Promises, NativeCallsSafe, TypedBounds, TypedExec, PlacesX, PlacesC, Counts, Held, Working
  <2>5. SecondTapFindsPage'
    BY DEF Promises, SecondTapFindsPage, TypedFlags
  <2> QED BY <2>1, <2>2, <2>3, <2>4, <2>5
<1>5. Sizes'
  <2> USE DEF Sizes
  <2>1. Unlocked'
    BY DEF Sizes, Unlocked, Decoded, Decoding, TypedCells, TypedExec, PlacesX, Counts, Held,
       Working, Task, Request, Idle, Cells, Eldest
  <2>2. Pinned'
    BY DEF Pinned, PlacesC
  <2>3. Overfull'
    BY DEF Sizes, Overfull, Room, Decoded, Decoding, TypedFlags, TypedSeqs, Cells, Eldest
  <2> QED BY <2>1, <2>2, <2>3
<1> QED BY <1>1, <1>2, <1>3, <1>4, <1>5

LEMMA ClearMapInv == ASSUME IInv, ClearMap PROVE IInv'
<1> USE CacheAssumption DEF IInv, Types, Go, Closer, ClearMap, mapVars, taskVars, askVars,
   closeVars, histVars, faultVars
<1>1. Types'
  BY CellsCleared DEF TypedCells, TypedExec, TypedSeqs, PlacesX, PlacesC, Counts, Held, Victim,
     Working, Task, Request, Busy, Decoding, Idle, TypedFlags, TypedBounds, Types
<1>2. Counts'
  BY DEF Counts, Counted, Victim, Held, Working, Closing, TypedCells, TypedExec, PlacesC
<1>3. Tracking'
  <2> USE DEF Tracking
  <2>1. Mapped'
    BY DEF Tracking, Mapped, Holding, TypedCells, TypedExec, PlacesX, PlacesC, Cells, Eldest
  <2>2. Reached'
    BY CellsEmpty DEF Reached, PlacesX
  <2> QED BY <2>1, <2>2
<1>4. Promises'
  BY DEF Promises, Cancels, TypedCells, TypedExec, PlacesX, PlacesC, Decoding, Task, Request, Idle,
     Quiet, TypedFlags, Handles, Busy, NativeCallsSafe, TypedBounds, Counts, Held, Working,
     SecondTapFindsPage
<1>5. Sizes'
  <2> USE DEF Sizes
  <2>1. Unlocked'
    BY DEF Unlocked, Decoded, Decoding, TypedCells, TypedExec, PlacesX, Counts, Held, Working
  <2>2. Pinned'
    BY DEF Pinned, Decoded, Decoding, TypedCells, TypedExec, TypedFlags, PlacesX, PlacesC,
       Counts, Held, Working, Tracking, Mapped, Cells
  <2>3. Overfull'
    <3>1. order' = <<>> /\ widest' \in Nat
      BY SizeFacts DEF TypedBounds
    <3>2. Len(<<>>) = 0
      OBVIOUS
    <3> QED BY <3>1, <3>2 DEF Overfull, Room
  <2> QED BY <2>1, <2>2, <2>3
<1> QED BY <1>1, <1>2, <1>3, <1>4, <1>5

LEMMA FreeDocumentInv == ASSUME IInv, FreeDocument PROVE IInv'
<1> USE CacheAssumption DEF IInv, Types, Go, Closer, FreeDocument, mapVars, taskVars, askVars,
   closeVars, histVars, faultVars
<1>1. Types'
  BY DEF TypedCells, TypedExec, TypedSeqs, PlacesX, PlacesC, Counts, Held, Victim, Working, Task,
     Request, Busy, Decoding, Idle, TypedFlags, TypedBounds, Cells, Types
<1>2. Counts'
  BY DEF Counts, Counted, Victim, Held, Working, Closing, TypedCells, TypedExec, PlacesC
<1>3. Tracking'
  BY DEF Tracking, Mapped, Holding, TypedCells, TypedExec, PlacesX, PlacesC, Cells, Eldest, Reached
<1>4. Promises'
  BY DEF Promises, Cancels, TypedCells, TypedExec, PlacesX, PlacesC, Decoding, Task, Request, Idle,
     Quiet, TypedFlags, Handles, Busy, NativeCallsSafe, TypedBounds, Counts, Held, Working,
     SecondTapFindsPage
<1>5. Sizes'
  BY DEF Sizes, Unlocked, Decoded, Decoding, TypedCells, TypedExec, PlacesX, Counts, Held, Working,
     Task, Request, Idle, Cells, Eldest, Pinned, TypedFlags, Tracking, Mapped, Overfull, Room,
     TypedSeqs
<1> QED BY <1>1, <1>2, <1>3, <1>4, <1>5

LEMMA ClearDocumentInv == ASSUME IInv, ClearDocument PROVE IInv'
<1> USE CacheAssumption DEF IInv, Types, Go, Closer, ClearDocument, mapVars, taskVars, askVars,
   closeVars, histVars, faultVars
<1>1. Types'
  BY DEF TypedCells, TypedExec, TypedSeqs, PlacesX, PlacesC, Counts, Held, Victim, Working, Task,
     Request, Busy, Decoding, Idle, TypedFlags, TypedBounds, Cells, Types
<1>2. Counts'
  BY DEF Counts, Counted, Victim, Held, Working, Closing, TypedCells, TypedExec, PlacesC
<1>3. Tracking'
  BY DEF Tracking, Mapped, Holding, TypedCells, TypedExec, PlacesX, PlacesC, Cells, Eldest, Reached
<1>4. Promises'
  BY DEF Promises, Cancels, TypedCells, TypedExec, PlacesX, PlacesC, Decoding, Task, Request, Idle,
     Quiet, TypedFlags, Handles, Busy, NativeCallsSafe, TypedBounds, Counts, Held, Working,
     SecondTapFindsPage
<1>5. Sizes'
  BY DEF Sizes, Unlocked, Decoded, Decoding, TypedCells, TypedExec, PlacesX, Counts, Held, Working,
     Task, Request, Idle, Cells, Eldest, Pinned, TypedFlags, Tracking, Mapped, Overfull, Room,
     TypedSeqs
<1> QED BY <1>1, <1>2, <1>3, <1>4, <1>5

LEMMA StopExecutorInv == ASSUME IInv, StopExecutor PROVE IInv'
<1> USE CacheAssumption DEF IInv, Types, Go, Closer, StopExecutor, mapVars, taskVars, askVars,
   closeVars, histVars, faultVars
<1>1. Types'
  <2>1. TypedCells'
    BY DEF TypedCells, TypedExec, TypedSeqs, PlacesX, PlacesC, Counts, Held, Victim, Working, Task,
       Request, Busy, Decoding
  <2>2. TypedExec'
    BY DEF TypedExec, PlacesX, TypedSeqs, Busy, Decoding, Task, Idle, Counts, Held, Working
  <2>3. TypedSeqs'
    BY DEF TypedSeqs
  <2>4. TypedFlags'
    BY DEF TypedFlags
  <2>5. TypedBounds'
    BY DEF TypedBounds
  <2>6. PlacesX'
    BY DEF TypedExec, TypedSeqs, PlacesX, Busy, Decoding, Task, Request, Cells
  <2>7. PlacesC'
    BY DEF PlacesC, TypedFlags
  <2> QED BY <2>1, <2>2, <2>3, <2>4, <2>5, <2>6, <2>7
<1>2. Counts'
  BY DEF Counts, Counted, Victim, Held, Working, Closing, TypedCells, TypedExec, PlacesC
<1>3. Tracking'
  BY DEF Tracking, Mapped, Holding, TypedCells, TypedExec, PlacesX, PlacesC, Cells, Eldest, Reached
<1>4. Promises'
  BY DEF Promises, Cancels, TypedCells, TypedExec, PlacesX, PlacesC, Decoding, Task, Request, Idle,
     Quiet, TypedFlags, Handles, Busy, NativeCallsSafe, TypedBounds, Counts, Held, Working,
     SecondTapFindsPage
<1>5. Sizes'
  BY DEF Sizes, Unlocked, Decoded, Decoding, TypedCells, TypedExec, PlacesX, Counts, Held, Working,
     Task, Request, Idle, Cells, Eldest, Pinned, TypedFlags, Tracking, Mapped, Overfull, Room,
     TypedSeqs
<1> QED BY <1>1, <1>2, <1>3, <1>4, <1>5

---------------------------------------------------------------------------
LEMMA InitInv == Init => IInv
<1> SUFFICES ASSUME Init PROVE IInv
  OBVIOUS
<1> USE CacheAssumption DEF Init
<1>1. Types
  <2>1. TypedCells /\ TypedExec
    BY DEF TypedCells, TypedExec
  <2>2. TypedSeqs
    BY DEF TypedSeqs
  <2>3. TypedFlags
    BY DEF TypedFlags
  <2>4. TypedBounds
    <3>1. 1 \in Nat \ {0} /\ getCacheSize = IF InMemory = 0 THEN 1 ELSE Max({1, InMemory})
      BY DEF getCacheSize
    <3>2. getCacheSize \in Nat \ {0} /\ (InMemory > 0 => InMemory <= getCacheSize /\ 1 <= getCacheSize)
      BY <3>1, SizeOfRange
    <3> QED BY <3>2 DEF TypedBounds
  <2>5. PlacesX /\ PlacesC
    BY DEF PlacesX, PlacesC, Cells, Busy, Decoding
  <2> QED BY <2>1, <2>2, <2>3, <2>4, <2>5 DEF Types
<1>2. Counts
  BY DEF Counts, Counted, Victim, Held, Working, Closing
<1>3. Tracking
  BY DEF Tracking, Mapped, Reached, Holding, Cells
<1>4. Promises
  BY DEF Promises, Cancels, Quiet, Handles, NativeCallsSafe, SecondTapFindsPage, Idle
<1>5. Sizes
  <2>1. order = <<>> /\ Len(<<>>) = 0 /\ widest \in Nat
    BY <1>1 DEF Types, TypedBounds
  <2> QED BY <2>1 DEF Sizes, Unlocked, Pinned, Overfull, Room, Decoded, Decoding, Cells
<1> QED BY <1>1, <1>2, <1>3, <1>4, <1>5 DEF IInv

LEMMA StepInv == IInv /\ [Next]_vars => IInv'
<1> SUFFICES ASSUME IInv, [Next]_vars PROVE IInv'
  OBVIOUS
<1>1. ASSUME NEW t \in Request, Ask(t) PROVE IInv'
  BY <1>1, AskInv
<1>2. ASSUME NEW p \in Page, TakeDecode(p) PROVE IInv'
  BY <1>2, TakeDecodeInv
<1>3. ASSUME NEW c \in Cell, Collect(c) PROVE IInv'
  BY <1>3, CollectInv
<1>4. CASE StopDecoding
  BY <1>4, StopDecodingInv
<1>8. ASSUME NEW n \in 1..MaxVisible, Scroll(n) PROVE IInv'
  BY <1>8, ScrollInv
<1>5. CASE Executor
  <2>1. CASE \/ TakeEdit \/ ExecutorEnds \/ Lookup \/ Evict
             \/ EvictWaited \/ EvictEnds
             \/ GetPage \/ OpenPage \/ OpenFails
    BY <2>1, TakeEditInv, ExecutorEndsInv, LookupInv, EvictInv, EvictWaitedInv, EvictEndsInv, GetPageInv,
       OpenPageInv, OpenFailsInv
  <2>2. CASE \/ CheckTask("check", "render") \/ CheckTask("check2", "read")
             \/ EnterRender \/ Render \/ ReadPage \/ Unlock
    BY <2>2, CheckTaskInv, EnterRenderInv, RenderInv, ReadPageInv, UnlockInv
  <2>3. CASE \/ OutOfMemory \/ PutNull \/ ClearNulls \/ FreeOwn
             \/ Edit \/ Delete \/ ClearPages \/ Answer
    BY <2>3, OutOfMemoryInv, PutNullInv, ClearNullsInv, FreeOwnInv, EditInv, DeleteInv,
       ClearPagesInv, AnswerInv
  <2> QED BY <1>5, <2>1, <2>2, <2>3 DEF Executor
<1>6. CASE Shutdown
  BY <1>6, BeginCloseInv, CancelFailsInv, VisitFailsInv, VisitInv, FreeInv, ClearMapInv,
     FreeDocumentInv, ClearDocumentInv, StopExecutorInv DEF Shutdown
<1>7. CASE UNCHANGED vars
  <2> USE <1>7 DEF vars, mapVars, taskVars, askVars, closeVars, histVars, faultVars, IInv, Cells
  <2>1. Types'
    BY DEF Types, TypedCells, TypedExec, TypedSeqs, TypedFlags, TypedBounds, PlacesX, PlacesC
  <2>2. Counts'
    BY DEF Counts, Counted, Victim, Held, Closing
  <2>3. Tracking'
    BY DEF Tracking, Mapped, Reached, Eldest
  <2>4. Promises'
    BY DEF Promises, Cancels, Quiet, Handles, NativeCallsSafe, SecondTapFindsPage
  <2>5. Sizes'
    BY DEF Sizes, Unlocked, Pinned, Overfull, Room, Decoded, Eldest
  <2> QED BY <2>1, <2>2, <2>3, <2>4, <2>5
<1> QED BY <1>1, <1>2, <1>3, <1>4, <1>5, <1>6, <1>7, <1>8 DEF Next

LEMMA Invariance == Spec => []IInv
BY InitInv, StepInv, PTL DEF Spec

---------------------------------------------------------------------------
\* The map, the counts and the places of both threads keep their types, the number
\* of null holders its bound.
THEOREM Typing == Spec => []TypeOK
<1>1. IInv => TypeOK
  BY TypedParts DEF IInv, Types
<1> QED BY <1>1, Invariance, PTL

\* A page that is being rendered, read or edited is locked, and only closing the
\* book frees it: neither the eviction of an eldest page, nor the null holders of
\* the memory handler, nor an unlock() for a page that could not be opened takes it
\* away from the executor.
THEOREM PageInUseKeptAlways == Spec => []PageInUseKept
<1>1. IInv => PageInUseKept
  <2> SUFFICES ASSUME IInv, xpc \in Working PROVE locks[cur] > 0 /\ (page[cur] = "live" \/ isRecycled)
    BY DEF PageInUseKept, Working
  <2>1. cur \in Cell /\ locks[cur] >= 1 /\ locks[cur] \in Int /\ (page[cur] = "live" \/ isRecycled)
    BY DEF IInv, Counts, Held, Types, TypedCells
  <2> QED BY <2>1
<1> QED BY <1>1, Invariance, PTL

\* removeEldestEntry, which looks at the eldest entry only, keeps the map within the
\* largest size allowed since it was cleared last, whatever the reader scrolls and
\* the memory handler puts, as long as no edit has locked a page for good.
THEOREM OverfullOnlyByEditsAlways == Spec => []OverfullOnlyByEdits
<1>1. IInv => OverfullOnlyByEdits
  BY DEF IInv, Sizes, Overfull, Room, OverfullOnlyByEdits
<1> QED BY <1>1, Invariance, PTL

\* A native page not freed is in the map, unless the map was cleared over it,
\* closing had begun, or the collector has taken its object: no lookup, eviction or
\* null holder loses one.
THEOREM NativePagesAccountedAlways == Spec => []NativePagesAccounted
<1>1. IInv => NativePagesAccounted
  BY DEF IInv, Tracking, Reached, NativePagesAccounted, Allocated, Collected
<1> QED BY <1>1, Invariance, PTL

\* Before closing no native call of the executor finds a page or the document freed;
\* after that none renders one, unless a decodePage was past its test of isRecycled
\* when closing began.
THEOREM NativeCallsSafeAlways == Spec => []NativeCallsSafe
<1>1. IInv => NativeCallsSafe
  BY DEF IInv, Promises
<1> QED BY <1>1, Invariance, PTL

\* The handle an annotation was shown with stays good until the cache pushes a page
\* out: a deletion misses only after that.
THEOREM SecondTapFindsPageAlways == Spec => []SecondTapFindsPage
<1>1. IInv => SecondTapFindsPage
  BY DEF IInv, Promises
<1> QED BY <1>1, Invariance, PTL

\* A closing that begins with the executor at rest does not end in an exception of
\* its iterators, unless the executor takes a task meanwhile.
THEOREM QuietCloseSucceedsAlways == Spec => []QuietCloseSucceeds
<1>1. IInv => QuietCloseSucceeds
  BY DEF IInv, Promises, Quiet, QuietCloseSucceeds
<1> QED BY <1>1, Invariance, PTL
=============================================================================
