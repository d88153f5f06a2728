----------------------------- MODULE PageCache -----------------------------
(***************************************************************************)
(* The page cache of the decode service (DecodeServiceBase.pages, of       *)
(* CodecPageHolder) over the pages of a MuPDF document, used by the        *)
(* executor thread and taken down by the thread that closes the book.      *)
(*                                                                         *)
(* A cell stands for a holder with the page it has opened last.  A page is *)
(* locked by three means: the count of its holder (lock, unlock), the      *)
(* access flag of its holder, and the monitor of the MuPdfPage; native     *)
(* calls run under TempHolder.lock.  The last three are held across steps  *)
(* at few places, so they are derived from the program counters:           *)
(*   closer   "free"       access and monitor of the cell it stands on     *)
(*   executor "evicting"   access and monitor of the eldest cell, victim   *)
(*   executor "oomfree"    monitor of its page                             *)
(*   executor "rendering"  TempHolder.lock                                 *)
(* Every other use of them begins and ends in one step.                    *)
(***************************************************************************)
EXTENDS Integers, FiniteSets, SequencesExt, Lists

CONSTANTS
    Page,       \* page numbers
    Annotated,  \* pages the user edits
    Cell,       \* holders
    InMemory,   \* CoreSettings.pagesInMemory
    MaxVisible, \* bound: pages visible at once
    MaxAsked,   \* bound: edits, deletions, scrolls, and decodings after closing began
    MaxTrouble, \* bound: failures to open a page, out of memory, collections;
                \* with those of MaxAsked, no more than MaxAsked
    None

ASSUME CacheAssumption ==
    /\ Annotated \subseteq Page /\ InMemory \in Nat /\ MaxVisible \in Nat \ {0}
    /\ MaxAsked \in Nat /\ MaxTrouble \in Nat
    /\ None \notin Page \cup Cell

VARIABLES
    order,      \* the entries of the map, eldest first: [key, cell]
    visible,    \* pages in the visible range of the viewState
    page,       \* a cell's page: "live", "lost" to the collector, "none" (not
                \* opened or freed), "orphan" if codecDocument was null; the
                \* native side of a lost page stays: finalize() frees nothing
    locks,      \* CodecPageHolder.lock
    xpc, task,  \* the executor: where it is, and the task it runs
    cur,        \* the holder it has got from getPageHolder, or None
    victim,     \* the eldest, being recycled by removeEldestEntry, or None
    answering,  \* an edit has been made, its answer is being read
    cancelled,  \* of the decoding under way
    puts,       \* null holders the handler of OutOfMemoryError has put
    asked,      \* edits and deletions in the list of tasks
    shown,      \* the page whose handle the annotations of a Page carry
    isRecycled,
    cpc, visit, \* the closer, and the holders its iterator has yet to return
    stale,      \* the map has changed under that iterator
    document,   \* "open", "freed", or "null" once the field is cleared
    run,
    \* history
    dropped,    \* cells cleared from the map with a live page
    late,       \* cells whose page was opened after closing had begun
    edited,     \* cells locked by getPage(-2)
    unpinned,   \* the page of such a cell has been collected, and
    widest,     \* the largest size allowed, since the map was last cleared
    straggler,  \* what shows of a decodePage past its test when closing began:
                \* it has put its task in the place of the running one, which
                \* is not cancelled then ("clobbered"), or it has been "taken"
    quiet,      \* closing began with nothing to do, and no task has run since
    wild,       \* native calls made on a freed page or document
    missed,     \* a deletion has hit a page freed before
    pushed,     \* a page has been pushed out of the cache, or closed
    tries, trouble

mapVars == <<order, stale, visible, widest>>
taskVars == <<task, victim, answering, cancelled, puts>>
askVars == <<asked, tries>>
closeVars == <<isRecycled, cpc, visit, document, run, quiet, straggler>>
histVars == <<dropped, late, edited, unpinned, pushed>>
faultVars == <<wild, missed, trouble>>
vars == <<mapVars, page, locks, xpc, cur, taskVars, askVars, shown, closeVars, histVars, faultVars>>

Request == [kind : {"edit"}, page : Annotated, target : {None}]
               \cup [kind : {"delete"}, page : Annotated, target : Cell]
Task == Request \cup [kind : {"decode"}, page : Page, target : {None}]
Idle == [kind |-> "none", page |-> None, target |-> None]

getCacheSize == IF InMemory = 0 THEN 1 ELSE Max({visible, InMemory})

Init ==
    /\ order = <<>> /\ stale = FALSE /\ visible = 1 /\ widest = getCacheSize
    /\ page = [c \in Cell |-> "none"] /\ locks = [c \in Cell |-> 0]
    /\ xpc = "idle" /\ task = Idle /\ cur = None
    /\ victim = None /\ answering = FALSE /\ cancelled = FALSE /\ puts = 0
    /\ asked = <<>> /\ shown = [p \in Page |-> None]
    /\ isRecycled = FALSE /\ cpc = "idle" /\ visit = <<>>
    /\ document = "open" /\ run = TRUE /\ straggler = "none"
    /\ dropped = {} /\ late = {} /\ edited = {} /\ unpinned = FALSE /\ quiet = FALSE
    /\ wild = {} /\ missed = FALSE /\ pushed = FALSE /\ tries = 0 /\ trouble = 0

---------------------------------------------------------------------------
Cells == {order[i].cell : i \in 1..Len(order)}

\* The holder the closer has access to, and its page's monitor
Closing(c) == cpc = "free" /\ Head(visit) = c
Eldest == Head(order).cell
CanAccess(c) == ~Closing(c) /\ c # victim
LockFree == xpc # "rendering"

\* Cells nothing refers to any more, to stand for a new holder
Fresh == {c \in Cell :
            /\ c \notin Cells \cup Range(visit) \cup {cur, task.target} /\ CanAccess(c)
            /\ \A p \in Page : shown[p] # c
            /\ \A i \in 1..Len(asked) : asked[i].target # c
            /\ page[c] = "live" => c \in dropped}

Go(place) == xpc' = place

\* The bounds of a run
Allowed == tries + trouble < MaxAsked

\* A native call of this kind on a freed page or document may go on or end
\* the process; on live ones it goes on.
Native(kind, c, place) ==
    IF page[c] = "live" /\ document = "open"
    THEN Go(place) /\ UNCHANGED wild
    ELSE wild' = wild \cup {kind} /\ xpc' \in {place, "crashed"}

\* pages.clear(): the holders go, with their locks; their pages stay as they
\* are.
Clear ==
    /\ locks' = [c \in Cell |-> IF c = cur THEN locks[c] ELSE 0]
    /\ edited' = edited \cap {cur} /\ unpinned' = FALSE /\ widest' = getCacheSize
    /\ order' = <<>> /\ stale' = (stale \/ order # <<>>)
    /\ dropped' = dropped \cup {c \in Cells : c # None /\ page[c] = "live"}

---------------------------------------------------------------------------
\* The user, on the UI thread.

\* A tap deletes an annotation with the page handle it carries; drawing and
\* marking go by the page number.
Ask(t) ==
    /\ Allowed /\ xpc # "crashed"
    /\ t.kind = "delete" => t.target = shown[t.page]
    /\ asked' = Append(asked, t) /\ tries' = tries + 1
    /\ UNCHANGED <<mapVars, page, locks, xpc, cur, taskVars, shown, closeVars, histVars, faultVars>>

\* stopDecoding: the node has scrolled out of view, or is asked for anew.
StopDecoding ==
    /\ task.kind = "decode" /\ ~cancelled /\ xpc # "crashed"
    /\ cancelled' = TRUE
    /\ UNCHANGED <<mapVars, page, locks, xpc, cur, task, victim, answering, puts, askVars, shown, closeVars, histVars, faultVars>>

\* updateViewState: the visible range is another one.
Scroll(n) ==
    /\ visible' = n /\ widest' = Max({widest, getCacheSize'})
    /\ n # visible /\ Allowed /\ xpc # "crashed"
    /\ tries' = tries + 1
    /\ UNCHANGED <<order, stale, page, locks, xpc, cur, taskVars, asked, shown, closeVars, histVars, faultVars>>

---------------------------------------------------------------------------
\* The executor.

\* recycle() cancels the decodings there are, which then do nothing; one more
\* comes from a decodePage past its test.  A loop that threw (CancelFails)
\* leaves the rest alive.
TakeDecode(p) ==
    /\ xpc = "idle" /\ run /\ Fresh # {}
    /\ isRecycled => Allowed /\ (cpc = "aborted" \/ straggler # "taken")
    /\ straggler' = IF isRecycled THEN "taken" ELSE straggler
    /\ tries' = IF isRecycled THEN tries + 1 ELSE tries
    /\ quiet' = FALSE
    /\ task' = [kind |-> "decode", page |-> p, target |-> None]
    /\ Go("lookup")
    /\ UNCHANGED <<mapVars, page, locks, cur, victim, answering, cancelled, puts, asked, shown, isRecycled, cpc, visit, document, run, histVars, faultVars>>

TakeEdit ==
    /\ xpc = "idle" /\ run /\ asked # <<>>
    /\ Cardinality(Fresh) >= IF Head(asked).kind = "delete" THEN 1 ELSE 2
    /\ task' = Head(asked) /\ asked' = Tail(asked)
    /\ quiet' = FALSE
    /\ Go(IF task'.kind = "delete" THEN "delete" ELSE "lookup")
    /\ UNCHANGED <<mapVars, page, locks, cur, victim, answering, cancelled, puts, tries, shown, isRecycled, cpc, visit, document, run, straggler, histVars, faultVars>>

ExecutorEnds ==
    /\ xpc = "idle" /\ ~run
    /\ Go("end")
    /\ UNCHANGED <<mapVars, page, locks, cur, taskVars, askVars, shown, closeVars, histVars, faultVars>>

\* isInvalid does not wait for a holder in use: it calls it valid.
IsInvalid(c) == CanAccess(c) /\ page[c] # "live"

Kept == Filter(order, {i \in 1..Len(order) : ~IsInvalid(order[i].cell)})

\* getPageHolder: invalid entries go, a missing one is put behind the others.
Lookup ==
    LET mine == {c \in Cell : ~IsInvalid(c) /\ [key |-> task.page, cell |-> c] \in Range(order)}
        c == CHOOSE c \in Fresh : TRUE
    IN /\ xpc = "lookup"
       /\ stale' = (stale \/ Kept # order \/ mine = {})
       /\ IF mine # {}
          THEN /\ order' = Kept /\ cur' = (CHOOSE m \in mine : TRUE)
               /\ Go("get")
               /\ UNCHANGED <<page, locks, dropped, late, edited>>
          ELSE /\ Fresh # {}
               /\ order' = Append(Kept, [key |-> task.page, cell |-> c]) /\ cur' = c
               /\ page' = [page EXCEPT ![c] = IF document = "null" THEN "orphan" ELSE "none"]
               /\ locks' = [locks EXCEPT ![c] = 0]
               /\ dropped' = dropped \ {c} /\ late' = late \ {c} /\ edited' = edited \ {c}
               /\ Go(IF Len(order') > getCacheSize THEN "evict" ELSE "get")
       /\ UNCHANGED <<visible, widest, taskVars, askVars, shown, closeVars, unpinned, pushed, faultVars>>

\* removeEldestEntry looks at the eldest entry only: an invalid one goes, a
\* locked one or a null holder stays, another one is recycled first; one that
\* the closer frees meanwhile stays, too.
Evict ==
    /\ xpc = "evict"
    /\ \/ /\ order # <<>> /\ Eldest # None => ~IsInvalid(Eldest) /\ locks[Eldest] > 0
          /\ Go("get") /\ UNCHANGED <<mapVars, victim>>
       \/ /\ order # <<>> /\ Eldest # None /\ IsInvalid(Eldest)
          /\ order' = Tail(order) /\ stale' = TRUE
          /\ Go("get") /\ UNCHANGED <<visible, widest, victim>>
       \/ /\ order # <<>> /\ Eldest # None /\ ~IsInvalid(Eldest) /\ locks[Eldest] <= 0
          /\ IF Closing(Eldest) THEN Go("evictwait") /\ UNCHANGED victim
             ELSE Go("evicting") /\ victim' = Eldest
          /\ UNCHANGED mapVars
    /\ UNCHANGED <<page, locks, cur, task, answering, cancelled, puts, askVars, shown, closeVars, histVars, faultVars>>

\* The closer, which has found the map changed, frees no other page.
EvictWaited ==
    /\ xpc \in {"evictwait", "putwait"} /\ cpc # "free"
    /\ Go(IF xpc = "putwait" THEN "oomput" ELSE "get")
    /\ UNCHANGED <<mapVars, page, locks, cur, taskVars, askVars, shown, closeVars, histVars, faultVars>>

Without(c) == Filter(order, {i \in 1..Len(order) : order[i].cell # c})

EvictEnds ==
    /\ xpc = "evicting"
    /\ page' = [page EXCEPT ![victim] = "none"] /\ pushed' = TRUE
    /\ order' = Without(victim)
    /\ stale' = (stale \/ order' # order)
    /\ victim' = None /\ Go("get")
    /\ UNCHANGED <<visible, widest, locks, cur, task, answering, cancelled, puts, askVars, shown, closeVars, dropped, late, edited, unpinned, faultVars>>

\* Where a task goes with its page, and where without one: the decoding is
\* aborted, an edit throws and ends the thread (run() catches it outside of
\* its loop).
WithPage == IF task.kind = "decode" THEN "check" ELSE IF answering THEN "answer" ELSE "edit"
NoPage == IF task.kind = "decode" THEN "unlock" ELSE "died"

Locked ==
    /\ locks' = [locks EXCEPT ![cur] = @ + 1]
    /\ edited' = IF task.kind = "decode" THEN edited ELSE edited \cup {cur}

\* Mutant: only an opened page is locked
GetPageUnlocked ==
    /\ xpc = "get" /\ CanAccess(cur) /\ page[cur] = "live"
    /\ Go(WithPage)
    /\ UNCHANGED <<mapVars, page, locks, cur, taskVars, askVars, shown, closeVars, histVars, faultVars>>

\* GetPageOp of a holder whose page is there
GetPage ==
    /\ xpc = "get" /\ CanAccess(cur) /\ page[cur] = "live"
    /\ Locked /\ Go(WithPage)
    /\ UNCHANGED <<mapVars, page, cur, taskVars, askVars, shown, closeVars, dropped, late, unpinned, pushed, faultVars>>

\* GetPageOp, createPage: the holder opens its page anew, on a document that
\* nothing keeps open
OpenPage ==
    /\ xpc = "get" /\ CanAccess(cur) /\ page[cur] # "live" /\ LockFree
    /\ page[cur] # "orphan"
    /\ \/ /\ document = "open"
          /\ page' = [page EXCEPT ![cur] = "live"]
          /\ late' = IF isRecycled THEN late \cup {cur} ELSE late
          /\ Locked /\ Go(WithPage)
          /\ UNCHANGED wild
       \/ /\ document # "open"
          /\ wild' = wild \cup {"open"} /\ xpc' \in {NoPage, "crashed"}
          /\ UNCHANGED <<page, late, locks, edited>>
    /\ UNCHANGED <<mapVars, cur, taskVars, askVars, shown, closeVars, dropped, unpinned, pushed, missed, trouble>>

\* An exception inside access(): there is no page, and no lock of the holder.
OpenFails ==
    /\ xpc = "get" /\ CanAccess(cur) /\ page[cur] # "live"
    /\ IF page[cur] = "orphan" THEN UNCHANGED trouble
       ELSE LockFree /\ document = "open" /\ trouble < MaxTrouble /\ Allowed /\ trouble' = trouble + 1
    /\ Go(NoPage)
    /\ UNCHANGED <<mapVars, page, locks, cur, taskVars, askVars, shown, closeVars, histVars, wild, missed>>

\* isTaskDead, before the rendering and after it
CheckTask(from, place) ==
    /\ xpc = from
    /\ Go(IF cancelled THEN "unlock" ELSE place)
    /\ UNCHANGED <<mapVars, page, locks, cur, taskVars, askVars, shown, closeVars, histVars, faultVars>>

\* render takes TempHolder.lock
EnterRender ==
    /\ xpc = "render" /\ LockFree
    /\ Go("rendering")
    /\ UNCHANGED <<mapVars, page, locks, cur, taskVars, askVars, shown, closeVars, histVars, faultVars>>

\* Mutant: render does not ask isRecycled
RenderUnchecked ==
    /\ xpc = "rendering"
    /\ Native("render", cur, "check2")
    /\ UNCHANGED <<mapVars, page, locks, cur, taskVars, askVars, shown, closeVars, histVars, missed, trouble>>

\* ... and under it the monitor of the page, in isRecycled; a recycled page
\* throws, and the decoding is aborted.
Render ==
    /\ xpc = "rendering" /\ ~Closing(cur)
    /\ IF page[cur] # "live" THEN Go("unlock") /\ UNCHANGED wild
       ELSE Native("render", cur, "check2")
    /\ UNCHANGED <<mapVars, page, locks, cur, taskVars, askVars, shown, closeVars, histVars, missed, trouble>>

\* Links, annotations and text do not ask isRecycled; what the Page has of
\* them already is not read again.
ReadPage ==
    /\ xpc = "read" /\ LockFree
    /\ IF shown[task.page] # None THEN Go("unlock") /\ UNCHANGED <<wild, shown>>
       ELSE /\ Native("read", cur, "unlock")
            /\ shown' = [shown EXCEPT ![task.page] = IF page[cur] = "live" THEN cur ELSE None]
    /\ UNCHANGED <<mapVars, page, locks, cur, taskVars, askVars, closeVars, histVars, missed, trouble>>

\* Mutant: a dead task leaves before the finally
UnlockAlive ==
    /\ xpc = "unlock"
    /\ locks' = IF cancelled \/ cur = None THEN locks ELSE [locks EXCEPT ![cur] = @ - 1]
    /\ cur' = None /\ task' = Idle /\ cancelled' = FALSE /\ puts' = 0 /\ Go("idle")
    /\ UNCHANGED <<mapVars, page, victim, answering, askVars, shown, closeVars, histVars, faultVars>>

\* The finally of performDecode: if there is a holder it is unlocked, whether
\* getPage had locked it or not.
Unlock ==
    /\ xpc = "unlock"
    /\ locks' = IF cur = None THEN locks ELSE [locks EXCEPT ![cur] = @ - 1]
    /\ cur' = None /\ task' = Idle /\ cancelled' = FALSE /\ puts' = 0 /\ Go("idle")
    /\ UNCHANGED <<mapVars, page, victim, answering, askVars, shown, closeVars, histVars, faultVars>>

\* Out of memory anywhere in the try block, but where nothing is allocated:
\* the handler pushes the pages out with null holders, one more than
\* pagesInMemory ...
OutOfMemory ==
    /\ task.kind = "decode"
    /\ \/ xpc \in {"lookup", "check", "render", "check2", "read"}
       \/ xpc = "get" /\ CanAccess(cur) /\ page[cur] # "live"
       \/ xpc = "rendering" /\ ~Closing(cur) /\ page[cur] = "live"
    /\ trouble < MaxTrouble /\ Allowed /\ trouble' = trouble + 1
    /\ Go("oomput")
    /\ UNCHANGED <<mapVars, page, locks, cur, taskVars, askVars, shown, closeVars, histVars, wild, missed>>

PutNulls(most) ==
    LET longer == Append(order, [key |-> None, cell |-> None])
        c == Head(longer).cell
        evicts == Len(longer) > getCacheSize /\ c # None /\ (IsInvalid(c) \/ locks[c] <= 0)
        waits == evicts /\ Closing(c)
    IN /\ xpc = "oomput" /\ puts < most
       /\ order' = IF evicts /\ ~waits THEN Tail(longer) ELSE longer
       /\ page' = IF evicts /\ ~waits /\ page[c] = "live" THEN [page EXCEPT ![c] = "none"] ELSE page
       /\ stale' = TRUE /\ puts' = puts + 1
       /\ pushed' = (pushed \/ evicts)
       /\ Go(IF waits THEN "putwait" ELSE "oomput")
       /\ UNCHANGED <<visible, widest, locks, cur, task, victim, answering, cancelled, askVars, shown, closeVars, dropped, late, edited, unpinned, faultVars>>

\* Mutant: one more
PutNullMore == PutNulls(InMemory + 2)

PutNull == PutNulls(InMemory + 1)

\* Mutant: the handler leaves its null holders in the map
KeepNulls ==
    /\ xpc = "oomput" /\ puts > InMemory
    /\ Go("oomfree")
    /\ UNCHANGED <<mapVars, page, locks, cur, taskVars, askVars, shown, closeVars, histVars, faultVars>>

\* ... clears the map ...
ClearNulls ==
    /\ xpc = "oomput" /\ puts > InMemory
    /\ Clear /\ Go("oomfree")
    /\ UNCHANGED <<visible, page, cur, taskVars, askVars, shown, closeVars, late, pushed, faultVars>>

\* ... and recycles the page of the decoding itself, if it had got one.
FreeOwn ==
    /\ xpc = "oomfree" /\ ~Closing(cur)
    /\ page' = [c \in Cell |-> IF c = cur /\ page[c] = "live" THEN "none" ELSE page[c]]
    /\ pushed' = (pushed \/ page' # page) /\ Go("unlock")
    /\ UNCHANGED <<mapVars, locks, cur, taskVars, askVars, shown, closeVars, dropped, late, edited, unpinned, faultVars>>

\* addAnnotation, addMarkupAnnotation: the monitor of the page, then the lock
Edit ==
    /\ xpc = "edit" /\ ~Closing(cur) /\ LockFree
    /\ Native("edit", cur, "clear")
    /\ UNCHANGED <<mapVars, page, locks, cur, taskVars, askVars, shown, closeVars, histVars, missed, trouble>>

\* deleteAnnotation: by the handle alone.  A page freed since has no
\* annotations; the deletion goes on as if it had been made.
Delete ==
    /\ xpc = "delete" /\ LockFree
    /\ \/ /\ document = "open"
          /\ missed' = (missed \/ page[task.target] = "none")
          /\ Go("clear") /\ UNCHANGED wild
       \/ /\ document = "freed"
          /\ wild' = wild \cup {"delete"} /\ xpc' \in {"clear", "crashed"}
          /\ UNCHANGED missed
       \/ /\ document = "null"
          /\ Go("died") /\ UNCHANGED <<wild, missed>>
    /\ UNCHANGED <<mapVars, page, locks, cur, taskVars, askVars, shown, closeVars, histVars, trouble>>

\* Mutant: the pages in the map are recycled with it
ClearRecycled ==
    /\ xpc = "clear"
    /\ Clear /\ answering' = TRUE /\ cur' = None /\ Go("lookup")
    /\ page' = [c \in Cell |-> IF c \in Cells /\ page[c] = "live" THEN "none" ELSE page[c]]
    /\ UNCHANGED <<visible, task, victim, cancelled, puts, askVars, shown, closeVars, late, pushed, faultVars>>

\* After an edit the map is cleared and the page looked up again.
ClearPages ==
    /\ xpc = "clear"
    /\ Clear /\ answering' = TRUE /\ cur' = None /\ Go("lookup")
    /\ UNCHANGED <<visible, page, task, victim, cancelled, puts, askVars, shown, closeVars, late, pushed, faultVars>>

\* onResultRecive: the Page gets the annotations of the page just opened.
Answer ==
    /\ xpc = "answer" /\ LockFree
    /\ Native("read", cur, "idle")
    /\ shown' = [shown EXCEPT ![task.page] = IF page[cur] = "live" THEN cur ELSE @]
    /\ answering' = FALSE /\ cur' = None /\ task' = Idle
    /\ UNCHANGED <<mapVars, page, locks, victim, cancelled, puts, askVars, closeVars, histVars, missed, trouble>>

\* The collector clears the SoftReference of a page nobody holds; finalize()
\* does not free it.
Collect(c) ==
    /\ page[c] = "live" /\ c # cur /\ ~Closing(c) /\ c # victim
    /\ c \in Cells /\ xpc # "crashed" /\ trouble < MaxTrouble /\ Allowed
    /\ page' = [page EXCEPT ![c] = "lost"] /\ trouble' = trouble + 1
    /\ unpinned' = (unpinned \/ c \in edited)
    /\ UNCHANGED <<mapVars, locks, xpc, cur, taskVars, askVars, shown, closeVars, dropped, late, edited, pushed, wild, missed>>

---------------------------------------------------------------------------
\* The closer: recycle(), ExecutorRunnable.recycle, shutdownInner.
Closer(from) == cpc = from /\ xpc # "crashed"

BeginClose ==
    /\ Closer("idle")
    /\ isRecycled' = TRUE
    /\ \/ cancelled' = (task.kind = "decode") /\ UNCHANGED <<straggler, tries>>
       \/ /\ task.kind = "decode" /\ UNCHANGED cancelled /\ straggler' = "clobbered"
          /\ Allowed /\ tries' = tries + 1
    /\ quiet' = (xpc = "idle" /\ asked = <<>>)
    /\ cpc' = "visit" /\ visit' = [i \in 1..Len(order) |-> order[i].cell] /\ stale' = FALSE
    /\ UNCHANGED <<order, visible, widest, page, locks, xpc, cur, task, victim, answering, puts, asked, shown, document, run, histVars, faultVars>>

\* The loop that cancels the decodings throws when the executor or the user
\* changes their map meanwhile; recycle() cannot be called again.
CancelFails ==
    /\ Closer("idle")
    /\ isRecycled' = TRUE /\ cancelled' \in {cancelled, task.kind = "decode"}
    /\ quiet' = FALSE /\ cpc' = "aborted"
    /\ UNCHANGED <<mapVars, page, locks, xpc, cur, task, victim, answering, puts, askVars, shown, visit, document, run, straggler, histVars, faultVars>>

\* next() throws if the map has changed, recycle() on a null holder; either
\* exception ends the shutdown.
VisitFails ==
    /\ Closer("visit") /\ visit # <<>> /\ (stale \/ Head(visit) = None)
    /\ cpc' = "failed"
    /\ UNCHANGED <<mapVars, page, locks, xpc, cur, taskVars, askVars, shown, isRecycled, visit, document, run, quiet, straggler, histVars, faultVars>>

\* Mutant: shutdown, too, leaves a locked holder alone
VisitUnlocked ==
    /\ Closer("visit") /\ visit # <<>> /\ ~stale /\ Head(visit) # None
    /\ CanAccess(Head(visit))
    /\ IF page[Head(visit)] = "live" /\ locks[Head(visit)] <= 0
       THEN cpc' = "free" /\ UNCHANGED visit
       ELSE visit' = Tail(visit) /\ UNCHANGED cpc
    /\ UNCHANGED <<mapVars, page, locks, xpc, cur, taskVars, askVars, shown, isRecycled, document, run, quiet, straggler, histVars, faultVars>>

\* RecycleOp, with shutdown: it waits for the access, not for the locks.
Visit ==
    /\ Closer("visit") /\ visit # <<>> /\ ~stale /\ Head(visit) # None
    /\ CanAccess(Head(visit))
    /\ IF page[Head(visit)] = "live"
       THEN cpc' = "free" /\ UNCHANGED visit
       ELSE visit' = Tail(visit) /\ UNCHANGED cpc
    /\ UNCHANGED <<mapVars, page, locks, xpc, cur, taskVars, askVars, shown, isRecycled, document, run, quiet, straggler, histVars, faultVars>>

Free ==
    /\ Closer("free") /\ LockFree
    /\ page' = [page EXCEPT ![Head(visit)] = "none"] /\ pushed' = TRUE
    /\ visit' = Tail(visit) /\ cpc' = "visit"
    /\ UNCHANGED <<mapVars, locks, xpc, cur, taskVars, askVars, shown, isRecycled, document, run, quiet, straggler, dropped, late, edited, unpinned, faultVars>>

\* What the executor has put behind the last holder goes unvisited.
ClearMap ==
    /\ Closer("visit") /\ visit = <<>>
    /\ order' = <<>> /\ cpc' = "document"
    /\ UNCHANGED <<stale, visible, widest, page, locks, xpc, cur, taskVars, askVars, shown, isRecycled, visit, document, run, quiet, straggler, histVars, faultVars>>

FreeDocument ==
    /\ Closer("document") /\ LockFree
    /\ document' = "freed" /\ cpc' = "field"
    /\ UNCHANGED <<mapVars, page, locks, xpc, cur, taskVars, askVars, shown, isRecycled, visit, run, quiet, straggler, histVars, faultVars>>

ClearDocument ==
    /\ Closer("field")
    /\ document' = "null" /\ cpc' = "stop"
    /\ UNCHANGED <<mapVars, page, locks, xpc, cur, taskVars, askVars, shown, isRecycled, visit, run, quiet, straggler, histVars, faultVars>>

\* Mutant: the executor is not told
LeaveExecutor ==
    /\ Closer("stop")
    /\ cpc' = "end"
    /\ UNCHANGED <<mapVars, page, locks, xpc, cur, taskVars, askVars, shown, isRecycled, visit, document, run, quiet, straggler, histVars, faultVars>>

StopExecutor ==
    /\ Closer("stop")
    /\ run' = FALSE /\ cpc' = "end"
    /\ UNCHANGED <<mapVars, page, locks, xpc, cur, taskVars, askVars, shown, isRecycled, visit, document, quiet, straggler, histVars, faultVars>>

---------------------------------------------------------------------------
Executor ==
    \/ TakeEdit \/ ExecutorEnds
    \/ Lookup \/ Evict \/ EvictWaited \/ EvictEnds \/ GetPage \/ OpenPage \/ OpenFails
    \/ CheckTask("check", "render") \/ CheckTask("check2", "read")
    \/ EnterRender \/ Render \/ ReadPage \/ Unlock
    \/ OutOfMemory \/ PutNull \/ ClearNulls \/ FreeOwn
    \/ Edit \/ Delete \/ ClearPages \/ Answer

Shutdown ==
    \/ BeginClose \/ CancelFails \/ VisitFails \/ Visit \/ Free
    \/ ClearMap \/ FreeDocument \/ ClearDocument \/ StopExecutor

Next ==
    \/ \E t \in Request : Ask(t)
    \/ StopDecoding
    \/ \E n \in 1..MaxVisible : Scroll(n)
    \/ \E p \in Page : TakeDecode(p)
    \/ \E c \in Cell : Collect(c)
    \/ Executor
    \/ Shutdown

Spec == Init /\ [][Next]_vars

\* Both threads go on while they can; closing itself is the user's choice.
FairSpec ==
    /\ Spec
    /\ WF_vars(Executor)
    /\ WF_vars(isRecycled /\ Shutdown)

---------------------------------------------------------------------------
TypeOK ==
    /\ visible \in 1..MaxVisible /\ widest \in Nat
    /\ order \in Seq([key : Page \cup {None}, cell : Cell \cup {None}])
    /\ page \in [Cell -> {"none", "live", "lost", "orphan"}]
    /\ locks \in [Cell -> Int]
    /\ xpc \in {"idle", "lookup", "evict", "evictwait", "evicting", "get", "check", "render", "rendering",
                "check2", "read", "unlock", "oomput", "putwait", "oomfree", "edit", "delete", "clear",
                "answer", "end", "died", "crashed"}
    /\ task \in Task \cup {Idle} /\ {cur, victim} \subseteq Cell \cup {None}
    /\ answering \in BOOLEAN /\ cancelled \in BOOLEAN /\ puts \in 0..(InMemory + 1)
    /\ asked \in Seq(Request) /\ shown \in [Page -> Cell \cup {None}]
    /\ cpc \in {"idle", "visit", "free", "document", "field", "stop", "end", "failed", "aborted"}
    /\ straggler \in {"none", "clobbered", "taken"}
    /\ visit \in Seq(Cell \cup {None})
    /\ document \in {"open", "freed", "null"}
    /\ isRecycled \in BOOLEAN /\ stale \in BOOLEAN /\ run \in BOOLEAN /\ quiet \in BOOLEAN
    /\ dropped \subseteq Cell /\ late \subseteq Cell /\ edited \subseteq Cell /\ unpinned \in BOOLEAN
    /\ wild \subseteq {"open", "render", "read", "edit", "delete"}
    /\ missed \in BOOLEAN /\ pushed \in BOOLEAN
    /\ tries \in 0..MaxAsked /\ trouble \in 0..MaxTrouble

\* A page the executor works on stays locked, whatever unlock() without lock()
\* did to the count of the holder before, and only closing frees it.
PageInUseKept ==
    xpc \in {"check", "render", "rendering", "check2", "read", "edit", "answer"} =>
        /\ locks[cur] > 0
        /\ page[cur] = "live" \/ isRecycled

\* The map does not shrink with the visible range: each insertion takes one
\* entry away at most.  But between two tasks on an open book it is larger
\* than it was ever allowed to be since it was cleared last, only behind a
\* page that an edit locked through getPage(-2), for good, or behind what came
\* after such a page when the collector had taken it: removeEldestEntry looks
\* no further than the eldest entry.  A decoding leaves no such lock.
OverfullOnlyByEdits ==
    xpc = "idle" /\ ~isRecycled /\ Len(order) > widest => Eldest \in edited \/ unpinned

\* Native pages not freed yet, each by the holder that opened it last: a holder
\* frees its page only while it has it.
Allocated == {c \in Cell : page[c] \in {"live", "lost"}}
Collected == {c \in Cell : page[c] = "lost"}

\* A native page is out of reach of the map, and so of closing, in one of
\* three ways only: an edit or the memory handler cleared the map, it was
\* opened while the book was being closed, or the collector took its object,
\* whose finalize() frees nothing.  Eviction, failures and the other orders of
\* steps leave no page behind.
NativePagesAccounted ==
    Allocated \subseteq Cells \cup dropped \cup late \cup Collected

\* A native call of the executor finds a freed page or document only once the
\* book is being closed, and to render one it takes a decodePage that was past its test of
\* isRecycled when closing began: those queued before do not get there.
NativeCallsSafe ==
    wild # {} => isRecycled /\ ("render" \in wild => straggler # "none")

\* A deletion misses its annotation only after the cache has pushed a page
\* out: two taps in a row both find the page they were shown on, though the
\* first one clears the map.
SecondTapFindsPage == missed => pushed

\* Closing a book at rest never fails half-way, unless a task asked for
\* meanwhile runs.
QuietCloseSucceeds == quiet => cpc \notin {"failed", "aborted"}

\* The closer has the monitor of the page the executor renders, and waits for
\* TempHolder.lock, which the executor has.
Inversion == Closer("free") /\ xpc = "rendering" /\ Head(visit) = cur

\* Closing ends, with the document freed and the executor gone or about to
\* go, unless an exception ended it, the process died, or the two threads
\* wait for each other as in Inversion: nothing else keeps it.
CloseEnds ==
    isRecycled ~> \/ cpc = "end" /\ xpc \in {"end", "died"}
                  \/ cpc \in {"failed", "aborted"} \/ xpc = "crashed" \/ Inversion
=============================================================================
