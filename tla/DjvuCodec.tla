----------------------------- MODULE DjvuCodec -----------------------------
(***************************************************************************)
(* The callers of the DjVu library (DjvuPage, DjvuDocument, DjvuContext    *)
(* and DjvuDroidBridge.cpp) on one open book: the executor of the decode   *)
(* service, the search thread, the image loader, and the thread that       *)
(* closes the book.  They share the lock TempHolder.lock, the messages of  *)
(* the one context, and an entry of the shared preferences ("djvu") that   *)
(* marks the book while a native call may crash.  The process can die at   *)
(* any moment; only the entry survives it.                                 *)
(*                                                                         *)
(* Every thread works on a page at a time, and its pc runs through         *)
(*   open, ready, lock, status (wait, handle), render     rendering a page *)
(*   text, mark, enter, read, unmark, done                its text         *)
(* An object of Page is used by the search once; the executor and the      *)
(* loader open theirs again after it was recycled.  What the cache does    *)
(* with its holders is in PageCache.                                       *)
(***************************************************************************)
EXTENDS DjvuApi

CONSTANTS
    CachePage,  \* pages of the executor's cache
    SearchPage, \* pages the search opens, one after the other
    LoaderPage, \* the page the image loader opens
    None,
    MaxCrash,   \* bound: number of deaths of the process
    MaxLate     \* bound: decodings taken after recycle()

Worker == {"executor", "search", "loader"}
Thread == Worker \cup {"closer"}

ASSUME CodecAssumption ==
    /\ Page = CachePage \cup SearchPage \cup LoaderPage
    /\ CachePage \cap SearchPage = {} /\ LoaderPage \cap (CachePage \cup SearchPage) = {}
    /\ None \notin Page \cup Thread /\ {MaxCrash, MaxLate} \subseteq Nat

VARIABLES
    lock,       \* owner of TempHolder.lock, or None
    leaked,     \* the owner has a hold it will never release
    marker,     \* the book's entry in the preferences "djvu"
    flawed,     \* DjvuPage.containsErrors
    pc, cur,    \* where a thread is, and on which page
    handle,     \* the pageHandle argument of a rendering is not 0
    thrown,     \* a DJVU_ERROR was turned into a pending Java exception
    found,      \* what the search got of a page: "no" (not asked), "null", "text"
    toRecycle,  \* tasks that recycle a page of the search, in the executor's list
    isRecycled, \* DecodeServiceBase.isRecycled
    toClose,    \* cached pages that shutdownInner has yet to recycle
    document,   \* "open", "freed", or "null" once the field is cleared
    run,        \* ExecutorRunnable.run
    born,       \* history: the marker this process found at its start
    crashes,    \* number of deaths so far
    late        \* number of decodings taken after recycle()

lockVars == <<lock, leaked>>
markVars == <<marker, flawed>>
callVars == <<handle, thrown>>
closeVars == <<isRecycled, toClose, document, run>>
searchVars == <<found, toRecycle>>
lifeVars == <<born, crashes, late>>
vars == <<apiVars, lockVars, markVars, pc, cur, callVars, searchVars, closeVars, lifeVars>>

Init ==
    /\ ApiInit
    /\ lock = None /\ leaked = FALSE
    /\ flawed = [p \in Page |-> FALSE]
    /\ pc = [t \in Thread |-> "idle"] /\ cur = [t \in Thread |-> None]
    /\ handle = [t \in Thread |-> FALSE] /\ thrown = [t \in Thread |-> FALSE]
    /\ found = [p \in SearchPage |-> "no"] /\ toRecycle = {}
    /\ isRecycled = FALSE /\ toClose = {} /\ document = "open" /\ run = TRUE
    /\ marker = FALSE /\ born = FALSE /\ crashes = 0 /\ late = 0

---------------------------------------------------------------------------
\* A ReentrantLock: a hold of a thread that has leaked one cannot free it.
CanLock(t) == lock \in {None, t}
Lock(t) == lock' = t /\ UNCHANGED leaked
Unlock(t) == lock' = (IF leaked THEN t ELSE None) /\ UNCHANGED leaked

Goto(t, place) == pc' = [pc EXCEPT ![t] = place]

\* Mutant: realesaeLock does not look at containsErrors
UnmarkAlways(p) == marker' = FALSE /\ UNCHANGED flawed

\* writeLock and realesaeLock
Mark(p) == marker' = (marker \/ ~flawed[p]) /\ UNCHANGED flawed
Unmark(p) == marker' = (marker /\ flawed[p]) /\ UNCHANGED flawed

\* What the search keeps of a page's text
Found(t, what) == found' = IF t = "search" THEN [found EXCEPT ![cur[t]] = what] ELSE found

---------------------------------------------------------------------------
\* What a thread begins.

\* Mutant: GetPageOp hands out what it has
TakeDecodeUnopened(p) ==
    /\ pc["executor"] = "idle" /\ run /\ document # "null"
    /\ late' = (IF isRecycled THEN late + 1 ELSE late) /\ late' <= MaxLate
    /\ cur' = [cur EXCEPT !["executor"] = p]
    /\ Goto("executor", "ready")
    /\ UNCHANGED <<apiVars, lockVars, markVars, callVars, searchVars, closeVars, born, crashes>>

\* nextTask: a decoding; GetPageOp opens the page unless it is cached.  Those
\* that recycle() finds it cancels, and they do nothing; one that decodePage
\* adds after its test of isRecycled is not, and does nothing only without a
\* document.
TakeDecode(p) ==
    /\ pc["executor"] = "idle" /\ run /\ document # "null"
    /\ late' = (IF isRecycled THEN late + 1 ELSE late) /\ late' <= MaxLate
    /\ cur' = [cur EXCEPT !["executor"] = p]
    /\ Goto("executor", IF job[p] = "none" THEN "open" ELSE "ready")
    /\ UNCHANGED <<apiVars, lockVars, markVars, callVars, searchVars, closeVars, born, crashes>>

\* nextTask: the recycling of a page of the search
TakeRecycle(p) ==
    /\ pc["executor"] = "idle" /\ run /\ p \in toRecycle
    /\ toRecycle' = toRecycle \ {p}
    /\ cur' = [cur EXCEPT !["executor"] = p]
    /\ Goto("executor", "recycle")
    /\ UNCHANGED <<apiVars, lockVars, markVars, callVars, found, closeVars, lifeVars>>

ExecutorEnds ==
    /\ pc["executor"] = "idle" /\ ~run
    /\ Goto("executor", "end")
    /\ UNCHANGED <<apiVars, lockVars, markVars, cur, callVars, searchVars, closeVars, lifeVars>>

\* searchText: the next page, unless the service is recycled
NextSearch(p) ==
    /\ pc["search"] \in {"idle", "next"} /\ ~isRecycled /\ found[p] = "no"
    /\ cur' = [cur EXCEPT !["search"] = p]
    /\ Goto("search", "open")
    /\ UNCHANGED <<apiVars, lockVars, markVars, callVars, searchVars, closeVars, lifeVars>>

SearchEnds ==
    /\ pc["search"] = "next"
    /\ isRecycled \/ \A p \in SearchPage : found[p] # "no"
    /\ Goto("search", "end")
    /\ UNCHANGED <<apiVars, lockVars, markVars, cur, callVars, searchVars, closeVars, lifeVars>>

\* proccessOtherPage on the reader's document; it renders, then reads the
\* text if asked to (doText).
NextLoad(p) ==
    /\ pc["loader"] = "idle" /\ job[p] = "none" /\ document = "open"
    /\ cur' = [cur EXCEPT !["loader"] = p]
    /\ Goto("loader", "open")
    /\ UNCHANGED <<apiVars, lockVars, markVars, callVars, searchVars, closeVars, lifeVars>>

---------------------------------------------------------------------------
\* What they do with a page.

\* getPageInner, under the lock, with the constructor of DjvuPage: it keeps
\* what it reads of the marker.  A freed document makes no page.
Open(t) ==
    /\ pc[t] = "open" /\ CanLock(t)
    /\ t = "search" => document # "null"
    /\ CreatePage(cur[t], document = "open")
    /\ flawed' = [flawed EXCEPT ![cur[t]] = marker]
    /\ Goto(t, IF t = "search" THEN "text" ELSE "ready")
    /\ UNCHANGED <<lockVars, marker, cur, callVars, searchVars, closeVars, lifeVars>>

\* performDecode returns at its next isTaskDead; recycle() cancels tasks.
TaskDead ==
    /\ pc["executor"] \in {"ready", "text"} /\ isRecycled
    /\ Goto("executor", "idle")
    /\ UNCHANGED <<apiVars, lockVars, markVars, cur, callVars, searchVars, closeVars, lifeVars>>

\* renderBitmap reads pageHandle before renderPageWrapper takes the lock.
Call(t) ==
    /\ pc[t] = "ready"
    /\ handle' = [handle EXCEPT ![t] = job[cur[t]] # "none"]
    /\ Goto(t, "lock")
    /\ UNCHANGED <<apiVars, lockVars, markVars, cur, thrown, searchVars, closeVars, lifeVars>>

\* Mutant: renderPageWrapper without the lock
EnterRenderUnlocked(t) ==
    /\ pc[t] = "lock"
    /\ Mark(cur[t])
    /\ Goto(t, "status")
    /\ UNCHANGED <<apiVars, lockVars, cur, callVars, searchVars, closeVars, lifeVars>>

\* renderPageWrapper up to the native call
EnterRender(t) ==
    /\ pc[t] = "lock" /\ CanLock(t)
    /\ Lock(t) /\ Mark(cur[t])
    /\ Goto(t, "status")
    /\ UNCHANGED <<apiVars, cur, callVars, searchVars, closeVars, lifeVars>>

\* The page was recycled after the handle was read: it is freed memory.
Stale(t) == handle[t] /\ job[cur[t]] = "none"

\* while (ddjvu_page_decoding_status(page) < DDJVU_JOB_OK); the status of
\* a null page is NOTSTARTED, that of freed memory anything.
StatusDone(t) ==
    /\ pc[t] = "status" /\ handle[t]
    /\ Stale(t) \/ ~Undecided(cur[t])
    /\ Goto(t, "render")
    /\ UNCHANGED <<apiVars, lockVars, markVars, cur, callVars, searchVars, closeVars, lifeVars>>

StatusWait(t) ==
    /\ pc[t] = "status"
    /\ ~handle[t] \/ Undecided(cur[t])
    /\ Goto(t, "wait")
    /\ UNCHANGED <<apiVars, lockVars, markVars, cur, callVars, searchVars, closeVars, lifeVars>>

\* waitAndHandleMessages: wait for a first message
Wait(t) ==
    /\ pc[t] = "wait"
    /\ MessageWait
    /\ Goto(t, "handle")
    /\ UNCHANGED <<lockVars, markVars, cur, callVars, searchVars, closeVars, lifeVars>>

\* handleMessages: one message, whatever page it is about
Handle(t) ==
    /\ pc[t] = "handle" /\ mpeeked # <<>>
    /\ thrown' = [thrown EXCEPT ![t] = @ \/ Head(mpeeked).tag = "error"]
    /\ PopAndPeek
    /\ Goto(t, IF mlist = <<>> THEN "status" ELSE "handle")
    /\ UNCHANGED <<lockVars, markVars, cur, handle, searchVars, closeVars, lifeVars>>

\* Mutant: no finally block, an exception leaves marker and lock behind
LeaveRenderNoFinally(t) ==
    /\ pc[t] = "render"
    /\ \/ /\ ~thrown[t] /\ Unmark(cur[t]) /\ Unlock(t)
          /\ \/ pc' = [pc EXCEPT ![t] = "text"]
             \/ t = "loader" /\ pc' = [pc EXCEPT ![t] = "done"]
       \/ thrown[t] /\ pc' = [pc EXCEPT ![t] = "idle"] /\ UNCHANGED <<lockVars, markVars>>
    /\ handle' = [handle EXCEPT ![t] = FALSE] /\ thrown' = [thrown EXCEPT ![t] = FALSE]
    /\ UNCHANGED <<apiVars, cur, searchVars, closeVars, lifeVars>>

\* ddjvu_page_render, then the finally block of renderPageWrapper.  A
\* pending exception ends the task, or the loading without a recycle().
LeaveRender(t) ==
    /\ pc[t] = "render"
    /\ Unmark(cur[t]) /\ Unlock(t)
    /\ \/ ~thrown[t] /\ pc' = [pc EXCEPT ![t] = "text"]
       \/ ~thrown[t] /\ t = "loader" /\ pc' = [pc EXCEPT ![t] = "done"]
       \/ thrown[t] /\ pc' = [pc EXCEPT ![t] = "idle"]
    /\ handle' = [handle EXCEPT ![t] = FALSE] /\ thrown' = [thrown EXCEPT ![t] = FALSE]
    /\ UNCHANGED <<apiVars, cur, searchVars, closeVars, lifeVars>>

\* getPageText1: on a flawed page it returns with the lock held.
AskText(t) ==
    /\ pc[t] = "text" /\ CanLock(t)
    /\ IF flawed[cur[t]]
       THEN /\ lock' = t /\ leaked' = TRUE
            /\ Found(t, "null")
            /\ Goto(t, "done")
       ELSE /\ Goto(t, "mark")
            /\ UNCHANGED <<lockVars, found>>
    /\ UNCHANGED <<apiVars, markVars, cur, callVars, toRecycle, closeVars, lifeVars>>

\* writeLock() outside the lock
MarkText(t) ==
    /\ pc[t] = "mark"
    /\ Mark(cur[t])
    /\ Goto(t, "enter")
    /\ UNCHANGED <<apiVars, lockVars, cur, callVars, searchVars, closeVars, lifeVars>>

\* getPageTextSync
EnterText(t) ==
    /\ pc[t] = "enter" /\ CanLock(t)
    /\ Lock(t)
    /\ Goto(t, "read")
    /\ UNCHANGED <<apiVars, markVars, cur, callVars, searchVars, closeVars, lifeVars>>

LeaveText(t) ==
    /\ pc[t] = "read"
    /\ Unlock(t)
    /\ Found(t, "text")
    /\ Goto(t, "unmark")
    /\ UNCHANGED <<apiVars, markVars, cur, callVars, toRecycle, closeVars, lifeVars>>

\* realesaeLock() outside the lock
UnmarkText(t) ==
    /\ pc[t] = "unmark"
    /\ Unmark(cur[t])
    /\ Goto(t, "done")
    /\ UNCHANGED <<apiVars, lockVars, cur, callVars, searchVars, closeVars, lifeVars>>

\* DjvuPage.recycle
Recycle(t) ==
    /\ pc[t] = "recycle" /\ CanLock(t)
    /\ ReleasePage(cur[t])
    /\ Goto(t, "idle")
    /\ UNCHANGED <<lockVars, markVars, cur, callVars, searchVars, closeVars, lifeVars>>

\* The text is at hand: the executor goes on, the search leaves the page
\* to the executor, the loader recycles it itself.
Done(t) ==
    /\ pc[t] = "done"
    /\ Goto(t, CASE t = "executor" -> "idle" [] t = "search" -> "next" [] t = "loader" -> "recycle")
    /\ toRecycle' = IF t = "search" /\ job[cur[t]] # "none"
                    THEN toRecycle \cup {cur[t]} ELSE toRecycle
    /\ UNCHANGED <<apiVars, lockVars, markVars, cur, callVars, found, closeVars, lifeVars>>

---------------------------------------------------------------------------
\* DecodeServiceBase.recycle and shutdownInner, on the closing thread

BeginClose ==
    /\ pc["closer"] = "idle"
    /\ isRecycled' = TRUE /\ toClose' = CachePage
    /\ Goto("closer", "pages")
    /\ UNCHANGED <<apiVars, lockVars, markVars, cur, callVars, searchVars, document, run, lifeVars>>

\* ref.recycle(-3, true), whoever uses the page; the access flag of the
\* holder keeps it out of a GetPageOp.
CloseCached(p) ==
    /\ pc["closer"] = "pages" /\ p \in toClose
    /\ ~(pc["executor"] = "open" /\ cur["executor"] = p)
    /\ IF job[p] = "none" THEN UNCHANGED apiVars
       ELSE CanLock("closer") /\ ReleasePage(p)
    /\ toClose' = toClose \ {p}
    /\ UNCHANGED <<lockVars, markVars, pc, cur, callVars, searchVars, isRecycled, document, run, lifeVars>>

\* Mutant: the messages are taken without the lock
FreeDocumentUnlocked ==
    /\ pc["closer"] = "pages" /\ toClose = {}
    /\ Drain
    /\ document' = "freed"
    /\ Goto("closer", "clear")
    /\ UNCHANGED <<lockVars, markVars, cur, callVars, searchVars, isRecycled, toClose, run, lifeVars>>

\* AbstractCodecDocument.recycle: the context handles its messages and
\* goes, then the document; lock, free and unlock are one step.
FreeDocument ==
    /\ pc["closer"] = "pages" /\ toClose = {}
    /\ CanLock("closer")
    /\ Drain
    /\ document' = "freed"
    /\ Goto("closer", "clear")
    /\ UNCHANGED <<lockVars, markVars, cur, callVars, searchVars, isRecycled, toClose, run, lifeVars>>

\* codecDocument = null
ClearDocument ==
    /\ pc["closer"] = "clear"
    /\ document' = "null"
    /\ Goto("closer", "stop")
    /\ UNCHANGED <<apiVars, lockVars, markVars, cur, callVars, searchVars, isRecycled, toClose, run, lifeVars>>

StopExecutor ==
    /\ pc["closer"] = "stop"
    /\ run' = FALSE
    /\ Goto("closer", "end")
    /\ UNCHANGED <<apiVars, lockVars, markVars, cur, callVars, searchVars, isRecycled, toClose, document, lifeVars>>

---------------------------------------------------------------------------
\* The process dies, in a native call, for a codecDocument that is null on
\* the search thread, or killed by the system; the book is opened again.
Crash ==
    /\ crashes < MaxCrash
    /\ job' = [p \in Page |-> "none"] /\ owed' = [p \in Page |-> <<>>]
    /\ mlist' = <<>> /\ mpeeked' = <<>>
    /\ lock' = None /\ leaked' = FALSE
    /\ flawed' = [p \in Page |-> FALSE]
    /\ pc' = [t \in Thread |-> "idle"] /\ cur' = [t \in Thread |-> None]
    /\ handle' = [t \in Thread |-> FALSE] /\ thrown' = [t \in Thread |-> FALSE]
    /\ found' = [p \in SearchPage |-> "no"] /\ toRecycle' = {}
    /\ isRecycled' = FALSE /\ toClose' = {} /\ document' = "open" /\ run' = TRUE
    /\ marker' = marker /\ born' = marker
    /\ crashes' = crashes + 1 /\ late' = 0

Step(t) ==
    \/ Open(t) \/ Call(t) \/ EnterRender(t) \/ StatusDone(t) \/ StatusWait(t)
    \/ Wait(t) \/ Handle(t) \/ LeaveRender(t)
    \/ AskText(t) \/ MarkText(t) \/ EnterText(t) \/ LeaveText(t) \/ UnmarkText(t)
    \/ Recycle(t) \/ Done(t)

Executor ==
    \/ Step("executor") \/ TaskDead
    \/ \E p \in CachePage : TakeDecode(p)
    \/ \E p \in SearchPage : TakeRecycle(p)
    \/ ExecutorEnds

Search == Step("search") \/ SearchEnds \/ \E p \in SearchPage : NextSearch(p)

Loader == Step("loader") \/ \E p \in LoaderPage : NextLoad(p)

Closer ==
    \/ BeginClose \/ FreeDocument \/ ClearDocument \/ StopExecutor
    \/ \E p \in CachePage : CloseCached(p)

Native == \E p \in Page : ApiThread(p)
              /\ UNCHANGED <<lockVars, markVars, pc, cur, callVars, searchVars, closeVars, lifeVars>>

Next == Executor \/ Search \/ Loader \/ Closer \/ Native \/ Crash

Spec == Init /\ [][Next]_vars

\* A step that takes the lock.  A thread queued on a ReentrantLock is woken
\* at every release, and those that could overtake it for ever would have to
\* be asked for work for ever.
TakesLock(t) ==
    \/ Open(t) \/ EnterRender(t) \/ AskText(t) \/ EnterText(t) \/ Recycle(t)
    \/ t = "closer" /\ (FreeDocument \/ \E p \in CachePage : CloseCached(p))

\* Threads run; a native decoding comes to an end and posts what it owes.
\* Nobody has to ask for a decoding, to load, to close or to crash.
FairSpec ==
    /\ Spec
    /\ \A t \in Worker : WF_vars(Step(t))
    /\ \A t \in Thread : SF_vars(TakesLock(t))
    /\ WF_vars(ClearDocument \/ StopExecutor)
    /\ WF_vars(Native)

---------------------------------------------------------------------------
\* Inside the native renderPage, TempHolder.lock held
InRender(t) == pc[t] \in {"status", "wait", "handle", "render"}

\* Between writeLock() and realesaeLock() of a page that writes the marker
Marking(t) ==
    /\ InRender(t) \/ pc[t] \in {"enter", "read", "unmark"}
    /\ ~flawed[cur[t]]

\* Waiting for a page that nobody decodes: its handle was 0, or it was freed.
DeadWait(t) == InRender(t) /\ job[cur[t]] = "none"

TypeOK ==
    /\ ApiTypeOK
    /\ lock \in Thread \cup {None} /\ leaked \in BOOLEAN
    /\ marker \in BOOLEAN /\ flawed \in [Page -> BOOLEAN]
    /\ pc \in [Thread -> {"idle", "next", "open", "ready", "lock", "status", "wait", "handle",
                          "render", "text", "mark", "enter", "read", "unmark", "done",
                          "recycle", "pages", "clear", "stop", "end"}]
    /\ cur \in [Thread -> Page \cup {None}]
    /\ handle \in [Thread -> BOOLEAN] /\ thrown \in [Thread -> BOOLEAN]
    /\ found \in [SearchPage -> {"no", "null", "text"}] /\ toRecycle \subseteq SearchPage
    /\ isRecycled \in BOOLEAN /\ toClose \subseteq CachePage
    /\ document \in {"open", "freed", "null"} /\ run \in BOOLEAN
    /\ born \in BOOLEAN /\ crashes \in 0 .. MaxCrash /\ late \in 0 .. MaxLate

\* The messages of the context have one reader at a time, who waits in
\* renderPage with the lock held, and a peeked message is being handled by
\* it: with two readers one pops the message the other waits for.
OneReader ==
    /\ \A t, u \in Worker : InRender(t) /\ InRender(u) => t = u
    /\ mpeeked # <<>> => \E t \in Worker : pc[t] = "handle"

\* A process that was born without the marker has it only while some call
\* that wrote it is under way: reading a healthy book leaves no mark, and a
\* closed book none, however the calls of the threads overlap.
MarkExplained == marker /\ ~born => \E t \in Worker : Marking(t)

\* A book whose marker survived a death of the process keeps it: no call
\* of a later process takes it away (DjvuPage.realesaeLock with
\* containsErrors), however its threads overlap.
StaysMarked == born => marker

\* Until the book is closed no rendering waits for a page without a native
\* page; from then on it may, with TempHolder.lock held.
DeadWaitOnlyOnClose == (\E t \in Worker : DeadWait(t)) => isRecycled

\* What will end the wait of a rendering is still to come or in the list: the
\* message is not posted before the loop has looked at the status it tells of,
\* and nobody else takes it.
WaitWoken ==
    \A t \in Worker : pc[t] = "wait" /\ ~DeadWait(t) =>
        \/ job[cur[t]] = "started" \/ owed[cur[t]] # <<>>
        \/ \E i \in 1..Len(mlist) : mlist[i].page = cur[t]

\* A rendering of a live page returns: the wait loop of renderPage misses
\* no wake-up, whatever messages it takes that are not for its page.
RenderReturns ==
    \A t \in Worker : InRender(t) /\ ~DeadWait(t) ~> ~InRender(t)

\* Closing comes to its end, unless a rendering waits for a page the closing
\* itself recycled, or the lock was left held by getPageText1.
CloseEnds ==
    isRecycled ~> (pc["closer"] = "end" \/ leaked \/ \E t \in Worker : DeadWait(t))

\* On a book that never crashed the search gets the text of every page it
\* asks (docs/wiki/what-is-new/7.11: search in DjVu documents).
SearchReadsText == ~born => \A p \in SearchPage : found[p] # "null"
=============================================================================
