-------------------------- MODULE DjvuCodecProofs --------------------------
(***************************************************************************)
(* Proofs about the callers of the DjVu library, for any pages and any     *)
(* number of crashes: the messages of the context have one reader at a     *)
(* time (OneReader), the marker of a book tells a call under way or a past *)
(* crash (MarkExplained), and is never taken away again (StaysMarked); a   *)
(* rendering of an open book has its page (DeadWaitOnlyOnClose).           *)
(***************************************************************************)
EXTENDS DjvuCodec, ListsProofs

(***************************************************************************)
(* The inductive invariant.                                                *)
(***************************************************************************)
\* Where a worker works on a page that was opened
Opened == {"ready", "lock", "status", "wait", "handle", "render",
           "text", "mark", "enter", "read", "unmark", "done"}

Place == Opened \cup {"idle", "next", "open", "recycle", "pages", "clear", "stop", "end"}

Typed ==
    /\ job \in [Page -> Status]
    /\ leaked \in BOOLEAN /\ marker \in BOOLEAN /\ born \in BOOLEAN
    /\ flawed \in [Page -> BOOLEAN]
    /\ pc \in [Thread -> Place]
    /\ cur \in [Thread -> Page \cup {None}]
    /\ handle \in [Thread -> BOOLEAN] /\ thrown \in [Thread -> BOOLEAN]
    /\ toRecycle \subseteq SearchPage

\* Each worker opens pages of its own, so that no other one changes what is
\* recorded of the page it works on.
PageOf(t) == CASE t = "executor" -> CachePage
               [] t = "search" -> SearchPage
               [] t = "loader" -> LoaderPage

OwnPages ==
    /\ \A t \in Worker : pc[t] \in Opened \cup {"open"} => cur[t] \in PageOf(t)
    /\ \A t \in Worker : pc[t] = "recycle" => cur[t] \in Page

\* The native calls that wait or read text are under TempHolder.lock.
Locked ==
    /\ \A t \in Worker : InRender(t) \/ pc[t] = "read" => lock = t
    /\ mpeeked # <<>> => \E t \in Worker : pc[t] = "handle"

\* In a process born with the marker, every page is flawed.
BornFlawed ==
    born =>
        /\ marker
        /\ \A p \in Page : job[p] # "none" => flawed[p]
        /\ \A t \in Worker : pc[t] \in Opened => flawed[cur[t]]

Inv == Typed /\ OwnPages /\ Locked /\ BornFlawed /\ MarkExplained

LEMMA InitInv == Init => Inv
<1> SUFFICES ASSUME Init PROVE Inv
  OBVIOUS
<1> USE DEF Init, Thread, Worker
<1>1. Typed
  BY DEF ApiInit, Typed, Place, Opened, Status
<1>2. \A t \in Worker : pc[t] = "idle"
  OBVIOUS
<1>3. OwnPages /\ Locked
  BY <1>2 DEF OwnPages, Locked, Opened, InRender, ApiInit
<1>4. BornFlawed /\ MarkExplained
  BY DEF BornFlawed, MarkExplained
<1> QED BY <1>1, <1>3, <1>4 DEF Inv

(***************************************************************************)
(* One lemma per part of the invariant, one step per action.               *)
(***************************************************************************)
LEMMA TypedStep == ASSUME Inv, Next PROVE Typed'
<1> USE DEF Inv, Typed, Goto, Place, Opened, Thread, Worker, Status
<1>1. ASSUME NEW t \in Worker, Step(t) PROVE Typed'
  <2>0. t \in Thread /\ cur[t] \in Page \cup {None}
    OBVIOUS
  <2>1. CASE Open(t)
    BY <2>0, <2>1 DEF Open, CreatePage, OwnPages, PageOf, lockVars, callVars, searchVars, lifeVars
  <2>2. CASE Call(t)
    BY <2>0, <2>2 DEF Call, apiVars, lockVars, markVars, searchVars, lifeVars
  <2>3. CASE EnterRender(t)
    BY <2>0, <2>3 DEF EnterRender, Lock, Mark, apiVars, callVars, searchVars, lifeVars
  <2>4. CASE StatusDone(t) \/ StatusWait(t)
    BY <2>0, <2>4 DEF StatusDone, StatusWait, apiVars, lockVars, markVars, callVars, searchVars, lifeVars
  <2>5. CASE Wait(t) \/ Handle(t)
    BY <2>0, <2>5 DEF Wait, MessageWait, Handle, PopAndPeek, apiVars, lockVars, markVars, callVars,
                      searchVars, lifeVars
  <2>6. CASE LeaveRender(t)
    BY <2>0, <2>6 DEF LeaveRender, Unmark, Unlock, apiVars, searchVars, lifeVars
  <2>7. CASE AskText(t)
    BY <2>0, <2>7 DEF AskText, apiVars, lockVars, markVars, callVars, lifeVars
  <2>8. CASE MarkText(t) \/ UnmarkText(t)
    BY <2>0, <2>8 DEF MarkText, UnmarkText, Mark, Unmark, apiVars, lockVars, callVars, searchVars, lifeVars
  <2>9. CASE EnterText(t) \/ LeaveText(t)
    BY <2>0, <2>9 DEF EnterText, LeaveText, Lock, Unlock, apiVars, markVars, callVars, searchVars, lifeVars
  <2>10. CASE Recycle(t)
    BY <2>0, <2>10 DEF Recycle, ReleasePage, lockVars, markVars, callVars, searchVars, lifeVars
  <2>11. CASE Done(t)
    BY <2>0, <2>11 DEF Done, OwnPages, PageOf, apiVars, lockVars, markVars, callVars, lifeVars
  <2> QED BY <1>1, <2>1, <2>2, <2>3, <2>4, <2>5, <2>6, <2>7, <2>8, <2>9, <2>10, <2>11 DEF Step
<1>2. CASE Executor
  <2>1. ASSUME NEW p \in CachePage, TakeDecode(p) PROVE Typed'
    BY <2>1, CodecAssumption DEF TakeDecode, apiVars, lockVars, markVars, callVars, searchVars, lifeVars
  <2>2. ASSUME NEW p \in SearchPage, TakeRecycle(p) PROVE Typed'
    BY <2>2, CodecAssumption DEF TakeRecycle, apiVars, lockVars, markVars, callVars, lifeVars
  <2>3. CASE TaskDead \/ ExecutorEnds
    BY <2>3 DEF TaskDead, ExecutorEnds, apiVars, lockVars, markVars, callVars, searchVars, lifeVars
  <2> QED BY <1>1, <1>2, <2>1, <2>2, <2>3 DEF Executor
<1>3. CASE Search
  BY <1>1, <1>3, CodecAssumption
     DEF Search, SearchEnds, NextSearch, apiVars, lockVars, markVars, callVars, searchVars, lifeVars
<1>4. CASE Loader
  BY <1>1, <1>4, CodecAssumption
     DEF Loader, NextLoad, apiVars, lockVars, markVars, callVars, searchVars, lifeVars
<1>5. CASE Closer
  <2>1. ASSUME NEW p \in CachePage, CloseCached(p) PROVE Typed'
    BY <2>1, CodecAssumption DEF CloseCached, ReleasePage, apiVars, lockVars, markVars, callVars, searchVars, lifeVars
  <2>2. CASE BeginClose \/ FreeDocument \/ ClearDocument \/ StopExecutor
    BY <2>2 DEF BeginClose, FreeDocument, Drain, ClearDocument, StopExecutor, apiVars, lockVars,
                markVars, callVars, searchVars, lifeVars
  <2> QED BY <1>5, <2>1, <2>2 DEF Closer
<1>6. CASE Native
  BY <1>6 DEF Native, ApiThread, NotifyChunk, DecodeEnds, Post, lockVars, markVars, callVars,
              searchVars, lifeVars
<1>7. CASE Crash
  BY <1>7 DEF Crash
<1> QED BY <1>2, <1>3, <1>4, <1>5, <1>6, <1>7 DEF Next

LEMMA OwnPagesStep == ASSUME Inv, Next PROVE OwnPages'
<1> USE DEF Inv, Typed, OwnPages, Goto, Opened, Place, Thread, Worker
<1>0. TRUE
  OBVIOUS
<1>1. ASSUME NEW t \in Worker, Step(t) PROVE OwnPages'
  <2>1. CASE Open(t) \/ Recycle(t)
    BY <2>1 DEF Open, Recycle
  <2>2. CASE Call(t) \/ EnterRender(t) \/ StatusDone(t) \/ StatusWait(t)
    BY <2>2 DEF Call, EnterRender, StatusDone, StatusWait
  <2>3. CASE Wait(t) \/ Handle(t) \/ LeaveRender(t)
    BY <2>3 DEF Wait, Handle, LeaveRender
  <2>4. CASE AskText(t) \/ MarkText(t) \/ EnterText(t) \/ LeaveText(t) \/ UnmarkText(t)
    BY <2>4 DEF AskText, MarkText, EnterText, LeaveText, UnmarkText
  <2>5. CASE Done(t)
    BY <2>5, CodecAssumption DEF Done, PageOf
  <2> QED BY <1>1, <2>1, <2>2, <2>3, <2>4, <2>5 DEF Step
<1>2. CASE Executor
  <2>1. ASSUME NEW p \in CachePage, TakeDecode(p) PROVE OwnPages'
    BY <2>1, CodecAssumption DEF TakeDecode, PageOf
  <2>2. ASSUME NEW p \in SearchPage, TakeRecycle(p) PROVE OwnPages'
    BY <2>2, CodecAssumption DEF TakeRecycle, PageOf
  <2>3. CASE TaskDead \/ ExecutorEnds
    BY <2>3 DEF TaskDead, ExecutorEnds
  <2> QED BY <1>1, <1>2, <2>1, <2>2, <2>3 DEF Executor
<1>3. CASE Search
  BY <1>1, <1>3 DEF Search, SearchEnds, NextSearch, PageOf
<1>4. CASE Loader
  BY <1>1, <1>4 DEF Loader, NextLoad, PageOf
<1>5. CASE Closer
  BY <1>5 DEF Closer, CloseCached, BeginClose, FreeDocument, ClearDocument, StopExecutor
<1>6. CASE Native
  BY <1>6 DEF Native
<1>7. CASE Crash
  BY <1>7 DEF Crash
<1> QED BY <1>2, <1>3, <1>4, <1>5, <1>6, <1>7 DEF Next

LEMMA LockedStep == ASSUME Inv, Next PROVE Locked'
<1> USE DEF Inv, Typed, Locked, InRender, Goto, Place, Opened, Thread, Worker
<1>0. None \notin Worker
  BY CodecAssumption
<1>1. ASSUME NEW t \in Worker, Step(t) PROVE Locked'
  <2>1. CASE Open(t) \/ Recycle(t)
    BY <2>1 DEF Open, Recycle, CreatePage, ReleasePage, lockVars
  <2>2. CASE Call(t) \/ StatusDone(t) \/ StatusWait(t)
    BY <2>2 DEF Call, StatusDone, StatusWait, lockVars, apiVars
  <2>3. CASE EnterRender(t)
    BY <1>0, <2>3 DEF EnterRender, CanLock, Lock, apiVars
  <2>4. CASE Wait(t)
    BY <2>4 DEF Wait, lockVars
  <2>5. CASE Handle(t)
    BY <2>5 DEF Handle, PopAndPeek, lockVars
  <2>6. CASE LeaveRender(t)
    BY <2>6 DEF LeaveRender, Unlock, apiVars
  <2>7. CASE AskText(t)
    BY <1>0, <2>7 DEF AskText, CanLock, lockVars, apiVars
  <2>8. CASE MarkText(t) \/ UnmarkText(t)
    BY <2>8 DEF MarkText, UnmarkText, lockVars, apiVars
  <2>9. CASE EnterText(t) \/ LeaveText(t)
    BY <1>0, <2>9 DEF EnterText, LeaveText, CanLock, Lock, Unlock, apiVars
  <2>10. CASE Done(t)
    BY <2>10 DEF Done, lockVars, apiVars
  <2> QED BY <1>1, <2>1, <2>2, <2>3, <2>4, <2>5, <2>6, <2>7, <2>8, <2>9, <2>10 DEF Step
<1>2. CASE Executor
  BY <1>1, <1>2 DEF Executor, TakeDecode, TakeRecycle, TaskDead, ExecutorEnds, lockVars, apiVars
<1>3. CASE Search
  BY <1>1, <1>3 DEF Search, SearchEnds, NextSearch, lockVars, apiVars
<1>4. CASE Loader
  BY <1>1, <1>4 DEF Loader, NextLoad, lockVars, apiVars
<1>5. CASE Closer
  <2>1. ASSUME NEW p \in CachePage, CloseCached(p) PROVE Locked'
    BY <2>1 DEF CloseCached, ReleasePage, lockVars, apiVars
  <2>2. CASE BeginClose \/ FreeDocument \/ ClearDocument \/ StopExecutor
    BY <2>2 DEF BeginClose, FreeDocument, Drain, ClearDocument, StopExecutor, lockVars, apiVars
  <2> QED BY <1>5, <2>1, <2>2 DEF Closer
<1>6. CASE Native
  BY <1>6 DEF Native, ApiThread, NotifyChunk, DecodeEnds, Post, lockVars
<1>7. CASE Crash
  BY <1>7 DEF Crash
<1> QED BY <1>2, <1>3, <1>4, <1>5, <1>6, <1>7 DEF Next

\* A step that opens nothing keeps BornFlawed.
LEMMA BornFlawedFrame ==
    ASSUME BornFlawed, born' = born, flawed' = flawed, born => marker',
           \A p \in Page : job'[p] # "none" => job[p] # "none",
           \A u \in Worker : pc'[u] \in Opened => pc[u] \in Opened /\ cur'[u] = cur[u]
    PROVE  BornFlawed'
  BY DEF BornFlawed

LEMMA BornFlawedStep == ASSUME Inv, Next PROVE BornFlawed'
<1>0. \A t \in Worker : PageOf(t) \subseteq Page
  BY CodecAssumption DEF PageOf, Worker
<1>1. ASSUME NEW t \in Worker, Step(t) PROVE BornFlawed'
  <2>0. /\ BornFlawed /\ Typed /\ t \in Thread /\ Worker \subseteq Thread
        /\ pc[t] \in Opened \cup {"open", "recycle"} => cur[t] \in Page
    BY <1>0 DEF Inv, OwnPages, Thread
  <2>1. CASE Open(t)
    <3>1. /\ born' = born /\ marker' = marker /\ cur' = cur /\ cur[t] \in Page
          /\ flawed' = [flawed EXCEPT ![cur[t]] = marker]
          /\ \A p \in Page : p # cur[t] => job'[p] = job[p]
          /\ \A u \in Worker : u # t => pc'[u] = pc[u]
      BY <2>0, <2>1 DEF Open, CreatePage, Typed, Goto, lifeVars
    <3> QED BY <2>0, <3>1 DEF BornFlawed, Typed
  <2>2. CASE Call(t) \/ StatusDone(t) \/ StatusWait(t) \/ Done(t)
    <3>1. born' = born /\ flawed' = flawed /\ marker' = marker /\ job' = job /\ cur' = cur
      BY <2>2 DEF Call, StatusDone, StatusWait, Done, lifeVars, markVars, apiVars
    <3>2. \A u \in Worker : pc'[u] \in Opened => pc[u] \in Opened
      BY <2>0, <2>2 DEF Call, StatusDone, StatusWait, Done, Goto, Typed, Opened, Thread, Worker
    <3> QED BY <2>0, <3>1, <3>2, BornFlawedFrame DEF BornFlawed
  <2>3. CASE Wait(t) \/ Handle(t)
    <3>1. born' = born /\ flawed' = flawed /\ marker' = marker /\ job' = job /\ cur' = cur
      BY <2>3 DEF Wait, MessageWait, Handle, PopAndPeek, lifeVars, markVars, apiVars
    <3>2. \A u \in Worker : pc'[u] \in Opened => pc[u] \in Opened
      BY <2>0, <2>3 DEF Wait, MessageWait, Handle, PopAndPeek, Goto, Typed, Opened, Thread, Worker
    <3> QED BY <2>0, <3>1, <3>2, BornFlawedFrame DEF BornFlawed
  <2>4. CASE AskText(t) \/ EnterText(t) \/ LeaveText(t)
    <3>1. born' = born /\ flawed' = flawed /\ marker' = marker /\ job' = job /\ cur' = cur
      BY <2>4 DEF AskText, EnterText, LeaveText, lifeVars, markVars, apiVars
    <3>2. \A u \in Worker : pc'[u] \in Opened => pc[u] \in Opened
      BY <2>0, <2>4 DEF AskText, EnterText, LeaveText, Goto, Typed, Opened, Thread, Worker
    <3> QED BY <2>0, <3>1, <3>2, BornFlawedFrame DEF BornFlawed
  <2>5. CASE EnterRender(t) \/ MarkText(t)
    <3>1. born' = born /\ flawed' = flawed /\ (marker => marker') /\ job' = job /\ cur' = cur
      BY <2>5 DEF EnterRender, MarkText, Mark, lifeVars, apiVars
    <3>2. \A u \in Worker : pc'[u] \in Opened => pc[u] \in Opened
      BY <2>0, <2>5 DEF EnterRender, MarkText, Goto, Typed, Opened, Thread, Worker
    <3> QED BY <2>0, <3>1, <3>2, BornFlawedFrame DEF BornFlawed
  <2>6. CASE LeaveRender(t) \/ UnmarkText(t)
    <3>1. /\ born' = born /\ flawed' = flawed /\ job' = job /\ cur' = cur
          /\ marker /\ flawed[cur[t]] => marker'
          /\ pc[t] \in Opened
      BY <2>6 DEF LeaveRender, UnmarkText, Unmark, Opened, lifeVars, apiVars
    <3>2. \A u \in Worker : pc'[u] \in Opened => pc[u] \in Opened
      BY <2>0, <2>6 DEF LeaveRender, UnmarkText, Goto, Typed, Opened, Thread, Worker
    <3> QED BY <2>0, <3>1, <3>2, BornFlawedFrame DEF BornFlawed
  <2>7. CASE Recycle(t)
    <3>1. /\ born' = born /\ flawed' = flawed /\ marker' = marker /\ cur' = cur
          /\ \A p \in Page : job'[p] # "none" => job[p] # "none"
      BY <2>0, <2>7 DEF Recycle, ReleasePage, Typed, lifeVars, markVars
    <3>2. \A u \in Worker : pc'[u] \in Opened => pc[u] \in Opened
      BY <2>0, <2>7 DEF Recycle, Goto, Typed, Opened, Thread, Worker
    <3> QED BY <2>0, <3>1, <3>2, BornFlawedFrame DEF BornFlawed
  <2> QED BY <1>1, <2>1, <2>2, <2>3, <2>4, <2>5, <2>6, <2>7 DEF Step
<1>2. CASE Executor
  <2>0. BornFlawed /\ Typed
    BY DEF Inv
  <2>1. ASSUME NEW p \in CachePage, TakeDecode(p) PROVE BornFlawed'
    <3>1. /\ born' = born /\ flawed' = flawed /\ marker' = marker /\ job' = job /\ p \in Page
          /\ cur' = [cur EXCEPT !["executor"] = p]
          /\ pc' = [pc EXCEPT !["executor"] = IF job[p] = "none" THEN "open" ELSE "ready"]
      BY <2>1, CodecAssumption DEF TakeDecode, Goto, lifeVars, markVars, apiVars
    <3>2. \A u \in Worker : pc'[u] \in Opened =>
             \/ pc[u] \in Opened /\ cur'[u] = cur[u]
             \/ cur'[u] = p /\ job[p] # "none"
      BY <2>0, <3>1 DEF Typed, Opened, Thread, Worker
    <3> QED BY <2>0, <3>1, <3>2 DEF BornFlawed
  <2>2. ASSUME NEW p \in SearchPage, TakeRecycle(p) PROVE BornFlawed'
    <3>1. born' = born /\ flawed' = flawed /\ marker' = marker /\ job' = job
      BY <2>2 DEF TakeRecycle, lifeVars, markVars, apiVars
    <3>2. \A u \in Worker : pc'[u] \in Opened => pc[u] \in Opened /\ cur'[u] = cur[u]
      BY <2>0, <2>2 DEF TakeRecycle, Goto, Typed, Opened, Thread, Worker
    <3> QED BY <2>0, <3>1, <3>2, BornFlawedFrame DEF BornFlawed
  <2>3. CASE TaskDead \/ ExecutorEnds
    <3>1. born' = born /\ flawed' = flawed /\ marker' = marker /\ job' = job /\ cur' = cur
      BY <2>3 DEF TaskDead, ExecutorEnds, lifeVars, markVars, apiVars
    <3>2. \A u \in Worker : pc'[u] \in Opened => pc[u] \in Opened
      BY <2>0, <2>3 DEF TaskDead, ExecutorEnds, Goto, Typed, Opened, Thread, Worker
    <3> QED BY <2>0, <3>1, <3>2, BornFlawedFrame DEF BornFlawed
  <2> QED BY <1>1, <1>2, <2>1, <2>2, <2>3 DEF Executor, Worker
<1>3. ASSUME Search \/ Loader, ~Step("search"), ~Step("loader") PROVE BornFlawed'
  <2>0. BornFlawed /\ Typed
    BY DEF Inv
  <2>1. born' = born /\ flawed' = flawed /\ marker' = marker /\ job' = job
    BY <1>3 DEF Search, SearchEnds, NextSearch, Loader, NextLoad, lifeVars, markVars, apiVars
  <2>2. \A u \in Worker : pc'[u] \in Opened => pc[u] \in Opened /\ cur'[u] = cur[u]
    BY <2>0, <1>3 DEF Search, SearchEnds, NextSearch, Loader, NextLoad, Goto, Typed, Opened, Thread, Worker
  <2> QED BY <2>0, <2>1, <2>2, BornFlawedFrame DEF BornFlawed
<1>4. CASE Closer
  <2>0. BornFlawed /\ Typed
    BY DEF Inv
  <2>1. born' = born /\ flawed' = flawed /\ marker' = marker /\ cur' = cur
    BY <1>4 DEF Closer, CloseCached, BeginClose, FreeDocument, ClearDocument, StopExecutor, lifeVars, markVars
  <2>2. \A p \in Page : job'[p] # "none" => job[p] # "none"
    BY <2>0, <1>4 DEF Closer, CloseCached, ReleasePage, BeginClose, FreeDocument, Drain, ClearDocument,
          StopExecutor, Typed, apiVars
  <2>3. \A u \in Worker : pc'[u] = pc[u]
    BY <2>0, <1>4 DEF Closer, CloseCached, BeginClose, FreeDocument, ClearDocument, StopExecutor, Goto,
          Typed, Thread, Worker
  <2> QED BY <2>0, <2>1, <2>2, <2>3, BornFlawedFrame DEF BornFlawed
<1>5. CASE Native
  <2>0. BornFlawed /\ Typed
    BY DEF Inv
  <2>1. born' = born /\ flawed' = flawed /\ marker' = marker /\ cur' = cur /\ pc' = pc
    BY <1>5 DEF Native, markVars, lifeVars
  <2>2. \A p \in Page : job'[p] # "none" => job[p] # "none"
    BY <2>0, <1>5 DEF Native, ApiThread, NotifyChunk, DecodeEnds, Post, Typed
  <2> QED BY <2>0, <2>1, <2>2, BornFlawedFrame DEF BornFlawed
<1>6. CASE Crash
  BY <1>6 DEF Crash, BornFlawed, Thread, Opened, Worker
<1> QED BY <1>1, <1>2, <1>3, <1>4, <1>5, <1>6 DEF Next, Search, Loader, Worker

\* A step that leaves every call that wrote the marker under way.
LEMMA MarkExplainedFrame ==
    ASSUME MarkExplained, born' = born, marker' => marker,
           \A u \in Worker : Marking(u) => Marking(u)'
    PROVE  MarkExplained'
  BY DEF MarkExplained

LEMMA MarkExplainedStep == ASSUME Inv, Next PROVE MarkExplained'
<1> DEFINE Calls == {"status", "wait", "handle", "render", "enter", "read", "unmark"}
<1>0. /\ MarkExplained /\ Typed /\ Worker \subseteq Thread
      /\ \A u \in Worker : Marking(u) <=> pc[u] \in Calls /\ ~flawed[cur[u]]
      /\ \A u \in Worker : Marking(u)' <=> pc'[u] \in Calls /\ ~flawed'[cur'[u]]
  BY DEF Inv, Marking, InRender, Thread
<1>1. ASSUME NEW t \in Worker, Step(t) PROVE MarkExplained'
  <2>1. CASE Open(t)
    <3>1. /\ born' = born /\ marker' = marker /\ cur' = cur /\ pc[t] = "open"
          /\ flawed' = [flawed EXCEPT ![cur[t]] = marker]
      BY <2>1 DEF Open, lifeVars
    <3>2. \A u \in Worker : u # t => pc'[u] = pc[u]
      BY <1>0, <2>1 DEF Open, Goto, Typed
    <3>3. ASSUME NEW u \in Worker, u # t, pc[u] \in Calls PROVE cur[u] # cur[t]
      <4>1. cur[u] \in PageOf(u) /\ cur[t] \in PageOf(t)
        BY <3>1, <3>3 DEF Inv, OwnPages, Opened
      <4> QED BY <4>1, <3>3, CodecAssumption DEF PageOf, Worker
    <3>4. cur[t] \in Page
      BY <3>1, CodecAssumption DEF Inv, OwnPages, PageOf, Worker
    <3>5. \A u \in Worker : Marking(u) => Marking(u)'
      BY <1>0, <3>1, <3>2, <3>3, <3>4 DEF Typed
    <3> QED BY <1>0, <3>1, <3>5, MarkExplainedFrame
  <2>2. CASE EnterRender(t) \/ MarkText(t)
    <3>1. /\ born' = born /\ flawed' = flawed /\ cur' = cur /\ marker' = (marker \/ ~flawed[cur[t]])
          /\ pc[t] \notin Calls
      BY <2>2 DEF EnterRender, MarkText, Mark, lifeVars
    <3>2. pc'[t] \in Calls /\ \A u \in Worker : u # t => pc'[u] = pc[u]
      BY <1>0, <2>2 DEF EnterRender, MarkText, Goto, Typed
    <3>3. CASE flawed[cur[t]]
      BY <1>0, <3>1, <3>2, <3>3, MarkExplainedFrame
    <3>4. CASE ~flawed[cur[t]]
      BY <1>0, <3>1, <3>2, <3>4 DEF MarkExplained
    <3> QED BY <3>3, <3>4
  <2>3. CASE LeaveRender(t) \/ UnmarkText(t)
    <3>1. born' = born /\ flawed' = flawed /\ cur' = cur /\ marker' = (marker /\ flawed[cur[t]])
      BY <2>3 DEF LeaveRender, UnmarkText, Unmark, lifeVars
    <3>2. \A u \in Worker : u # t => pc'[u] = pc[u]
      BY <1>0, <2>3 DEF LeaveRender, UnmarkText, Goto, Typed
    <3>3. CASE flawed[cur[t]]
      BY <1>0, <3>1, <3>2, <3>3, MarkExplainedFrame
    <3>4. CASE ~flawed[cur[t]]
      BY <3>1, <3>4 DEF MarkExplained
    <3> QED BY <3>3, <3>4
  <2>4. CASE StatusDone(t) \/ StatusWait(t) \/ Wait(t) \/ Handle(t) \/ EnterText(t) \/ LeaveText(t)
    <3>1. born' = born /\ flawed' = flawed /\ cur' = cur /\ marker' = marker
      BY <2>4 DEF StatusDone, StatusWait, Wait, Handle, EnterText, LeaveText, lifeVars, markVars
    <3>2. \A u \in Worker : pc[u] \in Calls => pc'[u] \in Calls
      BY <1>0, <2>4 DEF StatusDone, StatusWait, Wait, Handle, EnterText, LeaveText, Goto, Typed
    <3> QED BY <1>0, <3>1, <3>2, MarkExplainedFrame
  <2>5. CASE Call(t) \/ AskText(t) \/ Recycle(t) \/ Done(t)
    <3>1. born' = born /\ flawed' = flawed /\ cur' = cur /\ marker' = marker
      BY <2>5 DEF Call, AskText, Recycle, Done, lifeVars, markVars
    <3>2. \A u \in Worker : pc[u] \in Calls => pc'[u] \in Calls
      BY <1>0, <2>5 DEF Call, AskText, Recycle, Done, Goto, Typed
    <3> QED BY <1>0, <3>1, <3>2, MarkExplainedFrame
  <2> QED BY <1>1, <2>1, <2>2, <2>3, <2>4, <2>5 DEF Step
<1>2. ASSUME Executor \/ Search \/ Loader, \A t \in Worker : ~Step(t) PROVE MarkExplained'
  <2>1. born' = born /\ flawed' = flawed /\ marker' = marker
    BY <1>2 DEF Executor, TakeDecode, TakeRecycle, TaskDead, ExecutorEnds, Search, SearchEnds,
          NextSearch, Loader, NextLoad, lifeVars, markVars, Worker
  <2>2. \A u \in Worker : pc[u] \in Calls => pc'[u] \in Calls /\ cur'[u] = cur[u]
    BY <1>0, <1>2 DEF Executor, TakeDecode, TakeRecycle, TaskDead, ExecutorEnds, Search, SearchEnds,
          NextSearch, Loader, NextLoad, Goto, Typed, Worker
  <2> QED BY <1>0, <2>1, <2>2, MarkExplainedFrame
<1>3. CASE Closer
  <2>1. born' = born /\ flawed' = flawed /\ marker' = marker /\ cur' = cur
    BY <1>3 DEF Closer, CloseCached, BeginClose, FreeDocument, ClearDocument, StopExecutor, lifeVars, markVars
  <2>2. \A u \in Worker : pc'[u] = pc[u]
    BY <1>0, <1>3 DEF Closer, CloseCached, BeginClose, FreeDocument, ClearDocument, StopExecutor, Goto,
          Typed, Worker
  <2> QED BY <1>0, <2>1, <2>2, MarkExplainedFrame
<1>4. CASE Native
  BY <1>0, <1>4, MarkExplainedFrame DEF Native, markVars, lifeVars
<1>5. CASE Crash
  BY <1>5 DEF Crash, MarkExplained
<1> QED BY <1>1, <1>2, <1>3, <1>4, <1>5 DEF Next, Worker

(***************************************************************************)
(* No rendering of an open book waits for a page without a native page.    *)
(***************************************************************************)
\* Where a worker renders or is about to; the search only reads text.
Rendering == {"ready", "lock", "status", "wait", "handle", "render"}

\* A worker recycles a page nobody else renders.
RecyclesOther ==
    /\ pc["search"] \notin Rendering \cup {"recycle"}
    /\ pc["executor"] = "recycle" => cur["executor"] \in SearchPage
    /\ pc["loader"] = "recycle" => cur["loader"] \in LoaderPage

\* Only the closing thread frees what is being rendered.
Alive ==
    ~isRecycled =>
        /\ pc["closer"] = "idle" /\ document = "open"
        /\ \A t \in Worker : pc[t] \in Rendering => job[cur[t]] # "none"

LEMMA InitAlive == Init => RecyclesOther /\ Alive
  BY DEF Init, RecyclesOther, Alive, Rendering, Thread, Worker

\* A step after which whoever renders has rendered the same page before.
LEMMA AliveFrame ==
    ASSUME Alive, isRecycled' = isRecycled, document' = document,
           pc'["closer"] = pc["closer"],
           \A u \in Worker : pc'[u] \in Rendering => pc[u] \in Rendering /\ cur'[u] = cur[u],
           \A u \in Worker : pc'[u] \in Rendering /\ job[cur[u]] # "none" => job'[cur[u]] # "none"
    PROVE  Alive'
  BY DEF Alive

LEMMA RecyclesOtherStep == ASSUME Inv, RecyclesOther, Next PROVE RecyclesOther'
<1> USE DEF Inv, Typed, RecyclesOther, Rendering, Goto, Thread, Worker
<1>1. ASSUME NEW t \in Worker, Step(t) PROVE RecyclesOther'
  <2>1. CASE Open(t) \/ Recycle(t)
    BY <2>1 DEF Open, Recycle
  <2>2. CASE Call(t) \/ EnterRender(t) \/ StatusDone(t) \/ StatusWait(t)
    BY <2>2 DEF Call, EnterRender, StatusDone, StatusWait
  <2>3. CASE Wait(t) \/ Handle(t) \/ LeaveRender(t)
    BY <2>3 DEF Wait, Handle, LeaveRender
  <2>4. CASE AskText(t) \/ MarkText(t) \/ EnterText(t) \/ LeaveText(t) \/ UnmarkText(t)
    BY <2>4 DEF AskText, MarkText, EnterText, LeaveText, UnmarkText
  <2>5. CASE Done(t)
    BY <2>5 DEF Done, OwnPages, Opened, PageOf
  <2> QED BY <1>1, <2>1, <2>2, <2>3, <2>4, <2>5 DEF Step
<1>2. CASE Executor
  BY <1>1, <1>2 DEF Executor, TakeDecode, TakeRecycle, TaskDead, ExecutorEnds
<1>3. CASE Search
  BY <1>1, <1>3 DEF Search, SearchEnds, NextSearch
<1>4. CASE Loader
  BY <1>1, <1>4 DEF Loader, NextLoad
<1>5. CASE Closer
  BY <1>5 DEF Closer, CloseCached, BeginClose, FreeDocument, ClearDocument, StopExecutor
<1>6. CASE Native
  BY <1>6 DEF Native
<1>7. CASE Crash
  BY <1>7 DEF Crash
<1> QED BY <1>2, <1>3, <1>4, <1>5, <1>6, <1>7 DEF Next

LEMMA AliveStep == ASSUME Inv, RecyclesOther, Alive, Next PROVE Alive'
<1>0. /\ Typed /\ Worker \subseteq Thread /\ "closer" \in Thread \ Worker
      /\ \A u \in Worker : pc[u] \in Rendering => cur[u] \in PageOf(u)
  BY DEF Inv, OwnPages, Thread, Worker, Opened, Rendering
<1>1. ASSUME NEW t \in Worker, Step(t) PROVE Alive'
  <2>0. t \in Thread /\ t # "closer"
    BY <1>0
  <2>1. CASE Open(t)
    <3>1. /\ isRecycled' = isRecycled /\ document' = document /\ cur' = cur
          /\ cur[t] \in Page
          /\ job' = [job EXCEPT ![cur[t]] = IF document = "open" THEN "started" ELSE "none"]
      BY <2>1, CodecAssumption DEF Open, CreatePage, closeVars, Inv, OwnPages, PageOf, Worker
    <3>2. \A u \in Thread : u # t => pc'[u] = pc[u]
      BY <1>0, <2>1 DEF Open, Goto, Typed
    <3>3. job'[cur[t]] = IF document = "open" THEN "started" ELSE "none"
      BY <1>0, <3>1 DEF Typed
    <3>4. \A p \in Page : job[p] # "none" /\ p # cur[t] => job'[p] # "none"
      BY <1>0, <3>1 DEF Typed
    <3>5. \A u \in Worker : PageOf(u) \subseteq Page
      BY CodecAssumption DEF PageOf, Worker
    <3> QED BY <1>0, <2>0, <3>1, <3>2, <3>3, <3>4, <3>5 DEF Alive
  <2>2. CASE Call(t) \/ EnterRender(t) \/ StatusDone(t) \/ StatusWait(t)
    <3>1. isRecycled' = isRecycled /\ document' = document /\ cur' = cur /\ job' = job
      BY <2>2 DEF Call, EnterRender, StatusDone, StatusWait, closeVars, apiVars
    <3>2. /\ pc'["closer"] = pc["closer"]
          /\ \A u \in Worker : pc'[u] \in Rendering => pc[u] \in Rendering
      BY <1>0, <2>0, <2>2 DEF Call, EnterRender, StatusDone, StatusWait, Goto, Typed, Rendering
    <3> QED BY <3>1, <3>2, AliveFrame
  <2>3. CASE Wait(t) \/ Handle(t) \/ LeaveRender(t)
    <3>1. isRecycled' = isRecycled /\ document' = document /\ cur' = cur /\ job' = job
      BY <2>3 DEF Wait, MessageWait, Handle, PopAndPeek, LeaveRender, closeVars, apiVars
    <3>2. /\ pc'["closer"] = pc["closer"]
          /\ \A u \in Worker : pc'[u] \in Rendering => pc[u] \in Rendering
      BY <1>0, <2>0, <2>3 DEF Wait, Handle, LeaveRender, Goto, Typed, Rendering
    <3> QED BY <3>1, <3>2, AliveFrame
  <2>4. CASE AskText(t) \/ MarkText(t) \/ EnterText(t) \/ LeaveText(t) \/ UnmarkText(t) \/ Done(t)
    <3>1. isRecycled' = isRecycled /\ document' = document /\ cur' = cur /\ job' = job
      BY <2>4 DEF AskText, MarkText, EnterText, LeaveText, UnmarkText, Done, closeVars, apiVars
    <3>2. /\ pc'["closer"] = pc["closer"]
          /\ \A u \in Worker : pc'[u] \in Rendering => pc[u] \in Rendering
      BY <1>0, <2>0, <2>4 DEF AskText, MarkText, EnterText, LeaveText, UnmarkText, Done, Goto, Typed,
            Rendering, Worker
    <3> QED BY <3>1, <3>2, AliveFrame
  <2>5. CASE Recycle(t)
    <3>1. isRecycled' = isRecycled /\ document' = document /\ cur' = cur /\ pc[t] = "recycle"
      BY <2>5 DEF Recycle, closeVars
    <3>2. /\ pc'["closer"] = pc["closer"] /\ pc'[t] = "idle"
          /\ \A u \in Worker : u # t => pc'[u] = pc[u]
      BY <1>0, <2>0, <2>5 DEF Recycle, Goto, Typed
    <3>3. \A p \in Page : p # cur[t] => job'[p] = job[p]
      BY <1>0, <2>5 DEF Recycle, ReleasePage, Typed
    <3>4. ASSUME NEW u \in Worker, u # t, pc[u] \in Rendering PROVE cur[u] \in Page /\ cur[u] # cur[t]
      BY <1>0, <3>1, <3>4, CodecAssumption DEF RecyclesOther, PageOf, Worker
    <3>5. "idle" \notin Rendering
      BY DEF Rendering
    <3> QED BY <3>1, <3>2, <3>3, <3>4, <3>5, AliveFrame
  <2> QED BY <1>1, <2>1, <2>2, <2>3, <2>4, <2>5 DEF Step
<1>2. CASE Executor
  <2>1. ASSUME NEW p \in CachePage, TakeDecode(p) PROVE Alive'
    <3>1. /\ isRecycled' = isRecycled /\ document' = document /\ job' = job
          /\ cur' = [cur EXCEPT !["executor"] = p]
          /\ pc' = [pc EXCEPT !["executor"] = IF job[p] = "none" THEN "open" ELSE "ready"]
      BY <2>1 DEF TakeDecode, Goto, closeVars, apiVars
    <3>2. /\ pc'["closer"] = pc["closer"]
          /\ \A u \in Worker : u # "executor" => pc'[u] = pc[u] /\ cur'[u] = cur[u]
          /\ cur'["executor"] = p
          /\ pc'["executor"] \in Rendering => job[p] # "none"
      BY <1>0, <3>1 DEF Typed, Rendering, Worker, Thread
    <3> QED BY <3>1, <3>2 DEF Alive
  <2>2. ASSUME NEW p \in SearchPage, TakeRecycle(p) PROVE Alive'
    <3>1. isRecycled' = isRecycled /\ document' = document /\ job' = job
      BY <2>2 DEF TakeRecycle, closeVars, apiVars
    <3>2. /\ pc'["closer"] = pc["closer"]
          /\ \A u \in Worker : pc'[u] \in Rendering => pc[u] \in Rendering /\ cur'[u] = cur[u]
      BY <1>0, <2>2 DEF TakeRecycle, Goto, Typed, Rendering, Worker, Thread
    <3> QED BY <3>1, <3>2, AliveFrame
  <2>3. CASE TaskDead \/ ExecutorEnds
    <3>1. isRecycled' = isRecycled /\ document' = document /\ job' = job /\ cur' = cur
      BY <2>3 DEF TaskDead, ExecutorEnds, closeVars, apiVars
    <3>2. /\ pc'["closer"] = pc["closer"]
          /\ \A u \in Worker : pc'[u] \in Rendering => pc[u] \in Rendering
      BY <1>0, <2>3 DEF TaskDead, ExecutorEnds, Goto, Typed, Rendering, Worker, Thread
    <3> QED BY <3>1, <3>2, AliveFrame
  <2> QED BY <1>1, <1>2, <2>1, <2>2, <2>3 DEF Executor, Worker
<1>3. ASSUME Search \/ Loader, ~Step("search"), ~Step("loader") PROVE Alive'
  <2>1. isRecycled' = isRecycled /\ document' = document /\ job' = job
    BY <1>3 DEF Search, SearchEnds, NextSearch, Loader, NextLoad, closeVars, apiVars
  <2>2. /\ pc'["closer"] = pc["closer"]
        /\ \A u \in Worker : pc'[u] \in Rendering => pc[u] \in Rendering /\ cur'[u] = cur[u]
    BY <1>0, <1>3 DEF Search, SearchEnds, NextSearch, Loader, NextLoad, Goto, Typed, Rendering,
          Worker, Thread
  <2> QED BY <2>1, <2>2, AliveFrame
<1>4. CASE Closer
  <2>1. CASE BeginClose
    BY <2>1 DEF BeginClose, Alive
  <2>2. CASE FreeDocument \/ ClearDocument \/ StopExecutor \/ \E p \in CachePage : CloseCached(p)
    <3>1. pc["closer"] # "idle" /\ isRecycled' = isRecycled
      BY <2>2 DEF FreeDocument, ClearDocument, StopExecutor, CloseCached
    <3> QED BY <3>1 DEF Alive
  <2> QED BY <1>4, <2>1, <2>2 DEF Closer
<1>5. CASE Native
  <2>1. isRecycled' = isRecycled /\ document' = document /\ cur' = cur /\ pc' = pc
    BY <1>5 DEF Native, closeVars
  <2>2. \A p \in Page : job[p] # "none" => job'[p] # "none"
    BY <1>0, <1>5 DEF Native, ApiThread, NotifyChunk, DecodeEnds, Post, Typed
  <2>3. \A u \in Worker : PageOf(u) \subseteq Page
    BY CodecAssumption DEF PageOf, Worker
  <2> QED BY <1>0, <2>1, <2>2, <2>3, AliveFrame
<1>6. CASE Crash
  BY <1>0, <1>6 DEF Crash, Alive, Rendering
<1> QED BY <1>1, <1>2, <1>3, <1>4, <1>5, <1>6 DEF Next, Search, Loader, Worker

---------------------------------------------------------------------------
\* The other types: the messages of the library, and the states of the threads that
\* the invariant above does not need.
TypedApi ==
    /\ owed \in [Page -> Seq(Tag)] /\ mlist \in Seq(Message)
    /\ mpeeked \in Seq(Message) /\ Len(mpeeked) <= 1
TypedCallers ==
    /\ lock \in Thread \cup {None}
    /\ found \in [SearchPage -> {"no", "null", "text"}]
    /\ isRecycled \in BOOLEAN /\ toClose \subseteq CachePage
    /\ document \in {"open", "freed", "null"} /\ run \in BOOLEAN
    /\ crashes \in 0..MaxCrash /\ late \in 0..MaxLate

LEMMA Released == ASSUME TypedApi, NEW p \in Page, ReleasePage(p) PROVE TypedApi'
<1>1. {i \in 1..Len(mlist) : mlist[i].page # p} \in SUBSET (1..Len(mlist))
  OBVIOUS
<1>2. mlist' \in Seq(Message)
  BY <1>1, FilterType DEF ReleasePage, TypedApi
<1> QED BY <1>2 DEF ReleasePage, TypedApi

LEMMA Peeked == ASSUME TypedApi, MessageWait \/ PopAndPeek \/ Drain PROVE TypedApi'
<1>1. mlist # <<>> => Head(mlist) \in Message /\ Tail(mlist) \in Seq(Message)
  BY DEF TypedApi
<1>2. CASE UNCHANGED apiVars
  BY <1>2 DEF TypedApi, apiVars
<1>3. CASE mlist # <<>> /\ mpeeked' = <<Head(mlist)>> /\ mlist' = Tail(mlist) /\ UNCHANGED owed
  BY <1>1, <1>3 DEF TypedApi
<1>4. CASE mlist' = <<>> /\ mpeeked' = <<>> /\ UNCHANGED owed
  BY <1>4 DEF TypedApi
<1> QED BY <1>2, <1>3, <1>4 DEF MessageWait, Peek, PopAndPeek, Drain, apiVars

LEMMA TypedApiStep == ASSUME Inv, TypedApi, Next PROVE TypedApi'
<1> USE DEF apiVars
<1>1. ASSUME NEW t \in Worker, Step(t) PROVE TypedApi'
  <2>1. CASE Open(t)
    <3>1. owed' = [owed EXCEPT ![cur[t]] = <<>>] /\ UNCHANGED <<mlist, mpeeked>>
      BY <2>1 DEF Open, CreatePage
    <3>2. <<>> \in Seq(Tag)
      OBVIOUS
    <3>3. owed' \in [Page -> Seq(Tag)]
      BY <3>1, <3>2, Zenon DEF TypedApi
    <3> QED BY <3>1, <3>3 DEF TypedApi
  <2>2. CASE Wait(t) \/ Handle(t)
    BY <2>2, Peeked DEF Wait, Handle
  <2>3. CASE Recycle(t)
    BY <2>3, Released DEF Recycle, Inv, OwnPages
  <2>4. CASE UNCHANGED apiVars
    BY <2>4 DEF TypedApi
  <2> QED BY <1>1, <2>1, <2>2, <2>3, <2>4
          DEF Step, Call, EnterRender, StatusDone, StatusWait, LeaveRender, AskText, MarkText,
              EnterText, LeaveText, UnmarkText, Done
<1>2. ASSUME NEW p \in CachePage, CloseCached(p) PROVE TypedApi'
  BY <1>2, Released, CodecAssumption DEF CloseCached, TypedApi
<1>3. CASE FreeDocument
  BY <1>3, Peeked DEF FreeDocument
<1>4. ASSUME NEW p \in Page, ApiThread(p) PROVE TypedApi'
  <2>1. CASE NotifyChunk(p)
    BY <2>1 DEF NotifyChunk, TypedApi, Msg, Message, Tag
  <2>2. CASE DecodeEnds(p)
    <3>1. <<"info">> \in Seq(Tag) /\ <<"error", "info">> \in Seq(Tag)
      BY DEF Tag
    <3> QED BY <2>2, <3>1 DEF DecodeEnds, TypedApi
  <2>3. CASE Post(p)
    <3>1. owed[p] \in Seq(Tag) /\ Head(owed[p]) \in Tag /\ Tail(owed[p]) \in Seq(Tag)
      BY <2>3 DEF Post, TypedApi
    <3> QED BY <2>3, <3>1 DEF Post, TypedApi, Msg, Message
  <2> QED BY <1>4, <2>1, <2>2, <2>3 DEF ApiThread
<1>5. CASE Crash
  BY <1>5 DEF Crash, TypedApi
<1>6. CASE UNCHANGED apiVars
  BY <1>6 DEF TypedApi
<1> QED BY <1>1, <1>2, <1>3, <1>4, <1>5, <1>6
        DEF Next, Executor, Search, Loader, Closer, Native, Worker, TakeDecode, TakeRecycle,
            TaskDead, ExecutorEnds, NextSearch, SearchEnds, NextLoad, BeginClose, ClearDocument,
            StopExecutor

LEMMA TypedCallersStep == ASSUME Inv, TypedCallers, Next PROVE TypedCallers'
<1> USE DEF TypedCallers, lockVars, searchVars, closeVars, lifeVars
<1>1. ASSUME NEW t \in Worker, Step(t) PROVE TypedCallers'
  <2>0. t \in Thread
    BY DEF Thread
  <2>1. CASE Open(t) \/ Call(t) \/ StatusDone(t) \/ StatusWait(t) \/ Wait(t) \/ Handle(t)
             \/ MarkText(t) \/ UnmarkText(t) \/ Recycle(t) \/ Done(t)
    BY <2>1 DEF Open, Call, StatusDone, StatusWait, Wait, Handle, MarkText, UnmarkText, Recycle, Done
  <2>2. CASE EnterRender(t) \/ LeaveRender(t) \/ EnterText(t)
    BY <2>0, <2>2 DEF EnterRender, LeaveRender, EnterText, Lock, Unlock
  <2>3. CASE AskText(t) \/ LeaveText(t)
    BY <2>0, <2>3 DEF AskText, LeaveText, Unlock, Found
  <2> QED BY <1>1, <2>1, <2>2, <2>3 DEF Step
<1>2. CASE Executor
  BY <1>1, <1>2 DEF Executor, Worker, TakeDecode, TakeRecycle, TaskDead, ExecutorEnds
<1>3. CASE Search
  BY <1>1, <1>3 DEF Search, Worker, SearchEnds, NextSearch
<1>4. CASE Loader
  BY <1>1, <1>4 DEF Loader, Worker, NextLoad
<1>5. CASE Closer
  BY <1>5 DEF Closer, CloseCached, BeginClose, FreeDocument, ClearDocument, StopExecutor
<1>6. CASE Native
  BY <1>6 DEF Native
<1>7. CASE Crash
  <2>1. crashes' \in 0..MaxCrash /\ late' \in 0..MaxLate
    BY <1>7, CodecAssumption DEF Crash
  <2>2. lock' = None /\ found' \in [SearchPage -> {"no", "null", "text"}]
    BY <1>7 DEF Crash
  <2> QED BY <1>7, <2>1, <2>2 DEF Crash
<1> QED BY <1>2, <1>3, <1>4, <1>5, <1>6, <1>7 DEF Next

---------------------------------------------------------------------------
\* A rendering with a handle has a page, until it is freed; one that waits has
\* something to wake it, and while it waits no other thread can have the lock.
AtPage == {"lock", "status", "wait", "handle", "render"}

WokenBy(p) ==
    \/ job[p] \in {"none", "started"} \/ owed[p] # <<>>
    \/ \E i \in 1..Len(mlist) : mlist[i].page = p
WokenAt(u) ==
    /\ pc[u] \in AtPage /\ ~handle[u] => job[cur[u]] = "none"
    /\ pc[u] = "wait" => WokenBy(cur[u])
Woken == \A u \in Worker : WokenAt(u)

\* A step that leaves the thread alone, makes no page of its own, and takes nothing
\* from the library while it waits
LEMMA WokenFrame ==
  ASSUME NEW u \in Worker, WokenAt(u), pc'[u] = pc[u], handle'[u] = handle[u], cur'[u] = cur[u],
         pc[u] \in AtPage /\ job[cur[u]] = "none" => job'[cur[u]] = "none",
         pc[u] = "wait" => UNCHANGED apiVars \/ (WokenBy(cur[u]) => WokenBy(cur[u])')
  PROVE  WokenAt(u)'
BY DEF WokenAt, WokenBy, apiVars

\* The library's own threads wake the waiting one or leave it what it waits for.
LEMMA WokenNative ==
  ASSUME Typed, TypedApi, NEW p \in Page, NEW q \in Page, ApiThread(p), WokenBy(q)
  PROVE  WokenBy(q)'
<1>1. CASE NotifyChunk(p)
  <2>1. \A i \in 1..Len(mlist) : i \in 1..Len(mlist') /\ mlist'[i] = mlist[i]
    BY <1>1 DEF NotifyChunk, TypedApi
  <2> QED BY <1>1, <2>1 DEF NotifyChunk, WokenBy
<1>2. CASE DecodeEnds(p)
  <2>1. q # p => job'[q] = job[q] /\ owed'[q] = owed[q]
    BY <1>2 DEF DecodeEnds, Typed, TypedApi
  <2>2. owed'[p] = <<"info">> \/ owed'[p] = <<"error", "info">>
    <3>1. owed \in [Page -> Seq(Tag)]
      BY DEF TypedApi
    <3> QED BY <1>2, <3>1, Zenon DEF DecodeEnds
  <2>3. <<"info">> # <<>> /\ <<"error", "info">> # <<>>
    OBVIOUS
  <2>4. q = p => owed'[q] # <<>>
    BY <2>2, <2>3
  <2> QED BY <1>2, <2>1, <2>4 DEF DecodeEnds, WokenBy
<1>3. CASE Post(p)
  <2>1. /\ \A i \in 1..Len(mlist) : i \in 1..Len(mlist') /\ mlist'[i] = mlist[i]
        /\ Len(mlist) + 1 \in 1..Len(mlist') /\ mlist'[Len(mlist) + 1].page = p
    BY <1>3 DEF Post, TypedApi, Msg
  <2>2. q # p => owed'[q] = owed[q]
    BY <1>3 DEF Post, TypedApi
  <2>3. job' = job
    BY <1>3 DEF Post
  <2> QED BY <2>1, <2>2, <2>3 DEF WokenBy
<1> QED BY <1>1, <1>2, <1>3 DEF ApiThread

LEMMA WokenStep == ASSUME Inv, TypedApi, Woken, Next PROVE Woken'
<1> SUFFICES ASSUME NEW u \in Worker PROVE WokenAt(u)'
  BY DEF Woken
<1>0. /\ Typed /\ WokenAt(u) /\ u \in Thread /\ u # "closer" /\ u # None
      /\ \A t \in Worker : t \in Thread
      /\ pc[u] = "wait" => lock = u
  BY CodecAssumption DEF Inv, Woken, Thread, Worker, Locked, InRender
<1>1. ASSUME NEW t \in Worker, Step(t), t # u PROVE WokenAt(u)'
  <2>1. pc'[u] = pc[u] /\ handle'[u] = handle[u] /\ cur'[u] = cur[u]
    BY <1>0, <1>1 DEF Step, Open, Call, EnterRender, StatusDone, StatusWait, Wait, Handle,
       LeaveRender, AskText, MarkText, EnterText, LeaveText, UnmarkText, Recycle, Done, Goto, Typed,
       callVars
  <2>2. pc[u] = "wait" => UNCHANGED apiVars
    <3>1. pc[u] = "wait" => ~CanLock(t) /\ ~InRender(t)
      BY <1>0, <1>1 DEF CanLock, Inv, Locked
    <3> QED BY <1>1, <3>1 DEF Step, Open, Call, EnterRender, StatusDone, StatusWait, Wait, Handle,
       LeaveRender, AskText, MarkText, EnterText, LeaveText, UnmarkText, Recycle, Done, InRender
  <2>3. pc[u] \in AtPage /\ job[cur[u]] = "none" => job'[cur[u]] = "none"
    <3>1. CASE Open(t)
      <4>1. pc[u] \in AtPage => cur[u] # cur[t]
        BY <1>0, <1>1, <3>1, CodecAssumption DEF Open, Inv, OwnPages, PageOf, Opened, AtPage, Worker
      <4> QED BY <3>1, <4>1 DEF Open, CreatePage, Typed
    <3>2. CASE Recycle(t)
      BY <1>0, <3>2 DEF Recycle, ReleasePage, Typed
    <3>3. CASE job' = job
      BY <3>3
    <3> QED BY <1>1, <3>1, <3>2, <3>3 DEF Step, Call, EnterRender, StatusDone, StatusWait, Wait,
       MessageWait, Handle, PopAndPeek, LeaveRender, AskText, MarkText, EnterText, LeaveText,
       UnmarkText, Done, apiVars
  <2> QED BY <1>0, <2>1, <2>2, <2>3, WokenFrame
<1>2. ASSUME Step(u) PROVE WokenAt(u)'
  <2>1. CASE Call(u)
    <3>1. job' = job /\ cur' = cur /\ handle'[u] = (job[cur[u]] # "none") /\ pc'[u] = "lock"
      BY <1>0, <2>1 DEF Call, Goto, Typed, apiVars
    <3> QED BY <3>1 DEF WokenAt
  <2>2. CASE StatusWait(u)
    <3>1. /\ UNCHANGED apiVars /\ cur' = cur /\ handle' = handle /\ pc[u] = "status"
          /\ ~handle[u] \/ job[cur[u]] \in {"none", "started"}
      BY <2>2 DEF StatusWait, Undecided, callVars
    <3> QED BY <1>0, <3>1 DEF WokenAt, WokenBy, AtPage, apiVars
  <2>3. CASE EnterRender(u) \/ StatusDone(u) \/ Wait(u) \/ Handle(u)
    <3>1. job' = job /\ cur' = cur /\ handle' = handle /\ pc[u] \in AtPage
      BY <2>3 DEF EnterRender, StatusDone, Wait, MessageWait, Handle, PopAndPeek, apiVars, callVars, AtPage
    <3>2. pc'[u] # "wait"
      BY <1>0, <2>3 DEF EnterRender, StatusDone, Wait, Handle, Goto, Typed
    <3> QED BY <1>0, <3>1, <3>2 DEF WokenAt
  <2>4. CASE \/ Open(u) \/ LeaveRender(u) \/ AskText(u) \/ MarkText(u) \/ EnterText(u)
             \/ LeaveText(u) \/ UnmarkText(u) \/ Recycle(u) \/ Done(u)
    <3>1. pc'[u] \notin AtPage
      BY <1>0, <2>4 DEF Open, LeaveRender, AskText, MarkText, EnterText, LeaveText, UnmarkText,
         Recycle, Done, Goto, Typed, AtPage, Worker
    <3> QED BY <3>1 DEF WokenAt, AtPage
  <2> QED BY <1>2, <2>1, <2>2, <2>3, <2>4 DEF Step
<1>3. ASSUME \/ TaskDead \/ ExecutorEnds \/ SearchEnds
             \/ \E p \in CachePage : TakeDecode(p)
             \/ \E p \in SearchPage : TakeRecycle(p) \/ NextSearch(p)
             \/ \E p \in LoaderPage : NextLoad(p)
      PROVE  WokenAt(u)'
  <2>1. /\ UNCHANGED <<apiVars, handle>>
        /\ pc'[u] \notin AtPage \/ (pc'[u] = pc[u] /\ cur'[u] = cur[u])
    BY <1>0, <1>3 DEF TaskDead, ExecutorEnds, SearchEnds, TakeDecode, TakeRecycle, NextSearch, NextLoad,
       Goto, Typed, AtPage, callVars, Worker, Thread
  <2>2. CASE pc'[u] \notin AtPage
    BY <2>2 DEF WokenAt, AtPage
  <2>3. CASE pc'[u] = pc[u] /\ cur'[u] = cur[u]
    BY <1>0, <2>1, <2>3, WokenFrame DEF apiVars
  <2> QED BY <2>1, <2>2, <2>3
<1>4. CASE Closer
  <2>1. pc'[u] = pc[u] /\ handle'[u] = handle[u] /\ cur'[u] = cur[u]
    BY <1>0, <1>4 DEF Closer, BeginClose, FreeDocument, ClearDocument, StopExecutor, CloseCached, Goto,
       Typed, callVars
  <2>2. pc[u] = "wait" => UNCHANGED apiVars
    <3>1. pc[u] = "wait" => ~CanLock("closer")
      BY <1>0 DEF CanLock
    <3> QED BY <1>4, <3>1 DEF Closer, BeginClose, FreeDocument, ClearDocument, StopExecutor, CloseCached
  <2>3. pc[u] \in AtPage /\ job[cur[u]] = "none" => job'[cur[u]] = "none"
    <3>1. CASE UNCHANGED job
      BY <3>1
    <3>2. ASSUME NEW p \in CachePage, CloseCached(p), job[p] # "none", pc[u] \in AtPage
          PROVE  job[cur[u]] = "none" => job'[cur[u]] = "none"
      <4>1. cur[u] \in Page
        BY <1>0, <3>2, CodecAssumption DEF Inv, OwnPages, PageOf, AtPage, Opened, Worker
      <4> QED BY <1>0, <3>2, <4>1 DEF CloseCached, ReleasePage, Typed
    <3> QED BY <1>4, <3>1, <3>2 DEF Closer, BeginClose, FreeDocument, Drain, ClearDocument,
       StopExecutor, CloseCached, apiVars
  <2> QED BY <1>0, <2>1, <2>2, <2>3, WokenFrame
<1>5. CASE Native
  <2>1. PICK p \in Page : ApiThread(p)
    BY <1>5 DEF Native
  <2>2. pc' = pc /\ handle' = handle /\ cur' = cur
    BY <1>5 DEF Native, callVars
  <2>3. pc[u] \in AtPage => cur[u] \in Page
    BY CodecAssumption DEF Inv, OwnPages, PageOf, AtPage, Opened, Worker
  <2>4. pc[u] \in AtPage /\ job[cur[u]] = "none" => job'[cur[u]] = "none"
    BY <1>0, <2>1, <2>3 DEF ApiThread, NotifyChunk, DecodeEnds, Post, Typed
  <2>5. pc[u] = "wait" => (WokenBy(cur[u]) => WokenBy(cur[u])')
    BY <1>0, <2>1, <2>2, <2>3, WokenNative DEF AtPage
  <2> QED BY <1>0, <2>2, <2>4, <2>5, WokenFrame
<1>6. CASE Crash
  BY <1>0, <1>6 DEF Crash, WokenAt, AtPage
<1> QED BY <1>1, <1>2, <1>3, <1>4, <1>5, <1>6 DEF Next, Executor, Search, Loader, Worker

LEMMA InitWoken == Init => Woken
BY DEF Init, Woken, WokenAt, AtPage, Worker, Thread

(***************************************************************************)
(* The theorems.                                                           *)
(***************************************************************************)
LEMMA InvStep == Inv /\ [Next]_vars => Inv'
<1> SUFFICES ASSUME Inv, [Next]_vars PROVE Inv'
  OBVIOUS
<1>1. CASE Next
  BY <1>1, TypedStep, OwnPagesStep, LockedStep, BornFlawedStep, MarkExplainedStep DEF Inv
<1>2. CASE UNCHANGED vars
  BY <1>2 DEF vars, apiVars, lockVars, markVars, callVars, searchVars, closeVars, lifeVars,
        Inv, Typed, OwnPages, Locked, BornFlawed, MarkExplained, Marking, InRender
<1> QED BY <1>1, <1>2

THEOREM Invariance == Spec => []Inv
  BY InitInv, InvStep, PTL DEF Spec

\* The messages, the lock, the marker and the states of all threads keep their
\* types, whatever the threads and the library do and however often the process dies.
THEOREM TypeCorrect == Spec => []TypeOK
<1> DEFINE All == Inv /\ TypedApi /\ TypedCallers
<1>1. Init => All
  <2> SUFFICES ASSUME Init PROVE All
    OBVIOUS
  <2>1. TypedApi
    BY DEF Init, ApiInit, TypedApi
  <2>2. found \in [SearchPage -> {"no", "null", "text"}] /\ crashes \in 0..MaxCrash /\ late \in 0..MaxLate
    BY CodecAssumption DEF Init
  <2>3. TypedCallers
    BY <2>2 DEF Init, TypedCallers
  <2> QED BY <2>1, <2>3, InitInv
<1>2. All /\ [Next]_vars => All'
  <2> SUFFICES ASSUME All, [Next]_vars PROVE All'
    OBVIOUS
  <2>1. CASE Next
    BY <2>1, InvStep, TypedApiStep, TypedCallersStep
  <2>2. CASE UNCHANGED vars
    <3>1. TypedApi' /\ TypedCallers'
      BY <2>2 DEF vars, apiVars, lockVars, searchVars, closeVars, lifeVars, TypedApi, TypedCallers
    <3> QED BY <3>1, InvStep
  <2> QED BY <2>1, <2>2
<1>3. All => TypeOK
  BY DEF Inv, Typed, TypedApi, TypedCallers, TypeOK, ApiTypeOK, Place, Opened
<1> QED BY <1>1, <1>2, <1>3, PTL DEF Spec

\* The waiting of the renderings of two threads never overlaps, so no message
\* is taken by the wrong one: OneReader, for any pages.
THEOREM OneReaderAlways == Spec => []OneReader
<1>1. Inv => OneReader
  BY DEF Inv, Locked, OneReader
<1> QED BY <1>1, Invariance, PTL

\* A marker that this process did not find is explained by a call under way.
THEOREM MarkExplainedAlways == Spec => []MarkExplained
<1>1. Inv => MarkExplained
  BY DEF Inv
<1> QED BY <1>1, Invariance, PTL

\* A marker that survived a crash is never taken away.
THEOREM StaysMarkedAlways == Spec => []StaysMarked
<1>1. Inv => StaysMarked
  BY DEF Inv, BornFlawed, StaysMarked
<1> QED BY <1>1, Invariance, PTL

\* While the book is open a rendering always has its native page: neither the search's
\* pages recycled by the executor nor the loader's are the ones another thread renders.
THEOREM DeadWaitOnlyOnCloseAlways == Spec => []DeadWaitOnlyOnClose
<1> DEFINE Live == Inv /\ RecyclesOther /\ Alive
<1>1. Init => Live
  BY InitInv, InitAlive
<1>2. Live /\ [Next]_vars => Live'
  <2> SUFFICES ASSUME Live, [Next]_vars PROVE Live'
    OBVIOUS
  <2>1. CASE Next
    BY <2>1, InvStep, RecyclesOtherStep, AliveStep
  <2>2. CASE UNCHANGED vars
    BY <2>2, InvStep DEF vars, apiVars, closeVars, RecyclesOther, Alive
  <2> QED BY <2>1, <2>2
<1>3. Live => DeadWaitOnlyOnClose
  BY DEF Alive, DeadWaitOnlyOnClose, DeadWait, InRender, Rendering
<1> QED BY <1>1, <1>2, <1>3, PTL DEF Spec

\* The wait loop of renderPage loses no wake-up: while a rendering waits for a live
\* page, the decoding that will post a message is under way, has one to post, or one
\* is in the list, whatever the other threads release, close or take meanwhile.
THEOREM WaitWokenAlways == Spec => []WaitWoken
<1> DEFINE All == Inv /\ TypedApi /\ Woken
<1>1. Init => All
  BY InitInv, InitWoken DEF Init, ApiInit, TypedApi
<1>2. All /\ [Next]_vars => All'
  <2> SUFFICES ASSUME All, [Next]_vars PROVE All'
    OBVIOUS
  <2>1. CASE Next
    BY <2>1, InvStep, TypedApiStep, WokenStep
  <2>2. CASE UNCHANGED vars
    <3>1. TypedApi' /\ Woken'
      BY <2>2 DEF vars, apiVars, callVars, TypedApi, Woken, WokenAt, WokenBy
    <3> QED BY <2>2, <3>1, InvStep
  <2> QED BY <2>1, <2>2
<1>3. All => WaitWoken
  BY DEF Woken, WokenAt, WokenBy, WaitWoken, DeadWait, InRender
<1> QED BY <1>1, <1>2, <1>3, PTL DEF Spec
=============================================================================
