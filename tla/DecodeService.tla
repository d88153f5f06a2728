--------------------------- MODULE DecodeService ---------------------------
(***************************************************************************)
(* The decode service of the viewer: DecodeServiceBase and its executor    *)
(* thread, the PageTreeNode side of a decoding (decodingNow, bitmapZoom,   *)
(* the bitmap holder) and the UI events that start and stop decodings.     *)
(*                                                                         *)
(* Three threads share the executor's list of slots and its map from nodes *)
(* to tasks; every lock around them is commented out in the source, so one *)
(* action is one access to the shared list or map:                         *)
(*   - the UI thread: events, posted runnables, recycle();                 *)
(*   - the executor thread: nextTask(), performDecode(), finish / abort;   *)
(*   - the search thread, which posts a page-recycling task per page.      *)
(***************************************************************************)
EXTENDS Integers, Sequences, FiniteSets

CONSTANTS
    Node,        \* page tree nodes
    NoNode,      \* the node of a task that decodes nothing
    Zoom,        \* zoom factors, larger is closer
    MaxTask,     \* bound: number of tasks ever created (TASK_ID_SEQ)
    MaxSearch,   \* bound: last task id the search thread may take (0: no search)
    UserPrio,    \* priorities of the tasks other than decodings the user causes
    NoTask       \* a null slot, a node without a task

Id == 1..MaxTask

\* DecodeTask (priority 2), and the tasks that decode nothing: save, delete,
\* underline and page recycling (0), ink annotation (1).
DecodeTask == [id: Id, prio: {2}, node: Node, zoom: Zoom]
AnyTask == [id: Id, prio: {0, 1}, node: {NoNode}, zoom: {0}]
Task == DecodeTask \cup AnyTask

ASSUME ConstantsAssumption ==
    /\ Zoom \subseteq Nat \ {0}
    /\ 1 \in Zoom       \* GOOD_ZOOM
    /\ MaxTask \in Nat
    /\ MaxSearch \in 0..MaxTask
    /\ UserPrio \subseteq {0, 1}
    /\ NoNode \notin Node
    /\ NoTask \notin Task

VARIABLES
    tasks,          \* ExecutorRunnable.tasks: a list of slots
    decodingTasks,  \* ExecutorRunnable.decodingTasks
    cancelled,      \* ids of the tasks whose cancelled flag is set
    run,            \* ExecutorRunnable.run
    isRecycled,     \* DecodeServiceBase.isRecycled
    document,       \* TRUE while codecDocument is open
    nextId,         \* TASK_ID_SEQ
    exPc, exTask, exSlot, exOk,        \* the executor thread
    uiPc, uiTask, uiOld, uiSlot,       \* the UI thread inside the service
    toStop, toDecode,                  \* service calls the event still has to make
    iter, modified,                    \* recycle(): nodes left, iterated map changed
    seTask, seSlot,                    \* the search thread inside addAny
    zoom, initialZoom,                 \* ZoomModel
    decodingNow, bitmapZoom, bitmap,   \* PageTreeNode: flag, zoom asked for, zoom shown (0: none)
    posted,         \* runnables posted to the UI thread, in order
    clobbered       \* history: ids of live tasks lost to a write of another thread

queueVars == <<tasks, clobbered>>
serviceVars == <<run, isRecycled, document>>
exVars == <<exPc, exTask, exSlot, exOk>>
uiVars == <<uiPc, uiTask, uiOld, uiSlot, toStop, toDecode, iter>>
searchVars == <<seTask, seSlot>>
nodeVars == <<decodingNow, bitmapZoom, bitmap>>
zoomVars == <<zoom, initialZoom>>
vars == <<queueVars, decodingTasks, cancelled, serviceVars, nextId, exVars, uiVars,
          modified, searchVars, zoomVars, nodeVars, posted>>

IsDecode(t) == t.prio = 2
Dead(t) == t.id \in cancelled
Slots == 1..Len(tasks)
Queued == {tasks[i] : i \in Slots} \ {NoTask}

\* The slot the loop over the list finds for an insertion; 0 stands for append.
FreeSlot(i) ==
    \/ i \in Slots /\ tasks[i] = NoTask /\ \A j \in 1..(i - 1) : tasks[j] # NoTask
    \/ i = 0 /\ \A j \in Slots : tasks[j] # NoTask

\* The slot stopDecoding finds for a task; 0 when it is in none.
SlotOf(t, i) ==
    \/ i \in Slots /\ tasks[i] = t
    \/ i = 0 /\ \A j \in Slots : tasks[j] # t

\* MUTANT of NewTask: the id after the increment of the counter kept in nextId.
NewTaskSkipsId(prio, n, z) == [id |-> nextId + 1, prio |-> prio, node |-> n, zoom |-> z]

\* The constructors of Task and DecodeTask.
NewTask(prio, n, z) == [id |-> nextId, prio |-> prio, node |-> n, zoom |-> z]

\* Ids of the live tasks lost when slot i, last seen null or holding t, is overwritten.
Overwritten(i, t) == {u.id : u \in {tasks[i]} \ {NoTask, t}} \ cancelled

\* tasks.set(i, null) by a thread that last saw t in slot i. When the list was
\* cleared meanwhile the IndexOutOfBoundsException is caught and logged.
ClearSlot(i, t) ==
    IF i \in Slots
    THEN /\ tasks' = [tasks EXCEPT ![i] = NoTask]
         /\ clobbered' = clobbered \cup Overwritten(i, t)
    ELSE UNCHANGED queueVars

\* tasks.set(i, t), or tasks.add(t) when no slot was free.
InsertAt(i, t) ==
    \/ /\ i = 0
       /\ tasks' = Append(tasks, t)
       /\ UNCHANGED clobbered
    \/ /\ i \in Slots
       /\ tasks' = [tasks EXCEPT ![i] = t]
       /\ clobbered' = clobbered \cup Overwritten(i, NoTask)
    \/ /\ i > Len(tasks)
       /\ clobbered' = clobbered \cup {t.id}
       /\ UNCHANGED tasks

\* run.notifyAll(): only a thread that is already waiting is woken.
Notify == exPc' = IF exPc = "waiting" THEN "loop" ELSE exPc

Init ==
    /\ tasks = <<>>
    /\ decodingTasks = [n \in Node |-> NoTask]
    /\ cancelled = {}
    /\ run = TRUE /\ isRecycled = FALSE /\ document = TRUE
    /\ nextId = 1
    /\ exPc = "loop" /\ exTask = NoTask /\ exSlot = 0 /\ exOk = TRUE
    /\ uiPc = "idle" /\ uiTask = NoTask /\ uiOld = NoTask /\ uiSlot = 0
    /\ toStop = {} /\ toDecode = {} /\ iter = {} /\ modified = FALSE
    /\ seTask = NoTask /\ seSlot = 0
    /\ zoom = 1 /\ initialZoom = 1
    /\ decodingNow = [n \in Node |-> FALSE]
    /\ bitmapZoom = [n \in Node |-> 1]
    /\ bitmap = [n \in Node |-> 0]
    /\ posted = <<>>
    /\ clobbered = {}

----------------------------------------------------------------------------
(***************************************************************************)
(* UI thread: events.  decodingNow, bitmapZoom and the holder are touched  *)
(* by the UI thread alone, so an event updates them in one step and leaves *)
(* in toStop and toDecode the calls it makes into the service, which the   *)
(* thread completes before it handles anything else.                       *)
(***************************************************************************)
UiFree == uiPc = "idle" /\ toStop = {} /\ toDecode = {}

\* Events walk over the pages of the document model, which has none once recycled.
Active == UiFree /\ ~isRecycled

\* One pass of an event over the nodes: `dropped' nodes are recycled, `again'
\* nodes are stopped first (stopDecodingThisNode), `wanted' nodes ask for a
\* decoding (decodePageTreeNode) at the zoom of the event's ViewState.
Process(dropped, again, wanted, z) ==
    LET stopped == {n \in dropped \cup again : decodingNow[n]}
        started == {n \in wanted : ~decodingNow[n] \/ n \in stopped}
    IN  /\ nextId + Cardinality(started) <= MaxTask + 1
        /\ decodingNow' = [n \in Node |-> n \in started \/ (decodingNow[n] /\ n \notin stopped)]
        /\ bitmapZoom' = [n \in Node |-> IF n \in started THEN z ELSE bitmapZoom[n]]
        /\ bitmap' = [n \in Node |-> IF n \in dropped THEN 0 ELSE bitmap[n]]
        /\ toStop' = stopped
        /\ toDecode' = started
        /\ UNCHANGED <<queueVars, decodingTasks, cancelled, serviceVars, nextId, exVars,
                       uiTask, uiOld, uiSlot, iter, modified, searchVars, posted>>

Blank(S) == {n \in S : bitmap[n] = 0}

\* EventScrollUp/Down/To, EventReset without clearPages, an uncommitted zoom.
Scroll(kept, dropped) ==
    /\ Active /\ UNCHANGED uiPc
    /\ kept \cap dropped = {}
    /\ Process(dropped, {}, Blank(kept), zoom)
    /\ UNCHANGED zoomVars

\* EventReset with clearPages: every node is recycled, the kept ones decoded.
Reset(kept) ==
    /\ Active /\ UNCHANGED uiPc
    /\ Process(Node, {}, kept, zoom)
    /\ UNCHANGED zoomVars

\* EventZoomIn.process / EventZoomOut.process of a committed zoom: only zooming
\* in stops the decoding under way before it asks for a new one.
CommittedZoom(old, new, kept, dropped) ==
    /\ kept \cap dropped = {}
    /\ IF new > old
       THEN LET again == {n \in kept : bitmapZoom[n] # new}
            IN  Process(dropped, again, again \cup Blank(kept), new)
       ELSE Process(dropped, {}, kept, new)

\* ZoomModel.setZoom without commit: a pinch step.
SetZoom(z, kept, dropped) ==
    /\ Active /\ UNCHANGED uiPc
    /\ z # zoom
    /\ kept \cap dropped = {}
    /\ zoom' = z
    /\ Process(dropped, {}, Blank(kept), z)
    /\ UNCHANGED initialZoom

\* ZoomModel.commit: the pinch ends; fires whether or not the zoom changed.
Commit(kept, dropped) ==
    /\ Active /\ UNCHANGED uiPc
    /\ CommittedZoom(initialZoom, zoom, kept, dropped)
    /\ initialZoom' = zoom
    /\ UNCHANGED zoom

\* ZoomModel.scaleAndCommitZoom: quick zoom and the zoom buttons.
ScaleAndCommit(z, kept, dropped) ==
    /\ Active /\ UNCHANGED uiPc
    /\ z # zoom
    /\ zoom' = z
    /\ initialZoom' = z
    /\ CommittedZoom(zoom, z, kept, dropped)

\* MUTANT of RunPosted: the runnable forgets stopDecodingThisNode(null).
RunPostedKeepsFlag(hidden) ==
    /\ UiFree
    /\ posted # <<>>
    /\ bitmap' = [bitmap EXCEPT ![Head(posted).node] = Head(posted).zoom]
    /\ posted' = Tail(posted)
    /\ UNCHANGED <<queueVars, decodingTasks, cancelled, serviceVars, nextId, exVars, uiVars,
                   modified, searchVars, zoomVars, decodingNow, bitmapZoom>>

\* The runnable decodeComplete posts: setBitmap, stopDecodingThisNode(null) and
\* EventChildLoaded, which recycles parents and children hidden by the bitmap.
RunPosted(hidden) ==
    /\ UiFree
    /\ posted # <<>>
    /\ LET p == Head(posted)
           stopped == {n \in hidden : decodingNow[n]}
       IN  /\ p.node \notin hidden
           /\ p.zoom = 0 => hidden = {}
           /\ bitmap' = [n \in Node |-> IF n = p.node /\ p.zoom # 0 THEN p.zoom
                                        ELSE IF n \in hidden THEN 0 ELSE bitmap[n]]
           /\ decodingNow' = [n \in Node |-> decodingNow[n] /\ n # p.node /\ n \notin hidden]
           /\ toStop' = stopped
    /\ posted' = Tail(posted)
    /\ UNCHANGED <<queueVars, decodingTasks, cancelled, serviceVars, nextId, exVars, uiPc, uiTask,
                   uiOld, uiSlot, toDecode, iter, modified, searchVars, zoomVars, bitmapZoom>>

----------------------------------------------------------------------------
(***************************************************************************)
(* UI thread: calls into the service.                                      *)
(***************************************************************************)

\* Setting the flag of a task and looking for its slot: the part stopDecoding
\* shares between its callers.
Retire(t, i) == cancelled' = cancelled \cup {t.id} /\ i \in 0..Len(tasks) /\ SlotOf(t, i)

\* stopDecoding(null, node): remove from the map, set the flag, look for the slot.
StopCall(n) ==
    /\ uiPc = "idle"
    /\ n \in toStop
    /\ toStop' = toStop \ {n}
    /\ decodingTasks' = [decodingTasks EXCEPT ![n] = NoTask]
    /\ \/ decodingTasks[n] = NoTask /\ UNCHANGED <<cancelled, uiPc, uiOld, uiSlot>>
       \/ /\ decodingTasks[n] # NoTask
          /\ uiOld' = decodingTasks[n]
          /\ \E i \in 0..Len(tasks) : Retire(decodingTasks[n], i) /\ uiSlot' = i
          /\ uiPc' = "clear"
    /\ UNCHANGED <<queueVars, serviceVars, nextId, exVars, uiTask, toDecode, iter, modified,
                   searchVars, zoomVars, nodeVars, posted>>

\* decodePage and the head of add(DecodeTask): after recycle() nothing is added;
\* neither is a task equal to the one registered for the node, if that is alive.
DecodeCall(n) ==
    /\ uiPc = "idle" /\ toStop = {}
    /\ n \in toDecode
    /\ toDecode' = toDecode \ {n}
    /\ ~isRecycled
    /\ nextId \in Id
    /\ nextId' = nextId + 1
    /\ LET running == decodingTasks[n]
       IN  IF running # NoTask /\ running.zoom = zoom /\ ~Dead(running)
           THEN UNCHANGED <<uiPc, uiTask, uiOld>>
           ELSE /\ uiTask' = NewTask(2, n, zoom)
                /\ uiOld' = running
                /\ uiPc' = "put"
    /\ UNCHANGED <<queueVars, decodingTasks, cancelled, serviceVars, exVars, uiSlot, toStop, iter,
                   modified, searchVars, zoomVars, nodeVars, posted>>

\* decodingTasks.put and the scan for a free slot.
PutTask ==
    /\ uiPc = "put"
    /\ decodingTasks' = [decodingTasks EXCEPT ![uiTask.node] = uiTask]
    /\ \E i \in 0..Len(tasks) : FreeSlot(i) /\ uiSlot' = i
    /\ uiPc' = "insert"
    /\ UNCHANGED <<queueVars, cancelled, serviceVars, nextId, exVars, uiTask, uiOld, toStop, toDecode,
                   iter, modified, searchVars, zoomVars, nodeVars, posted>>

\* addAny for the tasks of the UI thread: save, delete, underline (0), ink (1).
AddAny(prio) ==
    /\ Active
    /\ nextId \in Id
    /\ nextId' = nextId + 1
    /\ uiTask' = NewTask(prio, NoNode, 0)
    /\ uiOld' = NoTask
    /\ \E i \in 0..Len(tasks) : FreeSlot(i) /\ uiSlot' = i
    /\ uiPc' = "insert"
    /\ UNCHANGED <<queueVars, decodingTasks, cancelled, serviceVars, exVars, toStop, toDecode, iter,
                   modified, searchVars, zoomVars, nodeVars, posted>>

\* The insertion and notifyAll; the exception of a failed insertion ends add.
InsertTask ==
    /\ uiPc = "insert"
    /\ InsertAt(uiSlot, uiTask)
    /\ \/ uiSlot <= Len(tasks) /\ Notify /\ uiPc' = "retire" /\ UNCHANGED uiOld
       \/ uiSlot > Len(tasks) /\ UNCHANGED exPc /\ uiPc' = "idle" /\ uiOld' = NoTask
    /\ uiTask' = NoTask /\ uiSlot' = 0
    /\ UNCHANGED <<decodingTasks, cancelled, serviceVars, nextId, exTask, exSlot, exOk, toStop,
                    toDecode, iter, modified, searchVars, zoomVars, nodeVars, posted>>

\* MUTANT of RetireOld: add does not stop the task it replaced.
RetireOldSkipped ==
    /\ uiPc = "retire" /\ uiPc' = "idle"
    /\ UNCHANGED <<queueVars, decodingTasks, cancelled, serviceVars, nextId, exVars, uiTask, uiOld, uiSlot,
                   toStop, toDecode, iter, modified, searchVars, zoomVars, nodeVars, posted>>

\* The end of add: stopDecoding(running, null) for the task that was replaced.
RetireOld ==
    /\ uiPc = "retire"
    /\ \/ uiOld = NoTask /\ uiPc' = "idle" /\ UNCHANGED <<cancelled, uiSlot>>
       \/ /\ uiOld # NoTask
          /\ \E i \in 0..Len(tasks) : Retire(uiOld, i) /\ uiSlot' = i
          /\ uiPc' = "clear"
    /\ UNCHANGED <<queueVars, decodingTasks, serviceVars, nextId, exVars, uiTask, uiOld, toStop, toDecode,
                   iter, modified, searchVars, zoomVars, nodeVars, posted>>

\* tasks.set(i, null) of a stopDecoding made by the UI thread.
ClearOld ==
    /\ uiPc \in {"clear", "iterClear"}
    /\ ClearSlot(uiSlot, uiOld)
    /\ uiPc' = IF uiPc = "clear" THEN "idle" ELSE "iterate"
    /\ uiOld' = NoTask /\ uiSlot' = 0
    /\ UNCHANGED <<decodingTasks, cancelled, serviceVars, nextId, exVars, uiTask, toStop,
                   toDecode, iter, modified, searchVars, zoomVars, nodeVars, posted>>

\* DocumentModel.recycle calls recycle(), which acts once: cancel every task ...
Recycle ==
    /\ Active
    /\ isRecycled' = TRUE
    /\ iter' = {n \in Node : decodingTasks[n] # NoTask}
    /\ modified' = FALSE
    /\ uiPc' = "iterate"
    /\ UNCHANGED <<queueVars, decodingTasks, cancelled, run, document, nextId, exVars, uiTask, uiOld, uiSlot,
                   toStop, toDecode, searchVars, zoomVars, nodeVars, posted>>

RecycleTask(n) ==
    /\ uiPc = "iterate" /\ n \in iter /\ ~modified
    /\ iter' = iter \ {n}
    /\ uiOld' = decodingTasks[n]
    /\ \E i \in 0..Len(tasks) : Retire(decodingTasks[n], i) /\ uiSlot' = i
    /\ uiPc' = "iterClear"
    /\ UNCHANGED <<queueVars, decodingTasks, serviceVars, nextId, exVars, uiTask, toStop, toDecode, modified,
                   searchVars, zoomVars, nodeVars, posted>>

\* shutdownInner on the UI thread: first the page holders are recycled ...
RecycleHolders ==
    /\ uiPc = "iterate" /\ iter = {}
    /\ uiPc' = "holders"
    /\ modified' = FALSE
    /\ UNCHANGED <<queueVars, decodingTasks, cancelled, serviceVars, nextId, exVars, uiTask, uiOld, uiSlot,
                   toStop, toDecode, iter, searchVars, zoomVars, nodeVars, posted>>

\* ... unless the executor changes the map iterated over, decodingTasks or pages:
\* the ConcurrentModificationException is logged, and recycle() ends there.
RecycleFails ==
    /\ \/ uiPc = "iterate" /\ iter # {}
       \/ uiPc = "holders"
    /\ modified
    /\ iter' = {} /\ modified' = FALSE
    /\ uiPc' = "recyclePages"
    /\ UNCHANGED <<queueVars, decodingTasks, cancelled, serviceVars, nextId, exVars, uiTask, uiOld, uiSlot,
                   toStop, toDecode, searchVars, zoomVars, nodeVars, posted>>

\* ... then the document goes, and run.set(false) comes last; then recycle() notifies.
\* A change of pages after the last holder was visited goes unnoticed.
CloseDocument ==
    /\ uiPc = "holders"
    /\ document' = FALSE
    /\ modified' = FALSE
    /\ uiPc' = "stopRun"
    /\ UNCHANGED <<queueVars, decodingTasks, cancelled, run, isRecycled, nextId, exVars, uiTask, uiOld, uiSlot,
                   toStop, toDecode, iter, searchVars, zoomVars, nodeVars, posted>>

StopRun ==
    /\ uiPc = "stopRun"
    /\ run' = FALSE
    /\ Notify
    /\ uiPc' = "recyclePages"
    /\ UNCHANGED <<queueVars, decodingTasks, cancelled, isRecycled, document, nextId, exTask, exSlot, exOk,
                   uiTask, uiOld, uiSlot, toStop, toDecode, iter, modified, searchVars, zoomVars, nodeVars,
                   posted>>

\* recyclePages: every node of every page, which stops the decodings still on.
RecyclePages ==
    /\ uiPc = "recyclePages"
    /\ uiPc' = "idle"
    /\ Process(Node, {}, {}, zoom)
    /\ UNCHANGED zoomVars

----------------------------------------------------------------------------
(***************************************************************************)
(* Search thread: searchText posts the recycling of each page it has read. *)
(***************************************************************************)
SearchFind ==
    /\ seTask = NoTask
    /\ ~isRecycled
    /\ nextId <= MaxSearch /\ nextId + Cardinality(toDecode) <= MaxTask
    /\ nextId' = nextId + 1
    /\ seTask' = NewTask(0, NoNode, 0)
    /\ \E i \in 0..Len(tasks) : FreeSlot(i) /\ seSlot' = i
    /\ UNCHANGED <<queueVars, decodingTasks, cancelled, serviceVars, exVars, uiVars, modified, zoomVars,
                   nodeVars, posted>>

SearchInsert ==
    /\ seTask # NoTask
    /\ InsertAt(seSlot, seTask)
    /\ IF seSlot <= Len(tasks) THEN Notify ELSE UNCHANGED exPc
    /\ seTask' = NoTask /\ seSlot' = 0
    /\ UNCHANGED <<decodingTasks, cancelled, serviceVars, nextId, exTask, exSlot, exOk, uiVars, modified,
                   zoomVars, nodeVars, posted>>

----------------------------------------------------------------------------
(***************************************************************************)
(* Executor thread.                                                        *)
(***************************************************************************)
ExKeeps == UNCHANGED <<serviceVars, nextId, uiVars, searchVars, zoomVars, nodeVars>>

\* MUTANT of Loop: the thread tests run only once.
LoopForever ==
    /\ exPc = "loop" /\ exPc' = "scan"
    /\ ExKeeps
    /\ UNCHANGED <<queueVars, decodingTasks, cancelled, exTask, exSlot, exOk, modified, posted>>

\* while (run.get())
Loop ==
    /\ exPc = "loop"
    /\ exPc' = IF run THEN "scan" ELSE "exited"
    /\ ExKeeps
    /\ UNCHANGED <<queueVars, decodingTasks, cancelled, exTask, exSlot, exOk, modified, posted>>

\* TaskComparator: priority, then age; the order of two decode tasks depends on
\* the geometry of the view, so any of them may come first.
Before(t, u) == t.prio < u.prio \/ (t.prio = u.prio /\ ~IsDecode(t) /\ t.id < u.id)

Best(i) == i \in Slots /\ tasks[i] # NoTask /\ \A u \in Queued : ~Before(u, tasks[i])

\* nextTask: choose a slot, or see a list of nulls, or see an empty list.
Scan ==
    /\ exPc = "scan"
    /\ \/ \E i \in Slots : Best(i) /\ exTask' = tasks[i] /\ exSlot' = i /\ exPc' = "take"
       \/ tasks # <<>> /\ Queued = {} /\ exPc' = "reset" /\ UNCHANGED <<exTask, exSlot>>
       \/ tasks = <<>> /\ exPc' = "wait" /\ UNCHANGED <<exTask, exSlot>>
    /\ ExKeeps
    /\ UNCHANGED <<queueVars, decodingTasks, cancelled, exOk, modified, posted>>

\* tasks.clear(): what was inserted since the scan goes too.
ResetList ==
    /\ exPc = "reset"
    /\ clobbered' = clobbered \cup {t.id : t \in Queued}
    /\ tasks' = <<>>
    /\ exPc' = "loop"
    /\ ExKeeps
    /\ UNCHANGED <<decodingTasks, cancelled, exTask, exSlot, exOk, modified, posted>>

\* MUTANT of Take: the slot keeps the task that was taken.
TakeLeavesSlot ==
    /\ exPc = "take"
    /\ exPc' = IF IsDecode(exTask) THEN "start" ELSE "runAny"
    /\ exSlot' = 0
    /\ ExKeeps
    /\ UNCHANGED <<queueVars, decodingTasks, cancelled, exTask, exOk, modified, posted>>

\* tasks.set(cindex, null): whatever the slot holds by now.
Take ==
    /\ exPc = "take"
    /\ ClearSlot(exSlot, exTask)
    /\ exPc' = IF IsDecode(exTask) THEN "start" ELSE "runAny"
    /\ exSlot' = 0
    /\ ExKeeps
    /\ UNCHANGED <<decodingTasks, cancelled, exTask, exOk, modified, posted>>

\* synchronized (run) { run.wait(60000); }: entered some time after the list was
\* seen empty, left by a notification or by the time-out.
Wait ==
    /\ exPc = "wait" /\ exPc' = "waiting"
    /\ ExKeeps
    /\ UNCHANGED <<queueVars, decodingTasks, cancelled, exTask, exSlot, exOk, modified, posted>>

\* MUTANT of Timeout: run.wait() without a time-out.
NoTimeout == FALSE /\ UNCHANGED vars

Timeout ==
    /\ exPc = "waiting" /\ exPc' = "loop"
    /\ ExKeeps
    /\ UNCHANGED <<queueVars, decodingTasks, cancelled, exTask, exSlot, exOk, modified, posted>>

\* Getting a page holder may add or remove entries of the map of pages.
TouchPages == modified' \in {modified, modified \/ uiPc = "holders"}

\* A task other than a decoding runs; one that throws ends the thread.
RunAny ==
    /\ exPc = "runAny"
    /\ exPc' \in {"loop", "exited"}
    /\ exTask' = NoTask
    /\ TouchPages
    /\ ExKeeps
    /\ UNCHANGED <<queueVars, decodingTasks, cancelled, exSlot, exOk, posted>>

ExGoto(pc) == exPc' = pc /\ UNCHANGED <<exTask, exSlot, exOk>>
ExDrop == exPc' = "loop" /\ exTask' = NoTask /\ UNCHANGED <<exSlot, exOk>>

\* performDecode: the flag is tested before the page is fetched ...
Start ==
    /\ exPc = "start"
    /\ IF Dead(exTask) THEN ExDrop ELSE ExGoto("page")
    /\ ExKeeps
    /\ UNCHANGED <<queueVars, decodingTasks, cancelled, modified, posted>>

\* ... after the page is fetched and again after the cropping ...
FetchPage ==
    /\ exPc = "page"
    /\ \/ document /\ IF Dead(exTask) THEN ExDrop ELSE ExGoto("render")
       \/ exPc' = "finish" /\ exOk' = FALSE /\ UNCHANGED <<exTask, exSlot>>
    /\ TouchPages
    /\ ExKeeps
    /\ UNCHANGED <<queueVars, decodingTasks, cancelled, posted>>

\* MUTANT of Render: the flag is not tested after the rendering.
RenderUnchecked ==
    /\ exPc = "render"
    /\ exPc' = "finish" /\ exOk' \in {document, FALSE} /\ UNCHANGED <<exTask, exSlot>>
    /\ ExKeeps
    /\ UNCHANGED <<queueVars, decodingTasks, cancelled, modified, posted>>

\* ... and for the last time after the rendering.  Each of these steps may throw.
Render ==
    /\ exPc = "render"
    /\ \/ document /\ IF Dead(exTask)
                      THEN ExDrop
                      ELSE exPc' = "finish" /\ exOk' = TRUE /\ UNCHANGED <<exTask, exSlot>>
       \/ exPc' = "finish" /\ exOk' = FALSE /\ UNCHANGED <<exTask, exSlot>>
    /\ ExKeeps
    /\ UNCHANGED <<queueVars, decodingTasks, cancelled, modified, posted>>

\* finishDecoding / abortDecoding: stopDecoding(null, task.node) takes whatever
\* task is registered for the node, which need not be the one that completed.
Finish ==
    /\ exPc = "finish"
    /\ LET n == exTask.node
           removed == decodingTasks[n]
       IN  /\ decodingTasks' = [decodingTasks EXCEPT ![n] = NoTask]
           /\ modified' = (modified \/ (removed # NoTask /\ uiPc \in {"iterate", "iterClear"}))
           /\ \/ removed = NoTask /\ exSlot' = 0 /\ UNCHANGED <<cancelled>>
              \/ /\ removed # NoTask
                 /\ \E i \in 0..Len(tasks) : Retire(removed, i) /\ exSlot' = i
           /\ exPc' = "finishClear"
    /\ ExKeeps
    /\ UNCHANGED <<queueVars, exTask, exOk, posted>>

FinishClear ==
    /\ exPc = "finishClear"
    /\ exPc' = "publish"
    /\ ClearSlot(exSlot, NoTask)
    /\ exSlot' = 0
    /\ ExKeeps
    /\ UNCHANGED <<decodingTasks, cancelled, exTask, exOk, modified, posted>>

\* MUTANT of Publish: a decoding that failed posts nothing.
PublishOnlySuccess ==
    /\ exPc = "publish"
    /\ posted' = IF exOk
                 THEN Append(posted, [id |-> exTask.id, node |-> exTask.node, zoom |-> exTask.zoom])
                 ELSE posted
    /\ ExDrop
    /\ ExKeeps
    /\ UNCHANGED <<queueVars, decodingTasks, cancelled, modified>>

\* decodeComplete: a null bitmap, or a lack of memory for the node's bitmaps, posts
\* only the reset of decodingNow; any other exception takes the abort path.
Publish ==
    /\ exPc = "publish"
    /\ \/ /\ \E z \in (IF exOk THEN {exTask.zoom, 0} ELSE {0}) :
                 posted' = Append(posted, [id |-> exTask.id, node |-> exTask.node, zoom |-> z])
          /\ ExDrop
       \/ /\ exOk
          /\ exPc' = "finish" /\ exOk' = FALSE
          /\ UNCHANGED <<exTask, exSlot, posted>>
    /\ ExKeeps
    /\ UNCHANGED <<queueVars, decodingTasks, cancelled, modified>>

----------------------------------------------------------------------------
Event ==
    \E kept, dropped \in SUBSET Node :
        \/ Scroll(kept, dropped)
        \/ Reset(kept)
        \/ Commit(kept, dropped)
        \/ \E z \in Zoom : SetZoom(z, kept, dropped) \/ ScaleAndCommit(z, kept, dropped)

UiStep ==
    \/ \E hidden \in SUBSET Node : RunPosted(hidden)
    \/ \E n \in Node : StopCall(n) \/ DecodeCall(n) \/ RecycleTask(n)
    \/ PutTask \/ InsertTask \/ RetireOld \/ ClearOld
    \/ RecycleHolders \/ RecycleFails \/ CloseDocument \/ StopRun \/ RecyclePages

ExStep ==
    \/ Loop \/ Scan \/ ResetList \/ Take \/ Wait \/ Timeout \/ RunAny
    \/ Start \/ FetchPage \/ Render \/ Finish \/ FinishClear \/ Publish

\* The book is closed and every thread is done: the only way the system stops.
Ended ==
    /\ isRecycled /\ exPc = "exited" /\ UiFree /\ posted = <<>> /\ seTask = NoTask
    /\ UNCHANGED vars

Next ==
    \/ Event
    \/ \E prio \in UserPrio : AddAny(prio)
    \/ Recycle
    \/ UiStep
    \/ SearchFind \/ SearchInsert
    \/ ExStep
    \/ Ended

Spec == Init /\ [][Next]_vars

\* The looper dispatches what is posted and finishes what it began; the executor
\* thread is scheduled and its wait has a time-out; nothing makes the user act.
Fairness == WF_vars(UiStep) /\ WF_vars(SearchInsert) /\ WF_vars(ExStep)
FairSpec == Spec /\ Fairness

----------------------------------------------------------------------------
(***************************************************************************)
(* Properties.                                                             *)
(***************************************************************************)
TaskOrNull == Task \cup {NoTask}
Posted == [id : Id, node : Node, zoom : Zoom \cup {0}]

\* Type invariant of the service's fields and of the locals of its threads.
TypeOK ==
    /\ tasks \in Seq(TaskOrNull)
    /\ decodingTasks \in [Node -> DecodeTask \cup {NoTask}]
    /\ cancelled \subseteq Id /\ clobbered \subseteq Id
    /\ run \in BOOLEAN /\ isRecycled \in BOOLEAN /\ document \in BOOLEAN
    /\ nextId \in 1..(MaxTask + 1)
    /\ exPc \in {"loop", "scan", "reset", "take", "wait", "waiting", "runAny", "start", "page", "render",
                 "finish", "finishClear", "publish", "exited"}
    /\ exTask \in TaskOrNull /\ exSlot \in Nat /\ exOk \in BOOLEAN
    /\ uiPc \in {"idle", "put", "insert", "retire", "clear", "iterate", "iterClear", "holders", "stopRun", "recyclePages"}
    /\ uiTask \in TaskOrNull /\ uiOld \in DecodeTask \cup {NoTask} /\ uiSlot \in Nat
    /\ toStop \subseteq Node /\ toDecode \subseteq Node /\ iter \subseteq Node /\ modified \in BOOLEAN
    /\ seTask \in AnyTask \cup {NoTask} /\ seSlot \in Nat
    /\ zoom \in Zoom /\ initialZoom \in Zoom
    /\ decodingNow \in [Node -> BOOLEAN]
    /\ bitmapZoom \in [Node -> Zoom]
    /\ bitmap \in [Node -> Zoom \cup {0}]
    /\ posted \in Seq(Posted)

\* Tasks some thread can still hand to performDecode or run.
BeforeLastCheck == exPc \in {"take", "start", "page", "render"}
Unstarted == Queued \cup ({uiTask, seTask} \ {NoTask})

\* A task is in one place at a time: in a single slot, or in the hands of the
\* thread inserting it, or taken by the executor.  So no task is run twice,
\* although threads write into each other's slots.
OnePlacePerTask ==
    /\ \A i, j \in Slots : tasks[i] # NoTask /\ tasks[j] # NoTask /\ tasks[i].id = tasks[j].id => i = j
    /\ \A t \in Queued : t # uiTask /\ t # seTask
    /\ exPc \notin {"take", "loop", "scan", "reset", "wait", "waiting", "exited"} => exTask \notin Unstarted

\* A decode task that can still render is registered for its node, or is the
\* task that add() has read from the map and is about to cancel: stopDecoding
\* and recycle() find every decoding that has not passed its last check.
LiveTaskRegistered ==
    \A t \in Queued \cup (IF BeforeLastCheck THEN {exTask} ELSE {}) :
        IsDecode(t) /\ ~Dead(t) => decodingTasks[t.node] = t \/ uiOld = t

\* What will clear decodingNow of node n: a call not made yet, a task on its way,
\* the completion of any task of the node, or a runnable in the looper.
Underway(n) ==
    \/ n \in toDecode
    \/ \E t \in Unstarted : t.node = n /\ ~Dead(t)
    \/ exTask # NoTask /\ exTask.node = n /\ (exPc \in {"finish", "finishClear", "publish"} \/ ~Dead(exTask))
    \/ \E i \in 1..Len(posted) : posted[i].node = n

\* decodingNow is never left set with nothing underway to clear it (the node
\* could not be decoded again), except by what the code does not protect against:
\* a task whose slot was overwritten, a dead executor, a recycled service.
NodeNeverStuck ==
    \A n \in Node :
        decodingNow[n] => \/ Underway(n)
                          \/ isRecycled \/ exPc = "exited"
                          \/ decodingTasks[n] # NoTask /\ decodingTasks[n].id \in clobbered

\* The refinement mapping to DecodeContract: the stage of a task is where it is.
Ids(S) == {t.id : t \in S}
Results == {posted[i].id : i \in {j \in 1..Len(posted) : posted[j].zoom # 0}}

StageOf(i) ==
    CASE i >= nextId -> "none"
      [] i < nextId /\ i \in Results -> "posted"
      [] i < nextId /\ i \notin Results /\ exTask # NoTask /\ exTask.id = i /\ exPc # "take" ->
            IF exPc \notin {"finish", "finishClear", "publish"} THEN "started"
            ELSE IF exOk THEN "committed" ELSE "failed"
      [] i < nextId /\ i \notin Results /\ (exTask = NoTask \/ exTask.id # i \/ exPc = "take") ->
            IF i \in Ids(Unstarted) \/ (exPc = "take" /\ exTask.id = i) THEN "requested" ELSE "gone"

Contract == INSTANCE DecodeContract WITH stage <- [i \in Id |-> StageOf(i)], dead <- cancelled

\* The service implements the contract: no interleaving of the three threads
\* starts a task twice, starts one while another runs, or lets the result of a
\* task that was cancelled before its last check reach the looper.
ImplementsContract == Contract!Spec

\* Closing the book ends the executor thread, even if the notification of
\* StopRun was missed: the wait has a time-out and `run' is tested again.
CloseEndsExecutor == ~run ~> exPc = "exited"

\* No task stays in the list for ever: it is taken, stopped or lost, or the
\* executor is gone (closed, or killed by a task that threw).
QueueServed == \A i \in Id : i \in Ids(Queued) ~> (i \notin Ids(Queued) \/ exPc = "exited")

\* A node marked as being decoded is eventually released (or its task was lost),
\* so that a later event can ask for it again.
DecodingEnds ==
    \A n \in Node :
        decodingNow[n] ~> \/ ~decodingNow[n]
                          \/ exPc = "exited"
                          \/ decodingTasks[n] # NoTask /\ decodingTasks[n].id \in clobbered
=============================================================================
