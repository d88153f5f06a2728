------------------------ MODULE DecodeServiceProofs ------------------------
(***************************************************************************)
(* Proofs about DecodeService, for every set of nodes and zoom factors and *)
(* every bound on the number of tasks.                                     *)
(***************************************************************************)
EXTENDS DecodeService, SequenceTheorems, TLAPS

\* What the program counters say of the locals of the threads: which of them
\* hold a task, and that a task on its way out of the UI thread is cancelled.
Locals ==
    /\ uiPc \in {"idle", "iterate", "holders", "stopRun", "recyclePages"} => uiOld = NoTask
    /\ uiPc = "put" => uiTask \in DecodeTask
    /\ uiPc = "insert" => uiTask \in Task
    /\ uiPc \in {"clear", "iterClear"} => uiOld \in Task /\ Dead(uiOld)
    /\ exPc \in {"take", "runAny"} => exTask \in Task
    /\ exPc \in {"start", "page", "render", "finish", "finishClear", "publish"} => exTask \in DecodeTask
    /\ uiPc \in {"iterate", "iterClear"} /\ ~modified => \A n \in iter : decodingTasks[n] # NoTask
    /\ \A n \in Node : decodingTasks[n] # NoTask => decodingTasks[n].node = n

Typed == TypeOK /\ Locals

\* The tuples that group the variables are expanded everywhere.
USE DEF queueVars, serviceVars, exVars, uiVars, searchVars, nodeVars, zoomVars, ExKeeps

\* The ids ClearSlot and InsertAt add to clobbered are ids of tasks.
LEMMA OverwrittenIds ==
    ASSUME tasks \in Seq(TaskOrNull), NEW i \in Slots, NEW t
    PROVE  Overwritten(i, t) \subseteq Id
  <1>1. tasks[i] \in TaskOrNull
    BY ElementOfSeq DEF Slots
  <1> QED BY <1>1 DEF Overwritten, TaskOrNull, Task, DecodeTask, AnyTask

LEMMA ClearSlotType ==
    ASSUME TypeOK, NEW i, NEW t, ClearSlot(i, t)
    PROVE  tasks' \in Seq(TaskOrNull) /\ clobbered' \subseteq Id
  <1>1. CASE i \in Slots
    <2>1. tasks' = [tasks EXCEPT ![i] = NoTask] /\ clobbered' = clobbered \cup Overwritten(i, t)
      BY <1>1 DEF ClearSlot
    <2>2. Overwritten(i, t) \subseteq Id
      BY <1>1, OverwrittenIds DEF TypeOK
    <2>3. [tasks EXCEPT ![i] = NoTask] \in Seq(TaskOrNull)
      BY <1>1, ExceptSeq DEF TypeOK, Slots, TaskOrNull
    <2> QED BY <2>1, <2>2, <2>3 DEF TypeOK
  <1>2. CASE i \notin Slots
    BY <1>2 DEF ClearSlot, TypeOK, queueVars
  <1> QED BY <1>1, <1>2

LEMMA InsertAtType ==
    ASSUME TypeOK, NEW i \in Nat, NEW t \in Task, InsertAt(i, t)
    PROVE  tasks' \in Seq(TaskOrNull) /\ clobbered' \subseteq Id
  <1>0. t \in TaskOrNull /\ t.id \in Id
    BY DEF TaskOrNull, Task, DecodeTask, AnyTask
  <1>1. CASE tasks' = Append(tasks, t) /\ UNCHANGED clobbered
    BY <1>0, <1>1, AppendProperties DEF TypeOK
  <1>2. CASE i \in Slots /\ tasks' = [tasks EXCEPT ![i] = t] /\ clobbered' = clobbered \cup Overwritten(i, NoTask)
    <2>1. [tasks EXCEPT ![i] = t] \in Seq(TaskOrNull)
      BY <1>0, <1>2, ExceptSeq DEF TypeOK, Slots
    <2> QED BY <1>2, <2>1, OverwrittenIds DEF TypeOK
  <1>3. CASE clobbered' = clobbered \cup {t.id} /\ UNCHANGED tasks
    BY <1>0, <1>3 DEF TypeOK
  <1> QED BY <1>1, <1>2, <1>3 DEF InsertAt

\* What an event does to the nodes keeps their types.
LEMMA ProcessType ==
    ASSUME Typed, NEW dropped \in SUBSET Node, NEW again \in SUBSET Node, NEW wanted \in SUBSET Node,
           NEW z \in Zoom, Process(dropped, again, wanted, z),
           uiPc' = uiPc \/ (uiPc' = "idle" /\ uiPc = "recyclePages"), zoom' \in Zoom, initialZoom' \in Zoom
    PROVE  Typed'
  <1>1. TypeOK'
    BY DEF Process, Typed, TypeOK, TaskOrNull, Posted
  <1>2. Locals'
    BY DEF Process, Typed, Locals, Dead
  <1> QED BY <1>1, <1>2 DEF Typed

LEMMA EventType == Typed /\ Event => Typed'
  <1> SUFFICES ASSUME Typed, NEW kept \in SUBSET Node, NEW dropped \in SUBSET Node,
                      \/ Scroll(kept, dropped)
                      \/ Reset(kept)
                      \/ Commit(kept, dropped)
                      \/ \E z \in Zoom : SetZoom(z, kept, dropped) \/ ScaleAndCommit(z, kept, dropped)
               PROVE  Typed'
    BY DEF Event
  <1>0. zoom \in Zoom /\ initialZoom \in Zoom /\ Blank(kept) \in SUBSET Node
    BY DEF Typed, TypeOK, Blank
  <1>1. CASE Scroll(kept, dropped)
    BY <1>0, <1>1, ProcessType DEF Scroll, zoomVars
  <1>2. CASE Reset(kept)
    BY <1>0, <1>2, ProcessType DEF Reset, zoomVars
  <1>3. ASSUME NEW old \in Zoom, NEW new \in Zoom, CommittedZoom(old, new, kept, dropped),
               UNCHANGED uiPc, zoom' \in Zoom, initialZoom' \in Zoom
        PROVE  Typed'
    <2> DEFINE again == {n \in kept : bitmapZoom[n] # new}
    <2>1. CASE new > old
      <3>1. Process(dropped, again, again \cup Blank(kept), new)
        BY <1>3, <2>1 DEF CommittedZoom
      <3>2. again \in SUBSET Node /\ again \cup Blank(kept) \in SUBSET Node
        BY <1>0
      <3> QED BY <1>3, <3>1, <3>2, ProcessType
    <2>2. CASE ~(new > old)
      <3>1. Process(dropped, {}, kept, new)
        BY <1>3, <2>2 DEF CommittedZoom
      <3> QED BY <1>3, <3>1, ProcessType
    <2> QED BY <2>1, <2>2
  <1>4. CASE Commit(kept, dropped)
    BY <1>0, <1>3, <1>4 DEF Commit
  <1>5. ASSUME NEW z \in Zoom, SetZoom(z, kept, dropped)
        PROVE  Typed'
    BY <1>0, <1>5, ProcessType DEF SetZoom
  <1>6. ASSUME NEW z \in Zoom, ScaleAndCommit(z, kept, dropped)
        PROVE  Typed'
    BY <1>0, <1>3, <1>6 DEF ScaleAndCommit
  <1> QED BY <1>1, <1>2, <1>4, <1>5, <1>6

LEMMA InitType == Init => Typed
  <1> SUFFICES ASSUME Init PROVE Typed
    OBVIOUS
  <1>0. <<>> \in Seq(TaskOrNull) /\ <<>> \in Seq(Posted)
    BY EmptySeq
  <1>1. NoTask \in TaskOrNull
    BY DEF TaskOrNull
  <1>2. TypeOK
    <2>1. tasks \in Seq(TaskOrNull) /\ posted \in Seq(Posted)
      BY <1>0 DEF Init
    <2>2. nextId \in 1..(MaxTask + 1) /\ zoom \in Zoom /\ initialZoom \in Zoom
      BY ConstantsAssumption DEF Init
    <2>3. /\ decodingTasks \in [Node -> DecodeTask \cup {NoTask}]
          /\ decodingNow \in [Node -> BOOLEAN]
          /\ bitmapZoom \in [Node -> Zoom]
          /\ bitmap \in [Node -> Zoom \cup {0}]
      BY ConstantsAssumption DEF Init
    <2> QED BY <1>1, <2>1, <2>2, <2>3 DEF Init, TypeOK
  <1>3. Locals
    BY DEF Init, Locals
  <1> QED BY <1>2, <1>3 DEF Typed

\* The steps of the UI thread inside the service.
LEMMA UiType == Typed /\ UiStep => Typed'
  <1> SUFFICES ASSUME Typed, UiStep PROVE Typed'
    OBVIOUS
  <1>0. /\ \A t \in Task : t.id \in Id
        /\ NoTask \notin Task
        /\ 0..Len(tasks) \subseteq Nat
    BY ConstantsAssumption DEF Task, DecodeTask, AnyTask, Typed, TypeOK
  <1>1. ASSUME NEW hidden \in SUBSET Node, RunPosted(hidden)
        PROVE  Typed'
    <2>1. Head(posted) \in Posted /\ Tail(posted) \in Seq(Posted)
      BY <1>1, HeadTailProperties DEF RunPosted, Typed, TypeOK
    <2>2. TypeOK'
      BY <1>1, <2>1 DEF RunPosted, Typed, TypeOK, Posted
    <2>3. Locals'
      BY <1>1 DEF RunPosted, Typed, Locals, Dead
    <2> QED BY <2>2, <2>3 DEF Typed
  <1>2. ASSUME NEW n \in Node, StopCall(n)
        PROVE  Typed'
    <2>1. TypeOK'
      BY <1>0, <1>2 DEF StopCall, Retire, Typed, TypeOK, TaskOrNull, Task
    <2>2. Locals'
      BY <1>0, <1>2 DEF StopCall, Retire, Typed, TypeOK, Locals, Dead, Task
    <2> QED BY <2>1, <2>2 DEF Typed
  <1>3. ASSUME NEW n \in Node, DecodeCall(n)
        PROVE  Typed'
    <2>0. NewTask(2, n, zoom) \in DecodeTask
      BY <1>3 DEF DecodeCall, NewTask, DecodeTask, Typed, TypeOK
    <2>1. TypeOK'
      BY <2>0, <1>3, ConstantsAssumption DEF DecodeCall, Typed, TypeOK, TaskOrNull, Task, Id
    <2>2. Locals'
      BY <2>0, <1>3 DEF DecodeCall, Typed, Locals, Dead, Task
    <2> QED BY <2>1, <2>2 DEF Typed
  <1>4. ASSUME NEW n \in Node, RecycleTask(n)
        PROVE  Typed'
    <2>0. decodingTasks[n] \in Task
      BY <1>4 DEF RecycleTask, Typed, TypeOK, Locals, Task
    <2>1. TypeOK'
      BY <2>0, <1>0, <1>4 DEF RecycleTask, Retire, Typed, TypeOK, TaskOrNull
    <2>2. Locals'
      BY <2>0, <1>4 DEF RecycleTask, Retire, Typed, Locals, Dead
    <2> QED BY <2>1, <2>2 DEF Typed
  <1>5. CASE PutTask
    <2>1. TypeOK'
      BY <1>0, <1>5, ZenonT(30) DEF PutTask, Typed, TypeOK, Locals
    <2>2. Locals'
      BY <1>0, <1>5 DEF PutTask, Typed, TypeOK, Locals, Dead, Task, DecodeTask
    <2> QED BY <2>1, <2>2 DEF Typed
  <1>6. CASE InsertTask
    <2>0. tasks' \in Seq(TaskOrNull) /\ clobbered' \subseteq Id
      BY <1>6, InsertAtType DEF InsertTask, Typed, TypeOK, Locals
    <2>1. TypeOK'
      BY <2>0, <1>6 DEF InsertTask, Notify, Typed, TypeOK, TaskOrNull
    <2>2. Locals'
      BY <1>6 DEF InsertTask, Notify, Typed, Locals, Dead
    <2> QED BY <2>1, <2>2 DEF Typed
  <1>7. CASE RetireOld
    <2>1. TypeOK'
      BY <1>0, <1>7 DEF RetireOld, Retire, Typed, TypeOK, Task
    <2>2. Locals'
      BY <1>0, <1>7 DEF RetireOld, Retire, Typed, TypeOK, Task, Locals, Dead
    <2> QED BY <2>1, <2>2 DEF Typed
  <1>8. CASE ClearOld
    <2>0. tasks' \in Seq(TaskOrNull) /\ clobbered' \subseteq Id
      BY <1>8, ClearSlotType DEF ClearOld, Typed
    <2>1. TypeOK'
      BY <2>0, <1>8 DEF ClearOld, Typed, TypeOK, TaskOrNull
    <2>2. Locals'
      BY <1>8 DEF ClearOld, Typed, Locals, Dead
    <2> QED BY <2>1, <2>2 DEF Typed
  <1>9. CASE RecycleHolders \/ RecycleFails \/ CloseDocument
    <2>1. TypeOK'
      BY <1>9, ZenonT(30) DEF RecycleHolders, RecycleFails, CloseDocument, Typed, TypeOK
    <2>2. Locals'
      BY <1>9 DEF RecycleHolders, RecycleFails, CloseDocument, Typed, Locals, Dead
    <2> QED BY <2>1, <2>2 DEF Typed
  <1>10. CASE StopRun
    <2>1. TypeOK'
      BY <1>10 DEF StopRun, Notify, Typed, TypeOK
    <2>2. Locals'
      BY <1>10 DEF StopRun, Notify, Typed, Locals, Dead
    <2> QED BY <2>1, <2>2 DEF Typed
  <1>11. CASE RecyclePages
    BY <1>11, ProcessType DEF RecyclePages, Typed, TypeOK
  <1> QED BY <1>1, <1>2, <1>3, <1>4, <1>5, <1>6, <1>7, <1>8, <1>9, <1>10, <1>11 DEF UiStep

\* The steps of the search thread.
LEMMA SearchType == Typed /\ (SearchFind \/ SearchInsert) => Typed'
  <1>1. ASSUME Typed, SearchFind PROVE Typed'
    <2>0. /\ NewTask(0, NoNode, 0) \in AnyTask
          /\ 0..Len(tasks) \subseteq Nat
          /\ nextId + 1 \in 1..(MaxTask + 1)
      <3>1. toDecode \subseteq Node /\ nextId \in Nat
        BY <1>1 DEF Typed, TypeOK
      <3>2. nextId' = nextId + 1 /\ nextId <= MaxTask
        BY <1>1, <3>1, ConstantsAssumption DEF SearchFind
      <3> QED BY <1>1, <3>1, <3>2, ConstantsAssumption
              DEF NewTask, Task, AnyTask, DecodeTask, Typed, TypeOK, Id
    <2>1. TypeOK'
      BY <2>0, <1>1 DEF SearchFind, Typed, TypeOK, TaskOrNull
    <2>2. Locals'
      BY <1>1 DEF SearchFind, Typed, Locals, Dead
    <2> QED BY <2>1, <2>2 DEF Typed
  <1>2. ASSUME Typed, SearchInsert PROVE Typed'
    <2>0. tasks' \in Seq(TaskOrNull) /\ clobbered' \subseteq Id
      <3>1. seTask \in Task /\ seSlot \in Nat
        BY <1>2 DEF SearchInsert, Typed, TypeOK, Task
      <3> QED BY <1>2, <3>1, InsertAtType DEF SearchInsert, Typed
    <2>1. TypeOK'
      BY <2>0, <1>2 DEF SearchInsert, Notify, Typed, TypeOK, TaskOrNull
    <2>2. Locals'
      BY <1>2 DEF SearchInsert, Notify, Typed, Locals, Dead
    <2> QED BY <2>1, <2>2 DEF Typed
  <1> QED BY <1>1, <1>2

\* The steps of the executor thread.
LEMMA ExType == Typed /\ ExStep => Typed'
  <1> SUFFICES ASSUME Typed, ExStep PROVE Typed'
    OBVIOUS
  <1>0. /\ \A t \in Task : t.id \in Id
        /\ NoTask \notin Task
        /\ 0..Len(tasks) \subseteq Nat
    BY ConstantsAssumption DEF Task, DecodeTask, AnyTask, Typed, TypeOK
  <1>1. CASE Loop \/ Wait \/ Timeout \/ RunAny
    <2>0. modified' \in BOOLEAN /\ NoTask \in TaskOrNull
      BY <1>1 DEF Loop, Wait, Timeout, RunAny, TouchPages, Typed, TypeOK, TaskOrNull
    <2>1. TypeOK'
      BY <1>1, <2>0 DEF Loop, Wait, Timeout, RunAny, Typed, TypeOK
    <2>2. Locals'
      BY <1>1 DEF Loop, Wait, Timeout, RunAny, TouchPages, Typed, Locals, Dead
    <2> QED BY <2>1, <2>2 DEF Typed
  <1>2. CASE Scan
    <2>0. \A i \in Slots : tasks[i] # NoTask => tasks[i] \in Task /\ i \in Nat
      <3>1. \A i \in 1..Len(tasks) : tasks[i] \in TaskOrNull
        BY ElementOfSeq DEF Typed, TypeOK
      <3> QED BY <3>1 DEF Slots, TaskOrNull
    <2>1. TypeOK'
      BY <2>0, <1>2 DEF Scan, Best, Typed, TypeOK, TaskOrNull
    <2>2. Locals'
      BY <2>0, <1>2 DEF Scan, Best, Typed, Locals, Dead
    <2> QED BY <2>1, <2>2 DEF Typed
  <1>3. CASE ResetList
    <2>0. {t.id : t \in Queued} \subseteq Id
      <3>1. \A i \in 1..Len(tasks) : tasks[i] \in TaskOrNull
        BY ElementOfSeq DEF Typed, TypeOK
      <3>2. Queued \subseteq Task
        BY <3>1 DEF Slots, TaskOrNull, Queued
      <3> QED BY <1>0, <3>2
    <2>1. TypeOK'
      BY <2>0, <1>3, EmptySeq DEF ResetList, Typed, TypeOK
    <2>2. Locals'
      BY <1>3 DEF ResetList, Typed, Locals, Dead
    <2> QED BY <2>1, <2>2 DEF Typed
  <1>4. CASE Take
    <2>0. tasks' \in Seq(TaskOrNull) /\ clobbered' \subseteq Id
      BY <1>4, ClearSlotType DEF Take, Typed
    <2>1. TypeOK'
      BY <2>0, <1>4 DEF Take, Typed, TypeOK
    <2>2. Locals'
      BY <1>4 DEF Take, Typed, Locals, Dead, IsDecode, Task, AnyTask
    <2> QED BY <2>1, <2>2 DEF Typed
  <1>5. CASE Start \/ FetchPage \/ Render
    <2>0. modified' \in BOOLEAN /\ NoTask \in TaskOrNull
      BY <1>5 DEF Start, FetchPage, Render, TouchPages, Typed, TypeOK, TaskOrNull
    <2>1. TypeOK'
      BY <1>5, <2>0, ZenonT(30) DEF Start, FetchPage, Render, ExDrop, ExGoto, Typed, TypeOK
    <2>2. Locals'
      BY <1>5 DEF Start, FetchPage, Render, ExDrop, ExGoto, TouchPages, Typed, Locals, Dead
    <2> QED BY <2>1, <2>2 DEF Typed
  <1>6. CASE Finish
    <2>0. exTask \in DecodeTask /\ exTask.node \in Node
      BY <1>6 DEF Finish, Typed, Locals, DecodeTask
    <2>1. TypeOK'
      BY <2>0, <1>0, <1>6 DEF Finish, Retire, Typed, TypeOK, TaskOrNull, Task
    <2>2. Locals'
      BY <2>0, <1>0, <1>6 DEF Finish, Retire, Typed, TypeOK, Locals, Dead
    <2> QED BY <2>1, <2>2 DEF Typed
  <1>7. CASE FinishClear
    <2>0. tasks' \in Seq(TaskOrNull) /\ clobbered' \subseteq Id
      BY <1>7, ClearSlotType DEF FinishClear, Typed
    <2>1. TypeOK'
      BY <2>0, <1>7 DEF FinishClear, Typed, TypeOK
    <2>2. Locals'
      BY <1>7 DEF FinishClear, Typed, Locals, Dead
    <2> QED BY <2>1, <2>2 DEF Typed
  <1>8. CASE Publish
    <2>0. \A z \in {exTask.zoom, 0} : [id |-> exTask.id, node |-> exTask.node, zoom |-> z] \in Posted
      BY <1>8 DEF Publish, Typed, Locals, DecodeTask, Posted
    <2>1. posted' \in Seq(Posted)
      <3>1. posted \in Seq(Posted)
        BY DEF Typed, TypeOK
      <3>2. \/ UNCHANGED posted
            \/ \E z \in {exTask.zoom, 0} :
                  posted' = Append(posted, [id |-> exTask.id, node |-> exTask.node, zoom |-> z])
        BY <1>8 DEF Publish
      <3> QED BY <2>0, <3>1, <3>2, AppendProperties
    <2>2. NoTask \in TaskOrNull
      BY DEF TaskOrNull
    <2>3. TypeOK'
      BY <2>1, <2>2, <1>8, ZenonT(30) DEF Publish, ExDrop, Typed, TypeOK
    <2>4. Locals'
      BY <1>8 DEF Publish, ExDrop, Typed, Locals, Dead
    <2> QED BY <2>3, <2>4 DEF Typed
  <1> QED BY <1>1, <1>2, <1>3, <1>4, <1>5, <1>6, <1>7, <1>8 DEF ExStep

\* A task the user causes, and the closing of the book.
LEMMA UserType ==
    ASSUME Typed, Recycle \/ \E prio \in UserPrio : AddAny(prio)
    PROVE  Typed'
  <1>1. CASE Recycle
    <2>1. TypeOK'
      BY <1>1 DEF Recycle, Active, UiFree, Typed, TypeOK
    <2>2. Locals'
      BY <1>1 DEF Recycle, Active, UiFree, Typed, Locals, Dead
    <2> QED BY <2>1, <2>2 DEF Typed
  <1>2. ASSUME NEW prio \in UserPrio, AddAny(prio)
        PROVE  Typed'
    <2>0. /\ NewTask(prio, NoNode, 0) \in Task
          /\ 0..Len(tasks) \subseteq Nat
      BY <1>2, ConstantsAssumption DEF AddAny, NewTask, Task, AnyTask, Typed, TypeOK
    <2>1. TypeOK'
      BY <2>0, <1>2, ConstantsAssumption DEF AddAny, Typed, TypeOK, TaskOrNull, Id
    <2>2. Locals'
      BY <2>0, <1>2 DEF AddAny, Active, UiFree, Typed, Locals, Dead
    <2> QED BY <2>1, <2>2 DEF Typed
  <1> QED BY <1>1, <1>2

LEMMA NextType == Typed /\ [Next]_vars => Typed'
  <1> SUFFICES ASSUME Typed, [Next]_vars PROVE Typed'
    OBVIOUS
  <1>1. CASE UNCHANGED vars
    BY <1>1 DEF vars, Typed, TypeOK, Locals, Dead
  <1>2. CASE Ended
    BY <1>2 DEF Ended, vars, Typed, TypeOK, Locals, Dead
  <1> QED BY <1>1, <1>2, EventType, UiType, SearchType, ExType, UserType DEF Next

\* Every reachable state is type-correct: in particular what the executor takes
\* from a slot, finishes and publishes is a decoding of a page tree node, however
\* the threads write over each other's slots (DecodeServiceBase: add, addAny,
\* nextTask, stopDecoding).
THEOREM TypeCorrect == Spec => []TypeOK
  <1>1. Typed => TypeOK
    BY DEF Typed
  <1> QED BY InitType, NextType, <1>1, PTL DEF Spec

----------------------------------------------------------------------------
(***************************************************************************)
(* LiveTaskRegistered.  It is not inductive: a task reaches the list only  *)
(* some steps after it entered the map, and add() forgets the task it      *)
(* replaced if the insertion fails.  Handover says what holds meanwhile.   *)
(***************************************************************************)
Handover ==
    /\ uiPc = "put" => decodingTasks[uiTask.node] \in {NoTask, uiOld}
    /\ uiPc = "insert" /\ IsDecode(uiTask) /\ ~Dead(uiTask) => decodingTasks[uiTask.node] = uiTask
    /\ uiPc = "insert" /\ uiSlot > Len(tasks) =>
          uiOld \notin Queued /\ (BeforeLastCheck => exTask # uiOld)

Registered == Typed /\ Handover /\ LiveTaskRegistered

\* What the writes to the list of slots do to the set of queued tasks.
LEMMA ClearSlotQueued ==
    ASSUME TypeOK, NEW i, NEW t, ClearSlot(i, t)
    PROVE  Queued' \subseteq Queued /\ Len(tasks') = Len(tasks)
  <1>1. CASE i \in Slots
    <2>1. tasks' = [tasks EXCEPT ![i] = NoTask]
      BY <1>1 DEF ClearSlot
    <2>2. /\ Len(tasks') = Len(tasks)
          /\ \A j \in Slots : tasks'[j] = NoTask \/ tasks'[j] = tasks[j]
      BY <1>1, <2>1, ExceptSeq DEF TypeOK, Slots, TaskOrNull
    <2> QED BY <2>2 DEF Queued, Slots
  <1>2. CASE i \notin Slots
    BY <1>2 DEF ClearSlot, Queued, Slots
  <1> QED BY <1>1, <1>2

LEMMA InsertAtQueued ==
    ASSUME TypeOK, NEW i \in Nat, NEW t \in Task, InsertAt(i, t)
    PROVE  /\ Queued' \subseteq Queued \cup {t}
           /\ Len(tasks') >= Len(tasks)
           /\ i > Len(tasks) => UNCHANGED tasks
  <1>0. t \in TaskOrNull /\ tasks \in Seq(TaskOrNull) /\ Len(tasks) \in Nat
    BY LenProperties DEF TaskOrNull, TypeOK
  <1>1. CASE i = 0 /\ tasks' = Append(tasks, t)
    <2>1. /\ Len(tasks') = Len(tasks) + 1
          /\ \A j \in 1..Len(tasks) : tasks'[j] = tasks[j]
          /\ tasks'[Len(tasks) + 1] = t
      BY <1>0, <1>1, AppendProperties
    <2>2. \A j \in 1..Len(tasks') : j \in 1..Len(tasks) \/ j = Len(tasks) + 1
      BY <1>0, <2>1
    <2>3. Queued' \subseteq Queued \cup {t}
      BY <2>1, <2>2 DEF Queued, Slots
    <2> QED BY <1>0, <1>1, <2>1, <2>3
  <1>2. CASE i \in Slots /\ tasks' = [tasks EXCEPT ![i] = t]
    <2>1. /\ Len(tasks') = Len(tasks)
          /\ \A j \in Slots : tasks'[j] = t \/ tasks'[j] = tasks[j]
      BY <1>0, <1>2, ExceptSeq DEF Slots
    <2>2. Queued' \subseteq Queued \cup {t}
      BY <2>1 DEF Queued, Slots
    <2> QED BY <1>0, <1>2, <2>1, <2>2 DEF Slots
  <1>3. CASE UNCHANGED tasks
    BY <1>0, <1>3 DEF Queued, Slots
  <1> QED BY <1>1, <1>2, <1>3 DEF InsertAt

LEMMA SameQueued ==
    ASSUME UNCHANGED tasks
    PROVE  Queued' = Queued /\ Len(tasks') = Len(tasks)
  BY DEF Queued, Slots

LEMMA QueuedType == TypeOK => Queued \subseteq Task
  <1>1. TypeOK => \A i \in 1..Len(tasks) : tasks[i] \in TaskOrNull
    BY ElementOfSeq DEF TypeOK
  <1> QED BY <1>1 DEF Queued, Slots, TaskOrNull

\* Steps that insert no decode task, cancel what they take out of the map or out
\* of uiOld, and leave an insertion under way alone.
LEMMA RegisteredKept ==
    ASSUME Registered, Typed',
           Queued' \subseteq Queued \cup AnyTask,
           cancelled \subseteq cancelled',
           BeforeLastCheck' => exTask' \in Queued \/ (BeforeLastCheck /\ exTask' = exTask),
           \A n \in Node : \/ decodingTasks'[n] = decodingTasks[n]
                          \/ /\ decodingTasks'[n] = NoTask
                             /\ decodingTasks[n] # NoTask => decodingTasks[n].id \in cancelled',
           uiOld' = uiOld \/ uiOld = NoTask \/ uiOld.id \in cancelled',
           \/ uiPc' \notin {"put", "insert"}
           \/ UNCHANGED <<uiPc, uiTask, uiOld, uiSlot>> /\ Len(tasks') >= Len(tasks)
    PROVE  Registered'
  <1>0. /\ NoTask \notin Task /\ DecodeTask \subseteq Task
        /\ \A t \in AnyTask : ~IsDecode(t)
        /\ \A t \in Task : IsDecode(t) => t \in DecodeTask /\ t.node \in Node
        /\ \A t \in DecodeTask : t.node \in Node /\ IsDecode(t)
        /\ Queued \subseteq Task
    BY ConstantsAssumption, QueuedType DEF Task, DecodeTask, AnyTask, IsDecode, Registered, Typed
  <1>1. LiveTaskRegistered'
    <2> SUFFICES ASSUME NEW t \in Queued' \cup (IF BeforeLastCheck' THEN {exTask'} ELSE {}),
                        IsDecode(t), t.id \notin cancelled'
                 PROVE  decodingTasks'[t.node] = t \/ uiOld' = t
      BY DEF LiveTaskRegistered, IsDecode, Dead
    <2>1. t \in Queued \/ (BeforeLastCheck /\ t = exTask)
      BY <1>0
    <2>2. t \in Task
      BY <1>0, <2>1 DEF Registered, Typed, Locals, BeforeLastCheck, Task
    <2>3. t.node \in Node
      BY <1>0, <2>2
    <2>4. decodingTasks[t.node] = t \/ uiOld = t
      BY <2>1 DEF Registered, LiveTaskRegistered, Dead
    <2>5. CASE decodingTasks[t.node] = t
      BY <1>0, <2>2, <2>3, <2>5
    <2>6. CASE uiOld = t
      BY <1>0, <2>2, <2>6
    <2> QED BY <2>4, <2>5, <2>6
  <1>2. Handover'
    <2>1. CASE uiPc' \notin {"put", "insert"}
      BY <2>1 DEF Handover
    <2> SUFFICES ASSUME uiPc' \in {"put", "insert"}
                 PROVE  Handover'
      BY <2>1
    <2>2. UNCHANGED <<uiPc, uiTask, uiOld, uiSlot>> /\ Len(tasks') >= Len(tasks)
      OBVIOUS
    <2>3. ASSUME uiPc = "put" PROVE decodingTasks'[uiTask.node] \in {NoTask, uiOld}
      <3>1. uiTask.node \in Node
        BY <1>0, <2>3 DEF Registered, Typed, Locals
      <3> QED BY <2>3, <3>1 DEF Registered, Handover
    <2>4. ASSUME uiPc = "insert", IsDecode(uiTask), uiTask.id \notin cancelled'
          PROVE  decodingTasks'[uiTask.node] = uiTask
      <3>1. uiTask \in Task /\ uiTask.node \in Node
        BY <1>0, <2>4 DEF Registered, Typed, Locals
      <3>2. decodingTasks[uiTask.node] = uiTask
        BY <2>4 DEF Registered, Handover, Dead
      <3> QED BY <1>0, <2>4, <3>1, <3>2
    <2>5. ASSUME uiPc = "insert", uiSlot > Len(tasks')
          PROVE  uiOld \notin Queued' /\ (BeforeLastCheck' => exTask' # uiOld)
      <3>1. uiSlot \in Nat /\ Len(tasks) \in Nat /\ Len(tasks') \in Nat
        BY LenProperties DEF Registered, Typed, TypeOK
      <3>2. uiSlot > Len(tasks)
        BY <2>2, <2>5, <3>1
      <3>3. uiOld \notin Queued /\ (BeforeLastCheck => exTask # uiOld)
        BY <2>5, <3>2 DEF Registered, Handover
      <3>4. uiOld \notin AnyTask
        BY <1>0, ConstantsAssumption DEF Registered, Typed, TypeOK, Task
      <3> QED BY <3>3, <3>4
    <2> QED BY <2>2, <2>3, <2>4, <2>5 DEF Handover, Dead, IsDecode
  <1> QED BY <1>1, <1>2 DEF Registered

LEMMA ProcessRegistered ==
    ASSUME Registered, Typed', NEW dropped, NEW again, NEW wanted, NEW z,
           Process(dropped, again, wanted, z),
           uiPc' = uiPc \/ (uiPc' = "idle" /\ uiPc = "recyclePages")
    PROVE  Registered'
  <1>1. Queued' = Queued /\ Len(tasks') = Len(tasks) /\ Len(tasks) \in Nat
    BY SameQueued, LenProperties DEF Process, Registered, Typed, TypeOK
  <1> QED BY <1>1, RegisteredKept DEF Process, BeforeLastCheck

LEMMA UiRegistered == Registered /\ Typed' /\ (Event \/ UiStep \/ Recycle) => Registered'
  <1> SUFFICES ASSUME Registered, Typed', Event \/ UiStep \/ Recycle
               PROVE  Registered'
    OBVIOUS
  <1>0. /\ Typed /\ TypeOK /\ Locals
        /\ Len(tasks) \in Nat
        /\ DecodeTask \subseteq Task
    BY LenProperties DEF Registered, Typed, TypeOK, Task
  <1>1. CASE Event
    BY <1>1, ProcessRegistered DEF Event, Scroll, Reset, Commit, SetZoom, ScaleAndCommit, CommittedZoom
  <1>2. CASE Recycle \/ RecycleHolders \/ RecycleFails \/ CloseDocument \/ StopRun
    <2>1. Queued' = Queued
      BY <1>2, SameQueued DEF Recycle, RecycleHolders, RecycleFails, CloseDocument, StopRun
    <2> QED BY <1>2, <2>1, RegisteredKept
            DEF Recycle, RecycleHolders, RecycleFails, CloseDocument, StopRun, Notify, BeforeLastCheck
  <1>3. ASSUME NEW hidden \in SUBSET Node, RunPosted(hidden)
        PROVE  Registered'
    <2>1. Queued' = Queued /\ Len(tasks') = Len(tasks)
      BY <1>3, SameQueued DEF RunPosted
    <2> QED BY <1>0, <1>3, <2>1, RegisteredKept DEF RunPosted, BeforeLastCheck
  <1>4. ASSUME NEW n \in Node, StopCall(n)
        PROVE  Registered'
    <2>1. Queued' = Queued
      BY <1>4, SameQueued DEF StopCall
    <2>2. uiOld = NoTask
      BY <1>0, <1>4 DEF StopCall, Locals
    <2>3. \A m \in Node : \/ decodingTasks'[m] = decodingTasks[m]
                         \/ /\ decodingTasks'[m] = NoTask
                            /\ decodingTasks[m] # NoTask => decodingTasks[m].id \in cancelled'
      BY <1>0, <1>4 DEF StopCall, Retire, TypeOK
    <2> QED BY <1>4, <2>1, <2>2, <2>3, RegisteredKept DEF StopCall, Retire, BeforeLastCheck
  <1>5. ASSUME NEW n \in Node, RecycleTask(n)
        PROVE  Registered'
    <2>1. Queued' = Queued
      BY <1>5, SameQueued DEF RecycleTask
    <2>2. uiOld = NoTask
      BY <1>0, <1>5 DEF RecycleTask, Locals
    <2> QED BY <1>5, <2>1, <2>2, RegisteredKept DEF RecycleTask, Retire, BeforeLastCheck
  <1>6. CASE RetireOld
    <2>1. Queued' = Queued
      BY <1>6, SameQueued DEF RetireOld
    <2> QED BY <1>6, <2>1, RegisteredKept DEF RetireOld, Retire, BeforeLastCheck
  <1>7. CASE ClearOld
    <2>1. Queued' \subseteq Queued
      BY <1>0, <1>7, ClearSlotQueued DEF ClearOld
    <2>2. uiOld.id \in cancelled'
      BY <1>0, <1>7 DEF ClearOld, Locals, Dead
    <2> QED BY <1>7, <2>1, <2>2, RegisteredKept DEF ClearOld, BeforeLastCheck
  <1>8. CASE RecyclePages
    BY <1>8, ProcessRegistered DEF RecyclePages
  <1>9. ASSUME NEW n \in Node, DecodeCall(n)
        PROVE  Registered'
    <2>1. /\ Queued' = Queued
          /\ uiOld = NoTask /\ NoTask \notin Task
      BY <1>0, <1>9, SameQueued, ConstantsAssumption DEF DecodeCall, Locals
    <2>2. CASE UNCHANGED <<uiPc, uiTask, uiOld>>
      BY <1>9, <2>1, <2>2, RegisteredKept DEF DecodeCall, BeforeLastCheck
    <2>3. CASE uiPc' = "put" /\ uiTask' = NewTask(2, n, zoom) /\ uiOld' = decodingTasks[n]
      <3>1. Handover'
        BY <1>9, <2>3 DEF DecodeCall, NewTask, Handover
      <3>2. LiveTaskRegistered'
        <4>1. \A t \in Queued \cup (IF BeforeLastCheck THEN {exTask} ELSE {}) : t \in Task
          BY <1>0, QueuedType DEF Locals, BeforeLastCheck, Task
        <4>2. BeforeLastCheck' = BeforeLastCheck /\ exTask' = exTask
          BY <1>9 DEF DecodeCall, BeforeLastCheck
        <4> QED BY <1>9, <2>1, <2>3, <4>1, <4>2
                DEF DecodeCall, Registered, LiveTaskRegistered, IsDecode, Dead
      <3> QED BY <3>1, <3>2 DEF Registered
    <2> QED BY <1>9, <2>2, <2>3 DEF DecodeCall
  <1>10. CASE PutTask
    <2>0. uiTask \in DecodeTask /\ uiTask.node \in Node
      BY <1>0, <1>10 DEF PutTask, Locals, DecodeTask
    <2>1. Queued' = Queued /\ Len(tasks') = Len(tasks) /\ BeforeLastCheck' = BeforeLastCheck /\ exTask' = exTask
      BY <1>10, SameQueued DEF PutTask, BeforeLastCheck
    <2>2. decodingTasks'[uiTask.node] = uiTask /\ uiTask' = uiTask
      BY <1>0, <1>10, <2>0 DEF PutTask, TypeOK
    <2>3. uiSlot' \in 0..Len(tasks)
      BY <1>10 DEF PutTask
    <2>4. Handover'
      BY <1>0, <1>10, <2>1, <2>2, <2>3 DEF PutTask, Handover, IsDecode, Dead
    <2>5. LiveTaskRegistered'
      <3> SUFFICES ASSUME NEW t \in Queued \cup (IF BeforeLastCheck THEN {exTask} ELSE {}),
                          IsDecode(t), ~Dead(t)
                   PROVE  decodingTasks'[t.node] = t \/ uiOld' = t
        BY <1>10, <2>1 DEF PutTask, LiveTaskRegistered, IsDecode, Dead
      <3>1. t \in Task /\ t \in DecodeTask /\ t.node \in Node /\ t # NoTask
        BY <1>0, QueuedType, ConstantsAssumption
           DEF Locals, BeforeLastCheck, IsDecode, Task, DecodeTask, AnyTask
      <3>2. decodingTasks[t.node] = t \/ uiOld = t
        BY DEF Registered, LiveTaskRegistered
      <3>3. decodingTasks[uiTask.node] \in {NoTask, uiOld}
        BY <1>10 DEF PutTask, Registered, Handover
      <3> QED BY <1>0, <1>10, <2>0, <3>1, <3>2, <3>3 DEF PutTask, TypeOK
    <2> QED BY <2>4, <2>5 DEF Registered
  <1>11. CASE InsertTask
    <2>0. uiTask \in Task /\ uiSlot \in Nat /\ InsertAt(uiSlot, uiTask)
      BY <1>0, <1>11 DEF InsertTask, Locals, TypeOK
    <2>1. Queued' \subseteq Queued \cup {uiTask} /\ (uiSlot > Len(tasks) => Queued' = Queued)
      BY <1>0, <2>0, InsertAtQueued, SameQueued
    <2>2. BeforeLastCheck' = BeforeLastCheck /\ exTask' = exTask
      BY <1>11 DEF InsertTask, Notify, BeforeLastCheck
    <2>3. Handover'
      BY <1>11 DEF InsertTask, Handover
    <2>4. LiveTaskRegistered'
      <3> SUFFICES ASSUME NEW t \in Queued' \cup (IF BeforeLastCheck THEN {exTask} ELSE {}),
                          IsDecode(t), ~Dead(t)
                   PROVE  decodingTasks[t.node] = t \/ uiOld' = t
        BY <1>11, <2>2 DEF InsertTask, LiveTaskRegistered, IsDecode, Dead
      <3>1. CASE t \in Queued \cup (IF BeforeLastCheck THEN {exTask} ELSE {})
        <4>1. decodingTasks[t.node] = t \/ uiOld = t
          BY <3>1 DEF Registered, LiveTaskRegistered
        <4>2. CASE uiSlot <= Len(tasks)
          <5>1. uiOld' = uiOld
            BY <1>0, <1>11, <2>0, <4>2 DEF InsertTask
          <5> QED BY <4>1, <5>1
        <4>3. CASE uiSlot > Len(tasks)
          BY <1>11, <3>1, <4>1, <4>3 DEF InsertTask, Registered, Handover
        <4> QED BY <1>0, <2>0, <4>2, <4>3
      <3>2. CASE t = uiTask
        BY <1>11, <3>2 DEF InsertTask, Registered, Handover
      <3> QED BY <2>1, <3>1, <3>2
    <2> QED BY <2>3, <2>4 DEF Registered
  <1> QED BY <1>1, <1>2, <1>3, <1>4, <1>5, <1>6, <1>7, <1>8, <1>9, <1>10, <1>11 DEF UiStep

LEMMA OtherRegistered ==
    ASSUME Registered, Typed', SearchFind \/ SearchInsert \/ \E prio \in UserPrio : AddAny(prio)
    PROVE  Registered'
  <1>0. /\ Typed /\ TypeOK /\ Locals
        /\ Len(tasks) \in Nat
    BY LenProperties DEF Registered, Typed, TypeOK
  <1>1. CASE SearchFind
    <2>1. Queued' = Queued /\ Len(tasks') = Len(tasks)
      BY <1>1, SameQueued DEF SearchFind
    <2> QED BY <1>0, <1>1, <2>1, RegisteredKept DEF SearchFind, BeforeLastCheck
  <1>2. CASE SearchInsert
    <2>1. seTask \in AnyTask /\ seTask \in Task /\ seSlot \in Nat /\ InsertAt(seSlot, seTask)
      BY <1>0, <1>2 DEF SearchInsert, TypeOK, Task
    <2>2. Queued' \subseteq Queued \cup AnyTask /\ Len(tasks') >= Len(tasks)
      BY <1>0, <2>1, InsertAtQueued
    <2> QED BY <1>2, <2>2, RegisteredKept DEF SearchInsert, Notify, BeforeLastCheck
  <1>3. ASSUME NEW prio \in UserPrio, AddAny(prio)
        PROVE  Registered'
    <2>1. Queued' = Queued /\ Len(tasks') = Len(tasks) /\ BeforeLastCheck' = BeforeLastCheck /\ exTask' = exTask
      BY <1>3, SameQueued DEF AddAny, BeforeLastCheck
    <2>2. uiOld' = uiOld /\ UNCHANGED <<decodingTasks, cancelled>>
      BY <1>0, <1>3 DEF AddAny, Active, UiFree, Locals
    <2>3. LiveTaskRegistered'
      BY <2>1, <2>2 DEF Registered, LiveTaskRegistered, IsDecode, Dead
    <2>4. uiSlot' \in 0..Len(tasks) /\ ~IsDecode(uiTask') /\ uiPc' = "insert"
      BY <1>3, ConstantsAssumption DEF AddAny, NewTask, IsDecode
    <2>5. Handover'
      BY <1>0, <2>1, <2>4 DEF Handover, IsDecode
    <2> QED BY <2>3, <2>5 DEF Registered
  <1> QED BY <1>1, <1>2, <1>3

LEMMA ExRegistered == Registered /\ Typed' /\ ExStep => Registered'
  <1> SUFFICES ASSUME Registered, Typed', ExStep
               PROVE  Registered'
    OBVIOUS
  <1>0. /\ Typed /\ TypeOK /\ Locals
        /\ Len(tasks) \in Nat
    BY LenProperties DEF Registered, Typed, TypeOK
  <1>1. CASE Loop \/ Wait \/ Timeout \/ RunAny \/ Start \/ FetchPage \/ Render \/ Publish
    <2>1. Queued' = Queued /\ Len(tasks') = Len(tasks)
      BY <1>1, SameQueued DEF Loop, Wait, Timeout, RunAny, Start, FetchPage, Render, Publish
    <2> QED BY <1>0, <1>1, <2>1, RegisteredKept
            DEF Loop, Wait, Timeout, RunAny, Start, FetchPage, Render, Publish, ExDrop, ExGoto, BeforeLastCheck
  <1>2. CASE Scan
    <2>1. Queued' = Queued /\ Len(tasks') = Len(tasks)
      BY <1>2, SameQueued DEF Scan
    <2>2. BeforeLastCheck' => exTask' \in Queued
      BY <1>2 DEF Scan, Best, Queued, BeforeLastCheck
    <2> QED BY <1>0, <1>2, <2>1, <2>2, RegisteredKept DEF Scan
  <1>3. CASE ResetList
    <2>1. tasks' = <<>> /\ Queued' = {} /\ ~BeforeLastCheck'
      BY <1>3 DEF ResetList, Queued, Slots, BeforeLastCheck
    <2>2. LiveTaskRegistered'
      BY <2>1 DEF LiveTaskRegistered
    <2>3. Handover'
      BY <1>3, <2>1 DEF ResetList, Registered, Handover, IsDecode, Dead
    <2> QED BY <2>2, <2>3 DEF Registered
  <1>4. CASE Take
    <2>1. Queued' \subseteq Queued /\ Len(tasks') = Len(tasks)
      BY <1>0, <1>4, ClearSlotQueued DEF Take
    <2> QED BY <1>0, <1>4, <2>1, RegisteredKept DEF Take, BeforeLastCheck
  <1>5. CASE Finish
    <2>1. Queued' = Queued /\ Len(tasks') = Len(tasks)
      BY <1>5, SameQueued DEF Finish
    <2>2. \A m \in Node : \/ decodingTasks'[m] = decodingTasks[m]
                         \/ /\ decodingTasks'[m] = NoTask
                            /\ decodingTasks[m] # NoTask => decodingTasks[m].id \in cancelled'
      BY <1>0, <1>5 DEF Finish, Retire, TypeOK
    <2>3. cancelled \subseteq cancelled'
      BY <1>5 DEF Finish, Retire
    <2> QED BY <1>0, <1>5, <2>1, <2>2, <2>3, RegisteredKept DEF Finish, BeforeLastCheck
  <1>6. CASE FinishClear
    <2>1. Queued' \subseteq Queued /\ Len(tasks') = Len(tasks)
      BY <1>0, <1>6, ClearSlotQueued DEF FinishClear
    <2> QED BY <1>0, <1>6, <2>1, RegisteredKept DEF FinishClear, BeforeLastCheck
  <1> QED BY <1>1, <1>2, <1>3, <1>4, <1>5, <1>6 DEF ExStep

\* stopDecoding and recycle() miss no decoding: in every reachable state a live
\* decode task that is queued, or has not passed its last check in performDecode,
\* is registered for its node or about to be cancelled by the add() that read it.
THEOREM LiveTaskAlwaysRegistered == Spec => []LiveTaskRegistered
  <1>1. Init => Registered
    <2>1. Init => LiveTaskRegistered
      BY DEF Init, LiveTaskRegistered, Queued, Slots, BeforeLastCheck
    <2>2. Init => Handover
      BY DEF Init, Handover
    <2> QED BY <2>1, <2>2, InitType DEF Registered
  <1>2. Registered /\ [Next]_vars => Registered'
    <2> SUFFICES ASSUME Registered, [Next]_vars PROVE Registered'
      OBVIOUS
    <2>0. Typed'
      BY NextType DEF Registered
    <2>1. CASE UNCHANGED vars \/ Ended
      <3>1. UNCHANGED vars
        BY <2>1 DEF Ended
      <3>2. Queued' = Queued /\ Len(tasks') = Len(tasks)
        BY <3>1, SameQueued DEF vars
      <3>3. BeforeLastCheck' = BeforeLastCheck
        BY <3>1 DEF vars, BeforeLastCheck
      <3>4. LiveTaskRegistered' /\ Handover'
        BY <3>1, <3>2, <3>3 DEF vars, Registered, LiveTaskRegistered, Handover, IsDecode, Dead
      <3> QED BY <2>0, <3>4 DEF Registered
    <2> QED BY <2>0, <2>1, UiRegistered, OtherRegistered, ExRegistered DEF Next
  <1>3. Registered => LiveTaskRegistered
    BY DEF Registered
  <1> QED BY <1>1, <1>2, <1>3, PTL DEF Spec
=============================================================================
