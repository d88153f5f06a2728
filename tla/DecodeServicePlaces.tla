------------------------ MODULE DecodeServicePlaces ------------------------
(***************************************************************************)
(* Proofs, for every set of nodes and zoom factors and every bound on the  *)
(* number of tasks, that a task is in one place at a time                  *)
(* (OnePlacePerTask), that a node marked as being decoded always has       *)
(* something underway that releases it (NodeNeverStuck), and that the      *)
(* service implements DecodeContract under the refinement mapping of       *)
(* DecodeService: every step of the three threads is a step of the         *)
(* contract or leaves the stage of every task alone (ImplementsContract).  *)
(***************************************************************************)
EXTENDS DecodeServiceProofs

USE DEF queueVars, serviceVars, exVars, uiVars, searchVars, nodeVars, zoomVars, ExKeeps

(***************************************************************************)
(* The places of a task, by its id.  A task the executor has chosen but    *)
(* not yet taken still counts as being in its slot, if it is there.        *)
(***************************************************************************)
At(i, k, x) ==
    \/ k = "slot" /\ x \in Slots /\ tasks[x] # NoTask /\ tasks[x].id = i
    \/ k = "ui" /\ x = 0 /\ uiTask # NoTask /\ uiTask.id = i
    \/ k = "search" /\ x = 0 /\ seTask # NoTask /\ seTask.id = i
    \/ k = "executor" /\ x = 0 /\ exTask # NoTask /\ exPc # "take" /\ exTask.id = i
    \/ k = "posted" /\ x \in 1..Len(posted) /\ posted[x].zoom # 0 /\ posted[x].id = i

Chosen(i) == exPc = "take" /\ exTask.id = i

\* The inductive invariant: ids are used once, and a task that is chosen is at most
\* in the slot it was found in.
Place(i) ==
    /\ \A k, x, l, y : At(i, k, x) /\ At(i, l, y) => k = l /\ x = y
    /\ \A k, x : At(i, k, x) => i < nextId
    /\ Chosen(i) => i < nextId /\ \A k, x : At(i, k, x) => k = "slot" /\ x = exSlot

\* Hands that hold no task between two calls.
Hands ==
    /\ uiPc \notin {"put", "insert"} => uiTask = NoTask
    /\ exPc \in {"loop", "scan", "reset", "wait", "waiting", "exited"} => exTask = NoTask

Placed == Typed /\ Hands /\ \A i \in Id : Place(i)

\* What a step may do to the places of a task: leave it where it is, or lose it ...
LEMMA PlaceKept ==
    ASSUME NEW i \in Id, Place(i), nextId \in Int, nextId' \in Int, nextId <= nextId',
           \A k, x : At(i, k, x)' => At(i, k, x),
           Chosen(i)' => Chosen(i) /\ exSlot' = exSlot
    PROVE  Place(i)'
BY ConstantsAssumption DEF Place, Id

\* ... or move it.
LEMMA PlaceMoved ==
    ASSUME NEW i \in Id, NEW l, NEW y, i < nextId', ~Chosen(i)',
           \A k, x : At(i, k, x)' => k = l /\ x = y
    PROVE  Place(i)'
BY DEF Place

LEMMA InitPlaced == Init => Placed
<1> SUFFICES ASSUME Init PROVE Placed
  OBVIOUS
<1>1. \A i \in Id : \A k, x : ~At(i, k, x)
  BY DEF Init, At, Slots
<1>2. \A i \in Id : Place(i)
  BY <1>1 DEF Init, Place, Chosen
<1> QED BY <1>2, InitType DEF Init, Placed, Hands

\* What the writes to the list of slots leave in it.
LEMMA ClearSlotAt ==
    ASSUME TypeOK, NEW i, NEW t, ClearSlot(i, t)
    PROVE  /\ Slots' = Slots
           /\ \A j \in Slots : tasks'[j] = IF j = i THEN NoTask ELSE tasks[j]
<1>1. CASE i \in Slots
  <2>1. tasks' = [tasks EXCEPT ![i] = NoTask]
    BY <1>1 DEF ClearSlot
  <2> QED BY <1>1, <2>1, ExceptSeq DEF TypeOK, Slots, TaskOrNull
<1>2. CASE i \notin Slots
  <2>1. UNCHANGED tasks
    BY <1>2 DEF ClearSlot
  <2> QED BY <1>2, <2>1 DEF Slots
<1> QED BY <1>1, <1>2

LEMMA InsertAtAt ==
    ASSUME TypeOK, NEW i \in Nat, NEW t \in Task, InsertAt(i, t)
    PROVE  \E s \in Nat : \A j \in Slots' :
                   (j = s /\ tasks'[j] = t) \/ (j # s /\ j \in Slots /\ tasks'[j] = tasks[j])
<1>0. t \in TaskOrNull /\ tasks \in Seq(TaskOrNull) /\ Len(tasks) \in Nat
  BY LenProperties DEF TaskOrNull, TypeOK
<1>1. CASE i = 0 /\ tasks' = Append(tasks, t)
  <2>1. /\ Len(tasks') = Len(tasks) + 1
        /\ \A j \in 1..Len(tasks) : tasks'[j] = tasks[j]
        /\ tasks'[Len(tasks) + 1] = t
    BY <1>0, <1>1, AppendProperties
  <2>2. \A j \in 1..Len(tasks') : j \in 1..Len(tasks) \/ j = Len(tasks) + 1
    BY <1>0, <2>1
  <2>3. Len(tasks) + 1 \in Nat /\ Len(tasks) + 1 \notin 1..Len(tasks)
    BY <1>0
  <2> QED BY <2>1, <2>2, <2>3 DEF Slots
<1>2. CASE i \in Slots /\ tasks' = [tasks EXCEPT ![i] = t]
  <2>1. /\ Len(tasks') = Len(tasks)
        /\ \A j \in Slots : tasks'[j] = IF j = i THEN t ELSE tasks[j]
    BY <1>0, <1>2, ExceptSeq DEF Slots
  <2>2. i \in Nat /\ Slots' = Slots
    BY <1>2, <2>1 DEF Slots
  <2> QED BY <2>1, <2>2
<1>3. CASE UNCHANGED tasks
  <2>1. \A j \in Slots' : j # 0 /\ j \in Slots /\ tasks'[j] = tasks[j]
    BY <1>0, <1>3 DEF Slots
  <2> QED BY <2>1
<1> QED BY <1>1, <1>2, <1>3 DEF InsertAt

(***************************************************************************)
(* Steps that leave every task where it is.                                *)
(***************************************************************************)
LEMMA StillPlaced ==
    ASSUME Placed, Typed', UNCHANGED <<tasks, uiTask, seTask, exTask, posted>>, nextId <= nextId',
           \/ UNCHANGED <<exPc, exSlot>>
           \/ exPc # "take" /\ exPc' # "take"
    PROVE  \A i \in Id : Place(i)'
<1> SUFFICES ASSUME NEW i \in Id PROVE Place(i)'
  OBVIOUS
<1>1. nextId \in Int /\ nextId' \in Int
  BY DEF Placed, Typed, TypeOK
<1>2. \A k, x : At(i, k, x)' => At(i, k, x)
  BY DEF At, Slots
<1>3. Chosen(i)' => Chosen(i) /\ exSlot' = exSlot
  BY DEF Chosen
<1> QED BY <1>1, <1>2, <1>3, PlaceKept DEF Placed

LEMMA ProcessKeeps ==
    ASSUME NEW d, NEW a, NEW w, NEW z, Process(d, a, w, z)
    PROVE  UNCHANGED <<tasks, cancelled, uiTask, seTask, exVars, posted, nextId>>
BY DEF Process

LEMMA EventKeeps ==
    Event => UNCHANGED <<tasks, cancelled, uiTask, seTask, exVars, posted, nextId, uiPc>>
<1> SUFFICES ASSUME NEW kept \in SUBSET Node, NEW dropped \in SUBSET Node,
                    \/ Scroll(kept, dropped)
                    \/ Reset(kept)
                    \/ Commit(kept, dropped)
                    \/ \E z \in Zoom : SetZoom(z, kept, dropped) \/ ScaleAndCommit(z, kept, dropped)
             PROVE  UNCHANGED <<tasks, cancelled, uiTask, seTask, exVars, posted, nextId, uiPc>>
  BY DEF Event
<1>1. ASSUME NEW old, NEW new, CommittedZoom(old, new, kept, dropped)
      PROVE  UNCHANGED <<tasks, cancelled, uiTask, seTask, exVars, posted, nextId>>
  BY <1>1, ProcessKeeps, Zenon DEF CommittedZoom
<1>2. CASE Scroll(kept, dropped)
  BY <1>2, ProcessKeeps DEF Scroll
<1>3. CASE Reset(kept)
  BY <1>3, ProcessKeeps DEF Reset
<1>4. CASE Commit(kept, dropped)
  BY <1>1, <1>4 DEF Commit
<1>5. ASSUME NEW z \in Zoom, SetZoom(z, kept, dropped)
      PROVE  UNCHANGED <<tasks, cancelled, uiTask, seTask, exVars, posted, nextId, uiPc>>
  BY <1>5, ProcessKeeps DEF SetZoom
<1>6. ASSUME NEW z \in Zoom, ScaleAndCommit(z, kept, dropped)
      PROVE  UNCHANGED <<tasks, cancelled, uiTask, seTask, exVars, posted, nextId, uiPc>>
  BY <1>1, <1>6 DEF ScaleAndCommit
<1> QED BY <1>2, <1>3, <1>4, <1>5, <1>6

LEMMA EventPlaced == Placed /\ Typed' /\ Event => Placed'
<1> SUFFICES ASSUME Placed, Typed', Event PROVE Placed'
  OBVIOUS
<1>1. UNCHANGED <<tasks, uiTask, seTask, exTask, posted, nextId, exPc, exSlot, uiPc>>
  BY EventKeeps
<1>2. nextId <= nextId'
  BY <1>1 DEF Placed, Typed, TypeOK
<1> QED BY <1>1, <1>2, StillPlaced DEF Placed, Hands

(***************************************************************************)
(* Steps that move a task, or lose one.                                    *)
(***************************************************************************)
\* Steps that only forget places.
LEMMA FewerPlaces ==
    ASSUME Placed, Typed', nextId <= nextId',
           \A i \in Id : \A k, x : At(i, k, x)' => At(i, k, x),
           UNCHANGED <<exPc, exTask, exSlot>> \/ exPc' # "take"
    PROVE  \A i \in Id : Place(i)'
<1> SUFFICES ASSUME NEW i \in Id PROVE Place(i)'
  OBVIOUS
<1>1. nextId \in Int /\ nextId' \in Int
  BY DEF Placed, Typed, TypeOK
<1>2. Chosen(i)' => Chosen(i) /\ exSlot' = exSlot
  BY DEF Chosen
<1> QED BY <1>1, <1>2, PlaceKept DEF Placed

\* A new task, in the hands of who made it.
LEMMA NewPlaced ==
    ASSUME Placed, Typed', nextId \in Id, nextId' = nextId + 1, NEW t, t.id = nextId,
           UNCHANGED <<tasks, posted, exVars>>,
           \/ uiTask' = t /\ UNCHANGED seTask
           \/ seTask' = t /\ UNCHANGED uiTask
    PROVE  \A i \in Id : Place(i)'
<1> SUFFICES ASSUME NEW i \in Id PROVE Place(i)'
  OBVIOUS
<1>1. nextId \in Int /\ nextId' \in Int /\ nextId < nextId' /\ nextId <= nextId'
  BY DEF Placed, Typed, TypeOK
<1>2. CASE i = nextId
  <2>1. (\A k, x : ~At(i, k, x)) /\ ~Chosen(i)
    BY <1>1, <1>2 DEF Placed, Place
  <2>2. ~Chosen(i)'
    BY <2>1 DEF Chosen
  <2>3. CASE uiTask' = t /\ UNCHANGED seTask
    <3>1. \A k, x : At(i, k, x)' => k = "ui" /\ x = 0
      BY <2>1, <2>3 DEF At, Slots
    <3> QED BY <1>1, <1>2, <2>2, <3>1, PlaceMoved
  <2>4. CASE seTask' = t /\ UNCHANGED uiTask
    <3>1. \A k, x : At(i, k, x)' => k = "search" /\ x = 0
      BY <2>1, <2>4 DEF At, Slots
    <3> QED BY <1>1, <1>2, <2>2, <3>1, PlaceMoved
  <2> QED BY <2>3, <2>4
<1>3. CASE i # nextId
  <2>1. \A k, x : At(i, k, x)' => At(i, k, x)
    BY <1>3 DEF At, Slots
  <2>2. Chosen(i)' => Chosen(i) /\ exSlot' = exSlot
    BY DEF Chosen
  <2> QED BY <1>1, <2>1, <2>2, PlaceKept DEF Placed
<1> QED BY <1>2, <1>3

\* From the hands of a thread into a slot, or into none.
LEMMA InsertPlaced ==
    ASSUME Placed, Typed', UNCHANGED <<exTask, exSlot, posted, nextId>>,
           NEW t \in Task, NEW s \in Nat,
           \A j \in Slots' :
                   (j = s /\ tasks'[j] = t) \/ (j # s /\ j \in Slots /\ tasks'[j] = tasks[j]),
           \/ uiTask = t /\ uiTask' = NoTask /\ UNCHANGED seTask
           \/ seTask = t /\ seTask' = NoTask /\ UNCHANGED uiTask,
           UNCHANGED exPc \/ (exPc # "take" /\ exPc' # "take")
    PROVE  \A i \in Id : Place(i)'
<1> SUFFICES ASSUME NEW i \in Id PROVE Place(i)'
  OBVIOUS
<1>1. nextId \in Int /\ nextId' = nextId
  BY DEF Placed, Typed, TypeOK
<1>2. CASE i = t.id
  <2>1. t # NoTask
    BY ConstantsAssumption
  <2>2. PICK who \in {"ui", "search"} :
          /\ At(i, who, 0)
          /\ who = "ui" => uiTask' = NoTask /\ UNCHANGED seTask
          /\ who = "search" => seTask' = NoTask /\ UNCHANGED uiTask
    BY <1>2, <2>1 DEF At
  <2>3. /\ \A k, x : At(i, k, x) => k = who /\ x = 0
        /\ i < nextId /\ ~Chosen(i)
    BY <2>2 DEF Placed, Place
  <2>4. \A j \in Slots' : j # s => ~(tasks'[j] # NoTask /\ tasks'[j].id = i)
    BY <2>2, <2>3 DEF At
  <2>5. \A k, x : At(i, k, x)' => k = "slot" \/ At(i, k, x)
    BY <2>2 DEF At
  <2>6. ~At(i, who, 0)'
    BY <2>2 DEF At
  <2>7. \A k, x : At(i, k, x)' => k = "slot" /\ x = s
    BY <2>3, <2>4, <2>5, <2>6 DEF At
  <2>8. ~Chosen(i)'
    BY <2>3 DEF Chosen
  <2> QED BY <1>1, <2>3, <2>7, <2>8, PlaceMoved
<1>3. CASE i # t.id
  <2>1. \A k, x : At(i, k, x)' => At(i, k, x)
    BY <1>3 DEF At
  <2>2. Chosen(i)' => Chosen(i) /\ exSlot' = exSlot
    BY DEF Chosen
  <2> QED BY <1>1, <2>1, <2>2, PlaceKept DEF Placed
<1> QED BY <1>2, <1>3

\* A runnable leaves the looper: those behind it move up.
LEMMA RunPostedPlaced ==
    ASSUME Placed, Typed', NEW hidden \in SUBSET Node, RunPosted(hidden)
    PROVE  Placed'
<1>1. /\ UNCHANGED <<tasks, uiTask, seTask, exVars, nextId, uiPc>>
      /\ posted # <<>> /\ posted' = Tail(posted) /\ posted \in Seq(Posted)
  BY DEF RunPosted, Placed, Typed, TypeOK
<1>2. /\ Len(posted) \in Nat /\ Len(posted') = Len(posted) - 1
      /\ \A j \in 1..Len(posted') : posted'[j] = posted[j + 1]
  BY <1>1
<1>3. nextId \in Int
  BY DEF Placed, Typed, TypeOK
<1>4. ASSUME NEW i \in Id PROVE Place(i)'
  <2>0. Place(i)
    BY DEF Placed
  <2>1. \A k, x : At(i, k, x)' /\ k # "posted" => At(i, k, x)
    BY <1>1 DEF At, Slots
  <2>2. \A x : At(i, "posted", x)' => x \in Int /\ At(i, "posted", x + 1)
    BY <1>2 DEF At
  <2>3. ASSUME NEW k, NEW x, NEW l, NEW y, At(i, k, x)', At(i, l, y)'
        PROVE  k = l /\ x = y
    <3>1. CASE k # "posted" /\ l # "posted"
      BY <2>0, <2>1, <2>3, <3>1 DEF Place
    <3>2. CASE k = "posted" /\ l = "posted"
      <4>1. x + 1 = y + 1 /\ x \in Int /\ y \in Int
        BY <2>0, <2>2, <2>3, <3>2 DEF Place
      <4> QED BY <3>2, <4>1
    <3>3. CASE k = "posted" /\ l # "posted"
      BY <2>0, <2>1, <2>2, <2>3, <3>3 DEF Place
    <3>4. CASE k # "posted" /\ l = "posted"
      BY <2>0, <2>1, <2>2, <2>3, <3>4 DEF Place
    <3> QED BY <3>1, <3>2, <3>3, <3>4
  <2>4. ASSUME NEW k, NEW x, At(i, k, x)' PROVE i < nextId'
    BY <1>1, <2>0, <2>1, <2>2, <2>4 DEF Place
  <2>5. Chosen(i)' => i < nextId' /\ \A k, x : At(i, k, x)' => k = "slot" /\ x = exSlot'
    BY <1>1, <2>0, <2>1, <2>2 DEF Place, Chosen
  <2> QED BY <2>3, <2>4, <2>5 DEF Place
<1> QED BY <1>1, <1>4 DEF Placed, Hands

\* The steps of the UI thread.
LEMMA UiPlaced == Placed /\ Typed' /\ (UiStep \/ Recycle) => Placed'
<1> SUFFICES ASSUME Placed, Typed', UiStep \/ Recycle PROVE Placed'
  OBVIOUS
<1>0. nextId <= nextId /\ nextId \in Int /\ 0..Len(tasks) \subseteq Nat
  BY DEF Placed, Typed, TypeOK
<1>1. ASSUME NEW hidden \in SUBSET Node, RunPosted(hidden)
      PROVE  Placed'
  BY <1>1, RunPostedPlaced
<1>2. CASE \/ \E n \in Node : StopCall(n) \/ RecycleTask(n)
           \/ RetireOld \/ Recycle \/ RecycleHolders \/ RecycleFails \/ CloseDocument \/ PutTask
  <2>1. UNCHANGED <<tasks, uiTask, seTask, exVars, posted, nextId>>
    BY <1>2 DEF StopCall, RecycleTask, RetireOld, Recycle, RecycleHolders, RecycleFails,
       CloseDocument, PutTask
  <2>2. \/ uiPc \in {"idle", "retire", "iterate", "holders"}
        \/ uiPc' = "insert"
    BY <1>2 DEF StopCall, RecycleTask, RetireOld, Recycle, RecycleHolders, RecycleFails,
       CloseDocument, PutTask, Active, UiFree
  <2> QED BY <1>0, <2>1, <2>2, StillPlaced DEF Placed, Hands
<1>3. ASSUME NEW n \in Node, DecodeCall(n)
      PROVE  Placed'
  <2>1. /\ nextId \in Id /\ nextId' = nextId + 1 /\ nextId <= nextId' /\ uiPc = "idle"
        /\ UNCHANGED <<tasks, seTask, exVars, posted>>
    BY <1>0, <1>3 DEF DecodeCall
  <2>2. CASE UNCHANGED <<uiPc, uiTask, uiOld>>
    BY <2>1, <2>2, StillPlaced DEF Placed, Hands
  <2>3. CASE uiTask' = NewTask(2, n, zoom) /\ uiPc' = "put"
    <3>1. NewTask(2, n, zoom).id = nextId
      BY DEF NewTask
    <3> QED BY <2>1, <2>3, <3>1, NewPlaced DEF Placed, Hands
  <2> QED BY <1>3, <2>2, <2>3 DEF DecodeCall
<1>4. CASE InsertTask
  <2>1. uiTask \in Task /\ uiSlot \in Nat /\ uiTask' = NoTask
    BY <1>4 DEF InsertTask, Placed, Typed, Locals, TypeOK
  <2>2. PICK s \in Nat : \A j \in Slots' :
                   (j = s /\ tasks'[j] = uiTask) \/ (j # s /\ j \in Slots /\ tasks'[j] = tasks[j])
    BY <1>4, <2>1, InsertAtAt DEF InsertTask, Placed, Typed
  <2>3. /\ UNCHANGED <<exTask, exSlot, posted, nextId, seTask>>
        /\ UNCHANGED exPc \/ (exPc = "waiting" /\ exPc' = "loop")
    BY <1>4 DEF InsertTask, Notify
  <2>4. \A i \in Id : Place(i)'
    <3>1. UNCHANGED exPc \/ (exPc # "take" /\ exPc' # "take")
      BY <2>3
    <3> QED BY <2>1, <2>2, <2>3, <3>1, InsertPlaced
  <2> QED BY <2>1, <2>3, <2>4 DEF Placed, Hands
<1>5. CASE ClearOld
  <2>1. /\ ClearSlot(uiSlot, uiOld) /\ uiPc \notin {"put", "insert"}
        /\ UNCHANGED <<uiTask, seTask, exVars, posted, nextId>>
    BY <1>5 DEF ClearOld
  <2>2. \A i \in Id : \A k, x : At(i, k, x)' => At(i, k, x)
    BY <2>1, ClearSlotAt DEF At, Placed, Typed
  <2> QED BY <1>0, <2>1, <2>2, FewerPlaces DEF Placed, Hands
<1>6. CASE StopRun
  <2>1. /\ UNCHANGED <<tasks, uiTask, seTask, exTask, exSlot, posted, nextId>>
        /\ UNCHANGED exPc \/ (exPc = "waiting" /\ exPc' = "loop")
        /\ uiPc = "stopRun"
    BY <1>6 DEF StopRun, Notify
  <2> QED BY <1>0, <2>1, StillPlaced DEF Placed, Hands
<1>7. CASE RecyclePages
  <2>1. UNCHANGED <<tasks, uiTask, seTask, exVars, posted, nextId>> /\ uiPc = "recyclePages"
    BY <1>7, ProcessKeeps DEF RecyclePages
  <2> QED BY <1>0, <2>1, StillPlaced DEF Placed, Hands
<1> QED BY <1>1, <1>2, <1>3, <1>4, <1>5, <1>6, <1>7 DEF UiStep

LEMMA AddAnyPlaced == ASSUME Placed, Typed', NEW prio \in UserPrio, AddAny(prio) PROVE Placed'
<1>1. /\ nextId \in Id /\ nextId' = nextId + 1 /\ uiTask' = NewTask(prio, NoNode, 0)
      /\ UNCHANGED <<tasks, seTask, exVars, posted>> /\ uiPc' = "insert"
  BY DEF AddAny
<1>2. NewTask(prio, NoNode, 0).id = nextId
  BY DEF NewTask
<1> QED BY <1>1, <1>2, NewPlaced DEF Placed, Hands

LEMMA SearchPlaced == Placed /\ Typed' /\ (SearchFind \/ SearchInsert) => Placed'
<1> SUFFICES ASSUME Placed, Typed', SearchFind \/ SearchInsert PROVE Placed'
  OBVIOUS
<1>1. CASE SearchFind
  <2>1. /\ nextId' = nextId + 1 /\ seTask' = NewTask(0, NoNode, 0)
        /\ UNCHANGED <<tasks, uiTask, uiPc, exVars, posted>>
    BY <1>1 DEF SearchFind
  <2>2. nextId \in Id
    BY <1>1, ConstantsAssumption DEF SearchFind, Placed, Typed, TypeOK, Id
  <2>3. NewTask(0, NoNode, 0).id = nextId
    BY DEF NewTask
  <2> QED BY <2>1, <2>2, <2>3, NewPlaced DEF Placed, Hands
<1>2. CASE SearchInsert
  <2>1. seTask \in Task /\ seSlot \in Nat /\ seTask' = NoTask
    BY <1>2 DEF SearchInsert, Placed, Typed, TypeOK, Task
  <2>2. PICK s \in Nat : \A j \in Slots' :
                   (j = s /\ tasks'[j] = seTask) \/ (j # s /\ j \in Slots /\ tasks'[j] = tasks[j])
    BY <1>2, <2>1, InsertAtAt DEF SearchInsert, Placed, Typed
  <2>3. /\ UNCHANGED <<exTask, exSlot, posted, nextId, uiTask, uiPc>>
        /\ UNCHANGED exPc \/ (exPc = "waiting" /\ exPc' = "loop")
    BY <1>2 DEF SearchInsert, Notify
  <2>4. \A i \in Id : Place(i)'
    <3>1. UNCHANGED exPc \/ (exPc # "take" /\ exPc' # "take")
      BY <2>3
    <3> QED BY <2>1, <2>2, <2>3, <3>1, InsertPlaced
  <2> QED BY <2>3, <2>4 DEF Placed, Hands
<1> QED BY <1>1, <1>2

\* The steps of the executor.
LEMMA ExPlaced == Placed /\ Typed' /\ ExStep => Placed'
<1> SUFFICES ASSUME Placed, Typed', ExStep PROVE Placed'
  OBVIOUS
<1>0. nextId' = nextId /\ nextId <= nextId /\ nextId \in Int /\ UNCHANGED <<uiPc, uiTask, seTask>>
  BY DEF ExStep, Loop, Scan, ResetList, Take, Wait, Timeout, RunAny, Start, FetchPage, Render,
     Finish, FinishClear, Publish, Placed, Typed, TypeOK
<1>1. CASE Loop \/ Wait \/ Timeout
  <2>1. UNCHANGED <<tasks, exTask, posted>> /\ exPc # "take" /\ exPc' # "take"
    BY <1>1 DEF Loop, Wait, Timeout
  <2>2. exTask' = NoTask
    BY <1>1 DEF Loop, Wait, Timeout, Placed, Hands
  <2> QED BY <1>0, <2>1, <2>2, StillPlaced DEF Placed, Hands
<1>2. CASE Scan
  <2>0. UNCHANGED <<tasks, posted>> /\ exPc = "scan" /\ exTask = NoTask
    BY <1>2 DEF Scan, Placed, Hands
  <2>1. CASE UNCHANGED <<exTask, exSlot>> /\ exPc' \in {"reset", "wait"}
    BY <1>0, <2>0, <2>1, StillPlaced DEF Placed, Hands
  <2>2. ASSUME NEW h \in Slots, Best(h), exTask' = tasks[h], exSlot' = h, exPc' = "take"
        PROVE  Placed'
    <3>1. ASSUME NEW i \in Id PROVE Place(i)'
      <4>1. \A k, x : At(i, k, x)' => At(i, k, x)
        BY <1>0, <2>0, <2>2 DEF At, Slots
      <4>2. CASE i # tasks[h].id
        BY <1>0, <2>2, <4>1, <4>2, PlaceKept DEF Placed, Chosen
      <4>3. CASE i = tasks[h].id
        <5>1. At(i, "slot", h)
          BY <2>2, <4>3 DEF At, Best
        <5> QED BY <1>0, <2>2, <4>1, <5>1 DEF Placed, Place, Chosen
      <4> QED BY <4>2, <4>3
    <3> QED BY <1>0, <2>2, <3>1 DEF Placed, Hands
  <2> QED BY <1>2, <2>1, <2>2 DEF Scan
<1>3. CASE ResetList
  <2>1. tasks' = <<>> /\ UNCHANGED <<exTask, exSlot, posted>> /\ exPc = "reset" /\ exPc' = "loop"
    BY <1>3 DEF ResetList
  <2>2. \A i \in Id : \A k, x : At(i, k, x)' => At(i, k, x)
    BY <1>0, <2>1 DEF At, Slots
  <2> QED BY <1>0, <2>1, <2>2, FewerPlaces DEF Placed, Hands
<1>4. CASE Take
  <2>1. /\ ClearSlot(exSlot, exTask) /\ exPc = "take" /\ exPc' \in {"start", "runAny"}
        /\ UNCHANGED <<exTask, posted>> /\ exTask \in Task /\ exTask # NoTask
    BY <1>4, ConstantsAssumption DEF Take, Placed, Typed, Locals
  <2>2. ASSUME NEW i \in Id PROVE Place(i)'
    <3>1. CASE i # exTask.id
      <4>1. \A k, x : At(i, k, x)' => At(i, k, x)
        BY <1>0, <2>1, <3>1, ClearSlotAt DEF At, Placed, Typed
      <4> QED BY <1>0, <2>1, <4>1, PlaceKept DEF Placed, Chosen
    <3>2. CASE i = exTask.id
      <4>1. i < nextId /\ \A k, x : At(i, k, x) => k = "slot" /\ x = exSlot
        BY <2>1, <3>2 DEF Placed, Place, Chosen
      <4>2. \A x : ~At(i, "slot", x)'
        BY <2>1, <4>1, ClearSlotAt DEF At, Placed, Typed
      <4>3. \A k, x : At(i, k, x)' => At(i, k, x) \/ k = "slot" \/ (k = "executor" /\ x = 0)
        BY <1>0, <2>1 DEF At
      <4>4. \A k, x : At(i, k, x)' => k = "executor" /\ x = 0
        BY <4>1, <4>2, <4>3
      <4> QED BY <1>0, <2>1, <4>1, <4>4, PlaceMoved DEF Chosen
    <3> QED BY <3>1, <3>2
  <2> QED BY <1>0, <2>1, <2>2 DEF Placed, Hands
<1>5. CASE RunAny \/ Start \/ FetchPage \/ Render \/ Finish
  <2>1. /\ UNCHANGED <<tasks, posted>> /\ exPc' # "take" /\ exPc # "take"
        /\ \/ UNCHANGED exTask /\ exPc' \notin {"loop", "scan", "reset", "wait", "waiting", "exited"}
           \/ exTask' = NoTask
    BY <1>5 DEF RunAny, Start, FetchPage, Render, Finish, ExDrop, ExGoto
  <2>2. \A i \in Id : \A k, x : At(i, k, x)' => At(i, k, x)
    BY <1>0, <2>1 DEF At, Slots
  <2> QED BY <1>0, <2>1, <2>2, FewerPlaces DEF Placed, Hands
<1>6. CASE FinishClear
  <2>1. /\ ClearSlot(exSlot, NoTask) /\ UNCHANGED <<exTask, posted>>
        /\ exPc = "finishClear" /\ exPc' = "publish"
    BY <1>6 DEF FinishClear
  <2>2. \A i \in Id : \A k, x : At(i, k, x)' => At(i, k, x)
    BY <1>0, <2>1, ClearSlotAt DEF At, Placed, Typed
  <2> QED BY <1>0, <2>1, <2>2, FewerPlaces DEF Placed, Hands
<1>7. CASE Publish
  <2>0. UNCHANGED tasks /\ exPc = "publish" /\ exPc' \in {"loop", "finish"} /\ exTask \in DecodeTask
    BY <1>7 DEF Publish, ExDrop, Placed, Typed, Locals
  <2>1. CASE UNCHANGED <<exTask, posted>> /\ exPc' = "finish"
    <3>1. \A i \in Id : \A k, x : At(i, k, x)' => At(i, k, x)
      BY <1>0, <2>0, <2>1 DEF At, Slots
    <3> QED BY <1>0, <2>0, <2>1, <3>1, FewerPlaces DEF Placed, Hands
  <2>2. ASSUME NEW z, posted' = Append(posted, [id |-> exTask.id, node |-> exTask.node, zoom |-> z]),
               exTask' = NoTask, exPc' = "loop"
        PROVE  Placed'
    <3>1. /\ Len(posted) \in Nat /\ Len(posted') = Len(posted) + 1
          /\ \A j \in 1..Len(posted) : posted'[j] = posted[j]
          /\ posted'[Len(posted) + 1].id = exTask.id
      BY <2>2, AppendProperties DEF Placed, Typed, TypeOK
    <3>2. ASSUME NEW i \in Id PROVE Place(i)'
      <4>1. CASE i # exTask.id
        <5>1. \A k, x : At(i, k, x)' => At(i, k, x)
          BY <1>0, <2>0, <2>2, <3>1, <4>1 DEF At, Slots
        <5> QED BY <1>0, <2>2, <5>1, PlaceKept DEF Placed, Chosen
      <4>2. CASE i = exTask.id
        <5>0. exTask # NoTask
          BY <2>0, ConstantsAssumption DEF Task
        <5>1. At(i, "executor", 0)
          BY <2>0, <4>2, <5>0 DEF At
        <5>2. i < nextId /\ \A k, x : At(i, k, x) => k = "executor" /\ x = 0
          BY <5>1 DEF Placed, Place
        <5>3. \A k, x : At(i, k, x)' /\ k # "posted" => At(i, k, x) /\ k # "executor"
          BY <1>0, <2>0, <2>2 DEF At, Slots
        <5>4. \A x : At(i, "posted", x)' => x = Len(posted) + 1 \/ At(i, "posted", x)
          BY <3>1 DEF At
        <5>5. \A k, x : At(i, k, x)' => k = "posted" /\ x = Len(posted) + 1
          BY <5>2, <5>3, <5>4
        <5>6. ~Chosen(i)' /\ i < nextId'
          BY <1>0, <2>2, <5>2 DEF Chosen
        <5> QED BY <5>5, <5>6, PlaceMoved
      <4> QED BY <4>1, <4>2
    <3> QED BY <1>0, <2>2, <3>2 DEF Placed, Hands
  <2> QED BY <1>7, <2>1, <2>2 DEF Publish, ExDrop
<1> QED BY <1>1, <1>2, <1>3, <1>4, <1>5, <1>6, <1>7 DEF ExStep

LEMMA NextPlaced == Placed /\ [Next]_vars => Placed'
<1> SUFFICES ASSUME Placed, [Next]_vars PROVE Placed'
  OBVIOUS
<1>0. Typed'
  BY NextType DEF Placed
<1>1. CASE UNCHANGED vars \/ Ended
  <2>1. UNCHANGED vars
    BY <1>1 DEF Ended
  <2>2. UNCHANGED <<tasks, uiTask, seTask, exVars, posted, nextId, uiPc>>
    BY <2>1 DEF vars
  <2>3. nextId <= nextId'
    BY <2>2 DEF Placed, Typed, TypeOK
  <2> QED BY <1>0, <2>2, <2>3, StillPlaced DEF Placed, Hands
<1> QED BY <1>0, <1>1, EventPlaced, UiPlaced, AddAnyPlaced, SearchPlaced, ExPlaced DEF Next

\* No task is lost twice or run twice: wherever the unsynchronised threads write
\* into the list of slots, a task is in a single slot, or in the hands of the thread
\* that inserts it, or taken by the executor.
THEOREM OnePlaceAlways == Spec => []OnePlacePerTask
<1>1. Placed => OnePlacePerTask
  <2> SUFFICES ASSUME Placed PROVE OnePlacePerTask
    OBVIOUS
  <2>1. \A t \in Queued \cup ({uiTask, seTask, exTask} \ {NoTask}) : t.id \in Id
    BY QueuedType DEF Placed, Typed, TypeOK, TaskOrNull, Task, DecodeTask, AnyTask
  <2>2. ASSUME NEW t \in Queued PROVE t # NoTask /\ \E j \in Slots : At(t.id, "slot", j)
    BY DEF Queued, At
  <2>3. ASSUME NEW i \in Slots, NEW j \in Slots, tasks[i] # NoTask, tasks[j] # NoTask,
               tasks[i].id = tasks[j].id
        PROVE  i = j
    <3>1. At(tasks[i].id, "slot", i) /\ At(tasks[i].id, "slot", j)
      BY <2>3 DEF At
    <3>2. tasks[i].id \in Id
      BY <2>1, <2>3 DEF Queued
    <3> QED BY <3>1, <3>2 DEF Placed, Place
  <2>4. ASSUME NEW t \in Queued PROVE t # uiTask /\ t # seTask
    <3>1. t = uiTask => At(t.id, "ui", 0)
      BY <2>2 DEF At
    <3>2. t = seTask => At(t.id, "search", 0)
      BY <2>2 DEF At
    <3> QED BY <2>1, <2>2, <3>1, <3>2 DEF Placed, Place
  <2>5. ASSUME exPc \notin {"take", "loop", "scan", "reset", "wait", "waiting", "exited"},
               exTask \in Unstarted
        PROVE  FALSE
    <3>1. exTask # NoTask /\ exTask.id \in Id
      BY <2>1, <2>2, <2>5 DEF Unstarted
    <3>2. At(exTask.id, "executor", 0)
      BY <2>5, <3>1 DEF At
    <3>3. exTask = uiTask => At(exTask.id, "ui", 0)
      BY <3>1 DEF At
    <3>4. exTask = seTask => At(exTask.id, "search", 0)
      BY <3>1 DEF At
    <3> QED BY <2>2, <2>5, <3>1, <3>2, <3>3, <3>4 DEF Unstarted, Placed, Place
  <2> QED BY <2>3, <2>4, <2>5 DEF OnePlacePerTask
<1> QED BY <1>1, InitPlaced, NextPlaced, PTL DEF Spec

(***************************************************************************)
(* What becomes of a decoding: NodeNeverStuck.                             *)
(***************************************************************************)
Alive == ~isRecycled /\ exPc # "exited"

\* recycle() is under way.
Recycling == uiPc \in {"iterate", "iterClear", "holders", "stopRun", "recyclePages"} => isRecycled

\* Registered decodings, and those add() has in hand, differ in their ids; what add()
\* is about to cancel is registered no longer once its successor has been put.
Named ==
    /\ \A i \in cancelled : i < nextId
    /\ \A n \in Node : decodingTasks[n] # NoTask =>
          /\ decodingTasks[n].id < nextId
          /\ \A m \in Node \ {n} :
                decodingTasks[m] # NoTask => decodingTasks[m].id # decodingTasks[n].id
          /\ uiPc = "put" => decodingTasks[n].id # uiTask.id
          /\ uiPc \in {"put", "insert", "retire"} /\ uiOld # NoTask /\ uiOld.id = decodingTasks[n].id =>
                uiPc = "put" /\ n = uiTask.node
    /\ uiPc = "put" => uiTask.id < nextId /\ uiTask.id \notin cancelled
    /\ uiPc = "put" /\ uiOld # NoTask => uiOld.id # uiTask.id
    /\ uiPc \in {"put", "insert", "retire"} /\ uiOld # NoTask => uiOld.id < nextId

\* A registered decoding that is alive is somewhere, or was overwritten.
Held(t) ==
    \/ t \in Queued
    \/ uiTask = t
    \/ exPc \in {"take", "start", "page", "render", "finish"} /\ exTask = t
    \/ t.id \in clobbered

Live(n) == decodingTasks[n] # NoTask /\ ~Dead(decodingTasks[n])
Carried == \A n \in Node : Live(n) => Held(decodingTasks[n])

\* Why a node whose decodingNow is set will be released.
Owed(n) ==
    \/ n \in toDecode
    \/ exTask # NoTask /\ exTask.node = n /\ exPc \in {"finish", "finishClear", "publish"}
    \/ \E i \in 1..Len(posted) : posted[i].node = n
    \/ uiPc = "put" /\ uiTask.node = n
    \/ Live(n)

AllOwed ==
    /\ \A n \in Node : decodingNow[n] => Owed(n)
    /\ \A n \in toStop : decodingNow[n] => n \in toDecode

Unstuck == Placed /\ Recycling /\ (Alive => Named /\ Carried /\ AllOwed)

LEMMA InitUnstuck == Init => Unstuck
<1> SUFFICES ASSUME Init PROVE Unstuck
  OBVIOUS
<1>1. Placed
  BY InitPlaced
<1>2. Recycling /\ Named /\ Carried /\ AllOwed
  BY DEF Init, Recycling, Named, Carried, Live, AllOwed
<1> QED BY <1>1, <1>2 DEF Unstuck

\* Nothing comes back to life.
LEMMA AliveBefore == [Next]_vars /\ Placed => (Alive' => Alive) /\ (isRecycled => isRecycled')
<1> SUFFICES ASSUME [Next]_vars, Placed PROVE (Alive' => Alive) /\ (isRecycled => isRecycled')
  OBVIOUS
<1>1. CASE Event
  <2>1. UNCHANGED <<isRecycled, exPc>>
    <3>1. \A d, a, w, z : Process(d, a, w, z) => UNCHANGED <<isRecycled, exPc>>
      BY DEF Process
    <3>2. \A o, z, k, d : CommittedZoom(o, z, k, d) => UNCHANGED <<isRecycled, exPc>>
      BY <3>1, Zenon DEF CommittedZoom
    <3> QED BY <1>1, <3>1, <3>2 DEF Event, Scroll, Reset, SetZoom, Commit, ScaleAndCommit
  <2> QED BY <2>1 DEF Alive
<1>2. CASE Recycle \/ \E prio \in UserPrio : AddAny(prio)
  BY <1>2 DEF Recycle, AddAny, Alive
<1>3. CASE UiStep
  BY <1>3 DEF UiStep, RunPosted, StopCall, DecodeCall, RecycleTask, PutTask, InsertTask, Notify,
     RetireOld, ClearOld, RecycleHolders, RecycleFails, CloseDocument, StopRun, RecyclePages,
     Process, Alive
<1>4. CASE SearchFind \/ SearchInsert
  BY <1>4 DEF SearchFind, SearchInsert, Notify, Alive
<1>5. CASE ExStep
  BY <1>5 DEF ExStep, Loop, Scan, ResetList, Take, Wait, Timeout, RunAny, Start, FetchPage, Render,
     Finish, FinishClear, Publish, ExGoto, ExDrop, Alive
<1>6. CASE Ended \/ UNCHANGED vars
  BY <1>6 DEF Ended, vars, Alive
<1> QED BY <1>1, <1>2, <1>3, <1>4, <1>5, <1>6 DEF Next

LEMMA RecyclingKept == [Next]_vars /\ Placed /\ Recycling => Recycling'
<1> SUFFICES ASSUME [Next]_vars, Placed, Recycling PROVE Recycling'
  OBVIOUS
<1>1. isRecycled => isRecycled'
  BY AliveBefore
<1>2. CASE Event
  <2>1. UNCHANGED uiPc
    BY <1>2, EventKeeps
  <2> QED BY <1>1, <2>1 DEF Recycling
<1>3. CASE Recycle \/ \E prio \in UserPrio : AddAny(prio)
  BY <1>3 DEF Recycle, AddAny, Recycling
<1>4. CASE UiStep
  BY <1>1, <1>4 DEF UiStep, RunPosted, StopCall, DecodeCall, RecycleTask, PutTask, InsertTask,
     RetireOld, ClearOld, RecycleHolders, RecycleFails, CloseDocument, StopRun, RecyclePages, Recycling
<1>5. CASE SearchFind \/ SearchInsert
  BY <1>1, <1>5 DEF SearchFind, SearchInsert, Recycling
<1>6. CASE ExStep
  BY <1>1, <1>6 DEF ExStep, Loop, Scan, ResetList, Take, Wait, Timeout, RunAny, Start, FetchPage,
     Render, Finish, FinishClear, Publish, Recycling
<1>7. CASE Ended \/ UNCHANGED vars
  BY <1>7 DEF Ended, vars, Recycling
<1> QED BY <1>2, <1>3, <1>4, <1>5, <1>6, <1>7 DEF Next

\* What a write to the list of slots leaves of the tasks in it.
LEMMA ClearSlotHeld ==
    ASSUME TypeOK, NEW i, NEW t, ClearSlot(i, t)
    PROVE  /\ clobbered \subseteq clobbered'
           /\ \A u \in Queued : u # t /\ u.id \notin cancelled => u \in Queued' \/ u.id \in clobbered'
<1>1. clobbered \subseteq clobbered'
  BY DEF ClearSlot
<1> SUFFICES ASSUME NEW j \in Slots, tasks[j] # NoTask, tasks[j] # t, tasks[j].id \notin cancelled
             PROVE  tasks[j] \in Queued' \/ tasks[j].id \in clobbered'
  BY <1>1 DEF Queued
<1>2. CASE j = i
  BY <1>2 DEF ClearSlot, Overwritten
<1>3. CASE j # i
  <2>1. j \in Slots' /\ tasks'[j] = tasks[j]
    BY <1>3, ClearSlotAt
  <2> QED BY <2>1 DEF Queued
<1> QED BY <1>2, <1>3

LEMMA InsertAtHeld ==
    ASSUME TypeOK, NEW i \in Nat, NEW t \in Task, InsertAt(i, t)
    PROVE  /\ clobbered \subseteq clobbered'
           /\ t \in Queued' \/ t.id \in clobbered'
           /\ \A u \in Queued : u.id \notin cancelled => u \in Queued' \/ u.id \in clobbered'
<1>0. t # NoTask /\ t \in TaskOrNull /\ tasks \in Seq(TaskOrNull) /\ Len(tasks) \in Nat
  BY ConstantsAssumption, LenProperties DEF TaskOrNull, TypeOK
<1>1. CASE i = 0 /\ tasks' = Append(tasks, t) /\ UNCHANGED clobbered
  <2>1. /\ Len(tasks') = Len(tasks) + 1
        /\ \A j \in 1..Len(tasks) : tasks'[j] = tasks[j]
        /\ tasks'[Len(tasks) + 1] = t
    BY <1>0, <1>1, AppendProperties
  <2>2. Len(tasks) + 1 \in Slots' /\ \A j \in Slots : j \in Slots'
    BY <1>0, <2>1 DEF Slots
  <2>3. \A j \in Slots' : tasks'[j] # NoTask => tasks'[j] \in Queued'
    BY DEF Queued
  <2>4. \A u \in Queued : \E j \in Slots : u = tasks[j] /\ u # NoTask
    BY DEF Queued
  <2>5. \A j \in Slots : tasks'[j] = tasks[j]
    BY <2>1 DEF Slots
  <2> QED BY <1>0, <1>1, <2>1, <2>2, <2>3, <2>4, <2>5
<1>2. CASE /\ i \in Slots /\ tasks' = [tasks EXCEPT ![i] = t]
           /\ clobbered' = clobbered \cup Overwritten(i, NoTask)
  <2>1. /\ Len(tasks') = Len(tasks)
        /\ \A j \in Slots : tasks'[j] = IF j = i THEN t ELSE tasks[j]
    BY <1>0, <1>2, ExceptSeq DEF Slots
  <2>2. Slots' = Slots
    BY <2>1 DEF Slots
  <2>3. \A j \in Slots' : tasks'[j] # NoTask => tasks'[j] \in Queued'
    BY DEF Queued
  <2>4. \A u \in Queued : \E j \in Slots : u = tasks[j] /\ u # NoTask
    BY DEF Queued
  <2>5. tasks[i] # NoTask /\ tasks[i].id \notin cancelled => tasks[i].id \in clobbered'
    BY <1>2 DEF Overwritten
  <2> QED BY <1>0, <1>2, <2>1, <2>2, <2>3, <2>4, <2>5
<1>3. CASE UNCHANGED tasks /\ clobbered' = clobbered \cup {t.id}
  BY <1>3 DEF Queued, Slots
<1> QED BY <1>1, <1>2, <1>3 DEF InsertAt

\* The decodings stay where they are, or move on.
LEMMA CarriedOn ==
    ASSUME Carried, cancelled \subseteq cancelled',
           \A n \in Node : decodingTasks'[n] \in {decodingTasks[n], NoTask},
           \A n \in Node : Live(n)' /\ decodingTasks'[n] = decodingTasks[n] /\ Held(decodingTasks[n])
                              => Held(decodingTasks[n])'
    PROVE  Carried'
BY DEF Carried, Live, Dead

\* The types the steps below need.
LEMMA TypesHere ==
    ASSUME Placed
    PROVE  /\ TypeOK /\ Locals /\ nextId \in Nat /\ NoTask \notin Task
           /\ \A i \in cancelled : i \in Nat
           /\ \A t \in Task : t.id \in Id /\ t.id \in Nat
           /\ DecodeTask \subseteq Task /\ (\A t \in DecodeTask : t.node \in Node /\ t.prio = 2)
           /\ \A n \in Node : decodingTasks[n] # NoTask =>
                 decodingTasks[n] \in DecodeTask /\ decodingTasks[n].node = n
           /\ uiOld # NoTask => uiOld \in DecodeTask
           /\ uiTask # NoTask => uiTask \in Task
           /\ exTask # NoTask => exTask \in Task
BY ConstantsAssumption DEF Placed, Typed, TypeOK, Locals, Task, DecodeTask, AnyTask, TaskOrNull, Id

LEMMA ProcessUnstuck ==
    ASSUME Placed, Named, Carried, AllOwed, NEW d \in SUBSET Node, NEW a \in SUBSET Node,
           NEW w \in SUBSET Node, NEW z, Process(d, a, w, z), UNCHANGED uiPc, UiFree
    PROVE  Named' /\ Carried' /\ AllOwed'
<1> USE DEF Process
<1>1. Named'
  BY DEF Named
<1>2. Carried'
  BY DEF Carried, Live, Dead, Held, Queued, Slots
<1>3. AllOwed'
  BY TypesHere DEF AllOwed, Owed, Live, Dead, UiFree
<1> QED BY <1>1, <1>2, <1>3

LEMMA EventUnstuck ==
    ASSUME Placed, Named, Carried, AllOwed, Event PROVE Named' /\ Carried' /\ AllOwed'
<1> DEFINE Good == Named' /\ Carried' /\ AllOwed'
<1> SUFFICES ASSUME NEW kept \in SUBSET Node, NEW dropped \in SUBSET Node,
                    \/ Scroll(kept, dropped)
                    \/ Reset(kept)
                    \/ Commit(kept, dropped)
                    \/ \E z \in Zoom : SetZoom(z, kept, dropped) \/ ScaleAndCommit(z, kept, dropped)
             PROVE  Good
  BY DEF Event
<1> HIDE DEF Good
<1>0. Blank(kept) \in SUBSET Node
  BY DEF Blank
<1>1. ASSUME NEW d \in SUBSET Node, NEW a \in SUBSET Node, NEW w \in SUBSET Node, NEW z,
             Process(d, a, w, z), UNCHANGED uiPc, UiFree
      PROVE  Good
  BY <1>1, ProcessUnstuck DEF Good
<1>2. ASSUME NEW old, NEW new, CommittedZoom(old, new, kept, dropped), UNCHANGED uiPc, UiFree
      PROVE  Good
  <2> DEFINE again == {n \in kept : bitmapZoom[n] # new}
  <2>1. CASE new > old
    <3>1. Process(dropped, again, again \cup Blank(kept), new)
      BY <1>2, <2>1 DEF CommittedZoom
    <3>2. again \in SUBSET Node /\ again \cup Blank(kept) \in SUBSET Node
      BY <1>0
    <3> QED BY <1>1, <1>2, <3>1, <3>2
  <2>2. CASE ~(new > old)
    <3>1. Process(dropped, {}, kept, new)
      BY <1>2, <2>2 DEF CommittedZoom
    <3> QED BY <1>1, <1>2, <3>1
  <2> QED BY <2>1, <2>2
<1>3. CASE Scroll(kept, dropped)
  BY <1>0, <1>1, <1>3 DEF Scroll, Active
<1>4. CASE Reset(kept)
  BY <1>1, <1>4 DEF Reset, Active
<1>5. CASE Commit(kept, dropped)
  BY <1>2, <1>5 DEF Commit, Active
<1>6. ASSUME NEW z \in Zoom, SetZoom(z, kept, dropped)
      PROVE  Good
  BY <1>0, <1>1, <1>6 DEF SetZoom, Active
<1>7. ASSUME NEW z \in Zoom, ScaleAndCommit(z, kept, dropped)
      PROVE  Good
  BY <1>2, <1>7 DEF ScaleAndCommit, Active
<1> QED BY <1>3, <1>4, <1>5, <1>6, <1>7

LEMMA UiUnstuck ==
    ASSUME Placed, Placed', Recycling, Alive', Alive, Named, Carried, AllOwed, UiStep
    PROVE  Named' /\ Carried' /\ AllOwed'
<1>0. /\ TypeOK /\ nextId \in Nat /\ NoTask \notin Task /\ 0..Len(tasks) \subseteq Nat
      /\ uiPc \notin {"iterate", "iterClear", "holders", "stopRun", "recyclePages"}
      /\ uiPc \notin {"put", "insert"} => uiTask = NoTask
  BY TypesHere DEF Alive, Recycling, Placed, Hands, TypeOK
<1>1. ASSUME NEW hidden \in SUBSET Node, RunPosted(hidden)
      PROVE  Named' /\ Carried' /\ AllOwed'
  <2>1. /\ posted # <<>> /\ posted \in Seq(Posted) /\ posted' = Tail(posted)
        /\ Head(posted) = posted[1] /\ Len(posted) \in Nat /\ Len(posted') = Len(posted) - 1
        /\ \A j \in 1..Len(posted') : posted'[j] = posted[j + 1]
    BY <1>0, <1>1 DEF RunPosted, TypeOK
  <2>2. Named'
    BY <1>1 DEF RunPosted, Named
  <2>3. Carried'
    BY <1>1 DEF RunPosted, Carried, Live, Dead, Held, Queued, Slots
  <2>4. ASSUME NEW n, n # Head(posted).node, NEW i \in 1..Len(posted), posted[i].node = n
        PROVE  \E j \in 1..Len(posted') : posted'[j].node = n
    <3>1. i - 1 \in 1..Len(posted') /\ (i - 1) + 1 = i
      BY <2>1, <2>4
    <3> QED BY <2>1, <2>4, <3>1
  <2>5. AllOwed'
    BY <1>0, <1>1, <2>4 DEF RunPosted, AllOwed, Owed, Live, Dead, TypeOK
  <2> QED BY <2>2, <2>3, <2>5
<1>2. ASSUME NEW n \in Node, StopCall(n)
      PROVE  Named' /\ Carried' /\ AllOwed'
  <2>1. /\ cancelled' = cancelled \cup (IF decodingTasks[n] = NoTask THEN {} ELSE {decodingTasks[n].id})
        /\ decodingTasks' = [decodingTasks EXCEPT ![n] = NoTask]
        /\ uiPc = "idle" /\ uiPc' \in {"idle", "clear"}
    BY <1>2 DEF StopCall, Retire
  <2>2. Named'
    BY <1>0, <1>2, <2>1, TypesHere DEF StopCall, Named, TypeOK
  <2>3. Carried'
    <3>1. \A m \in Node : decodingTasks'[m] \in {decodingTasks[m], NoTask}
      BY <2>1, <1>0 DEF TypeOK
    <3>2. \A t : Held(t) => Held(t)'
      BY <1>2 DEF StopCall, Held, Queued, Slots
    <3> QED BY <2>1, <3>1, <3>2, CarriedOn
  <2>4. AllOwed'
    <3>1. \A m \in Node \ {n} : Live(m) => Live(m)'
      BY <1>0, <2>1 DEF Live, Dead, Named, TypeOK
    <3> QED BY <1>0, <1>2, <2>1, <3>1 DEF StopCall, AllOwed, Owed, TypeOK
  <2> QED BY <2>2, <2>3, <2>4
<1>3. ASSUME NEW n \in Node, DecodeCall(n)
      PROVE  Named' /\ Carried' /\ AllOwed'
  <2>1. /\ uiPc = "idle" /\ toStop = {} /\ toStop' = {} /\ toDecode' = toDecode \ {n}
        /\ nextId' = nextId + 1 /\ uiTask = NoTask
        /\ UNCHANGED <<tasks, clobbered, decodingTasks, cancelled, exVars, decodingNow, posted>>
        /\ \/ Live(n) /\ UNCHANGED <<uiPc, uiTask, uiOld>>
           \/ /\ uiPc' = "put" /\ uiTask'.id = nextId /\ uiTask'.node = n
              /\ uiOld' = decodingTasks[n]
    BY <1>0, <1>3 DEF DecodeCall, NewTask, Live
  <2>2. Named'
    BY <1>0, <2>1, TypesHere DEF Named
  <2>3. Carried'
    BY <1>0, <2>1, TypesHere DEF Carried, Live, Dead, Held, Queued, Slots
  <2>4. AllOwed'
    BY <2>1 DEF AllOwed, Owed, Live, Dead
  <2> QED BY <2>2, <2>3, <2>4
<1>4. CASE PutTask
  <2>1. /\ uiTask \in DecodeTask /\ uiTask.node \in Node /\ uiTask # NoTask
        /\ decodingTasks' = [decodingTasks EXCEPT ![uiTask.node] = uiTask]
        /\ uiPc = "put" /\ uiPc' = "insert"
        /\ UNCHANGED <<uiTask, uiOld, tasks, clobbered, cancelled, exVars, nextId, toStop, toDecode,
                       decodingNow, posted>>
    BY <1>0, <1>4, TypesHere DEF PutTask, Locals
  <2>2. \A m \in Node : decodingTasks'[m] = IF m = uiTask.node THEN uiTask ELSE decodingTasks[m]
    BY <1>0, <2>1 DEF TypeOK
  <2>3. Named'
    BY <1>0, <2>1, <2>2 DEF Named
  <2>4. Carried'
    BY <2>1, <2>2 DEF Carried, Live, Dead, Held, Queued, Slots
  <2>5. AllOwed'
    <3>1. Live(uiTask.node)'
      BY <2>1, <2>2 DEF Live, Dead, Named
    <3>2. \A m \in Node \ {uiTask.node} : Live(m) => Live(m)'
      BY <2>1, <2>2 DEF Live, Dead
    <3> QED BY <2>1, <3>1, <3>2 DEF AllOwed, Owed
  <2> QED BY <2>3, <2>4, <2>5
<1>5. CASE InsertTask
  <2>1. /\ uiTask \in Task /\ uiSlot \in Nat /\ InsertAt(uiSlot, uiTask)
        /\ uiPc = "insert" /\ uiPc' \in {"retire", "idle"} /\ uiTask' = NoTask
        /\ uiPc' = "retire" => uiOld' = uiOld
        /\ UNCHANGED <<decodingTasks, cancelled, nextId, exTask, toStop, toDecode, decodingNow, posted>>
        /\ exPc' = exPc \/ exPc = "waiting"
    BY <1>0, <1>5, TypesHere DEF InsertTask, Notify, Locals, TypeOK
  <2>2. Named'
    BY <2>1 DEF Named
  <2>3. Carried'
    <3>1. /\ clobbered \subseteq clobbered'
          /\ uiTask \in Queued' \/ uiTask.id \in clobbered'
          /\ \A u \in Queued : u.id \notin cancelled => u \in Queued' \/ u.id \in clobbered'
      BY <1>0, <2>1, InsertAtHeld
    <3>2. \A n \in Node : Live(n)' /\ Held(decodingTasks[n]) => Held(decodingTasks[n])'
      BY <2>1, <3>1 DEF Live, Dead, Held
    <3> QED BY <2>1, <3>2, CarriedOn
  <2>4. AllOwed'
    BY <2>1 DEF AllOwed, Owed, Live, Dead
  <2> QED BY <2>2, <2>3, <2>4
<1>6. CASE RetireOld
  <2>1. /\ cancelled' = cancelled \cup (IF uiOld = NoTask THEN {} ELSE {uiOld.id})
        /\ uiPc = "retire" /\ uiPc' \in {"idle", "clear"}
        /\ UNCHANGED <<tasks, clobbered, decodingTasks, nextId, exVars, uiTask, uiOld, toStop, toDecode,
                       decodingNow, posted>>
    BY <1>6 DEF RetireOld, Retire
  <2>2. Named'
    BY <2>1 DEF Named
  <2>3. Carried'
    BY <2>1 DEF Carried, Live, Dead, Held, Queued, Slots
  <2>4. AllOwed'
    BY <2>1 DEF AllOwed, Owed, Live, Dead, Named
  <2> QED BY <2>2, <2>3, <2>4
<1>7. CASE ClearOld
  <2>1. /\ uiPc = "clear" /\ uiPc' = "idle" /\ ClearSlot(uiSlot, uiOld) /\ Dead(uiOld)
        /\ UNCHANGED <<decodingTasks, cancelled, nextId, exVars, uiTask, toStop, toDecode,
                       decodingNow, posted>>
    BY <1>0, <1>7, TypesHere DEF ClearOld, Locals
  <2>2. Named'
    BY <2>1 DEF Named
  <2>3. Carried'
    <3>1. /\ clobbered \subseteq clobbered'
          /\ \A u \in Queued : u.id \notin cancelled => u \in Queued' \/ u.id \in clobbered'
      BY <1>0, <2>1, ClearSlotHeld DEF Dead
    <3>2. \A n \in Node : Live(n)' /\ Held(decodingTasks[n]) => Held(decodingTasks[n])'
      BY <2>1, <3>1 DEF Live, Dead, Held
    <3> QED BY <2>1, <3>2, CarriedOn
  <2>4. AllOwed'
    BY <2>1 DEF AllOwed, Owed, Live, Dead
  <2> QED BY <2>2, <2>3, <2>4
<1>8. CASE \/ \E n \in Node : RecycleTask(n)
           \/ RecycleHolders \/ RecycleFails \/ CloseDocument \/ StopRun \/ RecyclePages
  BY <1>0, <1>8 DEF RecycleTask, RecycleHolders, RecycleFails, CloseDocument, StopRun, RecyclePages
<1> QED BY <1>1, <1>2, <1>3, <1>4, <1>5, <1>6, <1>7, <1>8 DEF UiStep

\* AddAny and the search thread: tasks without a node
LEMMA OthersUnstuck ==
    ASSUME Placed, Alive', Alive, Named, Carried, AllOwed,
           (\E prio \in UserPrio : AddAny(prio)) \/ SearchFind \/ SearchInsert
    PROVE  Named' /\ Carried' /\ AllOwed'
<1>0. /\ TypeOK /\ nextId \in Nat /\ 0..Len(tasks) \subseteq Nat
      /\ uiPc \notin {"put", "insert"} => uiTask = NoTask
  BY TypesHere DEF Placed, Hands, TypeOK
<1>1. ASSUME NEW prio \in UserPrio, AddAny(prio) PROVE Named' /\ Carried' /\ AllOwed'
  <2>1. /\ uiPc = "idle" /\ uiPc' = "insert" /\ uiTask = NoTask /\ uiOld' = NoTask
        /\ nextId' = nextId + 1
        /\ UNCHANGED <<tasks, clobbered, decodingTasks, cancelled, exVars, posted, decodingNow, toStop,
                       toDecode>>
    BY <1>0, <1>1 DEF AddAny, Active, UiFree
  <2>2. Named'
    BY <1>0, <2>1, TypesHere DEF Named
  <2>3. Carried'
    BY <1>0, <2>1, TypesHere DEF Carried, Live, Dead, Held, Queued, Slots
  <2>4. AllOwed'
    BY <2>1 DEF AllOwed, Owed, Live, Dead
  <2> QED BY <2>2, <2>3, <2>4
<1>2. CASE SearchFind
  <2>1. /\ nextId' = nextId + 1
        /\ UNCHANGED <<tasks, clobbered, decodingTasks, cancelled, exVars, uiVars, posted, decodingNow>>
    BY <1>2 DEF SearchFind
  <2>2. Named'
    <3>1. \A i \in Nat : i < nextId => i < nextId'
      BY <1>0, <2>1
    <3>2. /\ \A i \in cancelled : i \in Nat
          /\ \A n \in Node : decodingTasks[n] # NoTask => decodingTasks[n].id \in Nat
          /\ uiOld # NoTask => uiOld.id \in Nat
          /\ uiPc = "put" => uiTask.id \in Nat
      BY TypesHere DEF Locals
    <3> QED BY <2>1, <3>1, <3>2 DEF Named
  <2>3. Carried' /\ AllOwed'
    BY <2>1 DEF Carried, Held, Queued, Slots, AllOwed, Owed, Live, Dead
  <2> QED BY <2>2, <2>3
<1>3. CASE SearchInsert
  <2>1. /\ seTask \in Task /\ seSlot \in Nat /\ InsertAt(seSlot, seTask)
        /\ UNCHANGED <<decodingTasks, cancelled, nextId, exTask, uiVars, posted, decodingNow>>
        /\ exPc' = exPc \/ exPc = "waiting"
    BY <1>0, <1>3 DEF SearchInsert, Notify, TypeOK, Task
  <2>2. Named'
    BY <2>1 DEF Named
  <2>3. Carried'
    <3>1. /\ clobbered \subseteq clobbered'
          /\ \A u \in Queued : u.id \notin cancelled => u \in Queued' \/ u.id \in clobbered'
      BY <1>0, <2>1, InsertAtHeld
    <3>2. \A n \in Node : Live(n)' /\ Held(decodingTasks[n]) => Held(decodingTasks[n])'
      BY <2>1, <3>1 DEF Live, Dead, Held
    <3> QED BY <2>1, <3>2, CarriedOn
  <2>4. AllOwed'
    BY <2>1 DEF AllOwed, Owed, Live, Dead
  <2> QED BY <2>2, <2>3, <2>4
<1> QED BY <1>1, <1>2, <1>3

LEMMA ExUnstuck ==
    ASSUME Placed, Alive', Alive, Named, Carried, AllOwed, ExStep
    PROVE  Named' /\ Carried' /\ AllOwed'
<1>0. TypeOK /\ nextId \in Nat /\ NoTask \notin Task /\ Locals
  BY TypesHere
<1>1. CASE Loop \/ Wait \/ Timeout \/ RunAny \/ Start \/ FetchPage \/ Render
  <2>1. /\ UNCHANGED <<tasks, clobbered, decodingTasks, cancelled, nextId, uiVars, posted, decodingNow>>
        /\ \/ exPc \in {"loop", "wait", "waiting"} /\ UNCHANGED exTask
              /\ exPc' \in {"scan", "exited", "waiting", "loop"}
           \/ exPc = "runAny" /\ exPc' \in {"loop", "exited"}
           \/ /\ exPc \in {"start", "page", "render"} /\ exTask' = NoTask /\ exPc' = "loop"
              /\ Dead(exTask)
           \/ /\ exPc \in {"start", "page", "render"} /\ UNCHANGED exTask
              /\ exPc' \in {"page", "render", "finish"}
    BY <1>1 DEF Loop, Wait, Timeout, RunAny, Start, FetchPage, Render, ExGoto, ExDrop
  <2>2. Named'
    BY <2>1 DEF Named
  <2>3. Carried'
    <3>1. \A n \in Node : Live(n)' /\ Held(decodingTasks[n]) => Held(decodingTasks[n])'
      BY <2>1 DEF Live, Dead, Held, Queued, Slots
    <3> QED BY <2>1, <3>1, CarriedOn
  <2>4. AllOwed'
    BY <2>1 DEF AllOwed, Owed, Live, Dead
  <2> QED BY <2>2, <2>3, <2>4
<1>2. CASE Scan
  <2>1. /\ UNCHANGED <<tasks, clobbered, decodingTasks, cancelled, nextId, uiVars, posted, decodingNow>>
        /\ exPc = "scan" /\ exPc' \in {"take", "reset", "wait"}
    BY <1>2 DEF Scan
  <2>2. Named'
    BY <2>1 DEF Named
  <2>3. Carried'
    <3>1. \A n \in Node : Live(n)' /\ Held(decodingTasks[n]) => Held(decodingTasks[n])'
      BY <2>1 DEF Live, Dead, Held, Queued, Slots
    <3> QED BY <2>1, <3>1, CarriedOn
  <2>4. AllOwed'
    BY <2>1 DEF AllOwed, Owed, Live, Dead
  <2> QED BY <2>2, <2>3, <2>4
<1>3. CASE ResetList
  <2>1. /\ UNCHANGED <<decodingTasks, cancelled, nextId, uiVars, posted, decodingNow, exTask>>
        /\ exPc = "reset" /\ exPc' = "loop" /\ clobbered' = clobbered \cup {t.id : t \in Queued}
    BY <1>3 DEF ResetList
  <2>2. Named'
    BY <2>1 DEF Named
  <2>3. Carried'
    <3>1. \A n \in Node : Live(n)' /\ Held(decodingTasks[n]) => Held(decodingTasks[n])'
      BY <2>1 DEF Live, Dead, Held
    <3> QED BY <2>1, <3>1, CarriedOn
  <2>4. AllOwed'
    BY <2>1 DEF AllOwed, Owed, Live, Dead
  <2> QED BY <2>2, <2>3, <2>4
<1>4. CASE Take \/ FinishClear
  <2>1. /\ UNCHANGED <<decodingTasks, cancelled, nextId, uiVars, posted, decodingNow, exTask>>
        /\ \/ exPc = "take" /\ exPc' = (IF IsDecode(exTask) THEN "start" ELSE "runAny")
              /\ ClearSlot(exSlot, exTask)
           \/ exPc = "finishClear" /\ exPc' = "publish" /\ ClearSlot(exSlot, NoTask)
    BY <1>4 DEF Take, FinishClear
  <2>2. Named'
    BY <2>1 DEF Named
  <2>3. Carried'
    <3>1. /\ clobbered \subseteq clobbered'
          /\ \A u \in Queued : u.id \notin cancelled /\ ~(exPc = "take" /\ u = exTask) =>
                u \in Queued' \/ u.id \in clobbered'
      <4>1. \A u \in Queued : u # NoTask
        BY DEF Queued
      <4> QED BY <1>0, <2>1, <4>1, ClearSlotHeld
    <3>2. \A n \in Node : decodingTasks[n] # NoTask => IsDecode(decodingTasks[n])
      BY TypesHere DEF IsDecode
    <3>3. \A n \in Node : Live(n)' /\ Held(decodingTasks[n]) => Held(decodingTasks[n])'
      BY <2>1, <3>1, <3>2 DEF Live, Dead, Held
    <3> QED BY <2>1, <3>3, CarriedOn
  <2>4. AllOwed'
    BY <2>1 DEF AllOwed, Owed, Live, Dead
  <2> QED BY <2>2, <2>3, <2>4
<1>5. CASE Finish
  <2>1. PICK n \in Node : n = exTask.node
    BY <1>0, <1>5, TypesHere DEF Finish, Locals
  <2>2. /\ UNCHANGED <<tasks, clobbered, nextId, uiTask, uiOld, uiPc, toStop, toDecode, posted, decodingNow, exTask>>
        /\ exPc = "finish" /\ exPc' = "finishClear"
        /\ decodingTasks' = [decodingTasks EXCEPT ![n] = NoTask]
        /\ cancelled' = cancelled \cup (IF decodingTasks[n] = NoTask THEN {} ELSE {decodingTasks[n].id})
        /\ exTask # NoTask
    BY <1>0, <1>5, <2>1, TypesHere DEF Finish, Retire, Locals
  <2>3. Named'
    BY <1>0, <2>2 DEF Named, TypeOK
  <2>4. Carried'
    <3>1. \A m \in Node : decodingTasks'[m] \in {decodingTasks[m], NoTask}
      BY <1>0, <2>2 DEF TypeOK
    <3>2. \A m \in Node : Live(m)' => m # n /\ decodingTasks[m].node = m
      BY <1>0, <2>2, TypesHere DEF Live, TypeOK
    <3>3. \A m \in Node : Live(m)' /\ Held(decodingTasks[m]) => Held(decodingTasks[m])'
      BY <2>1, <2>2, <3>2 DEF Held, Queued, Slots
    <3> QED BY <2>2, <3>1, <3>3, CarriedOn
  <2>5. AllOwed'
    <3>1. \A m \in Node \ {n} : Live(m) => Live(m)'
      BY <1>0, <2>2 DEF Live, Dead, Named, TypeOK
    <3> QED BY <2>1, <2>2, <3>1 DEF AllOwed, Owed
  <2> QED BY <2>3, <2>4, <2>5
<1>6. CASE Publish
  <2>0. /\ UNCHANGED <<tasks, clobbered, decodingTasks, cancelled, nextId, uiVars, decodingNow>>
        /\ exPc = "publish"
    BY <1>6 DEF Publish
  <2>1. \/ exPc' = "finish" /\ UNCHANGED <<exTask, posted>>
        \/ /\ exPc' = "loop"
           /\ \E z : posted' = Append(posted, [id |-> exTask.id, node |-> exTask.node, zoom |-> z])
    BY <1>6 DEF Publish, ExDrop
  <2>2. Named'
    BY <2>0 DEF Named
  <2>3. Carried'
    <3>1. \A n \in Node : Live(n)' /\ Held(decodingTasks[n]) => Held(decodingTasks[n])'
      BY <2>0 DEF Live, Dead, Held, Queued, Slots
    <3> QED BY <2>0, <3>1, CarriedOn
  <2>4. AllOwed'
    <3>1. CASE exPc' = "finish" /\ UNCHANGED <<exTask, posted>>
      BY <2>0, <3>1 DEF AllOwed, Owed, Live, Dead
    <3>2. ASSUME NEW z,
                 posted' = Append(posted, [id |-> exTask.id, node |-> exTask.node, zoom |-> z])
          PROVE  AllOwed'
      <4>1. /\ Len(posted) \in Nat /\ Len(posted') = Len(posted) + 1
            /\ \A j \in 1..Len(posted) : posted'[j] = posted[j]
            /\ posted'[Len(posted) + 1].node = exTask.node
        BY <1>0, <3>2, AppendProperties DEF TypeOK
      <4>2. /\ \E j \in 1..Len(posted') : posted'[j].node = exTask.node
            /\ \A j \in 1..Len(posted) : j \in 1..Len(posted') /\ posted'[j].node = posted[j].node
        BY <4>1
      <4> QED BY <2>0, <4>2 DEF AllOwed, Owed, Live, Dead
    <3> QED BY <2>1, <3>1, <3>2
  <2> QED BY <2>2, <2>3, <2>4
<1> QED BY <1>1, <1>2, <1>3, <1>4, <1>5, <1>6 DEF ExStep

LEMMA NextUnstuck == Unstuck /\ [Next]_vars => Unstuck'
<1> SUFFICES ASSUME Unstuck, [Next]_vars PROVE Unstuck'
  OBVIOUS
<1>1. Placed /\ Placed' /\ Recycling /\ Recycling' /\ (Alive' => Alive)
  BY NextPlaced, AliveBefore, RecyclingKept DEF Unstuck
<1> SUFFICES ASSUME Alive' PROVE Named' /\ Carried' /\ AllOwed'
  BY <1>1 DEF Unstuck
<1>2. Alive /\ Named /\ Carried /\ AllOwed
  BY <1>1 DEF Unstuck
<1>3. CASE Recycle
  BY <1>3 DEF Recycle, Alive
<1>4. CASE UNCHANGED vars \/ Ended
  <2>1. UNCHANGED vars
    BY <1>4 DEF Ended
  <2> QED BY <1>2, <2>1 DEF vars, Named, Carried, Held, Queued, Slots, AllOwed, Owed, Live, Dead
<1>5. CASE Event
  BY <1>1, <1>2, <1>5, EventUnstuck
<1>6. CASE UiStep
  BY <1>1, <1>2, <1>6, UiUnstuck
<1>7. CASE (\E prio \in UserPrio : AddAny(prio)) \/ SearchFind \/ SearchInsert
  BY <1>1, <1>2, <1>7, OthersUnstuck
<1>8. CASE ExStep
  BY <1>1, <1>2, <1>8, ExUnstuck
<1> QED BY <1>3, <1>4, <1>5, <1>6, <1>7, <1>8 DEF Next

\* A node marked as being decoded always has something underway that will clear the
\* mark, whatever the interleaving of events, completions and cancellations, unless
\* its task was overwritten, a task killed the executor, or the book is closed.
THEOREM NodeNeverStuckAlways == Spec => []NodeNeverStuck
<1>1. Unstuck => NodeNeverStuck
  <2> SUFFICES ASSUME Unstuck, Alive, NEW n \in Node, decodingNow[n],
                      ~(decodingTasks[n] # NoTask /\ decodingTasks[n].id \in clobbered)
               PROVE  Underway(n)
    BY DEF NodeNeverStuck, Alive
  <2>1. Placed /\ Named /\ Carried /\ Owed(n)
    BY DEF Unstuck, AllOwed
  <2>2. CASE uiPc = "put" /\ uiTask.node = n
    <3>1. uiTask # NoTask /\ ~Dead(uiTask)
      BY <2>1, <2>2, TypesHere DEF Named, Dead, Locals
    <3> QED BY <2>2, <3>1 DEF Underway, Unstarted
  <2>3. CASE Live(n)
    <3> DEFINE t == decodingTasks[n]
    <3>1. t # NoTask /\ t.node = n /\ ~Dead(t) /\ Held(t) /\ t.id \notin clobbered
      BY <2>1, <2>3, TypesHere DEF Live, Carried
    <3> HIDE DEF t
    <3>2. CASE t \in Queued \/ uiTask = t
      BY <3>1, <3>2 DEF Underway, Unstarted
    <3>3. CASE exTask = t
      BY <3>1, <3>3 DEF Underway
    <3> QED BY <3>1, <3>2, <3>3 DEF Held
  <2> QED BY <2>1, <2>2, <2>3 DEF Owed, Underway
<1> QED BY <1>1, InitUnstuck, NextUnstuck, PTL DEF Spec

---------------------------------------------------------------------------
(***************************************************************************)
(* The stage of a task, read off its place.                                *)
(***************************************************************************)
Requested(i) == Chosen(i) \/ \E k, x : k \in {"slot", "ui", "search"} /\ At(i, k, x)
Taken(i) == At(i, "executor", 0)
Shown(i) == \E x : At(i, "posted", x)

Closing == exPc \in {"finish", "finishClear", "publish"}
TakenStage == IF ~Closing THEN "started" ELSE IF exOk THEN "committed" ELSE "failed"

LEMMA RequestedWhere ==
    Typed => \A i \in Id : Requested(i) <=> i \in Ids(Unstarted) \/ (exPc = "take" /\ exTask.id = i)
<1> SUFFICES ASSUME Typed, NEW i \in Id
             PROVE  Requested(i) <=> i \in Ids(Unstarted) \/ (exPc = "take" /\ exTask.id = i)
  OBVIOUS
<1>1. i \in Ids(Queued) <=> \E x : At(i, "slot", x)
  BY DEF Ids, Queued, At
<1>2. (uiTask # NoTask /\ uiTask.id = i) <=> \E x : At(i, "ui", x)
  BY DEF At
<1>3. (seTask # NoTask /\ seTask.id = i) <=> \E x : At(i, "search", x)
  BY DEF At
<1>4. i \in Ids(Unstarted) <=> \/ i \in Ids(Queued)
                               \/ uiTask # NoTask /\ uiTask.id = i
                               \/ seTask # NoTask /\ seTask.id = i
  BY DEF Ids, Unstarted
<1> QED BY <1>1, <1>2, <1>3, <1>4 DEF Requested, Chosen

Located(i) ==
    /\ i >= nextId => StageOf(i) = "none" /\ ~Requested(i) /\ ~Taken(i) /\ ~Shown(i)
    /\ Shown(i) => StageOf(i) = "posted" /\ ~Requested(i) /\ ~Taken(i)
    /\ Taken(i) => StageOf(i) = TakenStage /\ ~Requested(i) /\ ~Shown(i)
    /\ Requested(i) => StageOf(i) = "requested" /\ ~Taken(i) /\ ~Shown(i)
    /\ i < nextId /\ ~Requested(i) /\ ~Taken(i) /\ ~Shown(i) => StageOf(i) = "gone"

LEMMA AllLocated == Placed => \A i \in Id : Located(i)
<1> SUFFICES ASSUME Placed, NEW i \in Id PROVE Located(i)
  OBVIOUS
<1>1. nextId \in Int /\ i \in Int
  BY DEF Placed, Typed, TypeOK, Id
<1>2. Shown(i) <=> i \in Results
  BY DEF Shown, At, Results
<1>3. Taken(i) <=> exTask # NoTask /\ exTask.id = i /\ exPc # "take"
  BY DEF Taken, At
<1>4. Requested(i) <=> i \in Ids(Unstarted) \/ (exPc = "take" /\ exTask.id = i)
  BY RequestedWhere DEF Placed
<1>5. /\ Shown(i) => ~Requested(i) /\ ~Taken(i) /\ i < nextId
      /\ Taken(i) => ~Requested(i) /\ i < nextId
      /\ Requested(i) => i < nextId
  BY DEF Placed, Place, Shown, Taken, Requested
<1>6. CASE i >= nextId
  BY <1>1, <1>5, <1>6 DEF StageOf, Located
<1>7. CASE i < nextId /\ Shown(i)
  BY <1>1, <1>2, <1>5, <1>7 DEF StageOf, Located
<1>8. CASE i < nextId /\ Taken(i)
  BY <1>1, <1>2, <1>3, <1>5, <1>8 DEF StageOf, TakenStage, Closing, Located
<1>9. CASE i < nextId /\ ~Shown(i) /\ ~Taken(i)
  <2>1. StageOf(i) = IF Requested(i) THEN "requested" ELSE "gone"
    BY <1>1, <1>2, <1>3, <1>4, <1>9 DEF StageOf
  <2> QED BY <1>1, <1>5, <1>9, <2>1 DEF Located
<1> QED BY <1>1, <1>6, <1>7, <1>8, <1>9

LEMMA AllLocatedNext == Placed' => \A i \in Id : Located(i)'
<1>1. Placed' => (\A i \in Id : Located(i))'
  BY AllLocated, PTL
<1> QED BY <1>1

(***************************************************************************)
(* Steps of the contract, in terms of the stages.                          *)
(***************************************************************************)
Step == [Contract!Next]_(Contract!vars)
SameStage(i) == StageOf(i)' = StageOf(i)

LEMMA CancelStep ==
    ASSUME \A i \in Id : SameStage(i), cancelled \subseteq cancelled', cancelled' \subseteq Id
    PROVE  Step
<1>1. \E D \in SUBSET Id : cancelled' = cancelled \cup D
  OBVIOUS
<1>2. [i \in Id |-> StageOf(i)'] = [i \in Id |-> StageOf(i)]
  BY DEF SameStage
<1>3. \E D \in SUBSET Id : Contract!Cancel(D)
  BY <1>1, <1>2 DEF Contract!Cancel
<1> QED BY <1>3 DEF Step, Contract!Next

LEMMA ForgetStep ==
    ASSUME UNCHANGED cancelled,
           \A i \in Id : SameStage(i) \/ (StageOf(i) = "requested" /\ StageOf(i)' = "gone")
    PROVE  Step
<1> DEFINE L == {i \in Id : StageOf(i) = "requested" /\ StageOf(i)' = "gone"}
<1>1. \A i \in Id : StageOf(i)' = IF i \in L THEN "gone" ELSE StageOf(i)
  BY DEF SameStage
<1>2. Contract!Forget(L)
  BY <1>1 DEF Contract!Forget
<1> QED BY <1>2 DEF Step, Contract!Next

LEMMA MoveStep ==
    ASSUME UNCHANGED cancelled, NEW i \in Id, NEW from, NEW to,
           \A j \in Id : j # i => SameStage(j), StageOf(i) \in from, StageOf(i)' = to
    PROVE  Contract!Move(i, from, to)
<1>1. [j \in Id |-> StageOf(j)'] = [[j \in Id |-> StageOf(j)] EXCEPT ![i] = to]
  BY DEF SameStage
<1> QED BY <1>1 DEF Contract!Move

LEMMA StartStep ==
    ASSUME UNCHANGED cancelled, NEW i \in Id, StageOf(i) = "requested", StageOf(i)' = "started",
           \A j \in Id : StageOf(j) \notin {"started", "committed", "failed"},
           \A j \in Id : j # i => SameStage(j) \/ (StageOf(j) = "requested" /\ StageOf(j)' = "gone")
    PROVE  Step
<1> DEFINE L == {j \in Id \ {i} : StageOf(j) = "requested" /\ StageOf(j)' = "gone"}
<1>1. \A j \in Id : StageOf(j)' = IF j = i THEN "started" ELSE IF j \in L THEN "gone" ELSE StageOf(j)
  BY DEF SameStage
<1>2. Contract!Start(i, L)
  BY <1>1 DEF Contract!Start, Contract!Active
<1> QED BY <1>2 DEF Step, Contract!Next

(***************************************************************************)
(* What becomes of the stage of a task when its place does not change, or  *)
(* when it loses it.                                                       *)
(***************************************************************************)
SamePlace(i) ==
    /\ Requested(i)' <=> Requested(i)
    /\ Taken(i)' <=> Taken(i)
    /\ Shown(i)' <=> Shown(i)
    /\ Taken(i) => TakenStage' = TakenStage

LEMMA Stays ==
    ASSUME Placed, Placed', NEW i \in Id, SamePlace(i),
           nextId' = nextId \/ (nextId' = nextId + 1 /\ i # nextId)
    PROVE  SameStage(i)
<1>1. nextId \in Int /\ i \in Int
  BY DEF Placed, Typed, TypeOK, Id
<1>2. Located(i) /\ Located(i)'
  BY AllLocated, AllLocatedNext
<1>3. i < nextId' <=> i < nextId
  BY <1>1
<1>4. nextId' \in Int
  BY <1>1
<1> QED BY <1>1, <1>2, <1>3, <1>4 DEF SamePlace, SameStage, Located

LEMMA Forgotten ==
    ASSUME Placed, Placed', NEW i \in Id, nextId' = nextId,
           Requested(i)' => Requested(i), Taken(i)' <=> Taken(i), Shown(i)' <=> Shown(i),
           Taken(i) => TakenStage' = TakenStage
    PROVE  SameStage(i) \/ (StageOf(i) = "requested" /\ StageOf(i)' = "gone")
<1>1. nextId \in Int /\ i \in Int
  BY DEF Placed, Typed, TypeOK, Id
<1>2. Located(i) /\ Located(i)'
  BY AllLocated, AllLocatedNext
<1> QED BY <1>1, <1>2 DEF SameStage, Located

\* Steps that only move the threads along, or set the flags of tasks.
Quiet ==
    /\ UNCHANGED <<tasks, uiTask, seTask, exTask, posted, nextId>>
    /\ \/ UNCHANGED <<exPc, exOk>>
       \/ /\ exPc # "take" /\ exPc' # "take"
          /\ exTask # NoTask => TakenStage' = TakenStage
    /\ cancelled \subseteq cancelled'

LEMMA QuietStep == Placed /\ Placed' /\ Quiet => Step
<1> SUFFICES ASSUME Placed, Placed', Quiet PROVE Step
  OBVIOUS
<1>1. ASSUME NEW i \in Id PROVE SamePlace(i)
  <2>1. (\A k, x : At(i, k, x)' <=> At(i, k, x)) /\ (Chosen(i)' <=> Chosen(i))
    BY DEF Quiet, At, Slots, Chosen
  <2>2. Taken(i) => TakenStage' = TakenStage
    BY DEF Quiet, Taken, At, TakenStage, Closing
  <2> QED BY <2>1, <2>2 DEF SamePlace, Requested, Taken, Shown
<1>2. \A i \in Id : SameStage(i)
  BY <1>1, Stays DEF Quiet
<1>3. cancelled' \subseteq Id
  BY DEF Placed, Typed, TypeOK
<1> QED BY <1>2, <1>3, CancelStep DEF Quiet

\* Steps that only lose requests.
LEMMA LoseStep ==
    ASSUME Placed, Placed', UNCHANGED <<exTask, posted, nextId, cancelled>>,
           \A i \in Id : Requested(i)' => Requested(i),
           \/ UNCHANGED <<exPc, exOk>>
           \/ /\ exPc # "take" /\ exPc' # "take"
              /\ exTask # NoTask => TakenStage' = TakenStage
    PROVE  Step
<1>1. ASSUME NEW i \in Id
      PROVE  SameStage(i) \/ (StageOf(i) = "requested" /\ StageOf(i)' = "gone")
  <2>1. (Taken(i)' <=> Taken(i)) /\ (Shown(i)' <=> Shown(i))
    BY DEF Taken, Shown, At
  <2>2. Taken(i) => TakenStage' = TakenStage
    BY DEF Taken, At, TakenStage, Closing
  <2> QED BY <2>1, <2>2, Forgotten
<1> QED BY <1>1, ForgetStep

\* Steps that create a task: it is requested, or refused because the same decoding is on.
LEMMA CreateStep ==
    ASSUME Placed, Placed', nextId \in Id, nextId' = nextId + 1, UNCHANGED <<tasks, posted, exVars, cancelled>>,
           NEW t, t.id = nextId,
           \/ uiTask' = t /\ uiTask = NoTask /\ UNCHANGED seTask
           \/ seTask' = t /\ seTask = NoTask /\ UNCHANGED uiTask
           \/ UNCHANGED <<uiTask, seTask>>
    PROVE  Step
<1>1. nextId \in Int /\ nextId < nextId'
  BY DEF Id
<1>2. ASSUME NEW i \in Id, i # nextId PROVE SameStage(i)
  <2>1. \A k, x : k \notin {"ui", "search"} => (At(i, k, x)' <=> At(i, k, x))
    BY DEF At, Slots
  <2>2. \A k, x : k \in {"ui", "search"} => (At(i, k, x)' <=> At(i, k, x))
    BY <1>2 DEF At
  <2>3. (Chosen(i)' <=> Chosen(i)) /\ TakenStage' = TakenStage
    BY DEF Chosen, TakenStage, Closing
  <2> QED BY <1>2, <2>1, <2>2, <2>3, Stays DEF SamePlace, Requested, Taken, Shown
<1>3. PICK i \in Id : i = nextId
  OBVIOUS
<1>4. StageOf(i) = "none" /\ ~Requested(i) /\ ~Taken(i) /\ ~Shown(i)
  BY <1>1, <1>3, AllLocated DEF Located
<1>5. ~Taken(i)' /\ ~Shown(i)' /\ i < nextId'
  BY <1>1, <1>3, <1>4 DEF Taken, Shown, At
<1>6. StageOf(i)' \in {"requested", "gone"}
  BY <1>5, AllLocatedNext DEF Located
<1>7. CASE StageOf(i)' = "requested"
  <2>1. Contract!Request(i)
    BY <1>2, <1>3, <1>4, <1>7, MoveStep DEF Contract!Request
  <2> QED BY <2>1 DEF Step, Contract!Next
<1>8. CASE StageOf(i)' = "gone"
  <2>1. Contract!Refuse(i)
    BY <1>2, <1>3, <1>4, <1>8, MoveStep DEF Contract!Refuse
  <2> QED BY <2>1 DEF Step, Contract!Next
<1> QED BY <1>6, <1>7, <1>8

(***************************************************************************)
(* The steps of the UI thread and of the search thread.                    *)
(***************************************************************************)
LEMMA EventStep == Placed /\ Placed' /\ Event => Step
<1> SUFFICES ASSUME Placed, Placed', Event PROVE Step
  OBVIOUS
<1>1. Quiet
  BY EventKeeps DEF Quiet
<1> QED BY <1>1, QuietStep

\* What a thread inserts it had in hand.
LEMMA InsertStep ==
    ASSUME Placed, Placed', UNCHANGED <<exTask, posted, nextId, cancelled>>,
           NEW t \in Task, NEW j \in Nat, InsertAt(j, t),
           (uiTask = t /\ uiTask' = NoTask /\ UNCHANGED seTask)
           \/ (seTask = t /\ seTask' = NoTask /\ UNCHANGED uiTask),
           UNCHANGED <<exPc, exOk>> \/ (exPc = "waiting" /\ exPc' = "loop")
    PROVE  Step
<1>1. t # NoTask
  BY ConstantsAssumption
<1>2. PICK s \in Nat : \A l \in Slots' :
          (l = s /\ tasks'[l] = t) \/ (l # s /\ l \in Slots /\ tasks'[l] = tasks[l])
  BY InsertAtAt DEF Placed, Typed
<1>3. exPc' = "take" <=> exPc = "take"
  OBVIOUS
<1>4. ASSUME NEW i \in Id, Requested(i)' PROVE Requested(i)
  <2>1. CASE Chosen(i)'
    BY <1>3, <2>1 DEF Requested, Chosen
  <2>2. ASSUME NEW k \in {"ui", "search"}, NEW x, At(i, k, x)' PROVE Requested(i)
    <3>1. At(i, k, x)
      BY <2>2 DEF At
    <3> QED BY <3>1 DEF Requested
  <2>3. ASSUME NEW x, At(i, "slot", x)' PROVE Requested(i)
    <3>1. CASE tasks'[x] = t
      <4>1. At(i, "ui", 0) \/ At(i, "search", 0)
        BY <1>1, <2>3, <3>1 DEF At
      <4> QED BY <4>1 DEF Requested
    <3>2. CASE x \in Slots /\ tasks'[x] = tasks[x]
      <4>1. At(i, "slot", x)
        BY <2>3, <3>2 DEF At
      <4> QED BY <4>1 DEF Requested
    <3> QED BY <1>2, <2>3, <3>1, <3>2 DEF At
  <2> QED BY <1>4, <2>1, <2>2, <2>3 DEF Requested
<1>5. exPc = "waiting" => exTask = NoTask
  BY DEF Placed, Hands
<1> QED BY <1>4, <1>5, LoseStep

\* A thread that clears a slot loses at most the task that is in it.
LEMMA ClearStep ==
    ASSUME Placed, Placed', UNCHANGED <<uiTask, seTask, exTask, posted, nextId, cancelled, exOk>>,
           NEW j, NEW t, ClearSlot(j, t), UNCHANGED exPc \/ (exPc = "finishClear" /\ exPc' = "publish")
    PROVE  Step
<1>1. ASSUME NEW i \in Id PROVE Requested(i)' => Requested(i)
  <2>1. \A k, x : At(i, k, x)' => At(i, k, x) \/ k \in {"executor", "posted"}
    BY ClearSlotAt DEF At, Placed, Typed
  <2>2. Chosen(i)' => Chosen(i)
    BY DEF Chosen
  <2> QED BY <2>1, <2>2 DEF Requested
<1>2. TakenStage' = TakenStage
  BY DEF TakenStage, Closing
<1> QED BY <1>1, <1>2, LoseStep

LEMMA RunPostedStep ==
    ASSUME Placed, Placed', NEW hidden \in SUBSET Node, RunPosted(hidden)
    PROVE  Step
<1>1. /\ UNCHANGED <<tasks, uiTask, seTask, exVars, nextId, cancelled>>
      /\ posted # <<>> /\ posted' = Tail(posted) /\ posted \in Seq(Posted)
  BY DEF RunPosted, Placed, Typed, TypeOK
<1>2. /\ Len(posted) \in Nat /\ Len(posted) > 0 /\ Len(posted') = Len(posted) - 1
      /\ \A j \in 1..Len(posted') : posted'[j] = posted[j + 1]
      /\ posted[1] \in Posted
  BY <1>1
<1>3. ASSUME NEW i \in Id, ~At(i, "posted", 1) PROVE SameStage(i)
  <2>1. \A k, x : k # "posted" => (At(i, k, x)' <=> At(i, k, x))
    BY <1>1 DEF At, Slots
  <2>2. \A x : At(i, "posted", x)' => At(i, "posted", x + 1)
    BY <1>2 DEF At
  <2>3. \A x : At(i, "posted", x) => x # 1 /\ At(i, "posted", x - 1)'
    BY <1>2, <1>3 DEF At
  <2>4. (Chosen(i)' <=> Chosen(i)) /\ TakenStage' = TakenStage
    BY <1>1 DEF Chosen, TakenStage, Closing
  <2>5. Shown(i)' <=> Shown(i)
    BY <2>2, <2>3 DEF Shown
  <2>6. (Requested(i)' <=> Requested(i)) /\ (Taken(i)' <=> Taken(i))
    BY <2>1, <2>4 DEF Requested, Taken
  <2> QED BY <1>1, <2>4, <2>5, <2>6, Stays DEF SamePlace
<1>4. CASE \A i \in Id : ~At(i, "posted", 1)
  <2>1. cancelled' \subseteq Id
    BY DEF Placed, Typed, TypeOK
  <2> QED BY <1>1, <1>3, <1>4, <2>1, CancelStep
<1>5. ASSUME NEW i \in Id, At(i, "posted", 1) PROVE Step
  <2>0. Place(i)
    BY DEF Placed
  <2>1. \A k, x : At(i, k, x) => k = "posted" /\ x = 1
    BY <1>5, <2>0 DEF Place
  <2>2. ~Chosen(i) /\ i < nextId
    BY <1>5, <2>0 DEF Place
  <2>3. \A k, x : k # "posted" => (At(i, k, x)' <=> At(i, k, x))
    BY <1>1 DEF At, Slots
  <2>4. \A x : At(i, "posted", x)' => x \in Int /\ x >= 1 /\ At(i, "posted", x + 1)
    BY <1>2 DEF At
  <2>5. \A k, x : ~At(i, k, x)'
    BY <2>1, <2>3, <2>4
  <2>6. ~Chosen(i)' /\ i < nextId'
    BY <1>1, <2>2 DEF Chosen
  <2>7. StageOf(i)' = "gone"
    BY <2>5, <2>6, AllLocatedNext DEF Located, Requested, Taken, Shown
  <2>8. StageOf(i) = "posted"
    BY <1>5, AllLocated DEF Located, Shown
  <2>9. \A j \in Id : j # i => ~At(j, "posted", 1)
    BY <1>5 DEF At
  <2>10. Contract!Drop(i)
    BY <1>1, <1>3, <2>7, <2>8, <2>9, MoveStep DEF Contract!Drop
  <2> QED BY <2>10 DEF Step, Contract!Next
<1> QED BY <1>4, <1>5

LEMMA UiStepStep == Placed /\ Placed' /\ (UiStep \/ Recycle) => Step
<1> SUFFICES ASSUME Placed, Placed', UiStep \/ Recycle PROVE Step
  OBVIOUS
<1>1. ASSUME NEW hidden \in SUBSET Node, RunPosted(hidden) PROVE Step
  BY <1>1, RunPostedStep
<1>2. CASE \/ \E n \in Node : StopCall(n) \/ RecycleTask(n)
           \/ RetireOld \/ Recycle \/ RecycleHolders \/ RecycleFails \/ CloseDocument \/ PutTask
  <2>1. Quiet
    BY <1>2 DEF Quiet, StopCall, RecycleTask, RetireOld, Retire, Recycle, RecycleHolders, RecycleFails,
       CloseDocument, PutTask
  <2> QED BY <2>1, QuietStep
<1>3. ASSUME NEW n \in Node, DecodeCall(n) PROVE Step
  <2>1. /\ nextId \in Id /\ nextId' = nextId + 1 /\ uiPc = "idle" /\ UNCHANGED seTask
        /\ UNCHANGED <<tasks, posted, exVars, cancelled>>
        /\ UNCHANGED uiTask \/ uiTask' = NewTask(2, n, zoom)
    BY <1>3 DEF DecodeCall
  <2>2. NewTask(2, n, zoom).id = nextId /\ uiTask = NoTask
    BY <2>1 DEF NewTask, Placed, Hands
  <2> QED BY <2>1, <2>2, CreateStep
<1>4. CASE InsertTask
  <2>1. uiTask \in Task /\ uiSlot \in Nat /\ uiTask' = NoTask
    BY <1>4 DEF InsertTask, Placed, Typed, Locals, TypeOK
  <2>2. /\ UNCHANGED <<exTask, exOk, posted, nextId, seTask, cancelled>> /\ InsertAt(uiSlot, uiTask)
        /\ UNCHANGED exPc \/ (exPc = "waiting" /\ exPc' = "loop")
    BY <1>4 DEF InsertTask, Notify
  <2> QED BY <2>1, <2>2, InsertStep
<1>5. CASE ClearOld
  <2>1. /\ ClearSlot(uiSlot, uiOld)
        /\ UNCHANGED <<uiTask, seTask, exVars, posted, nextId, cancelled>>
    BY <1>5 DEF ClearOld
  <2> QED BY <2>1, ClearStep
<1>6. CASE StopRun
  <2>1. /\ UNCHANGED <<tasks, uiTask, seTask, exTask, exOk, posted, nextId, cancelled>>
        /\ UNCHANGED exPc \/ (exPc = "waiting" /\ exPc' = "loop")
    BY <1>6 DEF StopRun, Notify
  <2>2. Quiet
    BY <2>1 DEF Quiet, Placed, Hands
  <2> QED BY <2>2, QuietStep
<1>7. CASE RecyclePages
  <2>1. Quiet
    BY <1>7, ProcessKeeps DEF RecyclePages, Quiet
  <2> QED BY <2>1, QuietStep
<1> QED BY <1>1, <1>2, <1>3, <1>4, <1>5, <1>6, <1>7 DEF UiStep

LEMMA AddAnyStep == ASSUME Placed, Placed', NEW prio \in UserPrio, AddAny(prio) PROVE Step
<1>1. /\ nextId \in Id /\ nextId' = nextId + 1 /\ uiTask' = NewTask(prio, NoNode, 0)
      /\ UNCHANGED <<tasks, seTask, exVars, posted, cancelled>> /\ uiPc = "idle"
  BY DEF AddAny, Active, UiFree
<1>2. NewTask(prio, NoNode, 0).id = nextId /\ uiTask = NoTask
  BY <1>1 DEF NewTask, Placed, Hands
<1> QED BY <1>1, <1>2, CreateStep

LEMMA SearchStep == Placed /\ Placed' /\ (SearchFind \/ SearchInsert) => Step
<1> SUFFICES ASSUME Placed, Placed', SearchFind \/ SearchInsert PROVE Step
  OBVIOUS
<1>1. CASE SearchFind
  <2>1. /\ nextId' = nextId + 1 /\ seTask' = NewTask(0, NoNode, 0) /\ seTask = NoTask
        /\ UNCHANGED <<tasks, uiTask, exVars, posted, cancelled>>
    BY <1>1 DEF SearchFind
  <2>2. nextId \in Id
    BY <1>1, ConstantsAssumption DEF SearchFind, Placed, Typed, TypeOK, Id
  <2>3. NewTask(0, NoNode, 0).id = nextId
    BY DEF NewTask
  <2> QED BY <2>1, <2>2, <2>3, CreateStep
<1>2. CASE SearchInsert
  <2>1. seTask \in Task /\ seSlot \in Nat /\ seTask' = NoTask
    BY <1>2 DEF SearchInsert, Placed, Typed, TypeOK, Task
  <2>2. /\ UNCHANGED <<exTask, exOk, posted, nextId, uiTask, cancelled>> /\ InsertAt(seSlot, seTask)
        /\ UNCHANGED exPc \/ (exPc = "waiting" /\ exPc' = "loop")
    BY <1>2 DEF SearchInsert, Notify
  <2> QED BY <2>1, <2>2, InsertStep
<1> QED BY <1>1, <1>2

(***************************************************************************)
(* The steps of the executor.                                              *)
(***************************************************************************)
\* The executor lets go of the task in hand, or passes a check with it.
LEMMA TaskStep ==
    ASSUME Placed, Placed', UNCHANGED <<tasks, uiTask, seTask, nextId, cancelled>>,
           exPc \notin {"take", "loop", "scan", "reset", "wait", "waiting", "exited"}, exPc' # "take",
           NEW i \in Id, exTask # NoTask, exTask.id = i,
           \A j \in Id : j # i => (Shown(j)' <=> Shown(j)),
           UNCHANGED exTask \/ exTask' = NoTask
    PROVE  /\ StageOf(i) = TakenStage
           /\ UNCHANGED exTask => StageOf(i)' = TakenStage'
           /\ exTask' = NoTask /\ UNCHANGED posted => StageOf(i)' = "gone"
           /\ \A j \in Id : j # i => SameStage(j)
<1>0. At(i, "executor", 0)
  BY DEF At
<1>1. Taken(i) /\ StageOf(i) = TakenStage /\ ~Requested(i) /\ ~Shown(i) /\ i < nextId
  BY <1>0, AllLocated DEF Located, Taken, Placed, Place
<1>2. UNCHANGED exTask => StageOf(i)' = TakenStage'
  <2>1. UNCHANGED exTask => Taken(i)'
    BY DEF Taken, At
  <2> QED BY <2>1, AllLocatedNext DEF Located
<1>3. \A j \in Id : Requested(j)' <=> Requested(j)
  <2>1. \A j \in Id : \A k, x : k \in {"slot", "ui", "search"} => (At(j, k, x)' <=> At(j, k, x))
    BY DEF At, Slots
  <2>2. \A j \in Id : ~Chosen(j) /\ ~Chosen(j)'
    BY DEF Chosen
  <2> QED BY <2>1, <2>2 DEF Requested
<1>4. exTask' = NoTask /\ UNCHANGED posted => StageOf(i)' = "gone"
  <2>1. exTask' = NoTask => ~Taken(i)'
    BY DEF Taken, At
  <2>2. UNCHANGED posted => (Shown(i)' <=> Shown(i))
    BY DEF Shown, At
  <2> QED BY <1>1, <1>3, <2>1, <2>2, AllLocatedNext DEF Located
<1>5. ASSUME NEW j \in Id, j # i PROVE SameStage(j)
  <2>1. ~Taken(j) /\ ~Taken(j)'
    BY <1>5 DEF Taken, At
  <2> QED BY <1>3, <1>5, <2>1, Stays DEF SamePlace
<1> QED BY <1>1, <1>2, <1>4, <1>5

LEMMA TakeStep == Placed /\ Placed' /\ Take => Step
<1> SUFFICES ASSUME Placed, Placed', Take PROVE Step
  OBVIOUS
<1>1. /\ exPc = "take" /\ exPc' \in {"start", "runAny"} /\ ClearSlot(exSlot, exTask)
      /\ UNCHANGED <<uiTask, seTask, exTask, posted, nextId, cancelled>>
      /\ exTask \in Task /\ exTask # NoTask
  BY ConstantsAssumption DEF Take, Placed, Typed, Locals
<1>2. PICK i \in Id : exTask.id = i
  BY <1>1 DEF Task, DecodeTask, AnyTask
<1>3. Chosen(i) /\ Taken(i)' /\ TakenStage' = "started"
  BY <1>1, <1>2 DEF Chosen, Taken, At, TakenStage, Closing
<1>4. StageOf(i) = "requested"
  BY <1>3, AllLocated DEF Located, Requested
<1>5. StageOf(i)' = "started"
  BY <1>3, AllLocatedNext DEF Located
<1>6. ASSUME NEW j \in Id
      PROVE  ~Taken(j) /\ StageOf(j) \notin {"started", "committed", "failed"}
  <2>1. ~Taken(j)
    BY <1>1 DEF Taken, At
  <2>2. nextId \in Int /\ j \in Int
    BY DEF Placed, Typed, TypeOK, Id
  <2> QED BY <2>1, <2>2, AllLocated DEF Located
<1>7. ASSUME NEW j \in Id, j # i
      PROVE  SameStage(j) \/ (StageOf(j) = "requested" /\ StageOf(j)' = "gone")
  <2>1. \A k, x : At(j, k, x)' => At(j, k, x) \/ k \in {"executor", "posted"}
    BY <1>1, ClearSlotAt DEF At, Placed, Typed
  <2>2. ~Chosen(j) /\ ~Chosen(j)' /\ ~Taken(j)'
    BY <1>1, <1>2, <1>7 DEF Chosen, Taken, At
  <2>3. Shown(j)' <=> Shown(j)
    BY <1>1 DEF Shown, At
  <2>4. Requested(j)' => Requested(j)
    BY <2>1, <2>2 DEF Requested
  <2> QED BY <1>1, <1>6, <2>2, <2>3, <2>4, Forgotten
<1> QED BY <1>1, <1>4, <1>5, <1>6, <1>7, StartStep

LEMMA ScanStep == Placed /\ Placed' /\ Scan => Step
<1> SUFFICES ASSUME Placed, Placed', Scan PROVE Step
  OBVIOUS
<1>1. /\ exPc = "scan" /\ exTask = NoTask
      /\ UNCHANGED <<tasks, uiTask, seTask, posted, nextId, cancelled, exOk>>
  BY DEF Scan, Placed, Hands
<1>2. CASE UNCHANGED exTask /\ exPc' \in {"reset", "wait"}
  <2>1. Quiet
    BY <1>1, <1>2 DEF Quiet
  <2> QED BY <2>1, QuietStep
<1>3. ASSUME NEW h \in Slots, Best(h), exTask' = tasks[h], exPc' = "take"
      PROVE  Step
  <2>1. ASSUME NEW i \in Id PROVE SamePlace(i)
    <3>1. \A k, x : k # "executor" => (At(i, k, x)' <=> At(i, k, x))
      BY <1>1 DEF At, Slots
    <3>2. ~Taken(i) /\ ~Taken(i)' /\ ~Chosen(i)
      BY <1>1, <1>3 DEF Taken, At, Chosen
    <3>3. Chosen(i)' => At(i, "slot", h)
      BY <1>3 DEF Chosen, At, Best
    <3> QED BY <3>1, <3>2, <3>3 DEF SamePlace, Requested, Shown
  <2>2. \A i \in Id : SameStage(i)
    BY <1>1, <2>1, Stays
  <2>3. cancelled' \subseteq Id
    BY DEF Placed, Typed, TypeOK
  <2> QED BY <1>1, <2>2, <2>3, CancelStep
<1> QED BY <1>2, <1>3 DEF Scan

LEMMA PublishStep == Placed /\ Placed' /\ Publish => Step
<1> SUFFICES ASSUME Placed, Placed', Publish PROVE Step
  OBVIOUS
<1>1. /\ exPc = "publish" /\ exTask \in DecodeTask /\ exTask # NoTask
      /\ UNCHANGED <<tasks, uiTask, seTask, nextId, cancelled>>
  BY ConstantsAssumption DEF Publish, Placed, Typed, Locals, Task
<1>2. PICK i \in Id : exTask.id = i
  BY <1>1 DEF DecodeTask
<1>3. CASE exOk /\ exPc' = "finish" /\ exOk' = FALSE /\ UNCHANGED <<exTask, posted>>
  <2>1. \A j \in Id : j # i => (Shown(j)' <=> Shown(j))
    BY <1>3 DEF Shown, At
  <2>2. /\ StageOf(i) = "committed" /\ StageOf(i)' = "failed"
        /\ \A j \in Id : j # i => SameStage(j)
    BY <1>1, <1>2, <1>3, <2>1, TaskStep DEF TakenStage, Closing
  <2>3. Contract!Fail(i)
    BY <1>1, <2>2, MoveStep DEF Contract!Fail
  <2> QED BY <2>3 DEF Step, Contract!Next
<1>4. ASSUME NEW z \in (IF exOk THEN {exTask.zoom, 0} ELSE {0}),
             posted' = Append(posted, [id |-> exTask.id, node |-> exTask.node, zoom |-> z]),
             exTask' = NoTask, exPc' = "loop"
      PROVE  Step
  <2>1. /\ Len(posted) \in Nat /\ Len(posted') = Len(posted) + 1
        /\ \A j \in 1..Len(posted) : posted'[j] = posted[j]
        /\ posted'[Len(posted) + 1].id = i /\ posted'[Len(posted) + 1].zoom = z
    BY <1>2, <1>4, AppendProperties DEF Placed, Typed, TypeOK
  <2>2. \A j \in Id : \A x : At(j, "posted", x) => At(j, "posted", x)'
    BY <2>1 DEF At
  <2>3. \A j \in Id : \A x : At(j, "posted", x)' => At(j, "posted", x) \/ (x = Len(posted) + 1 /\ j = i /\ z # 0)
    BY <2>1 DEF At
  <2>4. \A j \in Id : j # i \/ z = 0 => (Shown(j)' <=> Shown(j))
    BY <2>2, <2>3 DEF Shown
  <2>5. /\ StageOf(i) = TakenStage /\ TakenStage \in {"committed", "failed"}
        /\ \A j \in Id : j # i => SameStage(j)
    BY <1>1, <1>2, <1>4, <2>4, TaskStep DEF TakenStage, Closing
  <2>6. At(i, "executor", 0) /\ Located(i) /\ Located(i)' /\ Place(i)
    BY <1>1, <1>2, AllLocated, AllLocatedNext DEF At, Placed
  <2>7. CASE z = 0
    <3>1. ~Requested(i) /\ ~Shown(i) /\ i < nextId
      BY <2>6 DEF Located, Taken, Place
    <3>2. ~Taken(i)' /\ ~Shown(i)' /\ ~Chosen(i)'
      BY <1>4, <2>4, <2>7, <3>1 DEF Taken, At, Chosen
    <3>3. \A k, x : k \in {"slot", "ui", "search"} => (At(i, k, x)' <=> At(i, k, x))
      BY <1>1 DEF At, Slots
    <3>4. ~Requested(i)'
      BY <3>1, <3>2, <3>3 DEF Requested
    <3>5. StageOf(i)' = "gone"
      BY <1>1, <2>6, <3>1, <3>2, <3>4 DEF Located
    <3>6. Contract!Drop(i)
      BY <1>1, <2>5, <3>5, MoveStep DEF Contract!Drop
    <3> QED BY <3>6 DEF Step, Contract!Next
  <2>8. CASE z # 0
    <3>0. PICK last \in Nat : last = Len(posted) + 1
      BY <2>1
    <3>1. At(i, "posted", last)'
      BY <2>1, <2>8, <3>0 DEF At
    <3>2. StageOf(i)' = "posted"
      BY <2>6, <3>1 DEF Located, Shown
    <3>3. StageOf(i) = "committed"
      BY <1>1, <1>4, <2>5, <2>8 DEF TakenStage, Closing
    <3>4. Contract!Post(i)
      BY <1>1, <2>5, <3>2, <3>3, MoveStep DEF Contract!Post
    <3> QED BY <3>4 DEF Step, Contract!Next
  <2> QED BY <2>7, <2>8
<1> QED BY <1>3, <1>4 DEF Publish, ExDrop

LEMMA DecodeStep ==
    Placed /\ Placed' /\ (RunAny \/ Start \/ FetchPage \/ Render) => Step
<1> SUFFICES ASSUME Placed, Placed', RunAny \/ Start \/ FetchPage \/ Render PROVE Step
  OBVIOUS
<1>1. /\ exPc \in {"runAny", "start", "page", "render"} /\ exPc' # "take"
      /\ exTask \in Task /\ exTask # NoTask
      /\ UNCHANGED <<tasks, uiTask, seTask, nextId, cancelled, posted>>
      /\ UNCHANGED exTask \/ exTask' = NoTask
  BY ConstantsAssumption DEF RunAny, Start, FetchPage, Render, ExDrop, ExGoto, Placed, Typed, Locals, Task
<1>2. PICK i \in Id : exTask.id = i
  BY <1>1 DEF Task, DecodeTask, AnyTask
<1>3. \A j \in Id : j # i => (Shown(j)' <=> Shown(j))
  BY <1>1 DEF Shown, At
<1>4. /\ StageOf(i) = "started" /\ \A j \in Id : j # i => SameStage(j)
      /\ UNCHANGED exTask => StageOf(i)' = TakenStage'
      /\ exTask' = NoTask => StageOf(i)' = "gone"
  BY <1>1, <1>2, <1>3, TaskStep DEF TakenStage, Closing
<1>5. CASE exTask' = NoTask
  <2>1. Contract!Drop(i)
    BY <1>1, <1>4, <1>5, MoveStep DEF Contract!Drop
  <2> QED BY <2>1 DEF Step, Contract!Next
<1>6. CASE UNCHANGED exTask /\ exPc' \in {"page", "render"}
  <2>1. \A j \in Id : SameStage(j)
    BY <1>4, <1>6 DEF SameStage, TakenStage, Closing
  <2>2. cancelled' \subseteq Id
    BY DEF Placed, Typed, TypeOK
  <2> QED BY <1>1, <2>1, <2>2, CancelStep
<1>7. CASE UNCHANGED exTask /\ exPc' = "finish" /\ exOk' = FALSE
  <2>1. StageOf(i)' = "failed"
    BY <1>4, <1>7 DEF TakenStage, Closing
  <2>2. Contract!Fail(i)
    BY <1>1, <1>4, <2>1, MoveStep DEF Contract!Fail
  <2> QED BY <2>2 DEF Step, Contract!Next
<1>8. CASE UNCHANGED exTask /\ exPc' = "finish" /\ exOk' = TRUE /\ ~Dead(exTask)
  <2>1. StageOf(i)' = "committed"
    BY <1>4, <1>8 DEF TakenStage, Closing
  <2>2. i \notin cancelled
    BY <1>2, <1>8 DEF Dead
  <2>3. Contract!Commit(i)
    BY <1>1, <1>4, <2>1, <2>2, MoveStep DEF Contract!Commit
  <2> QED BY <2>3 DEF Step, Contract!Next
<1> QED BY <1>5, <1>6, <1>7, <1>8 DEF RunAny, Start, FetchPage, Render, ExDrop, ExGoto

LEMMA ExStepStep == Placed /\ Placed' /\ ExStep => Step
<1> SUFFICES ASSUME Placed, Placed', ExStep PROVE Step
  OBVIOUS
<1>1. CASE Loop \/ Wait \/ Timeout
  <2>1. Quiet
    BY <1>1 DEF Quiet, Loop, Wait, Timeout, Placed, Hands
  <2> QED BY <2>1, QuietStep
<1>2. CASE ResetList
  <2>1. /\ tasks' = <<>> /\ exPc = "reset" /\ exPc' = "loop" /\ exTask = NoTask
        /\ UNCHANGED <<uiTask, seTask, exTask, posted, nextId, cancelled, exOk>>
    BY <1>2 DEF ResetList, Placed, Hands
  <2>2. ASSUME NEW i \in Id PROVE Requested(i)' => Requested(i)
    <3>1. \A k, x : k \in {"slot", "ui", "search"} /\ At(i, k, x)' => At(i, k, x)
      BY <2>1 DEF At, Slots
    <3>2. ~Chosen(i)'
      BY <2>1 DEF Chosen
    <3> QED BY <3>1, <3>2 DEF Requested
  <2> QED BY <2>1, <2>2, LoseStep
<1>3. CASE Finish
  <2>1. Quiet
    BY <1>3 DEF Quiet, Finish, Retire, TakenStage, Closing
  <2> QED BY <2>1, QuietStep
<1>4. CASE FinishClear
  <2>1. /\ ClearSlot(exSlot, NoTask) /\ exPc = "finishClear" /\ exPc' = "publish"
        /\ UNCHANGED <<uiTask, seTask, exTask, posted, nextId, cancelled, exOk>>
    BY <1>4 DEF FinishClear
  <2> QED BY <2>1, ClearStep
<1> QED BY <1>1, <1>2, <1>3, <1>4, ScanStep, TakeStep, DecodeStep, PublishStep DEF ExStep

LEMMA NextStep == Placed /\ Placed' /\ [Next]_vars => Step
<1> SUFFICES ASSUME Placed, Placed', [Next]_vars PROVE Step
  OBVIOUS
<1>1. CASE UNCHANGED vars \/ Ended
  <2>1. Quiet
    BY <1>1 DEF Ended, vars, Quiet
  <2> QED BY <2>1, QuietStep
<1> QED BY <1>1, EventStep, UiStepStep, AddAnyStep, SearchStep, ExStepStep DEF Next

LEMMA InitContract == Init => Contract!Init
<1> SUFFICES ASSUME Init PROVE Contract!Init
  OBVIOUS
<1>1. \A i \in Id : StageOf(i) = "none"
  BY ConstantsAssumption DEF Init, StageOf, Id
<1> QED BY <1>1 DEF Init, Contract!Init

\* Whatever the interleaving of the three threads, the service starts a task at most
\* once and one task at a time, and posts no result of a task that was cancelled
\* before its last check.
THEOREM Implements == Spec => ImplementsContract
<1>1. Placed /\ [Next]_vars => Placed'
  BY NextPlaced
<1>2. Placed /\ Placed' /\ [Next]_vars => [Contract!Next]_(Contract!vars)
  BY NextStep DEF Step
<1> QED BY <1>1, <1>2, InitPlaced, InitContract, PTL DEF Spec, ImplementsContract, Contract!Spec
=============================================================================
