------------------------- MODULE AnnotationsProofs -------------------------
(***************************************************************************)
(* Proofs about the annotations, for any number of strokes and marks:      *)
(* their types (TypeOK); a book closed through the dialog loses nothing    *)
(* that was in its document when the reader asked to leave, unless the     *)
(* reader said No or MuPDF could not write (AskedBeforeLoss); with         *)
(* auto-save on, a mark is in the file once the service has come to rest   *)
(* (MarksAutoSaved).                                                       *)
(***************************************************************************)
EXTENDS Annotations, SequenceTheorems, TLAPS

\* What RemoveAt leaves of a sequence was in it before.
LEMMA RemoveAtIn ==
    ASSUME NEW S, NEW s \in Seq(S), NEW i \in 1..Len(s)
    PROVE  /\ RemoveAt(s, i) \in Seq(S)
           /\ \A j \in 1..Len(RemoveAt(s, i)) : \E k \in 1..Len(s) : RemoveAt(s, i)[j] = s[k]
<1> DEFINE a == SubSeq(s, 1, i - 1)
           b == SubSeq(s, i + 1, Len(s))
<1>0. Len(s) \in Nat /\ i \in Int /\ 1 <= i /\ i <= Len(s)
  OBVIOUS
<1>1. /\ a \in Seq(S) /\ Len(a) = i - 1
      /\ \A j \in 1..(i - 1) : a[j] = s[j]
  OBVIOUS
<1>2. /\ b \in Seq(S) /\ Len(b) = Len(s) - i
      /\ \A j \in 1..(Len(s) - i) : b[j] = s[j + i]
  OBVIOUS
<1>3. RemoveAt(s, i) = a \o b
  BY DEF RemoveAt
<1> HIDE DEF a, b
<1>4. a \o b \in Seq(S) /\ Len(a \o b) = Len(s) - 1
  <2>1. a \o b \in Seq(S)
    BY <1>1, <1>2, ConcatProperties
  <2>2. Len(a \o b) = Len(a) + Len(b)
    BY <1>1, <1>2, ConcatProperties
  <2> QED BY <2>1, <2>2, <1>0, <1>1, <1>2
<1>5. ASSUME NEW j \in 1..(Len(s) - 1)
      PROVE  \E k \in 1..Len(s) : (a \o b)[j] = s[k]
  <2>1. CASE j \in 1..(i - 1)
    <3>1. (a \o b)[j] = s[j] /\ j \in 1..Len(s)
      BY <2>1, <1>0, <1>1, <1>2
    <3> QED BY <3>1
  <2>2. CASE j \in i..(Len(s) - 1)
    <3>1. (a \o b)[j] = b[j - (i - 1)]
      BY <2>2, <1>1, <1>2
    <3>2. b[j - (i - 1)] = s[j + 1] /\ j + 1 \in 1..Len(s)
      BY <2>2, <1>2
    <3> QED BY <3>1, <3>2
  <2>3. j \in 1..(i - 1) \/ j \in i..(Len(s) - 1)
    BY <1>0
  <2> QED BY <2>1, <2>2, <2>3
<1> QED BY <1>3, <1>4, <1>5

\* Where in the shorter sequence an element is found again.
LEMMA RemoveAtShift ==
    ASSUME NEW S, NEW s \in Seq(S), NEW i \in 1..Len(s)
    PROVE  /\ Len(RemoveAt(s, i)) = Len(s) - 1
           /\ \A j \in 1..(i - 1) : RemoveAt(s, i)[j] = s[j]
           /\ \A j \in i..(Len(s) - 1) : RemoveAt(s, i)[j] = s[j + 1]
<1> DEFINE a == SubSeq(s, 1, i - 1)
           b == SubSeq(s, i + 1, Len(s))
<1>0. Len(s) \in Nat /\ i \in Int /\ 1 <= i /\ i <= Len(s)
  OBVIOUS
<1>1. /\ a \in Seq(S) /\ Len(a) = i - 1
      /\ \A j \in 1..(i - 1) : a[j] = s[j]
  OBVIOUS
<1>2. /\ b \in Seq(S) /\ Len(b) = Len(s) - i
      /\ \A j \in 1..(Len(s) - i) : b[j] = s[j + i]
  OBVIOUS
<1>3. RemoveAt(s, i) = a \o b
  BY DEF RemoveAt
<1> HIDE DEF a, b
<1>4. Len(a \o b) = Len(s) - 1
  <2>1. Len(a \o b) = Len(a) + Len(b)
    BY <1>1, <1>2, ConcatProperties
  <2> QED BY <2>1, <1>0, <1>1, <1>2
<1>5. ASSUME NEW j \in 1..(i - 1) PROVE (a \o b)[j] = s[j]
  BY <1>0, <1>1, <1>2
<1>6. ASSUME NEW j \in i..(Len(s) - 1) PROVE (a \o b)[j] = s[j + 1]
  <2>1. (a \o b)[j] = b[j - (i - 1)]
    BY <1>0, <1>1, <1>2
  <2>2. b[j - (i - 1)] = s[j + 1]
    BY <1>0, <1>2
  <2> QED BY <2>1, <2>2
<1> QED BY <1>3, <1>4, <1>5, <1>6

(***************************************************************************)
(* The inductive invariant of AskedBeforeLoss.                             *)
(***************************************************************************)
\* The save task of the dialog exists only once the reader has said Yes.
SaysYes(t) == t.kind = "saveAndClose" => answer = "yes"

Tasks ==
    /\ queue \in Seq(Task)
    /\ \A k \in 1..Len(queue) : SaysYes(queue[k])
    /\ exTask # NoTask => SaysYes(exTask)

\* The reader answers once, and only a book that is being closed is closed.
Dialog ==
    /\ ui = "dialog" => answer = "none"
    /\ closing => answer # "none"
    /\ ~open => closing

\* What the file must hold, given what was asked, answered and written.
Saved ==
    /\ ~dirty => file = doc
    /\ docThen \subseteq doc
    /\ answer = "clean" => docThen \subseteq file
    /\ answer = "yes" /\ closing /\ ~failed => docThen \subseteq file

Asked == Tasks /\ Dialog /\ Saved

LEMMA AskedInit == Init => Asked
  BY DEF Init, Asked, Tasks, Dialog, Saved

\* The tasks of the UI thread are put at the end of the queue.
LEMMA AppendTask ==
    ASSUME Tasks, NEW kind \in Kind, NEW edits \in SUBSET Edit,
           queue' = Append(queue, NewTask(kind, edits)),
           UNCHANGED exTask,
           answer' = answer \/ (answer' = "yes" /\ answer = "none"),
           kind = "saveAndClose" => answer' = "yes"
    PROVE  Tasks'
<1>1. NewTask(kind, edits) \in Task /\ NewTask(kind, edits).kind = kind
  BY DEF NewTask, Task
<1>2. queue' \in Seq(Task) /\ Len(queue') = Len(queue) + 1
  BY <1>1 DEF Tasks
<1>3. ASSUME NEW k \in 1..Len(queue')
      PROVE  SaysYes(queue[k])'
  <2>1. CASE k \in 1..Len(queue)
    <3>1. queue'[k] = queue[k]
      BY <2>1, <1>1 DEF Tasks
    <3>2. SaysYes(queue[k])
      BY <2>1 DEF Tasks
    <3> QED BY <3>1, <3>2 DEF SaysYes
  <2>2. CASE k = Len(queue) + 1
    <3>1. queue'[k] = NewTask(kind, edits)
      BY <2>2, <1>1 DEF Tasks
    <3> QED BY <3>1, <1>1 DEF SaysYes
  <2> QED BY <2>1, <2>2, <1>2 DEF Tasks
<1>4. exTask' # NoTask => SaysYes(exTask)'
  BY DEF Tasks, SaysYes
<1> QED BY <1>2, <1>3, <1>4 DEF Tasks

\* Taking a task from the queue, or finishing one, adds none.
LEMMA SameAnswer ==
    ASSUME Tasks, UNCHANGED <<queue, answer>>, exTask' \in {exTask, NoTask}
    PROVE  Tasks'
  BY DEF Tasks, SaysYes

\* The answer changes only while no task claims that it was Yes.
LEMMA FirstAnswer ==
    ASSUME Tasks, UNCHANGED <<queue, exTask>>, answer = "none"
    PROVE  Tasks'
  BY DEF Tasks, SaysYes

LEMMA AskedNext == Asked /\ [Next]_vars => Asked'
<1> SUFFICES ASSUME Asked, [Next]_vars PROVE Asked'
  OBVIOUS
<1> USE DEF Asked
<1>1. ASSUME NEW e \in Edit, NEW kind \in {"ink", "mark"}, Make(e, kind)
      PROVE  Asked'
  <2>1. Tasks'
    <3>1. kind \in Kind /\ {e} \in SUBSET Edit /\ kind # "saveAndClose"
      BY DEF Kind
    <3> QED BY <1>1, <3>1, AppendTask DEF Make, exVars
  <2>2. Dialog' /\ Saved'
    BY <1>1 DEF Make, Reading, Dialog, Saved, thenVars, docVars, fileVars
  <2> QED BY <2>1, <2>2
<1>2. CASE SaveAnnotationsToFile
  <2>1. Tasks'
    <3>1. "save" \in Kind /\ {} \in SUBSET Edit
      BY DEF Kind
    <3>2. CASE auto
      BY <1>2, <3>1, <3>2, AppendTask DEF SaveAnnotationsToFile, exVars, readerVars
    <3>3. CASE ~auto
      BY <1>2, <3>3, SameAnswer DEF SaveAnnotationsToFile, exVars, readerVars
    <3> QED BY <3>2, <3>3
  <2>2. Dialog' /\ Saved'
    BY <1>2 DEF SaveAnnotationsToFile, Dialog, Saved, readerVars, thenVars, docVars, fileVars
  <2> QED BY <2>1, <2>2
<1>3. CASE Close
  <2>1. Tasks'
    BY <1>3, FirstAnswer DEF Close, exVars
  <2>2. Dialog' /\ Saved'
    BY <1>3 DEF Close, Reading, Dialog, Saved, docVars, fileVars
  <2> QED BY <2>1, <2>2
<1>4. CASE SayYes
  <2>1. Tasks'
    <3>1. "saveAndClose" \in Kind /\ {} \in SUBSET Edit
      BY DEF Kind
    <3> QED BY <1>4, <3>1, AppendTask DEF SayYes, exVars, Dialog
  <2>2. Dialog' /\ Saved'
    BY <1>4 DEF SayYes, Dialog, Saved, thenVars, docVars, fileVars
  <2> QED BY <2>1, <2>2
<1>5. CASE SayNo
  <2>1. Tasks'
    BY <1>5, FirstAnswer DEF SayNo, exVars, Dialog
  <2>2. Dialog' /\ Saved'
    BY <1>5 DEF SayNo, Dialog, Saved, thenVars, docVars, fileVars
  <2> QED BY <2>1, <2>2
<1>6. CASE CloseFinal
  <2>1. Tasks'
    BY <1>6, FirstAnswer DEF CloseFinal, exVars
  <2>2. Dialog' /\ Saved'
    BY <1>6 DEF CloseFinal, Reading, Dialog, Saved, docVars, fileVars
  <2> QED BY <2>1, <2>2
<1>7. CASE Recycle
  <2>1. Tasks'
    BY <1>7, SameAnswer DEF Recycle, exVars, readerVars
  <2>2. Dialog' /\ Saved'
    BY <1>7 DEF Recycle, Dialog, Saved, readerVars, thenVars, docVars, fileVars
  <2> QED BY <2>1, <2>2
<1>8. CASE Take
  <2>1. PICK i \in 1..Len(queue) : exTask' = queue[i] /\ queue' = RemoveAt(queue, i)
    BY <1>8 DEF Take
  <2>2. queue \in Seq(Task) /\ answer' = answer
    BY <1>8 DEF Take, Tasks, readerVars
  <2>3. Tasks'
    <3>1. queue' \in Seq(Task)
      BY <2>1, <2>2, RemoveAtIn
    <3>2. ASSUME NEW j \in 1..Len(queue')
          PROVE  SaysYes(queue[j])'
      <4>1. PICK k \in 1..Len(queue) : queue'[j] = queue[k]
        BY <2>1, <2>2, RemoveAtIn
      <4> QED BY <4>1, <2>2 DEF Tasks, SaysYes
    <3>3. SaysYes(exTask)'
      BY <2>1, <2>2 DEF Tasks, SaysYes
    <3> QED BY <3>1, <3>2, <3>3 DEF Tasks
  <2>4. Dialog' /\ Saved'
    BY <1>8 DEF Take, Dialog, Saved, readerVars, thenVars, docVars, fileVars
  <2> QED BY <2>3, <2>4
<1>9. CASE Apply
  <2>1. Tasks'
    BY <1>9, SameAnswer DEF Apply, readerVars
  <2>2. Dialog' /\ Saved'
    BY <1>9 DEF Apply, Dialog, Saved, readerVars, thenVars, fileVars
  <2> QED BY <2>1, <2>2
<1>10. CASE CheckChanges
  <2>1. Tasks'
    BY <1>10, SameAnswer DEF CheckChanges, Respond, readerVars
  <2>2. SaysYes(exTask)
    BY <1>10 DEF CheckChanges, Tasks
  <2>3. CASE open /\ dirty
    BY <1>10, <2>1, <2>3 DEF CheckChanges, Dialog, Saved, readerVars, thenVars, docVars, fileVars
  <2>4. CASE ~(open /\ dirty)
    <3>1. Dialog'
      BY <1>10, <2>2, <2>4 DEF CheckChanges, Respond, Dialog, SaysYes, readerVars
    <3>2. Saved'
      BY <1>10, <2>2, <2>4
         DEF CheckChanges, Respond, Dialog, Saved, SaysYes, readerVars, thenVars, docVars, fileVars
    <3> QED BY <2>1, <3>1, <3>2
  <2> QED BY <2>3, <2>4
<1>11. CASE Save
  <2>1. Tasks'
    BY <1>11, SameAnswer DEF Save, Respond, readerVars
  <2>2. SaysYes(exTask)
    BY <1>11 DEF Save, Tasks
  <2>3. Dialog'
    BY <1>11, <2>2 DEF Save, Respond, Dialog, SaysYes, readerVars
  <2>4. Saved'
    BY <1>11, <2>2 DEF Save, Respond, Saved, SaysYes, readerVars, thenVars
  <2> QED BY <2>1, <2>3, <2>4
<1>12. CASE Throw
  <2>1. Tasks'
    BY <1>12, SameAnswer DEF Throw, readerVars
  <2>2. Dialog' /\ Saved'
    BY <1>12 DEF Throw, Dialog, Saved, readerVars, thenVars, docVars, fileVars
  <2> QED BY <2>1, <2>2
<1>13. CASE UNCHANGED vars
  <2>1. Tasks'
    BY <1>13, SameAnswer DEF vars, readerVars, exVars
  <2>2. Dialog' /\ Saved'
    BY <1>13 DEF vars, Dialog, Saved, readerVars, thenVars, docVars, fileVars
  <2> QED BY <2>1, <2>2
<1>14. ASSUME NEW e \in Stroke, FinishDraw(e) PROVE Asked'
  BY <1>1, <1>14 DEF FinishDraw, Edit
<1>15. ASSUME NEW e \in Mark, MarkText(e) PROVE Asked'
  BY <1>1, <1>15 DEF MarkText, Edit
<1> QED
  BY <1>2, <1>3, <1>4, <1>5, <1>6, <1>7, <1>8, <1>9, <1>10, <1>11, <1>12, <1>13, <1>14, <1>15
     DEF Next, UiStep, ExStep, Ended

\* Nothing that was in the document when the reader asked to leave through the
\* dialog is missing from the file of the closed book, unless the reader said No
\* or MuPDF could not write: for any number of strokes and marks, and any order
\* of the save tasks (onCloseActivityAdnShowInterstial, saveAnnotations).
THEOREM NothingLostUnasked == Spec => []AskedBeforeLoss
<1>1. Asked => AskedBeforeLoss
  BY DEF Asked, Dialog, Saved, AskedBeforeLoss
<1>2. Spec => []Asked
  BY AskedInit, AskedNext, PTL DEF Spec
<1> QED BY <1>1, <1>2, PTL

(***************************************************************************)
(* Types.  TypeOK is inductive once the queue is known to hold what the    *)
(* reader has made, and the question to have been asked in that order.     *)
(***************************************************************************)
Made ==
    /\ \A k \in 1..Len(queue) : queue[k].edits \subseteq made
    /\ exTask # NoTask => exTask.edits \subseteq made

Typed == TypeOK /\ Made

LEMMA TypedInit == Init => Typed
<1> SUFFICES ASSUME Init PROVE Typed
  OBVIOUS
<1>1. queue \in Seq(Task) /\ Len(queue) = 0
  BY DEF Init
<1>2. Made
  BY <1>1 DEF Init, Made
<1>3. TypeOK
  BY <1>1, Zenon DEF Init, TypeOK
<1> QED BY <1>2, <1>3 DEF Typed

LEMMA TypedAppend ==
    ASSUME Typed, NEW kind \in Kind, NEW edits \in SUBSET Edit,
           queue' = Append(queue, NewTask(kind, edits)),
           made \subseteq made', edits \subseteq made',
           UNCHANGED exTask
    PROVE  queue' \in Seq(Task) /\ Made'
<1>1. NewTask(kind, edits) \in Task /\ NewTask(kind, edits).edits = edits
  BY DEF NewTask, Task
<1>2. queue' \in Seq(Task) /\ Len(queue') = Len(queue) + 1
  BY <1>1 DEF Typed, TypeOK
<1>3. ASSUME NEW k \in 1..Len(queue')
      PROVE  queue'[k].edits \subseteq made'
  <2>1. CASE k \in 1..Len(queue)
    <3>1. queue'[k] = queue[k]
      BY <2>1, <1>1 DEF Typed, TypeOK
    <3> QED BY <2>1, <3>1 DEF Typed, Made
  <2>2. CASE k = Len(queue) + 1
    <3>1. queue'[k] = NewTask(kind, edits)
      BY <2>2, <1>1 DEF Typed, TypeOK
    <3> QED BY <3>1, <1>1
  <2> QED BY <2>1, <2>2, <1>2 DEF Typed, TypeOK
<1> QED BY <1>2, <1>3 DEF Typed, Made

LEMMA TypedNext == Typed /\ [Next]_vars => Typed'
<1> SUFFICES ASSUME Typed, [Next]_vars PROVE Typed'
  OBVIOUS
<1> USE DEF Typed
<1>1. ASSUME NEW e \in Edit, NEW kind \in {"ink", "mark"}, Make(e, kind)
      PROVE  Typed'
  <2>1. queue' \in Seq(Task) /\ Made'
    BY <1>1, TypedAppend DEF Make, exVars, Kind
  <2> QED
    BY <1>1, <2>1 DEF Make, TypeOK, thenVars, docVars, fileVars, exVars
<1>2. CASE SaveAnnotationsToFile
  <2>1. queue' \in Seq(Task) /\ Made'
    <3>1. CASE auto
      BY <1>2, <3>1, TypedAppend DEF SaveAnnotationsToFile, exVars, readerVars, Kind
    <3>2. CASE ~auto
      BY <1>2, <3>2 DEF SaveAnnotationsToFile, exVars, readerVars, TypeOK, Made
    <3> QED BY <3>1, <3>2
  <2> QED
    BY <1>2, <2>1 DEF SaveAnnotationsToFile, TypeOK, readerVars, thenVars, docVars, fileVars, exVars
<1>3. CASE Close
  BY <1>3 DEF Close, TypeOK, Made, docVars, fileVars, exVars
<1>4. CASE SayYes
  <2>1. queue' \in Seq(Task) /\ Made'
    BY <1>4, TypedAppend DEF SayYes, exVars, Kind
  <2> QED
    BY <1>4, <2>1 DEF SayYes, TypeOK, thenVars, docVars, fileVars, exVars
<1>5. CASE SayNo
  BY <1>5 DEF SayNo, TypeOK, Made, thenVars, docVars, fileVars, exVars
<1>6. CASE CloseFinal
  BY <1>6 DEF CloseFinal, TypeOK, Made, docVars, fileVars, exVars
<1>7. CASE Recycle
  BY <1>7 DEF Recycle, TypeOK, Made, readerVars, thenVars, docVars, fileVars, exVars
<1>8. CASE Take
  <2>1. PICK i \in 1..Len(queue) : exTask' = queue[i] /\ queue' = RemoveAt(queue, i)
    BY <1>8 DEF Take
  <2>2. queue \in Seq(Task) /\ made' = made
    BY <1>8 DEF Take, TypeOK, readerVars
  <2>3. queue' \in Seq(Task)
    BY <2>1, <2>2, RemoveAtIn
  <2>4. exTask' \in Task
    BY <2>1, <2>2
  <2>5. Made'
    <3>1. ASSUME NEW j \in 1..Len(queue')
          PROVE  queue'[j].edits \subseteq made'
      <4>1. PICK k \in 1..Len(queue) : queue'[j] = queue[k]
        BY <2>1, <2>2, RemoveAtIn
      <4> QED BY <4>1, <2>2 DEF Made
    <3> QED BY <2>1, <2>2, <3>1 DEF Made
  <2>6. checked' = FALSE /\ UNCHANGED <<auto, dirty, open, closing, failed, alive, ui, answer,
                                  made, doc, file, docThen, madeThen>>
    BY <1>8 DEF Take, readerVars, thenVars, docVars, fileVars
  <2>7. TypeOK'
    BY <2>3, <2>4, <2>6 DEF TypeOK
  <2> QED BY <2>5, <2>7
<1>9. CASE Apply
  BY <1>9 DEF Apply, TypeOK, Made, readerVars, thenVars, fileVars, Task
<1>10. CASE CheckChanges
  <2>1. CASE open /\ dirty
    BY <1>10, <2>1 DEF CheckChanges, TypeOK, Made, readerVars, thenVars, docVars, fileVars
  <2>2. CASE ~(open /\ dirty)
    <3>1. Respond /\ UNCHANGED <<alive, readerVars, queue, docVars, fileVars, open, checked>>
      BY <1>10, <2>2 DEF CheckChanges
    <3>2. ~checked
      BY <1>10 DEF CheckChanges
    <3> QED
      BY <3>1, <3>2 DEF Respond, TypeOK, Made, readerVars, thenVars, docVars, fileVars
  <2> QED BY <2>1, <2>2
<1>11. CASE Save
  BY <1>11 DEF Save, Respond, TypeOK, Made, readerVars, thenVars
<1>12. CASE Throw
  BY <1>12 DEF Throw, TypeOK, Made, readerVars, thenVars, docVars, fileVars
<1>13. CASE UNCHANGED vars
  BY <1>13 DEF vars, TypeOK, Made, readerVars, thenVars, docVars, fileVars, exVars
<1>14. ASSUME NEW e \in Stroke, FinishDraw(e) PROVE Typed'
  BY <1>1, <1>14 DEF FinishDraw, Edit
<1>15. ASSUME NEW e \in Mark, MarkText(e) PROVE Typed'
  BY <1>1, <1>15 DEF MarkText, Edit
<1> QED
  BY <1>2, <1>3, <1>4, <1>5, <1>6, <1>7, <1>8, <1>9, <1>10, <1>11, <1>12, <1>13, <1>14, <1>15
     DEF Next, UiStep, ExStep, Ended

\* Every reachable state is type-correct: what is in the file was in the document, and
\* what is in the document was made by the reader.
THEOREM TypeCorrect == Spec => []TypeOK
<1>1. Spec => []Typed
  BY TypedInit, TypedNext, PTL DEF Spec
<1> QED BY <1>1, PTL DEF Typed

(***************************************************************************)
(* MarksAutoSaved.                                                         *)
(***************************************************************************)
\* There is at most one save that closes the book, and the dialog waits for it.
Closes(t) == t.kind = "saveAndClose"

OneClose ==
    /\ ui # "saving" =>
          /\ \A k \in 1..Len(queue) : ~Closes(queue[k])
          /\ exTask # NoTask => ~Closes(exTask)
    /\ \A j, k \in 1..Len(queue) : Closes(queue[j]) /\ Closes(queue[k]) => j = k
    /\ exTask # NoTask /\ Closes(exTask) => \A k \in 1..Len(queue) : ~Closes(queue[k])

\* A mark is in the document, in the hands of the executor, or among the first n
\* tasks of the queue.
Here(e, n) ==
    \/ e \in doc
    \/ exTask # NoTask /\ exTask.kind = "mark" /\ e \in exTask.edits
    \/ \E j \in 1..n : queue[j].kind = "mark" /\ e \in queue[j].edits

IsSave(t) == t.kind \in {"save", "saveAndClose"}

\* A save that comes after the mark is about to be queued, queued or running.
Covered(e) ==
    \/ ui = "autoSave" /\ Here(e, Len(queue))
    \/ \E k \in 1..Len(queue) : IsSave(queue[k]) /\ Here(e, k)
    \/ exTask # NoTask /\ IsSave(exTask) /\ e \in doc

MarksCovered ==
    auto /\ open /\ alive /\ ~failed => \A e \in (made \cap Mark) \ file : Covered(e)

LEMMA OneCloseNext == Typed /\ OneClose /\ [Next]_vars => OneClose'
<1> SUFFICES ASSUME Typed, OneClose, [Next]_vars PROVE OneClose'
  OBVIOUS
<1>0. queue \in Seq(Task)
  BY DEF Typed, TypeOK
<1>a. ASSUME NEW kind, NEW edits, queue' = Append(queue, NewTask(kind, edits)),
             UNCHANGED exTask,
             kind = "saveAndClose" => ui # "saving" /\ ui' = "saving",
             ui' # "saving" => ui # "saving",
             NewTask(kind, edits) \in Task
      PROVE  OneClose'
  <2>1. /\ Len(queue') = Len(queue) + 1
        /\ \A k \in 1..Len(queue) : queue'[k] = queue[k]
        /\ queue'[Len(queue) + 1].kind = kind
    BY <1>0, <1>a DEF NewTask
  <2>2. \A k \in 1..Len(queue') : k \in 1..Len(queue) \/ k = Len(queue) + 1
    BY <1>0, <2>1
  <2> QED BY <1>a, <2>1, <2>2 DEF OneClose, Closes
<1>b. ASSUME UNCHANGED <<queue, exTask>>, ui' # "saving" => ui # "saving"
      PROVE  OneClose'
  BY <1>b DEF OneClose, Closes
<1>1. ASSUME NEW e \in Edit, NEW kind \in {"ink", "mark"}, Make(e, kind)
      PROVE  OneClose'
  <2>1. NewTask(kind, {e}) \in Task
    BY DEF NewTask, Task, Kind
  <2> QED BY <1>1, <1>a, <2>1 DEF Make, Reading, exVars
<1>2. CASE SaveAnnotationsToFile
  <2>1. NewTask("save", {}) \in Task
    BY DEF NewTask, Task, Kind
  <2> QED BY <1>2, <1>a, <1>b, <2>1 DEF SaveAnnotationsToFile, exVars
<1>3. CASE Close
  BY <1>3, <1>b DEF Close, Reading, exVars
<1>4. CASE SayYes
  <2>1. NewTask("saveAndClose", {}) \in Task
    BY DEF NewTask, Task, Kind
  <2> QED BY <1>4, <1>a, <2>1 DEF SayYes, exVars
<1>5. CASE SayNo
  BY <1>5, <1>b DEF SayNo, exVars
<1>6. CASE CloseFinal
  BY <1>6, <1>b DEF CloseFinal, Reading, exVars
<1>7. CASE Recycle
  BY <1>7, <1>b DEF Recycle, exVars
<1>8. CASE Take
  <2>1. PICK i \in 1..Len(queue) : exTask' = queue[i] /\ queue' = RemoveAt(queue, i)
    BY <1>8 DEF Take
  <2>2. /\ Len(queue') = Len(queue) - 1
        /\ \A j \in 1..(i - 1) : queue'[j] = queue[j]
        /\ \A j \in i..(Len(queue) - 1) : queue'[j] = queue[j + 1]
    BY <1>0, <2>1, RemoveAtShift
  <2>3. \A j \in 1..Len(queue') :
           \/ j \in 1..Len(queue) /\ j < i /\ queue'[j] = queue[j]
           \/ j + 1 \in 1..Len(queue) /\ j >= i /\ queue'[j] = queue[j + 1]
    BY <1>0, <2>1, <2>2
  <2>4. ui' = ui
    BY <1>8 DEF Take
  <2>5. ui' # "saving" =>
          /\ \A k \in 1..Len(queue') : ~Closes(queue'[k])
          /\ exTask' # NoTask => ~Closes(exTask')
    BY <2>1, <2>3, <2>4 DEF OneClose, Closes
  <2>6. \A j, k \in 1..Len(queue') : Closes(queue'[j]) /\ Closes(queue'[k]) => j = k
    BY <1>0, <2>1, <2>3, SMTT(30) DEF OneClose, Closes
  <2>7. Closes(exTask') => \A k \in 1..Len(queue') : ~Closes(queue'[k])
    BY <1>0, <2>1, <2>3 DEF OneClose, Closes
  <2> QED BY <2>5, <2>6, <2>7 DEF OneClose, Closes
<1>9. CASE Apply
  BY <1>9 DEF Apply, OneClose, Closes
<1>10. CASE CheckChanges
  <2>1. CASE open /\ dirty
    BY <1>10, <2>1, <1>b DEF CheckChanges
  <2>2. CASE ~(open /\ dirty)
    BY <1>10, <2>2 DEF CheckChanges, Respond, OneClose, Closes
  <2> QED BY <2>1, <2>2
<1>11. CASE Save
  BY <1>11 DEF Save, Respond, OneClose, Closes
<1>12. CASE Throw
  BY <1>12 DEF Throw, OneClose, Closes
<1>13. CASE UNCHANGED vars
  BY <1>13, <1>b DEF vars, exVars
<1>14. ASSUME NEW e \in Stroke, FinishDraw(e) PROVE OneClose'
  BY <1>1, <1>14 DEF FinishDraw, Edit
<1>15. ASSUME NEW e \in Mark, MarkText(e) PROVE OneClose'
  BY <1>1, <1>15 DEF MarkText, Edit
<1> QED
  BY <1>2, <1>3, <1>4, <1>5, <1>6, <1>7, <1>8, <1>9, <1>10, <1>11, <1>12, <1>13, <1>14, <1>15
     DEF Next, UiStep, ExStep, Ended

\* A mark that is here stays here when the queue only grows.
LEMMA HereKept ==
    ASSUME NEW e, NEW n \in Nat, NEW m \in Nat, n <= m,
           \A j \in 1..n : queue'[j] = queue[j],
           doc \subseteq doc', UNCHANGED exTask, Here(e, n)
    PROVE  Here(e, m)'
  BY DEF Here

LEMMA MarksCoveredNext ==
    Typed /\ Saved /\ OneClose /\ MarksCovered /\ [Next]_vars => MarksCovered'
<1> SUFFICES ASSUME Typed, Saved, OneClose, MarksCovered, [Next]_vars,
                    auto', open', alive', ~failed',
                    NEW e \in (made' \cap Mark) \ file'
             PROVE  Covered(e)'
  BY DEF MarksCovered
<1>0. queue \in Seq(Task) /\ Len(queue) \in Nat
  BY DEF Typed, TypeOK
\* The tasks of the UI thread are put at the end of the queue.
<1>a. ASSUME NEW t \in Task, queue' = Append(queue, t)
      PROVE  /\ Len(queue') = Len(queue) + 1 /\ queue'[Len(queue) + 1] = t
             /\ \A k \in 1..Len(queue) : queue'[k] = queue[k]
  BY <1>0, <1>a
\* What is covered otherwise than by a save yet to be queued stays so.
<1>b. ASSUME Covered(e), ui # "autoSave", UNCHANGED <<exTask, doc>>,
             Len(queue') \in Nat, Len(queue) <= Len(queue'),
             \A k \in 1..Len(queue) : queue'[k] = queue[k]
      PROVE  Covered(e)'
  <2>1. CASE \E k \in 1..Len(queue) : IsSave(queue[k]) /\ Here(e, k)
    <3>1. PICK k \in 1..Len(queue) : IsSave(queue[k]) /\ Here(e, k)
      BY <2>1
    <3>2. k \in 1..Len(queue') /\ k \in Nat /\ \A j \in 1..k : queue'[j] = queue[j]
      BY <1>0, <1>b
    <3>3. Here(e, k)'
      BY <1>b, <3>1, <3>2, HereKept
    <3>4. IsSave(queue[k])'
      BY <1>b, <3>1 DEF IsSave
    <3> QED BY <3>2, <3>3, <3>4 DEF Covered
  <2>2. CASE exTask # NoTask /\ IsSave(exTask) /\ e \in doc
    BY <1>b, <2>2 DEF Covered, IsSave
  <2> QED BY <1>b, <2>1, <2>2 DEF Covered
\* It was to be covered before, unless it is new.
<1>c. ASSUME UNCHANGED <<auto, made, file, failed, alive>>, open
      PROVE  Covered(e)
  BY <1>c DEF MarksCovered
<1>d. ASSUME UNCHANGED <<auto, made, file, failed, alive, open, queue, exTask, doc>>,
             ui # "autoSave" \/ ui' = ui
      PROVE  Covered(e)'
  <2>1. Covered(e)
    BY <1>c, <1>d
  <2> QED BY <1>d, <2>1 DEF Covered, Here, IsSave
<1>1. ASSUME NEW d \in Edit, NEW kind \in {"ink", "mark"}, Make(d, kind),
             kind = "ink" => d \in Stroke
      PROVE  Covered(e)'
  <2>1. NewTask(kind, {d}) \in Task
    BY DEF NewTask, Task, Kind
  <2>2. /\ queue' = Append(queue, NewTask(kind, {d}))
        /\ UNCHANGED <<auto, failed, alive, file, open, exTask, doc>>
        /\ ui = "idle" /\ ui' = "autoSave" /\ made' = made \cup {d}
    BY <1>1 DEF Make, Reading, exVars, docVars, fileVars
  <2>3. /\ Len(queue') = Len(queue) + 1 /\ queue'[Len(queue) + 1] = NewTask(kind, {d})
        /\ \A k \in 1..Len(queue) : queue'[k] = queue[k]
    BY <1>a, <2>1, <2>2
  <2>4. CASE e = d
    <3>1. kind = "mark"
      BY <1>1, <2>4, EditAssumption
    <3>2. Here(e, Len(queue))'
      BY <1>0, <2>3, <2>4, <3>1 DEF Here, NewTask
    <3> QED BY <2>2, <3>2 DEF Covered
  <2>5. CASE e # d
    <3>1. Covered(e)
      BY <2>2, <2>5 DEF MarksCovered
    <3> QED BY <1>0, <1>b, <2>2, <2>3, <3>1
  <2> QED BY <2>4, <2>5
<1>2. CASE SaveAnnotationsToFile
  <2>1. /\ UNCHANGED <<auto, made, failed, alive, file, open, exTask, doc>>
        /\ ui = "autoSave" /\ queue' = Append(queue, NewTask("save", {}))
    BY <1>2 DEF SaveAnnotationsToFile, readerVars, exVars, docVars, fileVars
  <2>2. NewTask("save", {}) \in Task
    BY DEF NewTask, Task, Kind
  <2>3. /\ Len(queue') = Len(queue) + 1 /\ queue'[Len(queue) + 1] = NewTask("save", {})
        /\ \A k \in 1..Len(queue) : queue'[k] = queue[k]
    BY <1>a, <2>1, <2>2
  <2>4. Covered(e)
    BY <1>c, <2>1
  <2>5. CASE Here(e, Len(queue))
    <3>1. PICK n \in Nat : n = Len(queue)
      BY <1>0
    <3>2. PICK m \in Nat : m = n + 1
      OBVIOUS
    <3>3. Here(e, n) /\ n <= m /\ \A k \in 1..n : queue'[k] = queue[k]
      BY <2>3, <2>5, <3>1, <3>2
    <3>4. Here(e, m)'
      BY <2>1, <3>3, HereKept
    <3>5. m \in 1..Len(queue') /\ queue'[m].kind = "save"
      BY <1>0, <2>3, <3>1, <3>2 DEF NewTask
    <3> QED BY <3>4, <3>5 DEF Covered, IsSave
  <2>6. CASE \E k \in 1..Len(queue) : IsSave(queue[k]) /\ Here(e, k)
    <3>1. PICK k \in 1..Len(queue) : IsSave(queue[k]) /\ Here(e, k)
      BY <2>6
    <3>2. k \in 1..Len(queue') /\ k \in Nat /\ \A j \in 1..k : queue'[j] = queue[j]
      BY <1>0, <2>3
    <3>3. Here(e, k)'
      BY <2>1, <3>1, <3>2, HereKept
    <3> QED BY <2>3, <3>1, <3>2, <3>3 DEF Covered, IsSave
  <2>7. CASE exTask # NoTask /\ IsSave(exTask) /\ e \in doc
    BY <2>1, <2>7 DEF Covered, IsSave
  <2> QED BY <2>4, <2>5, <2>6, <2>7 DEF Covered
<1>3. CASE Close
  BY <1>3, <1>d DEF Close, Reading, exVars, docVars, fileVars
<1>4. CASE SayYes
  <2>1. /\ UNCHANGED <<auto, made, failed, alive, file, open, exTask, doc>>
        /\ ui = "dialog" /\ queue' = Append(queue, NewTask("saveAndClose", {}))
    BY <1>4 DEF SayYes, exVars, docVars, fileVars
  <2>2. NewTask("saveAndClose", {}) \in Task
    BY DEF NewTask, Task, Kind
  <2>3. Len(queue') = Len(queue) + 1 /\ \A k \in 1..Len(queue) : queue'[k] = queue[k]
    BY <1>a, <2>1, <2>2
  <2>4. Len(queue') \in Nat /\ Len(queue) <= Len(queue')
    BY <1>0, <2>3
  <2>5. Covered(e)
    BY <1>c, <2>1
  <2>6. UNCHANGED <<exTask, doc>> /\ ui # "autoSave"
    BY <2>1
  <2> QED BY <1>b, <2>3, <2>4, <2>5, <2>6
<1>5. CASE SayNo
  BY <1>5, <1>d DEF SayNo, exVars, docVars, fileVars
<1>6. CASE CloseFinal
  BY <1>6, <1>d DEF CloseFinal, Reading, exVars, docVars, fileVars
<1>7. CASE Recycle
  BY <1>7 DEF Recycle
\* The executor takes the first task of priority 0: no mark that the save k
\* covers is behind it.
<1>8. CASE Take
  <2>1. PICK i \in 1..Len(queue) : First(i) /\ exTask' = queue[i] /\ queue' = RemoveAt(queue, i)
    BY <1>8 DEF Take
  <2>2. /\ Len(queue') = Len(queue) - 1
        /\ \A j \in 1..(i - 1) : queue'[j] = queue[j]
        /\ \A j \in i..(Len(queue) - 1) : queue'[j] = queue[j + 1]
    BY <1>0, <2>1, RemoveAtShift
  <2>3. /\ UNCHANGED <<auto, made, failed, alive, file, open, doc, ui>>
        /\ exTask = NoTask /\ open
    BY <1>8 DEF Take, readerVars, docVars, fileVars
  <2>4. Covered(e)
    BY <1>c, <2>3
  \* Where a task of the queue is after the step
  <2>5. ASSUME NEW j \in 1..Len(queue), j # i
        PROVE  LET l == IF j < i THEN j ELSE j - 1
               IN  l \in 1..Len(queue') /\ queue'[l] = queue[j]
    <3>1. CASE j < i
      BY <1>0, <2>1, <2>2, <2>5, <3>1
    <3>2. CASE j > i
      <4>1. j - 1 \in i..(Len(queue) - 1) /\ (j - 1) + 1 = j
        BY <1>0, <2>1, <2>5, <3>2
      <4>2. queue'[j - 1] = queue[(j - 1) + 1]
        BY <2>2, <4>1
      <4> QED BY <1>0, <2>1, <2>2, <2>5, <3>2, <4>1, <4>2
    <3> QED BY <1>0, <2>1, <2>5, <3>1, <3>2
  <2>6. exTask' \in Task /\ exTask' # NoTask
    BY <1>0, <2>1, EditAssumption
  <2>7. ASSUME NEW j \in 1..Len(queue), queue[j].kind = "mark", e \in queue[j].edits,
               NEW n \in Nat, IF j < i THEN j <= n ELSE j - 1 <= n
        PROVE  Here(e, n)'
    <3>1. CASE j = i
      BY <2>1, <2>6, <2>7, <3>1 DEF Here
    <3>2. CASE j # i
      <4>1. PICK q \in 1..Len(queue') : q = (IF j < i THEN j ELSE j - 1) /\ queue'[q] = queue[j]
        BY <2>5, <3>2
      <4>2. q \in 1..n
        BY <1>0, <2>1, <2>2, <2>7, <4>1
      <4> QED BY <2>7, <4>1, <4>2 DEF Here
    <3> QED BY <3>1, <3>2
  <2>8. CASE ui = "autoSave" /\ Here(e, Len(queue))
    <3>1. PICK n \in Nat : n = Len(queue')
      BY <1>0, <2>1, <2>2
    <3>2. CASE e \in doc
      BY <2>3, <2>8, <3>2 DEF Covered, Here
    <3>3. CASE \E j \in 1..Len(queue) : queue[j].kind = "mark" /\ e \in queue[j].edits
      <4>1. PICK j \in 1..Len(queue) : queue[j].kind = "mark" /\ e \in queue[j].edits
        BY <3>3
      <4>2. IF j < i THEN j <= n ELSE j - 1 <= n
        BY <1>0, <2>1, <2>2, <3>1, <4>1
      <4>3. Here(e, n)'
        BY <2>7, <4>1, <4>2
      <4> QED BY <2>3, <2>8, <3>1, <4>3 DEF Covered
    <3> QED BY <2>3, <2>8, <3>2, <3>3 DEF Here
  <2>9. CASE \E k \in 1..Len(queue) : IsSave(queue[k]) /\ Here(e, k)
    <3>1. PICK k \in 1..Len(queue) : IsSave(queue[k]) /\ Here(e, k)
      BY <2>9
    <3>2. CASE k = i
      <4>1. IsSave(exTask')
        BY <2>1, <3>1, <3>2
      <4>2. e \in doc
        <5>1. ASSUME NEW j \in 1..k, queue[j].kind = "mark" PROVE FALSE
          <6>1. j \in 1..Len(queue) /\ j < k
            BY <1>0, <3>1, <5>1 DEF IsSave
          <6>2. Priority(queue[k]) = 0 /\ Priority(queue[j]) = 0
            BY <3>1, <5>1 DEF Priority, IsSave
          <6> QED BY <1>0, <2>1, <3>2, <6>1, <6>2 DEF First
        <5> QED BY <2>3, <3>1, <5>1 DEF Here
      <4> QED BY <2>3, <2>6, <4>1, <4>2 DEF Covered, IsSave
    <3>3. CASE k # i
      <4>1. PICK q \in 1..Len(queue') : q = (IF k < i THEN k ELSE k - 1) /\ queue'[q] = queue[k]
        BY <2>5, <3>3
      <4>2. q \in Nat
        BY <1>0, <2>2, <4>1
      <4>3. Here(e, q)'
        <5>1. CASE e \in doc
          BY <2>3, <5>1 DEF Here
        <5>2. CASE \E j \in 1..k : queue[j].kind = "mark" /\ e \in queue[j].edits
          <6>1. PICK j \in 1..k : queue[j].kind = "mark" /\ e \in queue[j].edits
            BY <5>2
          <6>2. j \in 1..Len(queue) /\ j < k
            BY <1>0, <3>1, <6>1 DEF IsSave
          <6>3. IF j < i THEN j <= q ELSE j - 1 <= q
            BY <1>0, <2>1, <3>3, <4>1, <6>2
          <6> QED BY <2>7, <4>2, <6>1, <6>2, <6>3
        <5> QED BY <2>3, <3>1, <5>1, <5>2 DEF Here
      <4> QED BY <3>1, <4>1, <4>3 DEF Covered, IsSave
    <3> QED BY <3>2, <3>3
  <2> QED BY <2>3, <2>4, <2>8, <2>9 DEF Covered
<1>9. CASE Apply
  <2>1. UNCHANGED <<auto, made, failed, alive, file, open, queue, ui>>
    BY <1>9 DEF Apply, readerVars, fileVars
  <2>2. Covered(e)
    BY <1>c, <1>9, <2>1 DEF Apply
  <2>3. ASSUME NEW n \in Nat, Here(e, n) PROVE Here(e, n)'
    BY <1>9, <2>1, <2>3 DEF Apply, Here
  <2>4. ~(exTask # NoTask /\ IsSave(exTask))
    BY <1>9 DEF Apply, IsSave
  <2>5. CASE ui = "autoSave" /\ Here(e, Len(queue))
    <3>1. Here(e, Len(queue))'
      BY <1>0, <2>1, <2>3, <2>5
    <3> QED BY <2>1, <2>5, <3>1 DEF Covered
  <2>6. CASE \E k \in 1..Len(queue) : IsSave(queue[k]) /\ Here(e, k)
    <3>1. PICK k \in 1..Len(queue) : IsSave(queue[k]) /\ Here(e, k)
      BY <2>6
    <3>2. Here(e, k)' /\ k \in Nat
      BY <1>0, <2>3, <3>1
    <3> QED BY <2>1, <3>1, <3>2 DEF Covered, IsSave
  <2> QED BY <2>2, <2>4, <2>5, <2>6 DEF Covered
\* A save that runs finds its mark in a changed document, since it is not in the file.
<1>10. CASE CheckChanges
  <2>1. /\ UNCHANGED <<auto, made, failed, alive, file, open, queue, doc>>
        /\ IsSave(exTask) /\ exTask # NoTask /\ open
    BY <1>10 DEF CheckChanges, readerVars, docVars, fileVars, IsSave
  <2>2. Covered(e)
    BY <1>c, <2>1
  <2>3. CASE dirty
    <3>1. UNCHANGED <<exTask, ui>>
      BY <1>10, <2>1, <2>3 DEF CheckChanges
    <3> QED BY <2>1, <2>2, <3>1 DEF Covered, Here, IsSave
  <2>4. CASE ~dirty
    <3>1. e \notin doc
      BY <2>1, <2>4 DEF Saved
    <3>2. exTask' = NoTask /\ (ui = "autoSave" => ui' = ui)
      BY <1>10, <2>4 DEF CheckChanges, Respond, OneClose, Closes
    <3>3. exTask.kind # "mark"
      BY <2>1 DEF IsSave
    <3> QED BY <2>1, <2>2, <3>1, <3>2, <3>3 DEF Covered, Here, IsSave
  <2> QED BY <2>3, <2>4
<1>11. CASE Save
  <2>1. /\ UNCHANGED <<auto, made, alive, open, queue, doc>>
        /\ open /\ exTask # NoTask /\ exTask' = NoTask
    BY <1>11 DEF Save, Respond, readerVars
  <2>2. file' = doc /\ UNCHANGED failed
    BY <1>11 DEF Save
  <2>3. IsSave(exTask)
    BY <1>11 DEF Save, Typed, TypeOK, IsSave
  <2>4. e \notin doc /\ e \notin file
    BY <2>2 DEF Typed, TypeOK
  <2>5. Covered(e)
    BY <2>1, <2>2, <2>4 DEF MarksCovered
  <2>6. ui = "autoSave" => ui' = ui
    BY <1>11 DEF Save, Respond, OneClose, Closes
  <2>7. exTask.kind # "mark"
    BY <2>3 DEF IsSave
  <2> QED BY <2>1, <2>4, <2>5, <2>6, <2>7 DEF Covered, Here, IsSave
<1>12. CASE Throw
  BY <1>12 DEF Throw
<1>13. CASE UNCHANGED vars
  <2>1. UNCHANGED <<auto, made, failed, alive, file, open, queue, doc, ui, exTask>>
    BY <1>13 DEF vars, readerVars, docVars, fileVars, exVars
  <2>2. Covered(e)
    BY <1>c, <2>1
  <2> QED BY <2>1, <2>2 DEF Covered, Here, IsSave
<1>14. ASSUME NEW d \in Stroke, FinishDraw(d) PROVE Covered(e)'
  BY <1>1, <1>14 DEF FinishDraw, Edit
<1>15. ASSUME NEW d \in Mark, MarkText(d) PROVE Covered(e)'
  BY <1>1, <1>15 DEF MarkText, Edit
<1> QED
  BY <1>2, <1>3, <1>4, <1>5, <1>6, <1>7, <1>8, <1>9, <1>10, <1>11, <1>12, <1>13, <1>14, <1>15
     DEF Next, UiStep, ExStep, Ended

\* With auto-save on, a mark is in the file by the time the service has come to rest,
\* unless MuPDF could not write: for any number of strokes and marks, any order in which
\* they and their saves are queued, and any save of the closing dialog in between
\* (underlineText, saveAnnotationsToFile, TaskComparator).
THEOREM MarksReachFile == Spec => []MarksAutoSaved
<1> DEFINE IInv == Typed /\ Asked /\ OneClose /\ MarksCovered
<1>1. Init => IInv
  <2> SUFFICES ASSUME Init PROVE IInv
    OBVIOUS
  <2>1. OneClose /\ MarksCovered
    BY DEF Init, OneClose, MarksCovered
  <2> QED BY <2>1, TypedInit, AskedInit
<1>2. IInv /\ [Next]_vars => IInv'
  BY TypedNext, AskedNext, OneCloseNext, MarksCoveredNext DEF Asked
<1>3. IInv => MarksAutoSaved
  <2> SUFFICES ASSUME IInv, Settled, auto, ~failed, NEW e \in made \cap Mark, e \notin file
               PROVE  FALSE
    BY DEF MarksAutoSaved
  <2>1. open /\ alive /\ ui = "idle" /\ exTask = NoTask /\ Len(queue) = 0
    BY DEF Settled
  <2>2. Covered(e)
    BY <2>1 DEF MarksCovered
  <2> QED BY <2>1, <2>2 DEF Covered
<1>4. Spec => []IInv
  BY <1>1, <1>2, PTL DEF Spec
<1> QED BY <1>3, <1>4, PTL
=============================================================================
