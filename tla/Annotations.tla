---------------------------- MODULE Annotations ----------------------------
(***************************************************************************)
(* What becomes of the annotations a reader makes in a PDF: they reach the *)
(* document through tasks of the decode service, the file through a save   *)
(* task, and the book may be closed at any point in between.  The queue is *)
(* taken to lose nothing here; DecodeService models the queue itself.      *)
(* MuPDF's change flag and its saving are external.                        *)
(***************************************************************************)
EXTENDS Naturals, Sequences, FiniteSets, SequencesExt

CONSTANTS
    Stroke,     \* ink strokes the reader may draw
    Mark,       \* underlined, struck out or highlighted texts, and deletions
    NoTask      \* the executor runs nothing

Edit == Stroke \cup Mark

Kind == {"ink", "mark", "save", "saveAndClose"}
Task == [kind : Kind, edits : SUBSET Edit]

ASSUME EditAssumption == Stroke \cap Mark = {} /\ NoTask \notin Task

VARIABLES
    auto,       \* AppState.isSaveAnnotatationsAutomatically
    ui,         \* what the UI thread is in the middle of
    made,       \* edits the reader has finished
    queue,      \* tasks of the executor in the order of their ids
    exTask,     \* the task the executor runs
    checked,    \* the save task has found changes
    alive,      \* the executor thread is in its loop
    doc,        \* edits in the open document
    dirty,      \* pdf_has_unsaved_changes
    file,       \* edits in the book's file
    open,       \* the document is open (recycle() not reached)
    closing,    \* closeActivityFinal has been asked for
    answer,     \* what ended the reading: "none" so far, "clean", "yes", "no", "direct"
    failed,     \* history: a save failed
    madeThen,   \* history: edits finished when the close was asked for
    docThen     \* history: edits in the document then

thenVars == <<madeThen, docThen>>
readerVars == <<auto, made, answer, thenVars>>
fileVars == <<file, failed>>
exVars == <<exTask, checked, alive>>
docVars == <<doc, dirty>>
vars == <<readerVars, ui, queue, exVars, docVars, fileVars, open, closing>>

Init ==
    /\ auto \in BOOLEAN
    /\ ui = "idle" /\ made = {} /\ queue = <<>>
    /\ exTask = NoTask /\ checked = FALSE /\ alive = TRUE
    /\ doc = {} /\ dirty = FALSE /\ file = {} /\ failed = FALSE
    /\ open = TRUE /\ closing = FALSE /\ answer = "none"
    /\ madeThen = {} /\ docThen = {}

NewTask(kind, edits) == [kind |-> kind, edits |-> edits]

----------------------------------------------------------------------------
(***************************************************************************)
(* UI thread.                                                              *)
(***************************************************************************)
Reading == ui = "idle" /\ open

\* The end of a stroke, the choice of a mark or the tap that deletes an
\* annotation: the task is queued first, saveAnnotationsToFile() follows.
Make(e, kind) ==
    /\ Reading
    /\ e \notin made
    /\ made' = made \cup {e}
    /\ queue' = Append(queue, NewTask(kind, {e}))
    /\ ui' = "autoSave"
    /\ UNCHANGED <<auto, answer, thenVars, exVars, docVars, fileVars, open, closing>>

FinishDraw(e) == Make(e, "ink")
MarkText(e) == Make(e, "mark")

SaveAnnotationsToFile ==
    /\ ui = "autoSave" /\ ui' = "idle"
    /\ queue' = IF auto THEN Append(queue, NewTask("save", {})) ELSE queue
    /\ UNCHANGED <<readerVars, exVars, docVars, fileVars, open, closing>>

\* MUTANT of Close: the book is closed without a look at the changes.
CloseUnasked ==
    /\ Reading /\ answer = "none"
    /\ madeThen' = made /\ docThen' = doc
    /\ closing' = TRUE /\ answer' = "clean" /\ UNCHANGED ui
    /\ UNCHANGED <<auto, made, queue, exVars, docVars, fileVars, open>>

\* onCloseActivityAdnShowInterstial: a dialog when the document has changes.
\* The reader asks once: Safe.run only takes a moment to get to recycle().
Close ==
    /\ Reading /\ answer = "none"
    /\ madeThen' = made /\ docThen' = doc
    /\ IF dirty
       THEN ui' = "dialog" /\ UNCHANGED <<closing, answer>>
       ELSE closing' = TRUE /\ answer' = "clean" /\ UNCHANGED ui
    /\ UNCHANGED <<auto, made, queue, exVars, docVars, fileVars, open>>

\* Yes: a progress dialog stays up until the save task has run and closes.
SayYes ==
    /\ ui = "dialog" /\ ui' = "saving"
    /\ answer' = "yes"
    /\ queue' = Append(queue, NewTask("saveAndClose", {}))
    /\ UNCHANGED <<auto, made, thenVars, exVars, docVars, fileVars, open, closing>>

SayNo ==
    /\ ui = "dialog" /\ ui' = "idle"
    /\ answer' = "no"
    /\ closing' = TRUE
    /\ UNCHANGED <<auto, made, thenVars, queue, exVars, docVars, fileVars, open>>

\* onCloseActivityFinal, from the share, open and exit commands: no dialog.
CloseFinal ==
    /\ Reading /\ answer = "none"
    /\ answer' = "direct"
    /\ closing' = TRUE
    /\ madeThen' = made /\ docThen' = doc
    /\ UNCHANGED <<auto, made, ui, queue, exVars, docVars, fileVars, open>>

\* documentModel.recycle(): the document goes and the executor stops; the tasks
\* still queued are never run.
Recycle ==
    /\ closing /\ ui \in {"idle", "autoSave"} /\ open
    /\ open' = FALSE
    /\ UNCHANGED <<readerVars, ui, queue, exVars, docVars, fileVars, closing>>

----------------------------------------------------------------------------
(***************************************************************************)
(* Executor thread.                                                        *)
(***************************************************************************)
\* MUTANT of Priority: marking a text is as urgent as drawing.
PriorityOfInk(t) == IF t.kind \in {"ink", "mark"} THEN 1 ELSE 0

Priority(t) == IF t.kind = "ink" THEN 1 ELSE 0

\* TaskComparator: lower priority number first, then the older task.
First(i) ==
    /\ i \in 1..Len(queue)
    /\ \A j \in 1..Len(queue) :
          \/ Priority(queue[i]) < Priority(queue[j])
          \/ Priority(queue[i]) = Priority(queue[j]) /\ i <= j

\* MUTANT of Take: the slot that is emptied is the first one.
TakeClearsFirst ==
    /\ exTask = NoTask /\ open /\ alive
    /\ \E i \in 1..Len(queue) :
          First(i) /\ exTask' = queue[i] /\ queue' = RemoveAt(queue, 1)
    /\ checked' = FALSE
    /\ UNCHANGED <<alive, readerVars, ui, docVars, fileVars, open, closing>>

Take ==
    /\ exTask = NoTask /\ open /\ alive
    /\ \E i \in 1..Len(queue) :
          First(i) /\ exTask' = queue[i] /\ queue' = RemoveAt(queue, i)
    /\ checked' = FALSE
    /\ UNCHANGED <<alive, readerVars, ui, docVars, fileVars, open, closing>>

\* AddAnnotationTask, the tasks of underlineText and deleteAnnotation.
Apply ==
    /\ open
    /\ exTask # NoTask /\ exTask.kind \in {"ink", "mark"}
    /\ doc' = doc \cup exTask.edits
    /\ dirty' = TRUE
    /\ exTask' = NoTask
    /\ UNCHANGED <<readerVars, ui, queue, checked, alive, fileVars, open, closing>>

\* The response of the save task; closeActivity() for the one of the dialog.
Respond ==
    /\ exTask' = NoTask
    /\ IF exTask.kind = "saveAndClose"
       THEN ui' = "idle" /\ closing' = TRUE
       ELSE UNCHANGED <<ui, closing>>

\* MUTANT of CheckChanges: the response is run only after a save.
CheckChangesSilently ==
    /\ exTask # NoTask /\ exTask.kind \in {"save", "saveAndClose"} /\ ~checked
    /\ IF open /\ dirty
       THEN checked' = TRUE /\ UNCHANGED exTask
       ELSE exTask' = NoTask /\ UNCHANGED checked
    /\ UNCHANGED <<alive, readerVars, ui, closing, queue, docVars, fileVars, open>>

\* saveAnnotations: hasAnnotationChanges() decides whether there is a save ...
CheckChanges ==
    /\ exTask # NoTask /\ exTask.kind \in {"save", "saveAndClose"} /\ ~checked
    /\ IF open /\ dirty
       THEN checked' = TRUE /\ UNCHANGED <<exTask, ui, closing>>
       ELSE Respond /\ UNCHANGED checked
    /\ UNCHANGED <<alive, readerVars, queue, docVars, fileVars, open>>

\* ... whose failure MuPDF's bridge logs and nobody else learns about.
Save ==
    /\ checked /\ open /\ exTask # NoTask
    /\ \/ file' = doc /\ dirty' = FALSE /\ UNCHANGED failed
       \/ failed' = TRUE /\ UNCHANGED <<file, dirty>>
    /\ checked' = FALSE
    /\ Respond
    /\ UNCHANGED <<alive, readerVars, queue, doc, open>>

\* MUTANT of Throw: the save that had begun outlives its task.
ThrowKeepsChecked ==
    /\ exTask # NoTask
    /\ IF checked THEN ~open ELSE exTask.kind \in {"ink", "mark"}
    /\ exTask' = NoTask /\ alive' = FALSE
    /\ UNCHANGED <<checked, readerVars, ui, queue, docVars, fileVars, open, closing>>

\* An edit that fails, and a task that meets the closed document, throw: run()
\* catches the exception outside of its loop, so the thread ends.
Throw ==
    /\ exTask # NoTask
    /\ IF checked THEN ~open ELSE exTask.kind \in {"ink", "mark"}
    /\ exTask' = NoTask /\ checked' = FALSE /\ alive' = FALSE
    /\ UNCHANGED <<readerVars, ui, queue, docVars, fileVars, open, closing>>

----------------------------------------------------------------------------
UiStep == SaveAnnotationsToFile \/ Recycle
ExStep == Take \/ Apply \/ CheckChanges \/ Save \/ Throw

\* The book is closed, or waits for a save task that no thread will run.
Ended ==
    /\ ~open \/ (~alive /\ ui = "saving")
    /\ exTask = NoTask
    /\ UNCHANGED vars

Next ==
    \/ \E e \in Stroke : FinishDraw(e)
    \/ \E e \in Mark : MarkText(e)
    \/ Close \/ SayYes \/ SayNo \/ CloseFinal
    \/ UiStep \/ ExStep \/ Ended

Spec == Init /\ [][Next]_vars

\* The looper and the executor thread run what they are given.
FairSpec == Spec /\ WF_vars(UiStep) /\ WF_vars(ExStep)

----------------------------------------------------------------------------
(***************************************************************************)
(* Properties.                                                             *)
(***************************************************************************)
\* Type invariant of the queue, the document and the dialog: only a save task that is
\* under way has found changes, and an edit gets from the queue to the document to the
\* file, never without the step before.
TypeOK ==
    /\ auto \in BOOLEAN /\ dirty \in BOOLEAN /\ open \in BOOLEAN /\ closing \in BOOLEAN
    /\ failed \in BOOLEAN /\ checked \in BOOLEAN /\ alive \in BOOLEAN
    /\ ui \in {"idle", "autoSave", "dialog", "saving"}
    /\ answer \in {"none", "clean", "yes", "no", "direct"}
    /\ queue \in Seq(Task) /\ exTask \in Task \cup {NoTask}
    /\ checked => exTask # NoTask /\ exTask.kind \in {"save", "saveAndClose"}
    /\ made \subseteq Edit /\ doc \subseteq made /\ file \subseteq doc
    /\ docThen \subseteq doc /\ madeThen \subseteq made

Settled == open /\ alive /\ ui = "idle" /\ queue = <<>> /\ exTask = NoTask

\* With the auto-save preference on, a mark is in the file by the time the
\* service has nothing left to do: its save task has the same priority and a
\* larger id, so it runs after it, whatever else was queued (saveAnnotationsToFile
\* after underlineText and deleteAnnotation).
MarksAutoSaved == Settled /\ auto /\ ~failed => made \cap Mark \subseteq file

\* Whatever was in the document when the reader asked to leave through the dialog
\* is in the file once the book is closed, unless the reader said No or MuPDF
\* could not write (onCloseActivityAdnShowInterstial).
AskedBeforeLoss ==
    ~open /\ answer \in {"clean", "yes"} /\ ~failed => docThen \subseteq file

\* A book that is being closed with Yes does get closed, unless a failed edit has
\* ended the executor thread: the save task is run and its response always comes,
\* also when there was nothing left to save (the progress dialog cannot be left).
YesCloses == (answer = "yes") ~> (~open \/ ~alive)

\* Every edit reaches the document unless the book is closed or an edit fails first:
\* save tasks overtake ink but cannot hold it up for ever.
EditsApplied == \A e \in Edit : (e \in made) ~> (e \in doc \/ ~open \/ ~alive)

\* What the preference is called (strings.xml: "Auto-save annotations on exit"):
\* with it on, what the reader had made when leaving through the dialog is in the
\* file of the closed book, unless the reader said No or MuPDF could not write.
AutoSavedOnExit ==
    ~open /\ auto /\ answer \in {"clean", "yes"} /\ ~failed => madeThen \subseteq file

\* What the dialog offers (strings.xml: "Save changes?"): after Yes, what the reader
\* had made is in the file of the closed book, unless MuPDF could not write.
YesSavesAll == ~open /\ answer = "yes" /\ ~failed => madeThen \subseteq file
=============================================================================
