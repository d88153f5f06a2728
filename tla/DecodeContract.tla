--------------------------- MODULE DecodeContract ---------------------------
(***************************************************************************)
(* What the decode service promises about the life of a task, whatever     *)
(* node it is for and however its list of slots is kept: a task is started *)
(* at most once, one task at a time; a task cancelled before it passes its *)
(* last check never reaches the screen; a result is posted at most once.   *)
(***************************************************************************)
EXTENDS Naturals

CONSTANT Id     \* task identities

VARIABLES
    stage,      \* how far each task has come
    dead        \* the cancelled tasks

Stage == {"none", "requested", "started", "committed", "failed", "posted", "gone"}
Active == {i \in Id : stage[i] \in {"started", "committed", "failed"}}

Init == stage = [i \in Id |-> "none"] /\ dead = {}

Move(i, from, to) ==
    /\ stage[i] \in from
    /\ stage' = [stage EXCEPT ![i] = to]
    /\ UNCHANGED dead

Request(i) == Move(i, {"none"}, "requested")

\* A request equal to the one underway is dropped at once.
Refuse(i) == Move(i, {"none"}, "gone")

\* Cancelling marks a task wherever it is; it takes effect at the next check.
Cancel(D) == dead' = dead \cup D /\ UNCHANGED stage

\* Requests may be forgotten before they start: stopped ones, and lost ones.
Forget(L) ==
    /\ \A i \in L : stage[i] = "requested"
    /\ stage' = [i \in Id |-> IF i \in L THEN "gone" ELSE stage[i]]
    /\ UNCHANGED dead

\* The executor takes a task up, and may overwrite requests as it does.
Start(i, L) ==
    /\ Active = {}
    /\ stage[i] = "requested" /\ i \notin L
    /\ \A j \in L : stage[j] = "requested"
    /\ stage' = [j \in Id |-> IF j = i THEN "started" ELSE IF j \in L THEN "gone" ELSE stage[j]]
    /\ UNCHANGED dead

Commit(i) == i \notin dead /\ Move(i, {"started"}, "committed")
Fail(i) == Move(i, {"started", "committed"}, "failed")
Post(i) == Move(i, {"committed"}, "posted")
Drop(i) == Move(i, {"started", "committed", "failed", "posted"}, "gone")

Next ==
    \/ \E D \in SUBSET Id : Cancel(D) \/ Forget(D)
    \/ \E i \in Id : \/ Request(i) \/ Refuse(i) \/ Commit(i) \/ Fail(i) \/ Post(i) \/ Drop(i)
                     \/ \E L \in SUBSET Id : Start(i, L)

vars == <<stage, dead>>
Spec == Init /\ [][Next]_vars
=============================================================================
