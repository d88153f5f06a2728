CONSTANTS
    Stroke = {s1, s2}
    Mark = {m1}
    NoTask = NoTask
SPECIFICATION Spec
INVARIANTS
    AutoSavedOnExit
