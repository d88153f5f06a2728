\* Two strokes and two marks.
CONSTANTS
    Stroke = {s1, s2}
    Mark = {m1, m2}
    NoTask = NoTask
SPECIFICATION FairSpec
INVARIANTS
    TypeOK
    MarksAutoSaved
    AskedBeforeLoss
PROPERTIES
    YesCloses
    EditsApplied
