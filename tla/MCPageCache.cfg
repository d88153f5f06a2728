\* Two pages over a cache of one, or two when both are visible; the user edits
\* one of them.
CONSTANTS
    p1 = p1
    p2 = p2
    c1 = c1
    c2 = c2
    c3 = c3
    Page = {p1, p2}
    Cell = {c1, c2, c3}
    Annotated = {p1}
    InMemory = 1
    MaxVisible = 2
    MaxAsked = 2
    MaxTrouble = 1
    None = None

SPECIFICATION FairSpec
INVARIANTS
    TypeOK PageInUseKept OverfullOnlyByEdits NativePagesAccounted
    NativeCallsSafe SecondTapFindsPage QuietCloseSucceeds
PROPERTY
    CloseEnds
\* The process may die, the two threads may wait for each other, and a book
\* once closed stays closed.
CHECK_DEADLOCK FALSE
