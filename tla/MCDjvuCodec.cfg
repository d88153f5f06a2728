CONSTANTS
    CachePage = {c1}
    SearchPage = {s1}
    LoaderPage = {}
    Page = {c1, s1}
    None = None
    MaxChunk = 1
    MaxCrash = 1
    MaxLate = 1
SPECIFICATION Spec
INVARIANTS
    TypeOK
    MarkExplained
    StaysMarked
    DeadWaitOnlyOnClose
CHECK_DEADLOCK FALSE
