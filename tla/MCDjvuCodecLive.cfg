\* Two threads render, and one closes the book.
CONSTANTS
    CachePage = {c1}
    SearchPage = {}
    LoaderPage = {l1}
    Page = {c1, l1}
    None = None
    MaxChunk = 0
    MaxCrash = 0
    MaxLate = 0
SPECIFICATION FairSpec
INVARIANTS
    OneReader
    WaitWoken
PROPERTIES
    RenderReturns
    CloseEnds
CHECK_DEADLOCK FALSE
