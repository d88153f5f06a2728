CONSTANTS
    CachePage = {c1}
    SearchPage = {s1}
    LoaderPage = {}
    Page = {c1, s1}
    None = None
    MaxChunk = 0
    MaxCrash = 0
    MaxLate = 0
SPECIFICATION Spec
INVARIANTS
    SearchReadsText
CHECK_DEADLOCK FALSE
