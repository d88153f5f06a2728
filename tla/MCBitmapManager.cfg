CONSTANTS
    Ref = {r1, r2}
    Pic = {b1}
    Renderer = {executor, loader}
    Cleaner = {executor, ui}
    None = None
    Limit = 1
    Threshold = 1
    MaxGen = 2
    MaxPut = 3
SYMMETRY Symmetry
SPECIFICATION Spec
INVARIANTS
    TypeOK
    OneOwner
    DrawnKept
    Reclaimable
    UsedCounted
