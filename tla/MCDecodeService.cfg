\* Two nodes share the list of slots; one zoom factor.
CONSTANTS
    Node = {n1, n2}
    NoNode = NoNode
    Zoom = {1}
    MaxTask = 3
    MaxSearch = 0
    UserPrio = {0}
    NoTask = NoTask
SPECIFICATION Spec
INVARIANTS
    TypeOK
    OnePlacePerTask
SYMMETRY Symmetry
PROPERTY
    ImplementsContract
