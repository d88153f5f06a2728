\* The search thread and tasks that decode nothing, among the decodings of a node.
CONSTANTS
    Node = {n1}
    NoNode = NoNode
    Zoom = {1, 2}
    MaxTask = 3
    MaxSearch = 1
    UserPrio = {}
    NoTask = NoTask
SPECIFICATION Spec
INVARIANTS
    LiveTaskRegistered
    NodeNeverStuck
PROPERTY
    ImplementsContract
