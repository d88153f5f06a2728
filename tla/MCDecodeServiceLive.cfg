CONSTANTS
    Node = {n1}
    NoNode = NoNode
    Zoom = {1, 2}
    MaxTask = 2
    MaxSearch = 0
    UserPrio = {0}
    NoTask = NoTask
SPECIFICATION FairSpec
PROPERTIES
    CloseEndsExecutor
    QueueServed
    DecodingEnds
