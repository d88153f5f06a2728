\* Two devices, and a JSON file of the first or a book of both.
CONSTANTS
    d1 = d1
    d2 = d2
    Device = {d1, d2}
    Owner = d1
    MaxEdit <- MCMaxEdit
    MaxTrouble <- MCMaxTrouble
    MaxId = 3
    MaxTime = 9

SPECIFICATION FairSpec
CONSTRAINT Followed
INVARIANTS
    TypeOK LastWriteKept DeletedStaysAway GarbledStaysLocal
PROPERTIES
    Converges
