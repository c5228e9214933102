SPECIFICATION Spec
CONSTANTS
    Process = {"p1", "p2"}
    Unit <- MCUnit
    Owner <- MCOwner
    Holo = {"holo"}
    Served <- MCServed
    Needs <- MCNeeds
    Revision <- MCRevision
    None = None
    Absent = Absent
    Broken = Broken
    MaxRelease = 1
INVARIANTS
    TypeOK
    CacheTruth
    ReadyMatchesDaemon
    CacheFilled
PROPERTY
    StartEnds
