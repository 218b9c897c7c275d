CONSTANTS
    Cli = {c1, c2}
    IQN = {q1}
    TPGT = {g1}
    Portal = {n1}
    Initiator = {i1}
    Lun = {l1}
    MappedLun = {m1}
    Dev = {d1}
    Status = {s0}
    NoStatus = s0
    None = None
    Used <- LunCommands
SPECIFICATION FairSpec
INVARIANTS
    NoLunLeftHalfBuilt
PROPERTIES
    EveryCommandEnds
