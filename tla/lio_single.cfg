CONSTANTS
    Cli = {c1}
    IQN = {q1}
    TPGT = {g1}
    Portal = {n1}
    Initiator = {i1}
    Lun = {l1, l2}
    MappedLun = {m1}
    Dev = {d1}
    Status = {s0, s1}
    NoStatus = s0
    None = None
    Used <- PortCommands
SPECIFICATION Spec
INVARIANTS
    WritersHaveDir
    RestoredAsSaved
    DeletedIsForgotten
PROPERTIES
    ImplementsSavedState
    OnlyDeletesForget
