CONSTANTS
    Cli = {c1, c2}
    Hba = {h1}
    Name = {n1}
    Group = {dflt, g1}
    Default = dflt
    Id = {i0}
    DefaultId = i0
    LuGroup = {u1}
    Serial = {s1}
    Access = {ao}
    Optimized = ao
    Status = {fresh}
    NoStatus = fresh
    None = None
    Used <- DeviceCommands
SPECIFICATION Spec
SYMMETRY Symmetry
INVARIANTS
    TypeOK
    TeardownAloneSucceeds
    RemovedIsGone
    FailedCreateLeavesNoDev
