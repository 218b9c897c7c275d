CONSTANTS
    Cli = {c1}
    Hba = {h1}
    Name = {n1}
    Group = {g1}
    Default = dflt
    Id = {i0, i1}
    DefaultId = i0
    LuGroup = {u1}
    Serial = {s1, s2}
    Access = {ao, an}
    Optimized = ao
    Status = {fresh, altered}
    NoStatus = fresh
    None = None
    Used <- RestoreCommands
SPECIFICATION Spec
PROPERTIES
    WriterStartsFromSaved
    ImplementsSavedState
    OnlyDeletesForget
