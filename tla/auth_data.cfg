CONSTANTS
    i1 = i1
    i2 = i2
    u1 = u1
    u2 = u2
    Name = {i1, i2}
    Tpgt <- Tags
    User = {u1, u2}
    Skipped = Skipped
    Files <- SmallFiles
    Watches <- TwoTables
    Addr = {a1, a2}
    Null = Null
    MaxTime = 2
    MaxEdits = 2
    MaxStarts = 1
    MaxFailures = 1
SPECIFICATION Spec
SYMMETRY Addresses
INVARIANTS
    TypeOK
    IndexMeansOneName
    IdentityRowsCurrent
    SkipsOnlyCurrent
PROPERTIES
    ImplementsAuthIndex
    CrashesOnlyOnRepeat
CHECK_DEADLOCK FALSE
