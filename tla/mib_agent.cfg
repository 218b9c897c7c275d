CONSTANTS
    n1 = n1
    n2 = n2
    Unset = Unset
    None = None
    Shapes <- SmallShapes
    Aliases <- OneAlias
    Initiator = {n1, n2}
    Quiet = 2
    MaxTime = 2
    MaxFails = 2
    MaxFailures = 1
SPECIFICATION Spec
SYMMETRY Names
INVARIANTS
    TypeOK
    WalkComplete
    LoadTakesWholePrefix
    EveryColumnFilled
    ManagerKnowsStatus
PROPERTIES
    AnswersAreRecent
    FailuresAreTold
    TrapsAreNews
