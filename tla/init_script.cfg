CONSTANTS
    Sh = {s1}
    Fabric = {f1}
    Used <- AllCommands
    Suse <- BothScripts
SPECIFICATION Spec
INVARIANTS
    TypeOK
    FaultFileGuardsScripts
    ScriptsRunOnce
    StoppedIsClean
    StartIsRefused
