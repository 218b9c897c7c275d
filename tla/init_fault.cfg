CONSTANTS
    Sh = {s1}
    Fabric = {f1}
    Used <- AllCommands
    Suse <- RcTarget
SPECIFICATION Spec
INVARIANTS
    FatalNotRepeated
