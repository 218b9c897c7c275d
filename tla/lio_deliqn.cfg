CONSTANTS
    Cli = {c1}
    IQN = {q1}
    TPGT = {g1, g2}
    Portal = {n1}
    Initiator = {i1}
    Lun = {l1}
    MappedLun = {m1}
    Dev = {d1}
    Status = {s0}
    NoStatus = s0
    None = None
    Used <- TpgCommands
SPECIFICATION Spec
INVARIANTS
    DelIqnForgetsEndpoint
