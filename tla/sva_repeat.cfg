CONSTANTS
    NoTrigger = NoTrigger
    Atoms = {"a", "b"}
    Props <- Repetitions
    Places = 3
    MaxEdges = 5
SPECIFICATION MonitorSpec
INVARIANTS
    NoFailureUnseen
CHECK_DEADLOCK FALSE
