SPECIFICATION Spec
CONSTANTS
    N = 3
    QueSize = 4
    PipeSize = 3
    Peers = {"gui", "rems"}
    MaxSent = 3
INVARIANTS
    Woken
    Intact
    LsAnswered
PROPERTIES
    RingIsQueue
    InOrder
    Taken
CHECK_DEADLOCK FALSE
