\* One agent, two neighbours.
CONSTANTS
    a1 = a1
    a2 = a2
    n1 = n1
    n2 = n2
    NULL = NULL
    AgentList <- OneAgent
    Frames <- TwoNeighbours
    MaxTTL = 2
    TX_CREDIT_MAX = 1
    TX_FAST_INIT = 1
    DEFAULT_TX_INTERVAL = 2
    FAST_TX_INTERVAL = 1
    REINIT_DELAY = 2
    Bond = FALSE
    DcbMode = FALSE
    TlvsMayOverflow = FALSE
SPECIFICATION Spec
INVARIANTS NeverAborts
CHECK_DEADLOCK FALSE
