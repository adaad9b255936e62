\* Two agents that share the port, no received frames.
CONSTANTS
    a1 = a1
    a2 = a2
    n1 = n1
    n2 = n2
    NULL = NULL
    AgentList <- TwoAgents
    Frames <- NoFrames
    MaxTTL = 0
    TX_CREDIT_MAX = 2
    TX_FAST_INIT = 1
    DEFAULT_TX_INTERVAL = 2
    FAST_TX_INTERVAL = 1
    REINIT_DELAY = 2
    Bond = FALSE
    DcbMode = FALSE
    TlvsMayOverflow = TRUE
SPECIFICATION Spec
INVARIANTS TypeOK Withdrawn CreditAccounting
PROPERTIES SendsOnlyWhenEnabled ImplementsBudget
CHECK_DEADLOCK FALSE
