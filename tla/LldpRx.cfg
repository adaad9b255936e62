\* One agent of a bond in DCB mode, two neighbours, a frame that fails
\* validation at its third TLV, fair scheduling.
CONSTANTS
    a1 = a1
    a2 = a2
    n1 = n1
    n2 = n2
    NULL = NULL
    AgentList <- OneAgent
    Frames <- MixedFrames
    MaxTTL = 1
    TX_CREDIT_MAX = 1
    TX_FAST_INIT = 1
    DEFAULT_TX_INTERVAL = 1
    FAST_TX_INTERVAL = 1
    REINIT_DELAY = 2
    Bond = TRUE
    DcbMode = TRUE
    TlvsMayOverflow = FALSE
SPECIFICATION FairSpec
INVARIANTS NeighbourHasDeadline ReceiveOffHoldsNothing
PROPERTIES HandlersReturn ChangesAreAnnounced NeighboursAgeOut
CHECK_DEADLOCK FALSE
