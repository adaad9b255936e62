\* Two exponents, one disturbance or the TLV switched off and on again,
\* and a link that loses LLDPDUs.
CONSTANTS
    IntBits = 8
    Exponents = {2, 5}
    DefaultRte = 1
    InitConfigs <- Crossed
    MaxChanges = 2
SPECIFICATION EvbFairSpec
INVARIANTS EcpRunsWithEvb WrongWaitsWereAskedFor
PROPERTIES Converges
CHECK_DEADLOCK FALSE
