\* Two ends, one put and one fault, in either version of the protocol.
SPECIFICATION FairSpec
CONSTANTS
    n1 = n1
    n2 = n2
    Node = {n1, n2}
    Features = {"PFC", "LLINK"}
    Subtypes = {1, 2}
    Config = {"d", "a", "b"}
    Default = "d"
    Settings <- MCSettings
    Start <- MCStart
    Refused <- MCRefused
    Forced = {n1}
    MaxVersion <- MCMaxVersion
    MaxPuts = 1
    MaxFaults = 1
INVARIANTS OperatesWithPeer
PROPERTIES OneInFlight Converges
