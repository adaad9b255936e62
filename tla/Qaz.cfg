\* Two ends, one of which may force CEE; a command, and a fault or link event.
SPECIFICATION FairSpec
CONSTANTS
    n1 = n1
    n2 = n2
    Node = {n1, n2}
    Highest = n1
    Value = {v1, v2}
    v1 = v1
    None = None
    v2 = v2
    App = {"fcoe"}
    Start <- MCStart
    MayForce = {n2}
    Capable <- MCCapable
    MaxCmds = 1
    MaxFaults = 1
INVARIANTS BothOnlyIfTorn
PROPERTIES Converges
