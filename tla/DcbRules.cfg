\* Three priorities, groups and classes; one to three classes on the device; one
\* group id that is no group; 50 and twice 153 wrap a u8 to 100.
CONSTANTS
    N = 3
    Strays = 1
    Share = {0, 50, 153}
    Subtypes = {1, 2}
SPECIFICATION RulesSpec
INVARIANTS
    EveryPriorityHasAClass
    KindsApart
    FoldKeepsBandwidth
    IndexesInside
