\* One VSI, two requests of an attached client, answers of every kind, one stop,
\* fair scheduling.
CONSTANTS
    VSIs = {v1}
    Vids = {0, 1}
    ReqModes = {3, 4}
    Outcomes = {"change", "timeout", "keep", "deassoc"}
    Clients = {"attached"}
    Capacity = 1
    MaxPending = 1
    MaxRequests = 2
    MayStop = TRUE
SPECIFICATION FairSpec
INVARIANTS ConfirmedWasGranted
PROPERTIES SilentOnlyIfKept BusyEnds BridgeForgets
CHECK_DEADLOCK FALSE
