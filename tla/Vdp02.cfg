\* One VSI, two requests of a netlink client, of lldptool or of both, one loss
\* of the link, one frame on the way to the station.
CONSTANTS
    VSIs = {v1}
    NlModes = {"ASSOC", "DEASSOC"}
    CmdModes = {"PRE", "DEASSOC"}
    FrameRoom = 1
    Capacity = 1
    SeqMod = 2
    MaxTimeouts = 1
    MaxRequests = 2
    MaxFlaps = 1
SPECIFICATION Spec
INVARIANTS EcpMovesOn WaitHasTimer RenewalDue
PROPERTIES SilentOnlyIfUnanswered
CHECK_DEADLOCK FALSE
