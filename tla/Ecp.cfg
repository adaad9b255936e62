\* A sender and a receiver over a link that loses frames; either is
\* restarted, the sender also while its old frames are still on the way.  Four
\* PDUs use the numbers 1, 2, 3 and 1 again.
CONSTANTS
    SeqMod = 4
    MaxRetry = 1
    MaxWait = 1
    ECP22_MAX_RETRIES_DEFAULT = 1
    ECP22_ACK_TIMER_DEFAULT = 1
    SenderRestarts = TRUE
    MaxPayloads = 4
    Capacity = 2
SPECIFICATION MCSpec
INVARIANTS NothingStranded AckMeansDeliveredUnlessRestarted
PROPERTIES ImplementsFifo PdusSettle
