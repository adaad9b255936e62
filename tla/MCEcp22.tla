------------------------------ MODULE MCEcp22 -------------------------------
(* ECP with a history of the restarts of the sending station alone.         *)
EXTENDS Ecp22

VARIABLE alone   \* the sender was restarted while its old frames travelled

HistoryInit == Init /\ alone = FALSE
HistoryNext == Next /\ alone' = (alone \/ sender_restart)
HistorySpec == HistoryInit /\ [][HistoryNext]_<<vars, alone>>

\* A bound: the lone restarts come after the first or the second PDU.
RestartAfter == 1..2

MCNext == HistoryNext /\ (sender_restart => submitted \in RestartAfter)
MCSpec == HistoryInit /\ [][MCNext]_<<vars, alone>> /\ Fairness

\* AckMeansDelivered, unless the sender was restarted alone: its numbers then
\* begin anew, and the receiver (es_new_ecpdu) may take its first PDU for a
\* copy of the last one and acknowledge what it does not deliver.
AckMeansDeliveredUnlessRestarted == alone \/ AckMeansDelivered
=============================================================================
