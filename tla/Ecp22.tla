------------------------------- MODULE Ecp22 --------------------------------
(***************************************************************************)
(* The Edge Control Protocol of IEEE 802.1Qbg (qbg/ecp22.c): the transmit  *)
(* side of one station, the receive side of its peer, and the link between *)
(* them.  ECP carries the PDUs of VDP with a stop-and-wait protocol: one   *)
(* PDU is outstanding, it is retransmitted when the ack timer expires and  *)
(* given up after max_retries retransmissions.                             *)
(*                                                                         *)
(* ecp22_tx_run_sm() has the form  set_state(); do { process(state); }     *)
(* while (set_state());  a pass of the loop is one step here, and the      *)
(* other handlers of that station wait until it returns.  PDUs are         *)
(* numbered in the order in which VDP submits them.                        *)
(***************************************************************************)
EXTENDS Naturals, Sequences

CONSTANTS
    SeqMod,          \* sequence numbers are 0..SeqMod-1 (2^16 in the code)
    MaxRetry,        \* largest max_retries that EVB negotiates
    MaxWait,         \* largest ack wait time that EVB negotiates, in ticks
    ECP22_MAX_RETRIES_DEFAULT,
    ECP22_ACK_TIMER_DEFAULT,
    SenderRestarts,  \* the sending station may be restarted on its own
    MaxPayloads,     \* bound: PDUs that VDP submits
    Capacity         \* bound: frames in flight in each direction

ASSUME EcpAssumption ==
    /\ SeqMod \in Nat /\ SeqMod > 2
    /\ MaxRetry \in Nat
    /\ MaxWait \in Nat \ {0}
    /\ ECP22_MAX_RETRIES_DEFAULT \in 0..MaxRetry
    /\ ECP22_ACK_TIMER_DEFAULT \in 1..MaxWait
    /\ SenderRestarts \in BOOLEAN
    /\ MaxPayloads \in Nat
    /\ Capacity \in Nat

VARIABLES
    \* The sending station
    up,              \* its struct ecp22 exists
    txState,         \* ecp->tx.state
    seqno,           \* ecp->tx.seqno
    retries,         \* ecp->tx.retries
    ack_received,    \* ecp->tx.ack_received
    ecpdu_received,  \* ecp->tx.ecpdu_received: the transmit buffer is in use
    txFrame,         \* ecp->tx.frame: sequence number and PDU
    errors,          \* ecp->tx.errors
    inuse,           \* ecp->inuse: PDUs waiting to be sent
    max_retries,     \* ecp->max_retries
    max_rte,         \* ecp->max_rte, as the time it stands for
    timers,          \* ack timers registered, by the time they have left
    loop,            \* ecp22_tx_run_sm(): "idle", "entered" or "looping"
    \* The receiving station
    rxUp,            \* its struct ecp22 exists
    rxState,         \* ecp->rx.state
    last_seqno,      \* ecp->rx.last_seqno
    \* The link
    reqs, acks,      \* ECP requests and acknowledgements in flight
    \* History
    submitted,       \* number of PDUs that VDP has submitted
    delivered,       \* PDUs delivered since the receiver was started
    arrived          \* PDUs ever delivered

txVars == <<txState, seqno, retries, ack_received, ecpdu_received, txFrame,
            errors, inuse>>
evbVars == <<max_retries, max_rte>>
rxVars == <<rxUp, rxState, last_seqno, delivered, arrived>>
vars == <<up, txVars, evbVars, timers, loop, rxVars, reqs, acks, submitted>>

TxStates == {"BEGIN", "INIT", "TXMIT_ECPDU", "WAIT_FORREQ", "WAIT_ONDATA",
             "ERROR"}

Seqnos == 0..(SeqMod - 1)
Frames == [seq : Seqnos, data : Nat]

NoTimers == [t \in 0..MaxWait |-> 0]

TypeOK ==
    /\ up \in BOOLEAN
    /\ txState \in TxStates
    /\ seqno \in Seqnos
    /\ retries \in 0..(MaxRetry + 1)
    /\ ack_received \in BOOLEAN
    /\ ecpdu_received \in BOOLEAN
    /\ txFrame \in Frames
    /\ errors \in Nat
    /\ inuse \in Seq(Nat)
    /\ max_retries \in 0..MaxRetry
    /\ max_rte \in 1..MaxWait
    /\ timers \in [0..MaxWait -> Nat]
    /\ loop \in {"idle", "entered", "looping"}
    /\ rxUp \in BOOLEAN
    /\ rxState \in {"WAIT", "WAIT2"}
    /\ last_seqno \in Seqnos
    /\ reqs \in Seq(Frames)
    /\ acks \in Seq(Seqnos)
    /\ submitted \in Nat
    /\ delivered \in Seq(Nat)
    /\ arrived \in SUBSET Nat

Init ==
    /\ up = FALSE
    /\ txState = "BEGIN" /\ seqno = 0 /\ retries = 0
    /\ ack_received = FALSE /\ ecpdu_received = FALSE
    /\ txFrame = [seq |-> 0, data |-> 0]
    /\ errors = 0
    /\ inuse = <<>>
    /\ max_retries = ECP22_MAX_RETRIES_DEFAULT
    /\ max_rte = ECP22_ACK_TIMER_DEFAULT
    /\ timers = NoTimers
    /\ loop = "idle"
    /\ rxUp = FALSE /\ rxState = "WAIT" /\ last_seqno = 0
    /\ reqs = <<>> /\ acks = <<>>
    /\ submitted = 0
    /\ delivered = <<>> /\ arrived = {}

-----------------------------------------------------------------------------
(* The link: it keeps frames in order and may lose any of them.            *)

\* A frame put on the link in one direction.
Transmit(link, frame) ==
    {link} \cup (IF Len(link) < Capacity THEN {Append(link, frame)} ELSE {})

-----------------------------------------------------------------------------
(* ecp22_tx_run_sm()                                                       *)

\* Zero is not used as a sequence number.
inc_seqno(x) == IF x = SeqMod - 1 THEN 1 ELSE x + 1

\* The PDU is given up.
GiveUp_OneMore == retries > max_retries + 1
GiveUp == retries > max_retries

\* The state that ecp22_set_tx_state() selects; it returns true exactly when
\* this is another state.
TxGoes ==
    CASE txState = "BEGIN" -> "INIT"
      [] txState \in {"INIT", "ERROR"} -> "WAIT_FORREQ"
      [] txState = "WAIT_FORREQ" -> "WAIT_ONDATA"
      [] txState = "WAIT_ONDATA" ->
            IF inuse # <<>> THEN "TXMIT_ECPDU" ELSE "WAIT_ONDATA"
      [] txState = "TXMIT_ECPDU" ->
            IF ack_received THEN "WAIT_FORREQ"
            ELSE IF GiveUp THEN "ERROR"
            ELSE "TXMIT_ECPDU"

\* A pass of the loop that processes state s.
TxPass(s) ==
    /\ loop # "idle"
    /\ loop = "entered" \/ TxGoes # txState
    /\ TxGoes = s
    /\ txState' = s
    /\ loop' = "looping"
    /\ UNCHANGED <<up, evbVars, rxVars, acks, submitted>>

es_inittransmit ==
    /\ TxPass("INIT")
    /\ errors' = 0
    /\ seqno' = 0
    /\ UNCHANGED <<retries, ack_received, ecpdu_received, txFrame, inuse,
                   timers, reqs>>

es_waitforreq_KeepsBuffer ==
    /\ TxPass("WAIT_FORREQ")
    /\ retries' = 0
    /\ ack_received' = FALSE
    /\ seqno' = inc_seqno(seqno)
    /\ UNCHANGED <<ecpdu_received, txFrame, errors, inuse, timers, reqs>>

es_waitforreq ==
    /\ TxPass("WAIT_FORREQ")
    /\ retries' = 0
    /\ ack_received' = FALSE
    /\ ecpdu_received' = FALSE
    /\ seqno' = inc_seqno(seqno)
    /\ UNCHANGED <<txFrame, errors, inuse, timers, reqs>>

WaitOnData ==
    /\ TxPass("WAIT_ONDATA")
    /\ UNCHANGED <<seqno, retries, ack_received, ecpdu_received, txFrame,
                   errors, inuse, timers, reqs>>

\* WAIT_ONDATA builds the frame of the first PDU in the queue.
build_ecpdu ==
    IF txState = "WAIT_ONDATA"
    THEN /\ ecpdu_received' = TRUE
         /\ txFrame' = [seq |-> seqno, data |-> Head(inuse)]
         /\ inuse' = Tail(inuse)
    ELSE UNCHANGED <<ecpdu_received, txFrame, inuse>>

\* Another timer, whatever is left of the earlier ones.
start_acktimer ==
    /\ timers' = [timers EXCEPT ![max_rte] = @ + 1]

es_txmit ==
    /\ TxPass("TXMIT_ECPDU")
    /\ build_ecpdu
    /\ retries' = retries + 1
    /\ reqs' \in Transmit(reqs, txFrame')
    /\ start_acktimer
    /\ UNCHANGED <<seqno, ack_received, errors>>

es_counterror ==
    /\ TxPass("ERROR")
    /\ errors' = errors + 1
    /\ UNCHANGED <<seqno, retries, ack_received, ecpdu_received, txFrame, inuse,
                   timers, reqs>>

\* ecp22_tx_run_sm() returns: ecp22_set_tx_state() selected no new state.
tx_run_sm_returns ==
    /\ loop = "looping"
    /\ TxGoes = txState
    /\ loop' = "idle"
    /\ UNCHANGED <<up, txVars, evbVars, timers, rxVars, reqs, acks,
                   submitted>>

tx_run_sm ==
    \/ es_inittransmit
    \/ es_waitforreq
    \/ WaitOnData
    \/ es_txmit
    \/ es_counterror
    \/ tx_run_sm_returns

-----------------------------------------------------------------------------
(* The handlers of the sending station                                     *)

Dispatch == up /\ loop = "idle"

\* VDP submits a PDU: ecp22_req2send() and ecp22_add_payload().
req2send ==
    /\ Dispatch
    /\ submitted < MaxPayloads
    /\ submitted' = submitted + 1
    /\ inuse' = Append(inuse, submitted + 1)
    /\ loop' = IF ecpdu_received THEN "idle" ELSE "entered"
    /\ UNCHANGED <<up, txState, seqno, retries, ack_received, ecpdu_received,
                   txFrame, errors, evbVars, timers, rxVars, reqs, acks>>

\* An ack timer expires, of the PDU in the transmit buffer or an older one.
ack_timeout_handler ==
    /\ Dispatch
    /\ timers[0] > 0
    /\ timers' = [timers EXCEPT ![0] = @ - 1]
    /\ loop' = "entered"
    /\ UNCHANGED <<up, txVars, evbVars, rxVars, reqs, acks, submitted>>

\* Time passes; a timer that is due runs first.
Tick ==
    /\ loop = "idle"
    /\ timers[0] = 0
    /\ timers # NoTimers
    /\ timers' = [t \in 0..MaxWait |-> IF t < MaxWait THEN timers[t + 1] ELSE 0]
    /\ UNCHANGED <<up, txVars, evbVars, loop, rxVars, reqs, acks, submitted>>

AckMatches_Any(s) == ecpdu_received
AckMatches(s) == ecpdu_received /\ s = seqno

\* An acknowledgement comes in: it is noted, and looked at when the ack timer
\* expires.
recack_frame_StopsTimers ==
    /\ Dispatch
    /\ acks # <<>>
    /\ acks' = Tail(acks)
    /\ ack_received' = (ack_received \/ AckMatches(Head(acks)))
    /\ timers' = IF ack_received' THEN NoTimers ELSE timers
    /\ UNCHANGED <<up, txState, seqno, retries, ecpdu_received, txFrame, errors,
                   inuse, evbVars, loop, rxVars, reqs, submitted>>

recack_frame ==
    /\ Dispatch
    /\ acks # <<>>
    /\ acks' = Tail(acks)
    /\ ack_received' = (ack_received \/ AckMatches(Head(acks)))
    /\ UNCHANGED <<up, txState, seqno, retries, ecpdu_received, txFrame, errors,
                   inuse, evbVars, timers, loop, rxVars, reqs, submitted>>

\* EVB has negotiated new parameters.
data_from_evb(r, w) ==
    /\ Dispatch
    /\ max_retries' = r
    /\ max_rte' = w
    /\ UNCHANGED <<up, txVars, timers, loop, rxVars, reqs, acks, submitted>>

\* ecp22_start(): a new struct ecp22, and the transmit machine runs.
ecp22_start ==
    /\ ~up
    /\ up' = TRUE
    /\ max_retries' = ECP22_MAX_RETRIES_DEFAULT
    /\ max_rte' = ECP22_ACK_TIMER_DEFAULT
    /\ loop' = "entered"
    /\ UNCHANGED <<txVars, timers, rxVars, reqs, acks, submitted>>

\* ecp22_stop(): the queue is dropped and the struct ecp22 freed.  Ack timers
\* are not cancelled; what their handler does with the freed memory is not
\* part of the model.
ecp22_stop ==
    /\ up' = FALSE
    /\ txState' = "BEGIN" /\ seqno' = 0 /\ retries' = 0
    /\ ack_received' = FALSE /\ ecpdu_received' = FALSE
    /\ txFrame' = [seq |-> 0, data |-> 0]
    /\ errors' = 0
    /\ inuse' = <<>>
    /\ timers' = NoTimers
    /\ UNCHANGED <<evbVars, loop, submitted>>

-----------------------------------------------------------------------------
(* The receiving station                                                   *)

\* es_first: the first request is new whatever its number.
LastSeqno(s) ==
    IF rxState = "WAIT" THEN (s + SeqMod - 1) % SeqMod ELSE last_seqno

IsNew_Always(s) == TRUE
IsNew(s) == s # LastSeqno(s)

\* A request comes in: ecp22_rx_run_sm() delivers it to VDP when it is new
\* and acknowledges it.
rx_receiveframe ==
    /\ rxUp
    /\ reqs # <<>>
    /\ LET req == Head(reqs)
       IN  /\ last_seqno' = req.seq
           /\ rxState' = "WAIT2"
           /\ IF IsNew(req.seq)
              THEN /\ delivered' = Append(delivered, req.data)
                   /\ arrived' = arrived \cup {req.data}
              ELSE UNCHANGED <<delivered, arrived>>
           /\ acks' \in Transmit(acks, req.seq)
    /\ reqs' = Tail(reqs)
    /\ UNCHANGED <<up, txVars, evbVars, timers, loop, rxUp, submitted>>

\* ecp22_start() on this side.
rx_start ==
    /\ ~rxUp
    /\ rxUp' = TRUE
    /\ UNCHANGED <<up, txVars, evbVars, timers, loop, rxState, last_seqno,
                   delivered, arrived, reqs, acks, submitted>>

\* ecp22_stop() on this side, and VDP above it is stopped with it.
rx_stop ==
    /\ rxUp' = FALSE
    /\ rxState' = "WAIT"
    /\ last_seqno' = 0
    /\ delivered' = <<>>
    /\ UNCHANGED arrived

-----------------------------------------------------------------------------
(* The stations and the link                                               *)

\* The link goes down: frames are lost, and both stations stop ECP when they
\* see it (evb22_ifdown).  They start it again some time after the link is up.
link_down ==
    /\ up \/ rxUp
    /\ loop = "idle"
    /\ ecp22_stop
    /\ rx_stop
    /\ reqs' = <<>>
    /\ acks' = <<>>

\* The receiving station is restarted.
receiver_restart ==
    /\ rxUp
    /\ rx_stop
    /\ UNCHANGED <<up, txVars, evbVars, timers, loop, reqs, acks, submitted>>

\* The sending station is restarted while the receiver goes on.
sender_restart ==
    /\ SenderRestarts
    /\ Dispatch
    /\ ecp22_stop
    /\ UNCHANGED <<rxVars, reqs, acks>>

\* A frame reaches a station that does not run ECP.
unheard ==
    /\ \/ ~rxUp /\ reqs # <<>> /\ reqs' = Tail(reqs) /\ UNCHANGED acks
       \/ ~up /\ acks # <<>> /\ acks' = Tail(acks) /\ UNCHANGED reqs
    /\ UNCHANGED <<up, txVars, evbVars, timers, loop, rxVars, submitted>>

Next ==
    \/ tx_run_sm
    \/ req2send
    \/ ack_timeout_handler
    \/ Tick
    \/ recack_frame
    \/ \E r \in 0..MaxRetry, w \in 1..MaxWait : data_from_evb(r, w)
    \/ ecp22_start
    \/ rx_receiveframe
    \/ rx_start
    \/ link_down
    \/ receiver_restart
    \/ sender_restart
    \/ unheard

Spec == Init /\ [][Next]_vars

\* Handlers run to their end, time passes and timeouts that are due are
\* handled.  Nothing is assumed of the peer, the link and VDP.
Fairness ==
    WF_vars(tx_run_sm) /\ WF_vars(ack_timeout_handler) /\ WF_vars(Tick)

FairSpec == Spec /\ Fairness

-----------------------------------------------------------------------------
(* Properties                                                              *)

\* Whatever is lost, retransmitted, given up or restarted, and also when the
\* sequence numbers wrap, VDP gets the PDUs in order and none twice
\* (es_new_ecpdu, es_first).
Fifo == INSTANCE LossyFifo
ImplementsFifo == Fifo!Spec

\* Between two handlers, a PDU that is queued or outstanding has an ack timer
\* running that will make ecp22_tx_run_sm() look at it again: an
\* acknowledgement does not run the machine, and VDP does not when the
\* transmit buffer is in use.
NothingStranded ==
    Dispatch /\ (ecpdu_received \/ inuse # <<>>) => timers # NoTimers

\* An acknowledgement is taken for the PDU it was sent for: when it is noted
\* (recack_frame), that PDU was delivered.  Late acknowledgements of PDUs that
\* were given up and wrapped sequence numbers do not count for another one,
\* unless all the numbers but two were given up since the start.
AckMeansDelivered ==
    ack_received /\ errors < SeqMod - 2 => txFrame.data \in arrived

\* Pending(p): PDU p waits in the queue or in the transmit buffer.
Pending(p) ==
    \/ \E i \in DOMAIN inuse : inuse[i] = p
    \/ ecpdu_received /\ txFrame.data = p

\* Every PDU that was submitted is acknowledged, given up or dropped by a stop
\* eventually: when VDP stops submitting, the queue and the transmit buffer
\* drain.
PdusSettle == []<>(\A p \in 1..MaxPayloads : ~Pending(p))
=============================================================================
