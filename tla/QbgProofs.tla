------------------------------ MODULE QbgProofs ------------------------------
(***************************************************************************)
(* Proofs about IEEE 802.1Qbg as ratified.  First ECP (Ecp22), for any     *)
(* range of sequence numbers, any negotiated parameters, any number of     *)
(* PDUs and any number of frames in flight; then the EVB TLV (Evb22), for  *)
(* every range of exponents, every pair of configurations and any number   *)
(* of commands, link failures and lost LLDPDUs.                            *)
(***************************************************************************)
EXTENDS MCEcp22, Evb22, SequenceTheorems, TLAPS

-----------------------------------------------------------------------------
(* ECP: the transmit machine                                               *)

\* What the transmit machine leaves behind: between two handlers it is in
\* WAIT_ONDATA with nothing to send, or in TXMIT_ECPDU with a timer running.
TxInv ==
    /\ ~up => /\ loop = "idle" /\ txState = "BEGIN"
              /\ ~ecpdu_received /\ inuse = <<>>
    /\ up /\ loop = "idle" => \/ txState = "WAIT_ONDATA" /\ inuse = <<>>
                              \/ txState = "TXMIT_ECPDU"
    /\ txState \in {"WAIT_FORREQ", "WAIT_ONDATA"} => retries = 0
    /\ txState = "TXMIT_ECPDU" => ecpdu_received
    /\ ecpdu_received => txState \in {"TXMIT_ECPDU", "ERROR"}
    /\ txState = "TXMIT_ECPDU" /\ loop # "entered" => timers # NoTimers

-----------------------------------------------------------------------------
(* Types                                                                   *)

\* The parameters are natural numbers.
LEMMA ConstantsType ==
    /\ SeqMod \in Nat /\ SeqMod > 2
    /\ MaxRetry \in Nat
    /\ MaxWait \in Nat /\ MaxWait > 0
    /\ ECP22_MAX_RETRIES_DEFAULT \in 0..MaxRetry
    /\ ECP22_ACK_TIMER_DEFAULT \in 1..MaxWait
BY EcpAssumption

\* The link carries frames.
LEMMA TransmitType ==
    ASSUME NEW S, NEW l \in Seq(S), NEW frame \in S
    PROVE  Transmit(l, frame) \subseteq Seq(S)
BY DEF Transmit

\* The daemons start with well-typed variables.
LEMMA InitType == Init => TypeOK
<1> SUFFICES ASSUME Init PROVE TypeOK
    OBVIOUS
<1>1. 0 \in Seqnos /\ 0 \in 0..(MaxRetry + 1)
    BY ConstantsType DEF Seqnos
<1>2. [seq |-> 0, data |-> 0] \in Frames
    BY <1>1 DEF Frames
<1>3. NoTimers \in [0..MaxWait -> Nat]
    BY DEF NoTimers
<1>4. inuse \in Seq(Nat) /\ reqs \in Seq(Frames) /\ acks \in Seq(Seqnos)
    BY DEF Init
<1> QED
    BY <1>1, <1>2, <1>3, <1>4, ConstantsType DEF Init, TypeOK, TxStates

\* A pass of the transmit machine keeps the types.
LEMMA TxType == TypeOK /\ TxInv /\ tx_run_sm => TypeOK'
<1> SUFFICES ASSUME TypeOK, TxInv, tx_run_sm PROVE TypeOK'
    OBVIOUS
<1> USE DEF TypeOK
<1>1. CASE es_inittransmit
    BY <1>1, ConstantsType
    DEF es_inittransmit, TxPass, TxStates, Seqnos, evbVars, rxVars
<1>2. CASE es_waitforreq
    <2>1. seqno' \in Seqnos
        BY <1>2, ConstantsType DEF es_waitforreq, inc_seqno, Seqnos
    <2>2. retries' \in 0..(MaxRetry + 1)
        BY <1>2, ConstantsType DEF es_waitforreq
    <2> QED
        BY <1>2, <2>1, <2>2
        DEF es_waitforreq, TxPass, TxStates, evbVars, rxVars
<1>3. CASE WaitOnData
    BY <1>3 DEF WaitOnData, TxPass, TxStates, evbVars, rxVars
<1>4. CASE es_txmit
    <2>1. txState \in {"WAIT_ONDATA", "TXMIT_ECPDU"}
        BY <1>4 DEF es_txmit, TxPass, TxGoes, TxStates
    <2>2. txState = "WAIT_ONDATA" => inuse # <<>>
        BY <1>4 DEF es_txmit, TxPass, TxGoes
    <2>3. retries' \in 0..(MaxRetry + 1)
        <3>1. CASE txState = "WAIT_ONDATA"
            BY <1>4, <3>1, ConstantsType DEF es_txmit, TxInv
        <3>2. CASE txState = "TXMIT_ECPDU"
            <4>1. ~GiveUp
                BY <1>4, <3>2 DEF es_txmit, TxPass, TxGoes
            <4>2. retries <= max_retries
                BY <4>1, ConstantsType DEF GiveUp
            <4>3. retries' = retries + 1
                BY <1>4 DEF es_txmit
            <4> QED
                BY <4>2, <4>3, ConstantsType
        <3> QED
            BY <2>1, <3>1, <3>2
    <2>4. /\ txFrame' \in Frames /\ inuse' \in Seq(Nat)
          /\ ecpdu_received' \in BOOLEAN
        <3>1. CASE txState = "WAIT_ONDATA"
            <4>1. Head(inuse) \in Nat /\ Tail(inuse) \in Seq(Nat)
                BY <2>2, <3>1
            <4>2. [seq |-> seqno, data |-> Head(inuse)] \in Frames
                BY <4>1 DEF Frames
            <4>3. /\ txFrame' = [seq |-> seqno, data |-> Head(inuse)]
                  /\ inuse' = Tail(inuse)
                  /\ ecpdu_received' = TRUE
                BY <1>4, <3>1 DEF es_txmit, build_ecpdu
            <4> QED
                BY <4>1, <4>2, <4>3
        <3>2. CASE txState # "WAIT_ONDATA"
            BY <1>4, <3>2 DEF es_txmit, build_ecpdu
        <3> QED
            BY <3>1, <3>2
    <2>5. reqs' \in Seq(Frames)
        BY <1>4, <2>4, TransmitType DEF es_txmit
    <2>6. timers' \in [0..MaxWait -> Nat]
        BY <1>4, ConstantsType DEF es_txmit, start_acktimer
    <2> QED
        BY <1>4, <2>3, <2>4, <2>5, <2>6
        DEF es_txmit, TxPass, TxStates, evbVars, rxVars
<1>5. CASE es_counterror
    BY <1>5 DEF es_counterror, TxPass, TxStates, evbVars, rxVars
<1>6. CASE tx_run_sm_returns
    BY <1>6 DEF tx_run_sm_returns, txVars, evbVars, rxVars
<1> QED
    BY <1>1, <1>2, <1>3, <1>4, <1>5, <1>6 DEF tx_run_sm

\* Stopping ECP on the sending station keeps the types.
LEMMA StopType ==
    ASSUME TypeOK, ecp22_stop
    PROVE  /\ up' \in BOOLEAN /\ txState' \in TxStates /\ seqno' \in Seqnos
           /\ retries' \in 0..(MaxRetry + 1) /\ ack_received' \in BOOLEAN
           /\ ecpdu_received' \in BOOLEAN /\ txFrame' \in Frames
           /\ errors' \in Nat /\ inuse' \in Seq(Nat)
           /\ max_retries' \in 0..MaxRetry /\ max_rte' \in 1..MaxWait
           /\ timers' \in [0..MaxWait -> Nat]
           /\ loop' \in {"idle", "entered", "looping"}
           /\ submitted' \in Nat
<1>1. /\ up' \in BOOLEAN /\ txState' \in TxStates /\ ack_received' \in BOOLEAN
      /\ ecpdu_received' \in BOOLEAN /\ errors' \in Nat
    BY DEF ecp22_stop, TxStates
<1>2. 0 \in Seqnos /\ 0 \in 0..(MaxRetry + 1) /\ 0 \in 0..MaxWait
    BY ConstantsType DEF Seqnos
<1>3. seqno' \in Seqnos /\ retries' \in 0..(MaxRetry + 1)
    BY <1>2 DEF ecp22_stop
<1>4. txFrame' \in Frames
    BY <1>2 DEF ecp22_stop, Frames
<1>5. inuse' \in Seq(Nat)
    BY DEF ecp22_stop
<1>6. timers' \in [0..MaxWait -> Nat]
    BY DEF ecp22_stop, NoTimers
<1>7. /\ max_retries' \in 0..MaxRetry /\ max_rte' \in 1..MaxWait
      /\ loop' \in {"idle", "entered", "looping"} /\ submitted' \in Nat
    BY DEF ecp22_stop, TypeOK, evbVars
<1> QED
    BY <1>1, <1>3, <1>4, <1>5, <1>6, <1>7

\* Stopping ECP on the receiving station keeps the types.
LEMMA RxStopType ==
    ASSUME TypeOK, rx_stop
    PROVE  /\ rxUp' \in BOOLEAN /\ rxState' \in {"WAIT", "WAIT2"}
           /\ last_seqno' \in Seqnos /\ delivered' \in Seq(Nat)
           /\ arrived' \in SUBSET Nat
<1>1. 0 \in Seqnos
    BY ConstantsType DEF Seqnos
<1>2. arrived' \in SUBSET Nat
    BY DEF rx_stop, TypeOK
<1>3. delivered' \in Seq(Nat)
    BY DEF rx_stop
<1> QED
    BY <1>1, <1>2, <1>3 DEF rx_stop

\* Every step keeps the types.
LEMMA TypeStep == TypeOK /\ TxInv /\ [Next]_vars => TypeOK'
<1> SUFFICES ASSUME TypeOK, TxInv, [Next]_vars PROVE TypeOK'
    OBVIOUS
<1>1. CASE tx_run_sm
    BY <1>1, TxType
<1>2. CASE req2send
    BY <1>2 DEF TypeOK, req2send, evbVars, rxVars
<1>3. CASE ack_timeout_handler
    <2>1. timers' \in [0..MaxWait -> Nat]
        BY <1>3, ConstantsType DEF TypeOK, ack_timeout_handler
    <2> QED
        BY <1>3, <2>1 DEF TypeOK, ack_timeout_handler, txVars, evbVars, rxVars
<1>4. CASE Tick
    <2>1. timers' \in [0..MaxWait -> Nat]
        BY <1>4, ConstantsType DEF TypeOK, Tick
    <2> QED
        BY <1>4, <2>1 DEF TypeOK, Tick, txVars, evbVars, rxVars
<1>5. CASE recack_frame
    <2>1. ack_received' \in BOOLEAN
        <3>1. AckMatches(Head(acks)) \in BOOLEAN
            BY DEF TypeOK, AckMatches
        <3> QED
            BY <1>5, <3>1 DEF TypeOK, recack_frame
    <2> QED
        BY <1>5, <2>1 DEF TypeOK, recack_frame, evbVars, rxVars
<1>6. ASSUME NEW r \in 0..MaxRetry, NEW w \in 1..MaxWait, data_from_evb(r, w)
      PROVE  TypeOK'
    BY <1>6 DEF TypeOK, data_from_evb, txVars, rxVars
<1>7. CASE ecp22_start
    <2>1. /\ max_retries' \in 0..MaxRetry /\ max_rte' \in 1..MaxWait
          /\ up' \in BOOLEAN /\ loop' \in {"idle", "entered", "looping"}
        BY <1>7, ConstantsType DEF ecp22_start
    <2> QED
        BY <1>7, <2>1 DEF TypeOK, ecp22_start, txVars, rxVars
<1>8. CASE rx_receiveframe
    <2>1. Head(reqs) \in Frames /\ Tail(reqs) \in Seq(Frames)
        BY <1>8 DEF TypeOK, rx_receiveframe
    <2>2. Head(reqs).seq \in Seqnos /\ Head(reqs).data \in Nat
        BY <2>1 DEF Frames
    <2>3. acks' \in Seq(Seqnos)
        BY <1>8, <2>2, TransmitType DEF TypeOK, rx_receiveframe
    <2>4. delivered' \in Seq(Nat) /\ arrived' \in SUBSET Nat
        <3>1. CASE IsNew(Head(reqs).seq)
            <4>1. /\ delivered' = Append(delivered, Head(reqs).data)
                  /\ arrived' = arrived \cup {Head(reqs).data}
                BY <1>8, <3>1 DEF rx_receiveframe
            <4>2. delivered' \in Seq(Nat)
                BY <2>2, <4>1 DEF TypeOK
            <4>3. arrived' \in SUBSET Nat
                BY <2>2, <4>1 DEF TypeOK
            <4> QED
                BY <4>2, <4>3
        <3>2. CASE ~IsNew(Head(reqs).seq)
            BY <1>8, <3>2 DEF TypeOK, rx_receiveframe
        <3> QED
            BY <3>1, <3>2
    <2>5. last_seqno' \in Seqnos /\ rxState' \in {"WAIT", "WAIT2"}
        BY <1>8, <2>2 DEF rx_receiveframe
    <2>6. reqs' \in Seq(Frames)
        BY <1>8, <2>1 DEF rx_receiveframe
    <2> QED
        BY <1>8, <2>3, <2>4, <2>5, <2>6
        DEF TypeOK, rx_receiveframe, txVars, evbVars
<1>9. CASE rx_start
    BY <1>9 DEF TypeOK, rx_start, txVars, evbVars
<1>10. CASE link_down
    <2>1. reqs' \in Seq(Frames) /\ acks' \in Seq(Seqnos)
        BY <1>10 DEF link_down
    <2>2. ecp22_stop /\ rx_stop
        BY <1>10 DEF link_down
    <2> QED
        BY <2>1, <2>2, StopType, RxStopType DEF TypeOK
<1>11. CASE receiver_restart
    BY <1>11, RxStopType
    DEF TypeOK, receiver_restart, txVars, evbVars
<1>12. CASE sender_restart
    BY <1>12, StopType DEF TypeOK, sender_restart, rxVars
<1>13. CASE unheard
    <2>1. UNCHANGED <<up, txVars, evbVars, timers, loop, rxVars, submitted>>
        BY <1>13 DEF unheard
    <2>2. reqs # <<>> => Tail(reqs) \in Seq(Frames)
        BY DEF TypeOK
    <2>3. acks # <<>> => Tail(acks) \in Seq(Seqnos)
        BY DEF TypeOK
    <2>4. reqs \in Seq(Frames) /\ acks \in Seq(Seqnos)
        BY DEF TypeOK
    <2>5. reqs' \in Seq(Frames) /\ acks' \in Seq(Seqnos)
        BY <1>13, <2>2, <2>3, <2>4 DEF unheard
    <2> QED
        BY <2>1, <2>5 DEF TypeOK, txVars, evbVars, rxVars
<1>14. CASE UNCHANGED vars
    BY <1>14 DEF TypeOK, vars, txVars, evbVars, rxVars
<1> QED
    BY <1>1, <1>2, <1>3, <1>4, <1>5, <1>6, <1>7, <1>8, <1>9, <1>10, <1>11,
       <1>12, <1>13, <1>14 DEF Next

-----------------------------------------------------------------------------
(* The transmit machine                                                    *)

\* Time that passes makes no timer vanish: one that is not due moves on.
LEMMA TickKeepsTimers ==
    ASSUME TypeOK, Tick
    PROVE  timers' # NoTimers
<1>1. PICK t \in 0..MaxWait : timers[t] # 0
    BY DEF TypeOK, Tick, NoTimers
<1>2. t - 1 \in 0..MaxWait /\ t - 1 < MaxWait
    BY <1>1, ConstantsType DEF TypeOK, Tick
<1>3. timers'[t - 1] = timers[t]
    BY <1>1, <1>2, ConstantsType DEF Tick
<1> QED
    BY <1>1, <1>2, <1>3 DEF NoTimers

\* A transmission leaves an ack timer running.
LEMMA TransmissionTimed ==
    ASSUME TypeOK, start_acktimer
    PROVE  timers' # NoTimers
<1>1. max_rte \in 0..MaxWait
    BY ConstantsType DEF TypeOK
<1>2. timers[max_rte] \in Nat /\ timers'[max_rte] = timers[max_rte] + 1
    BY <1>1 DEF TypeOK, start_acktimer
<1>3. timers'[max_rte] # 0
    BY <1>2
<1>4. NoTimers[max_rte] = 0
    BY <1>1 DEF NoTimers
<1> QED
    BY <1>3, <1>4

\* A pass of the transmit machine keeps TxInv.
LEMMA TxPassStep == TypeOK /\ TxInv /\ tx_run_sm => TxInv'
<1> SUFFICES ASSUME TypeOK, TxInv, tx_run_sm PROVE TxInv'
    OBVIOUS
<1> USE DEF TxInv
<1>1. CASE es_inittransmit
    BY <1>1 DEF TypeOK, es_inittransmit, TxPass, TxGoes, TxStates
<1>2. CASE es_waitforreq
    BY <1>2 DEF TypeOK, es_waitforreq, TxPass
<1>3. CASE WaitOnData
    BY <1>3 DEF TypeOK, WaitOnData, TxPass, TxGoes, TxStates
<1>4. CASE es_txmit
    <2>1. txState \in {"WAIT_ONDATA", "TXMIT_ECPDU"}
        BY <1>4 DEF TypeOK, es_txmit, TxPass, TxGoes, TxStates
    <2>2. ecpdu_received' = TRUE
        BY <1>4, <2>1 DEF TypeOK, es_txmit, build_ecpdu
    <2>3. timers' # NoTimers
        BY <1>4, TransmissionTimed DEF es_txmit
    <2>4. up' = TRUE /\ txState' = "TXMIT_ECPDU" /\ loop' = "looping"
        BY <1>4 DEF TypeOK, es_txmit, TxPass
    <2> QED
        BY <2>2, <2>3, <2>4
<1>5. CASE es_counterror
    BY <1>5 DEF TypeOK, es_counterror, TxPass
<1>6. CASE tx_run_sm_returns
    BY <1>6 DEF TypeOK, tx_run_sm_returns, TxGoes, TxStates, txVars
<1> QED
    BY <1>1, <1>2, <1>3, <1>4, <1>5, <1>6 DEF tx_run_sm

\* Every step keeps TxInv.
LEMMA TxInvStep == TypeOK /\ TxInv /\ [Next]_vars => TxInv'
<1> SUFFICES ASSUME TypeOK, TxInv, [Next]_vars PROVE TxInv'
    OBVIOUS
<1>1. CASE tx_run_sm
    BY <1>1, TxPassStep
<1>2. CASE req2send
    BY <1>2 DEF TypeOK, TxInv, req2send, Dispatch
<1>3. CASE ack_timeout_handler
    BY <1>3 DEF TypeOK, TxInv, ack_timeout_handler, Dispatch, txVars
<1>4. CASE Tick
    BY <1>4, TickKeepsTimers DEF TxInv, Tick, txVars
<1>5. CASE recack_frame
    BY <1>5 DEF TxInv, recack_frame
<1>6. ASSUME NEW r \in 0..MaxRetry, NEW w \in 1..MaxWait, data_from_evb(r, w)
      PROVE  TxInv'
    BY <1>6 DEF TxInv, data_from_evb, txVars
<1>7. CASE ecp22_start
    BY <1>7 DEF TxInv, ecp22_start, txVars
<1>8. CASE rx_receiveframe
    BY <1>8 DEF TxInv, rx_receiveframe, txVars
<1>9. CASE rx_start
    BY <1>9 DEF TxInv, rx_start, txVars
<1>10. CASE link_down
    BY <1>10 DEF TxInv, link_down, ecp22_stop
<1>11. CASE receiver_restart
    BY <1>11 DEF TxInv, receiver_restart, txVars
<1>12. CASE sender_restart
    BY <1>12 DEF TxInv, sender_restart, Dispatch, ecp22_stop
<1>13. CASE unheard
    <2>1. UNCHANGED <<up, txVars, timers, loop>>
        BY <1>13 DEF unheard
    <2> QED
        BY <2>1 DEF TxInv, txVars
<1>14. CASE UNCHANGED vars
    BY <1>14 DEF TxInv, vars, txVars
<1> QED
    BY <1>1, <1>2, <1>3, <1>4, <1>5, <1>6, <1>7, <1>8, <1>9, <1>10, <1>11,
       <1>12, <1>13, <1>14 DEF Next

\* The invariant of the transmit machine and the types, which need each other:
\* the bound on retries holds because a PDU that is given up is not sent again.
LEMMA TxInvariant == Spec => [](TypeOK /\ TxInv)
<1>1. Init => TypeOK /\ TxInv
    BY InitType DEF Init, TxInv
<1>2. TypeOK /\ TxInv /\ [Next]_vars => (TypeOK /\ TxInv)'
    BY TypeStep, TxInvStep
<1> QED
    BY <1>1, <1>2, PTL DEF Spec

\* The variables have their types in every reachable state; in particular a
\* PDU is transmitted at most 1 + MaxRetry times, whatever EVB negotiates
\* while it is outstanding (ecp22_set_tx_state).
THEOREM TypeCorrect == Spec => []TypeOK
BY TxInvariant, PTL

\* A PDU that is queued or outstanding has an ack timer that will run the
\* transmit machine (ecp22_add_payload, ecp22_recack_frame).
THEOREM NothingIsStranded == Spec => []NothingStranded
<1>1. TypeOK /\ TxInv => NothingStranded
    BY DEF TypeOK, TxInv, NothingStranded, Dispatch
<1> QED
    BY <1>1, TxInvariant, PTL

-----------------------------------------------------------------------------
(* In order and at most once                                               *)

\* The queue holds PDUs in the order in which they were submitted.
QueueInv ==
    /\ \A i \in 1..Len(inuse) : inuse[i] \in 1..submitted
    /\ \A i, j \in 1..Len(inuse) : i < j => inuse[i] < inuse[j]

\* Frame f is that of an earlier PDU than frame g, or the same frame.
Before(f, g) == f.data < g.data \/ f = g

\* The transmit buffer is ahead of the queue, and the link ahead of it.
FrameInv ==
    /\ ecpdu_received => /\ txFrame.data \in 1..submitted
                         /\ \A j \in 1..Len(inuse) : txFrame.data < inuse[j]
    /\ \A i \in 1..Len(reqs) :
          /\ reqs[i].data \in 1..submitted
          /\ \A j \in 1..Len(inuse) : reqs[i].data < inuse[j]
          /\ ecpdu_received => Before(reqs[i], txFrame)
    /\ \A i, j \in 1..Len(reqs) : i < j => Before(reqs[i], reqs[j])

\* What was delivered is older than frame f, or it is frame f and the receiver
\* remembers its sequence number.
Recognised(f) ==
    \A i \in 1..Len(delivered) :
        \/ delivered[i] < f.data
        \/ delivered[i] = f.data /\ rxState = "WAIT2" /\ last_seqno = f.seq

\* Frames that may still reach the receiver are newer than what it delivered,
\* or copies of the last frame it received.
ReceiverInv ==
    /\ \A i \in 1..Len(delivered) :
          /\ delivered[i] \in 1..submitted
          /\ \A j \in 1..Len(inuse) : delivered[i] < inuse[j]
    /\ \A j \in 1..Len(reqs) : Recognised(reqs[j])
    /\ ecpdu_received => Recognised(txFrame)

FifoInv == QueueInv /\ FrameInv /\ ReceiverInv

\* The elements of a sequence that has grown by one.
LEMMA AppendElement ==
    ASSUME NEW S, NEW s \in Seq(S), NEW e \in S, NEW i \in 1..Len(Append(s, e))
    PROVE  \/ i \in 1..Len(s) /\ Append(s, e)[i] = s[i]
           \/ i = Len(s) + 1 /\ Append(s, e)[i] = e
OBVIOUS

\* The elements of a sequence that has lost its head.
LEMMA TailElement ==
    ASSUME NEW S, NEW s \in Seq(S), s # <<>>
    PROVE  /\ 1 \in 1..Len(s) /\ Head(s) = s[1] /\ Head(s) \in S
           /\ Tail(s) \in Seq(S)
           /\ \A i \in 1..Len(Tail(s)) :
                 i \in Nat /\ i + 1 \in 1..Len(s) /\ Tail(s)[i] = s[i + 1]
OBVIOUS

\* Steps that leave frames, queue and receiver alone, and may free the
\* transmit buffer.
LEMMA FifoKept ==
    ASSUME FifoInv,
           UNCHANGED <<inuse, reqs, delivered, rxState, last_seqno, txFrame,
                       submitted>>,
           ecpdu_received' => ecpdu_received
    PROVE  FifoInv'
BY DEF FifoInv, QueueInv, FrameInv, ReceiverInv, Recognised, Before

\* VDP submits a PDU: it is newer than all the others.
LEMMA FifoSubmit == TypeOK /\ FifoInv /\ req2send => FifoInv'
<1> SUFFICES ASSUME TypeOK, FifoInv, req2send PROVE FifoInv'
    OBVIOUS
<1>1. /\ UNCHANGED <<reqs, delivered, rxState, last_seqno, txFrame,
                     ecpdu_received>>
      /\ submitted' = submitted + 1
      /\ inuse' = Append(inuse, submitted + 1)
    BY DEF req2send, rxVars
<1>2. inuse \in Seq(Nat) /\ submitted \in Nat
    BY DEF TypeOK
<1>3. ASSUME NEW i \in 1..Len(inuse')
      PROVE  \/ i \in 1..Len(inuse) /\ inuse'[i] = inuse[i]
             \/ i = Len(inuse) + 1 /\ inuse'[i] = submitted + 1
    BY <1>1, <1>2, AppendElement
<1>4. Len(inuse) \in Nat
    BY <1>2
<1>5. 1..submitted \subseteq 1..submitted'
    BY <1>1, <1>2
<1>6. \A n \in 1..submitted : n \in Nat /\ n < submitted + 1
    BY <1>2
<1>7. QueueInv'
    <2>1. ASSUME NEW i \in 1..Len(inuse') PROVE inuse'[i] \in 1..submitted'
        BY <1>1, <1>2, <1>3, <1>5 DEF FifoInv, QueueInv
    <2>2. ASSUME NEW i \in 1..Len(inuse'), NEW j \in 1..Len(inuse'), i < j
          PROVE  inuse'[i] < inuse'[j]
        BY <1>3, <1>4, <1>6, <2>2 DEF FifoInv, QueueInv
    <2> QED
        BY <2>1, <2>2 DEF QueueInv
<1>8. FrameInv'
    <2>1. ASSUME NEW n \in 1..submitted,
                 \A j \in 1..Len(inuse) : n < inuse[j]
          PROVE  \A j \in 1..Len(inuse') : n < inuse'[j]
        BY <1>3, <1>6, <2>1
    <2> QED
        BY <1>1, <1>5, <2>1 DEF FifoInv, FrameInv, Before
<1>9. ReceiverInv'
    <2>1. ASSUME NEW n \in 1..submitted,
                 \A j \in 1..Len(inuse) : n < inuse[j]
          PROVE  \A j \in 1..Len(inuse') : n < inuse'[j]
        BY <1>3, <1>6, <2>1
    <2> QED
        BY <1>1, <1>5, <2>1 DEF FifoInv, ReceiverInv, Recognised
<1> QED
    BY <1>7, <1>8, <1>9 DEF FifoInv

\* The transmit buffer is filled from the head of the queue.
LEMMA FifoBuild ==
    ASSUME TypeOK, FifoInv, build_ecpdu, txState = "WAIT_ONDATA",
           inuse # <<>>, UNCHANGED <<delivered, rxState, last_seqno, submitted>>
    PROVE  /\ QueueInv'
           /\ txFrame'.data \in 1..submitted
           /\ \A j \in 1..Len(inuse') : txFrame'.data < inuse'[j]
           /\ \A i \in 1..Len(reqs) :
                 /\ Before(reqs[i], txFrame')
                 /\ \A j \in 1..Len(inuse') : reqs[i].data < inuse'[j]
           /\ \A i \in 1..Len(delivered) :
                 /\ delivered[i] < txFrame'.data
                 /\ \A j \in 1..Len(inuse') : delivered[i] < inuse'[j]
<1>1. txFrame'.data = Head(inuse) /\ inuse' = Tail(inuse)
    BY DEF build_ecpdu
<1>2. inuse \in Seq(Nat)
    BY DEF TypeOK
<1>3. 1 \in 1..Len(inuse) /\ txFrame'.data = inuse[1]
    BY <1>1, <1>2, TailElement
<1>4. \A i \in 1..Len(inuse') :
          i \in Nat /\ i + 1 \in 1..Len(inuse) /\ inuse'[i] = inuse[i + 1]
    BY <1>1, <1>2, TailElement
<1>5. QueueInv'
    BY <1>4 DEF FifoInv, QueueInv
<1>6. \A j \in 1..Len(inuse') : txFrame'.data < inuse'[j]
    <2>1. ASSUME NEW j \in 1..Len(inuse') PROVE txFrame'.data < inuse'[j]
        <3>1. j \in 1..Len(inuse') /\ j + 1 \in 1..Len(inuse) /\ 1 < j + 1
            BY <1>4
        <3> QED
            BY <1>3, <1>4, <3>1 DEF FifoInv, QueueInv
    <2> QED
        BY <2>1
<1>7. \A i \in 1..Len(reqs) :
          /\ Before(reqs[i], txFrame')
          /\ \A j \in 1..Len(inuse') : reqs[i].data < inuse'[j]
    BY <1>3, <1>4 DEF FifoInv, FrameInv, Before
<1>8. \A i \in 1..Len(delivered) :
          /\ delivered[i] < txFrame'.data
          /\ \A j \in 1..Len(inuse') : delivered[i] < inuse'[j]
    BY <1>3, <1>4 DEF FifoInv, ReceiverInv
<1>9. txFrame'.data \in 1..submitted
    BY <1>3 DEF FifoInv, QueueInv
<1> QED
    BY <1>5, <1>6, <1>7, <1>8, <1>9

\* A transmission: the buffer holds a new PDU or the one sent before.
LEMMA FifoTransmit == TypeOK /\ TxInv /\ FifoInv /\ es_txmit => FifoInv'
<1> SUFFICES ASSUME TypeOK, TxInv, FifoInv, es_txmit PROVE FifoInv'
    OBVIOUS
<1>1. /\ UNCHANGED <<delivered, rxState, last_seqno, submitted>>
      /\ build_ecpdu
    BY DEF es_txmit, TxPass, rxVars
<1>2. txState \in {"WAIT_ONDATA", "TXMIT_ECPDU"}
    BY DEF TypeOK, es_txmit, TxPass, TxGoes, TxStates
<1>3. txState = "WAIT_ONDATA" => inuse # <<>>
    BY DEF es_txmit, TxPass, TxGoes
<1>4. /\ ecpdu_received'
      /\ QueueInv'
      /\ txFrame'.data \in 1..submitted
      /\ \A j \in 1..Len(inuse') : txFrame'.data < inuse'[j]
      /\ \A i \in 1..Len(reqs) :
            /\ Before(reqs[i], txFrame')
            /\ \A j \in 1..Len(inuse') : reqs[i].data < inuse'[j]
      /\ \A i \in 1..Len(delivered), j \in 1..Len(inuse') :
            delivered[i] < inuse'[j]
      /\ Recognised(txFrame')
    <2>1. CASE txState = "WAIT_ONDATA"
        <3>1. ecpdu_received'
            BY <1>1, <2>1 DEF build_ecpdu
        <3>2. Recognised(txFrame')
            BY <1>1, <1>3, <2>1, FifoBuild DEF Recognised
        <3> QED
            BY <1>1, <1>3, <2>1, <3>1, <3>2, FifoBuild
    <2>2. CASE txState = "TXMIT_ECPDU"
        <3>1. ecpdu_received /\ UNCHANGED <<ecpdu_received, txFrame, inuse>>
            BY <1>1, <2>2 DEF build_ecpdu, TxInv
        <3> QED
            BY <1>1, <3>1 DEF FifoInv, QueueInv, FrameInv, ReceiverInv
    <2> QED
        BY <1>2, <2>1, <2>2
<1>5. reqs \in Seq(Frames) /\ txFrame' \in Frames
    BY TxType DEF TypeOK, tx_run_sm
<1>6. \A i \in 1..Len(reqs') :
          \/ i \in 1..Len(reqs) /\ reqs'[i] = reqs[i]
          \/ i = Len(reqs) + 1 /\ reqs'[i] = txFrame'
    <2>1. reqs' = reqs \/ reqs' = Append(reqs, txFrame')
        BY DEF es_txmit, Transmit
    <2>2. CASE reqs' = reqs
        BY <2>2
    <2>3. CASE reqs' = Append(reqs, txFrame')
        BY <1>5, <2>3, AppendElement
    <2> QED
        BY <2>1, <2>2, <2>3
<1>7. FrameInv'
    <2>1. ASSUME NEW i \in 1..Len(reqs')
          PROVE  /\ reqs'[i].data \in 1..submitted'
                 /\ \A j \in 1..Len(inuse') : reqs'[i].data < inuse'[j]
                 /\ Before(reqs'[i], txFrame')
        BY <1>1, <1>4, <1>6 DEF FifoInv, FrameInv, Before
    <2>2. ASSUME NEW i \in 1..Len(reqs'), NEW j \in 1..Len(reqs'), i < j
          PROVE  Before(reqs'[i], reqs'[j])
        <3>1. Len(reqs) \in Nat
            BY <1>5
        <3>2. i \in 1..Len(reqs) /\ reqs'[i] = reqs[i]
            BY <1>6, <2>2, <3>1
        <3>3. CASE j \in 1..Len(reqs) /\ reqs'[j] = reqs[j]
            BY <2>2, <3>2, <3>3 DEF FifoInv, FrameInv
        <3>4. CASE reqs'[j] = txFrame'
            BY <1>4, <3>2, <3>4
        <3> QED
            BY <1>6, <3>3, <3>4
    <2> QED
        BY <1>1, <1>4, <2>1, <2>2 DEF FrameInv, Before
<1>8. ReceiverInv'
    <2>1. \A i \in 1..Len(delivered) : delivered[i] \in 1..submitted
        BY DEF FifoInv, ReceiverInv
    <2>2. \A j \in 1..Len(reqs') : Recognised(reqs'[j])
        BY <1>4, <1>6 DEF FifoInv, ReceiverInv
    <2> QED
        BY <1>1, <1>4, <2>1, <2>2 DEF ReceiverInv, Recognised
<1> QED
    BY <1>4, <1>7, <1>8 DEF FifoInv

\* A request that the receiver takes for a new one is newer than all that was
\* delivered.
LEMMA NewIsNewer ==
    ASSUME TypeOK, FifoInv, reqs # <<>>, IsNew(Head(reqs).seq)
    PROVE  /\ Head(reqs).data \in 1..submitted
           /\ \A i \in 1..Len(delivered) : delivered[i] < Head(reqs).data
<1>1. 1 \in 1..Len(reqs) /\ Head(reqs) = reqs[1]
    BY TailElement DEF TypeOK
<1>2. Recognised(Head(reqs))
    BY <1>1 DEF FifoInv, ReceiverInv
<1>3. ~(rxState = "WAIT2" /\ last_seqno = Head(reqs).seq)
    BY DEF IsNew, LastSeqno
<1> QED
    BY <1>1, <1>2, <1>3 DEF Recognised, FifoInv, FrameInv

\* The link delivers or loses its first request.
LEMMA LinkTail ==
    ASSUME TypeOK, FifoInv, reqs # <<>>, reqs' = Tail(reqs)
    PROVE  \A i \in 1..Len(reqs') :
              /\ i \in Nat /\ i + 1 \in 1..Len(reqs) /\ reqs'[i] = reqs[i + 1]
              /\ Before(Head(reqs), reqs'[i])
<1>1. /\ 1 \in 1..Len(reqs) /\ Head(reqs) = reqs[1]
      /\ \A i \in 1..Len(reqs') :
            i \in Nat /\ i + 1 \in 1..Len(reqs) /\ reqs'[i] = reqs[i + 1]
    BY TailElement DEF TypeOK
<1>2. ASSUME NEW i \in 1..Len(reqs')
      PROVE  Before(Head(reqs), reqs'[i])
    <2>1. i + 1 \in 1..Len(reqs) /\ 1 < i + 1
        BY <1>1
    <2> QED
        BY <1>1, <2>1 DEF FifoInv, FrameInv
<1> QED
    BY <1>1, <1>2

\* A request comes in.
LEMMA FifoReceive == TypeOK /\ FifoInv /\ rx_receiveframe => FifoInv'
<1> SUFFICES ASSUME TypeOK, FifoInv, rx_receiveframe PROVE FifoInv'
    OBVIOUS
<1> DEFINE req == Head(reqs)
<1>1. /\ reqs # <<>> /\ reqs' = Tail(reqs)
      /\ UNCHANGED <<inuse, ecpdu_received, txFrame, submitted>>
      /\ last_seqno' = req.seq /\ rxState' = "WAIT2"
    BY DEF rx_receiveframe, txVars
<1>2. \A i \in 1..Len(reqs') :
          /\ i \in Nat /\ i + 1 \in 1..Len(reqs) /\ reqs'[i] = reqs[i + 1]
          /\ Before(req, reqs'[i])
    BY <1>1, LinkTail
<1>3. 1 \in 1..Len(reqs) /\ req = reqs[1] /\ req.data \in Nat
    <2>1. 1 \in 1..Len(reqs) /\ req = reqs[1] /\ req \in Frames
        BY <1>1, TailElement DEF TypeOK
    <2> QED
        BY <2>1 DEF Frames
<1>4. QueueInv'
    BY <1>1 DEF FifoInv, QueueInv
<1>5. FrameInv'
    <2>1. ASSUME NEW i \in 1..Len(reqs'), NEW j \in 1..Len(reqs'), i < j
          PROVE  Before(reqs'[i], reqs'[j])
        <3>1. i + 1 < j + 1
            BY <1>2, <2>1
        <3> QED
            BY <1>2, <3>1 DEF FifoInv, FrameInv
    <2> QED
        BY <1>1, <1>2, <2>1 DEF FifoInv, FrameInv, Before
<1>6. \A i \in 1..Len(delivered') :
          /\ delivered'[i] \in 1..submitted
          /\ delivered'[i] <= req.data
          /\ \A j \in 1..Len(inuse) : delivered'[i] < inuse[j]
    <2>1. \A i \in 1..Len(delivered) :
              /\ delivered[i] \in 1..submitted
              /\ delivered[i] <= req.data
              /\ \A j \in 1..Len(inuse) : delivered[i] < inuse[j]
        <3>1. /\ Recognised(req)
              /\ \A i \in 1..Len(delivered) :
                    /\ delivered[i] \in 1..submitted
                    /\ \A j \in 1..Len(inuse) : delivered[i] < inuse[j]
            BY <1>3 DEF FifoInv, ReceiverInv
        <3>2. \A i \in 1..Len(delivered) : delivered[i] \in Nat
            BY <3>1
        <3>3. \A i \in 1..Len(delivered) :
                  delivered[i] < req.data \/ delivered[i] = req.data
            BY <3>1 DEF Recognised
        <3>4. \A i \in 1..Len(delivered) : delivered[i] <= req.data
            BY <1>3, <3>2, <3>3
        <3> QED
            BY <3>1, <3>4
    <2>2. /\ req.data \in 1..submitted
          /\ \A j \in 1..Len(inuse) : req.data < inuse[j]
        BY <1>3 DEF FifoInv, FrameInv
    <2>3. CASE ~IsNew(req.seq)
        BY <2>1, <2>3 DEF rx_receiveframe
    <2>4. CASE IsNew(req.seq)
        <3>1. delivered' = Append(delivered, req.data)
            BY <2>4 DEF rx_receiveframe
        <3>2. delivered \in Seq(Nat)
            BY DEF TypeOK
        <3>3. \A i \in 1..Len(delivered') :
                  \/ i \in 1..Len(delivered) /\ delivered'[i] = delivered[i]
                  \/ delivered'[i] = req.data
            BY <1>3, <3>1, <3>2, AppendElement
        <3> QED
            BY <1>3, <2>1, <2>2, <3>3
    <2> QED
        BY <2>3, <2>4
<1> DEFINE Known(f) ==
               \A i \in 1..Len(delivered') :
                   \/ delivered'[i] < f.data
                   \/ delivered'[i] = f.data /\ last_seqno' = f.seq
<1>7. ASSUME NEW f, f.data \in Nat, Before(req, f) PROVE Known(f)
    BY <1>1, <1>3, <1>6, <1>7 DEF Before
<1> HIDE DEF Known
<1>8. ReceiverInv'
    <2>1. \A j \in 1..Len(reqs) : reqs[j].data \in Nat
        BY DEF FifoInv, FrameInv
    <2>2. txFrame.data \in Nat
        BY DEF TypeOK, Frames
    <2>3. \A j \in 1..Len(reqs') : Known(reqs'[j])
        BY <1>2, <1>7, <2>1
    <2>4. ecpdu_received => Before(req, txFrame)
        BY <1>3 DEF FifoInv, FrameInv
    <2>5. ecpdu_received' => Known(txFrame')
        BY <1>1, <1>7, <2>2, <2>4
    <2> QED
        BY <1>1, <1>6, <2>3, <2>5 DEF ReceiverInv, Recognised, Known
<1> QED
    BY <1>4, <1>5, <1>8 DEF FifoInv

\* Every step keeps the order.
LEMMA FifoStep == TypeOK /\ TxInv /\ FifoInv /\ [Next]_vars => FifoInv'
<1> SUFFICES ASSUME TypeOK, TxInv, FifoInv, [Next]_vars PROVE FifoInv'
    OBVIOUS
<1>1. CASE tx_run_sm
    <2>1. CASE es_inittransmit
        BY <2>1, FifoKept DEF es_inittransmit, TxPass, rxVars
    <2>2. CASE es_waitforreq
        BY <2>2, FifoKept DEF es_waitforreq, TxPass, rxVars
    <2>3. CASE WaitOnData
        BY <2>3, FifoKept DEF WaitOnData, TxPass, rxVars
    <2>4. CASE es_txmit
        BY <2>4, FifoTransmit
    <2>5. CASE es_counterror
        BY <2>5, FifoKept DEF es_counterror, TxPass, rxVars
    <2>6. CASE tx_run_sm_returns
        BY <2>6, FifoKept DEF tx_run_sm_returns, txVars, rxVars
    <2> QED
        BY <1>1, <2>1, <2>2, <2>3, <2>4, <2>5, <2>6 DEF tx_run_sm
<1>2. CASE req2send
    BY <1>2, FifoSubmit
<1>3. CASE ack_timeout_handler
    BY <1>3, FifoKept DEF ack_timeout_handler, txVars, rxVars
<1>4. CASE Tick
    BY <1>4, FifoKept DEF Tick, txVars, rxVars
<1>5. CASE recack_frame
    BY <1>5, FifoKept DEF recack_frame, rxVars
<1>6. ASSUME NEW r \in 0..MaxRetry, NEW w \in 1..MaxWait, data_from_evb(r, w)
      PROVE  FifoInv'
    BY <1>6, FifoKept DEF data_from_evb, txVars, rxVars
<1>7. CASE ecp22_start
    BY <1>7, FifoKept DEF ecp22_start, txVars, rxVars
<1>8. CASE rx_receiveframe
    BY <1>8, FifoReceive
<1>9. CASE rx_start
    BY <1>9, FifoKept DEF rx_start, txVars
<1>10. CASE link_down
    <2>1. /\ inuse' = <<>> /\ reqs' = <<>> /\ delivered' = <<>>
          /\ ~ecpdu_received'
        BY <1>10 DEF link_down, ecp22_stop, rx_stop
    <2> QED
        BY <2>1 DEF FifoInv, QueueInv, FrameInv, ReceiverInv
<1>11. CASE receiver_restart
    <2>1. /\ delivered' = <<>>
          /\ UNCHANGED <<inuse, reqs, txFrame, ecpdu_received, submitted>>
        BY <1>11 DEF receiver_restart, rx_stop, txVars
    <2> QED
        BY <2>1 DEF FifoInv, QueueInv, FrameInv, ReceiverInv, Recognised, Before
<1>12. CASE sender_restart
    <2>1. /\ inuse' = <<>> /\ ~ecpdu_received'
          /\ UNCHANGED <<reqs, delivered, rxState, last_seqno, submitted>>
        BY <1>12 DEF sender_restart, ecp22_stop, rxVars
    <2> QED
        BY <2>1 DEF FifoInv, QueueInv, FrameInv, ReceiverInv, Recognised, Before
<1>13. CASE unheard
    <2>1. UNCHANGED <<inuse, delivered, rxState, last_seqno, txFrame,
                      ecpdu_received, submitted>>
        BY <1>13 DEF unheard, txVars, rxVars
    <2>2. CASE reqs' = reqs
        BY <2>1, <2>2, FifoKept
    <2>3. CASE reqs # <<>> /\ reqs' = Tail(reqs)
        <3>1. \A i \in 1..Len(reqs') :
                  i \in Nat /\ i + 1 \in 1..Len(reqs) /\ reqs'[i] = reqs[i + 1]
            BY <2>3, LinkTail
        <3>2. QueueInv'
            BY <2>1 DEF FifoInv, QueueInv
        <3>3. FrameInv'
            <4>1. ASSUME NEW i \in 1..Len(reqs'), NEW j \in 1..Len(reqs'), i < j
                  PROVE  Before(reqs'[i], reqs'[j])
                <5>1. i + 1 < j + 1
                    BY <3>1, <4>1
                <5> QED
                    BY <3>1, <5>1 DEF FifoInv, FrameInv
            <4> QED
                BY <2>1, <3>1, <4>1 DEF FifoInv, FrameInv, Before
        <3>4. ReceiverInv'
            BY <2>1, <3>1 DEF FifoInv, ReceiverInv, Recognised
        <3> QED
            BY <3>2, <3>3, <3>4 DEF FifoInv
    <2> QED
        BY <1>13, <2>2, <2>3 DEF unheard
<1>14. CASE UNCHANGED vars
    BY <1>14, FifoKept DEF vars, txVars, rxVars
<1> QED
    BY <1>1, <1>2, <1>3, <1>4, <1>5, <1>6, <1>7, <1>8, <1>9, <1>10, <1>11,
       <1>12, <1>13, <1>14 DEF Next

\* Steps that neither submit nor deliver a PDU.
LEMMA FifoStutter ==
    ASSUME UNCHANGED <<submitted, delivered>>
    PROVE  [Fifo!Next]_<<submitted, delivered>>
OBVIOUS

\* Every step is a step of the abstract channel, or none of it.
LEMMA FifoRefinement ==
    TypeOK /\ FifoInv /\ [Next]_vars => [Fifo!Next]_<<submitted, delivered>>
<1> SUFFICES ASSUME TypeOK, FifoInv, [Next]_vars
             PROVE  [Fifo!Next]_<<submitted, delivered>>
    OBVIOUS
<1>1. CASE tx_run_sm
    <2>1. UNCHANGED <<submitted, delivered>>
        BY <1>1
        DEF tx_run_sm, es_inittransmit, es_waitforreq, WaitOnData, es_txmit,
            es_counterror, tx_run_sm_returns, TxPass, rxVars
    <2> QED
        BY <2>1, FifoStutter
<1>2. CASE req2send
    <2>1. Fifo!Submit
        BY <1>2 DEF req2send, rxVars, Fifo!Submit
    <2> QED
        BY <2>1 DEF Fifo!Next
<1>3. CASE ack_timeout_handler
    BY <1>3, FifoStutter DEF ack_timeout_handler, rxVars
<1>4. CASE Tick
    BY <1>4, FifoStutter DEF Tick, rxVars
<1>5. CASE recack_frame
    BY <1>5, FifoStutter DEF recack_frame, rxVars
<1>6. ASSUME NEW r \in 0..MaxRetry, NEW w \in 1..MaxWait, data_from_evb(r, w)
      PROVE  [Fifo!Next]_<<submitted, delivered>>
    BY <1>6, FifoStutter DEF data_from_evb, rxVars
<1>7. CASE ecp22_start
    BY <1>7, FifoStutter DEF ecp22_start, rxVars
<1>8. CASE rx_receiveframe
    <2>1. CASE IsNew(Head(reqs).seq)
        <3>1. /\ delivered' = Append(delivered, Head(reqs).data)
              /\ UNCHANGED submitted
              /\ reqs # <<>>
            BY <1>8, <2>1 DEF rx_receiveframe
        <3>2. /\ Head(reqs).data \in 1..submitted
              /\ \A i \in 1..Len(delivered) : delivered[i] < Head(reqs).data
            BY <2>1, <3>1, NewIsNewer
        <3>3. DOMAIN delivered = 1..Len(delivered)
            BY DEF TypeOK
        <3>4. Fifo!Deliver(Head(reqs).data)
            BY <3>1, <3>2, <3>3 DEF Fifo!Deliver
        <3> QED
            BY <3>2, <3>4 DEF Fifo!Next
    <2>2. CASE ~IsNew(Head(reqs).seq)
        BY <1>8, <2>2, FifoStutter DEF rx_receiveframe
    <2> QED
        BY <2>1, <2>2
<1>9. CASE rx_start
    BY <1>9, FifoStutter DEF rx_start
<1>10. CASE link_down
    BY <1>10 DEF link_down, ecp22_stop, rx_stop, Fifo!Next, Fifo!Restart
<1>11. CASE receiver_restart
    BY <1>11 DEF receiver_restart, rx_stop, Fifo!Next, Fifo!Restart
<1>12. CASE sender_restart
    BY <1>12, FifoStutter DEF sender_restart, ecp22_stop, rxVars
<1>13. CASE unheard
    <2>1. UNCHANGED <<submitted, delivered>>
        BY <1>13 DEF unheard, rxVars
    <2> QED
        BY <2>1, FifoStutter
<1>14. CASE UNCHANGED vars
    BY <1>14, FifoStutter DEF vars, rxVars
<1> QED
    BY <1>1, <1>2, <1>3, <1>4, <1>5, <1>6, <1>7, <1>8, <1>9, <1>10, <1>11,
       <1>12, <1>13, <1>14 DEF Next

\* ECP delivers PDUs in the order in which VDP submits them and none of them
\* twice, whatever the link loses, the sender gives up and the stations
\* restart, for any range of sequence numbers, any negotiated parameters and
\* any number of frames in flight (es_new_ecpdu, es_first).
THEOREM InOrderAtMostOnce == Spec => ImplementsFifo
<1>1. Init => FifoInv
    BY DEF Init, FifoInv, QueueInv, FrameInv, ReceiverInv
<1>2. Init => Fifo!Init
    BY DEF Init, Fifo!Init
<1>3. TypeOK /\ TxInv /\ FifoInv /\ [Next]_vars => FifoInv'
    BY FifoStep
<1>4. TypeOK /\ FifoInv /\ [Next]_vars => [Fifo!Next]_<<submitted, delivered>>
    BY FifoRefinement
<1> QED
    BY <1>1, <1>2, <1>3, <1>4, TxInvariant, PTL
    DEF Spec, ImplementsFifo, Fifo!Spec

-----------------------------------------------------------------------------
(* An acknowledgement means delivery                                       *)

\* The transmit machine has a sequence number in use.
Begun == txState \notin {"BEGIN", "INIT"}

\* How many numbers before q number x was used last: the numbers go round from
\* 1 to SeqMod - 1.
Behind(q, x) == IF x <= q THEN q - x ELSE q + SeqMod - 1 - x

\* The numbers under way, from the oldest to the newest: acknowledgements in
\* flight, the number the receiver remembers, requests in flight.
AckNums == {acks[i] : i \in 1..Len(acks)}
LastNums == IF rxState = "WAIT2" THEN {last_seqno} ELSE {}
ReqNums == {reqs[i].seq : i \in 1..Len(reqs)}
Nums == AckNums \cup LastNums \cup ReqNums

\* Before the first number nothing is under way; zero is never used.
NumInv ==
    /\ ~Begun => Nums = {} /\ errors = 0 /\ seqno = 0 /\ ~ack_received
    /\ Begun => seqno >= 1 /\ \A x \in Nums : x >= 1
    /\ txState \in {"TXMIT_ECPDU", "ERROR"} => txFrame.seq = seqno

\* Numbers between the oldest one under way and the current one belong to PDUs
\* that were given up.
AgeInv ==
    /\ \A x \in Nums : Behind(seqno, x) <= errors + (IF txState = "ERROR" THEN 0 ELSE 1)
    /\ \A i, j \in 1..Len(acks) : i < j => Behind(seqno, acks[i]) >= Behind(seqno, acks[j])
    /\ \A i, j \in 1..Len(reqs) : i < j => Behind(seqno, reqs[i].seq) >= Behind(seqno, reqs[j].seq)
    /\ \A x \in AckNums, y \in LastNums \cup ReqNums : Behind(seqno, x) >= Behind(seqno, y)
    /\ \A x \in LastNums, y \in ReqNums : Behind(seqno, x) >= Behind(seqno, y)

\* What carries the current number belongs to the current PDU.
OwnInv ==
    /\ seqno \in AckNums \cup LastNums => txFrame.data \in arrived
    /\ \A i \in 1..Len(reqs) : reqs[i].seq = seqno => reqs[i].data = txFrame.data
    /\ txState \in {"WAIT_FORREQ", "WAIT_ONDATA"} => seqno \notin Nums /\ ~ack_received
    /\ ack_received => txFrame.data \in arrived /\ Nums \subseteq {seqno}

\* Fewer PDUs than numbers were given up.
Few == errors < SeqMod - 2

AckInv == NumInv /\ (Begun /\ Few => AgeInv /\ OwnInv)

\* Numbers are in range.
LEMMA NumsType ==
    ASSUME TypeOK
    PROVE  /\ AckNums \subseteq Seqnos /\ LastNums \subseteq Seqnos /\ ReqNums \subseteq Seqnos
           /\ Nums \subseteq Seqnos /\ Len(acks) \in Nat /\ Len(reqs) \in Nat
           /\ \A i \in 1..Len(acks) : acks[i] \in AckNums
           /\ \A i \in 1..Len(reqs) : reqs[i].seq \in ReqNums
<1>1. /\ acks \in Seq(Seqnos) /\ reqs \in Seq(Frames) /\ last_seqno \in Seqnos
    BY DEF TypeOK
<1>2. \A i \in 1..Len(acks) : acks[i] \in Seqnos
    BY <1>1
<1>3. \A i \in 1..Len(reqs) : reqs[i].seq \in Seqnos
    <2>1. \A i \in 1..Len(reqs) : reqs[i] \in Frames
        BY <1>1
    <2>2. \A f \in Frames : f.seq \in Seqnos
        BY DEF Frames
    <2> QED
        BY <2>1, <2>2
<1>4. AckNums \subseteq Seqnos /\ LastNums \subseteq Seqnos /\ ReqNums \subseteq Seqnos
    <2>1. AckNums \subseteq Seqnos
        BY <1>2 DEF AckNums
    <2>2. LastNums \subseteq Seqnos
        BY <1>1 DEF LastNums
    <2>3. ReqNums \subseteq Seqnos
        BY <1>3 DEF ReqNums
    <2> QED
        BY <2>1, <2>2, <2>3
<1>5. Len(acks) \in Nat /\ Len(reqs) \in Nat
    BY <1>1
<1>6. /\ \A i \in 1..Len(acks) : acks[i] \in AckNums
      /\ \A i \in 1..Len(reqs) : reqs[i].seq \in ReqNums
    BY DEF AckNums, ReqNums
<1> QED
    BY <1>4, <1>5, <1>6 DEF Nums

\* The current number, and no other, is zero behind.
LEMMA BehindZero ==
    ASSUME NEW q \in Seqnos, NEW x \in Seqnos, x >= 1, q >= 1
    PROVE  /\ Behind(q, x) \in 0..(SeqMod - 2)
           /\ Behind(q, x) = 0 <=> x = q
<1>1. SeqMod \in Nat /\ SeqMod > 2 /\ x \in Nat /\ x < SeqMod /\ q \in Nat /\ q < SeqMod
    BY ConstantsType DEF Seqnos
<1> QED
    BY <1>1 DEF Behind

\* The next number leaves all the others one more behind.
LEMMA BehindNext ==
    ASSUME NEW q \in Seqnos, NEW x \in Seqnos, x >= 1, q >= 1,
           Behind(q, x) < SeqMod - 2
    PROVE  /\ inc_seqno(q) \in Seqnos /\ inc_seqno(q) >= 1
           /\ Behind(inc_seqno(q), x) = Behind(q, x) + 1
<1>1. SeqMod \in Nat /\ SeqMod > 2 /\ x \in Nat /\ x < SeqMod /\ q \in Nat /\ q < SeqMod
    BY ConstantsType DEF Seqnos
<1>3. CASE q = SeqMod - 1
    <2>1. inc_seqno(q) = 1
        BY <1>3 DEF inc_seqno
    <2> QED
        BY <1>1, <1>3, <2>1 DEF Behind, Seqnos
<1>4. CASE q # SeqMod - 1
    <2>1. inc_seqno(q) = q + 1
        BY <1>4 DEF inc_seqno
    <2> QED
        BY <1>1, <1>4, <2>1 DEF Behind, Seqnos
<1> QED
    BY <1>3, <1>4

\* Steps of the link and the receiver that take numbers away.
LEMMA AckLess ==
    ASSUME TypeOK, AckInv,
           UNCHANGED <<txState, seqno, txFrame, errors, arrived>>,
           ack_received' => \/ ack_received
                            \/ /\ Begun
                               /\ Few => /\ txFrame.data \in arrived
                                         /\ Nums \subseteq {seqno}
                                         /\ txState \notin {"WAIT_FORREQ", "WAIT_ONDATA"},
           acks' = acks \/ (acks # <<>> /\ acks' = Tail(acks)),
           reqs' = reqs \/ (reqs # <<>> /\ reqs' = Tail(reqs)),
           UNCHANGED <<rxState, last_seqno>> \/ rxState' = "WAIT"
    PROVE  AckInv'
<1>1. \E d \in {0, 1} : \A i \in 1..Len(acks') :
          i \in Nat /\ i + d \in 1..Len(acks) /\ acks'[i] = acks[i + d]
    <2>1. CASE acks' = acks
        <3>1. \A i \in 1..Len(acks') :
                 i \in Nat /\ i + 0 \in 1..Len(acks) /\ acks'[i] = acks[i + 0]
            BY <2>1
        <3> QED
            BY <3>1
    <2>2. CASE acks # <<>> /\ acks' = Tail(acks)
        BY <2>2, TailElement DEF TypeOK
    <2> QED
        BY <2>1, <2>2
<1>2. \E d \in {0, 1} : \A i \in 1..Len(reqs') :
          i \in Nat /\ i + d \in 1..Len(reqs) /\ reqs'[i] = reqs[i + d]
    <2>1. CASE reqs' = reqs
        <3>1. \A i \in 1..Len(reqs') :
                 i \in Nat /\ i + 0 \in 1..Len(reqs) /\ reqs'[i] = reqs[i + 0]
            BY <2>1
        <3> QED
            BY <3>1
    <2>2. CASE reqs # <<>> /\ reqs' = Tail(reqs)
        BY <2>2, TailElement DEF TypeOK
    <2> QED
        BY <2>1, <2>2
<1>3. AckNums' \subseteq AckNums
    BY <1>1 DEF AckNums
<1>4. ReqNums' \subseteq ReqNums
    BY <1>2 DEF ReqNums
<1>5. LastNums' \subseteq LastNums
    BY DEF LastNums
<1>6. Nums' \subseteq Nums
    BY <1>3, <1>4, <1>5 DEF Nums
<1>7. seqno' = seqno
    OBVIOUS
<1>8. NumInv'
    BY <1>6 DEF AckInv, NumInv, Begun
<1>9. ASSUME AgeInv PROVE AgeInv'
    <2>1. \A x \in Nums' : Behind(seqno', x) <= errors' + (IF txState' = "ERROR" THEN 0 ELSE 1)
        BY <1>6, <1>7, <1>9 DEF AgeInv
    <2>2. ASSUME NEW i \in 1..Len(acks'), NEW j \in 1..Len(acks'), i < j
          PROVE  Behind(seqno', acks'[i]) >= Behind(seqno', acks'[j])
        <3>1. PICK d \in {0, 1} : \A k \in 1..Len(acks') :
                 k \in Nat /\ k + d \in 1..Len(acks) /\ acks'[k] = acks[k + d]
            BY <1>1
        <3>2. i + d < j + d
            BY <2>2, <3>1
        <3> QED
            BY <3>1, <3>2, <1>7, <1>9 DEF AgeInv
    <2>3. ASSUME NEW i \in 1..Len(reqs'), NEW j \in 1..Len(reqs'), i < j
          PROVE  Behind(seqno', reqs'[i].seq) >= Behind(seqno', reqs'[j].seq)
        <3>1. PICK d \in {0, 1} : \A k \in 1..Len(reqs') :
                 k \in Nat /\ k + d \in 1..Len(reqs) /\ reqs'[k] = reqs[k + d]
            BY <1>2
        <3>2. i + d < j + d
            BY <2>3, <3>1
        <3> QED
            BY <3>1, <3>2, <1>7, <1>9 DEF AgeInv
    <2>4. /\ \A x \in AckNums', y \in LastNums' \cup ReqNums' : Behind(seqno', x) >= Behind(seqno', y)
          /\ \A x \in LastNums', y \in ReqNums' : Behind(seqno', x) >= Behind(seqno', y)
        BY <1>3, <1>4, <1>5, <1>7, <1>9 DEF AgeInv
    <2> QED
        BY <2>1, <2>2, <2>3, <2>4 DEF AgeInv
<1>10. ASSUME OwnInv, Begun, Few PROVE OwnInv'
    <2>1. \A i \in 1..Len(reqs') : reqs'[i].seq = seqno' => reqs'[i].data = txFrame'.data
        BY <1>2, <1>10 DEF OwnInv
    <2>2. seqno' \in AckNums' \cup LastNums' => txFrame'.data \in arrived'
        BY <1>3, <1>5, <1>10 DEF OwnInv
    <2>3. /\ txState' \in {"WAIT_FORREQ", "WAIT_ONDATA"} => seqno' \notin Nums' /\ ~ack_received'
          /\ ack_received' => txFrame'.data \in arrived' /\ Nums' \subseteq {seqno'}
        BY <1>6, <1>10 DEF OwnInv
    <2> QED
        BY <2>1, <2>2, <2>3 DEF OwnInv
<1> QED
    BY <1>8, <1>9, <1>10 DEF AckInv, Begun, Few

\* The machine is initialised (es_inittransmit).
LEMMA AckInit == TypeOK /\ AckInv /\ es_inittransmit => AckInv'
<1> SUFFICES ASSUME TypeOK, AckInv, es_inittransmit PROVE AckInv'
    OBVIOUS
<1>1. /\ txState = "BEGIN" /\ txState' = "INIT" /\ errors' = 0 /\ seqno' = 0
      /\ UNCHANGED <<ack_received, acks, reqs, rxState, last_seqno>>
    BY DEF es_inittransmit, TxPass, TxGoes, rxVars, TypeOK, TxStates
<1>2. Nums' = Nums
    BY <1>1 DEF Nums, AckNums, LastNums, ReqNums
<1> QED
    BY <1>1, <1>2 DEF AckInv, NumInv, Begun

\* A new number is used (es_waitforreq).
LEMMA AckNewNumber == TypeOK /\ AckInv /\ es_waitforreq => AckInv'
<1> SUFFICES ASSUME TypeOK, AckInv, es_waitforreq PROVE AckInv'
    OBVIOUS
<1>1. /\ txState \in {"INIT", "ERROR"} \/ (txState = "TXMIT_ECPDU" /\ ack_received)
      /\ txState' = "WAIT_FORREQ" /\ ~ack_received' /\ seqno' = inc_seqno(seqno)
      /\ UNCHANGED <<txFrame, errors, acks, reqs, rxState, last_seqno, arrived>>
    BY DEF es_waitforreq, TxPass, TxGoes, rxVars, TypeOK, TxStates
<1>2. /\ AckNums' = AckNums /\ LastNums' = LastNums /\ ReqNums' = ReqNums
      /\ Nums' = Nums
    BY <1>1 DEF Nums, AckNums, LastNums, ReqNums
<1>3. seqno \in Nat /\ seqno < SeqMod /\ errors \in Nat /\ SeqMod \in Nat /\ SeqMod > 2
    BY ConstantsType DEF TypeOK, Seqnos
<1>4. seqno' \in Seqnos /\ seqno' >= 1
    BY <1>1, <1>3 DEF inc_seqno, Seqnos
<1>5. Begun'
    BY <1>1 DEF Begun
<1>6. NumInv'
    BY <1>1, <1>2, <1>4 DEF AckInv, NumInv, Begun
<1>7. ASSUME Few
      PROVE  \A x \in Nums : /\ x \in Seqnos /\ x >= 1
                             /\ Behind(seqno, x) \in Nat /\ Behind(seqno, x) <= errors
                             /\ Behind(seqno', x) = Behind(seqno, x) + 1
                             /\ x # seqno'
    <2> SUFFICES ASSUME NEW x \in Nums
                 PROVE  /\ x \in Seqnos /\ x >= 1
                        /\ Behind(seqno, x) \in Nat /\ Behind(seqno, x) <= errors
                        /\ Behind(seqno', x) = Behind(seqno, x) + 1
                        /\ x # seqno'
        OBVIOUS
    <2>1. Begun
        BY DEF AckInv, NumInv
    <2>2. x \in Seqnos /\ x >= 1 /\ seqno >= 1 /\ seqno \in Seqnos
        BY <2>1, NumsType DEF AckInv, NumInv, TypeOK
    <2>3. Behind(seqno, x) \in Nat /\ (Behind(seqno, x) = 0 <=> x = seqno)
        BY <2>2, BehindZero
    <2>4. Behind(seqno, x) <= errors
        <3>1. CASE txState = "ERROR"
            BY <3>1, <1>3, <1>7, <2>1 DEF AckInv, AgeInv
        <3>2. CASE ack_received
            BY <3>2, <1>3, <1>7, <2>1, <2>3 DEF AckInv, OwnInv
        <3> QED
            BY <1>1, <2>1, <3>1, <3>2 DEF Begun
    <2>5. Behind(seqno, x) < SeqMod - 2
        BY <2>3, <2>4, <1>3, <1>7 DEF Few
    <2>6. Behind(seqno', x) = Behind(seqno, x) + 1
        BY <2>2, <2>5, <1>1, BehindNext
    <2>7. Behind(seqno', x) = 0 <=> x = seqno'
        BY <1>4, <2>2, BehindZero
    <2> QED
        BY <2>2, <2>3, <2>4, <2>6, <2>7
<1>8. ASSUME Few PROVE AgeInv' /\ OwnInv'
    <2>0. ASSUME NEW x \in Nums, NEW y \in Nums, Behind(seqno, x) >= Behind(seqno, y)
          PROVE  Behind(seqno', x) >= Behind(seqno', y)
        BY <2>0, <1>7, <1>8
    <2>1. Nums # {} => AgeInv
        BY <1>8 DEF AckInv, NumInv
    <2>2. \A x \in Nums : Behind(seqno', x) <= errors' + (IF txState' = "ERROR" THEN 0 ELSE 1)
        BY <1>7, <1>8, <1>1, <1>3
    <2>3. \A i, j \in 1..Len(acks) : i < j => Behind(seqno', acks[i]) >= Behind(seqno', acks[j])
        <3> SUFFICES ASSUME NEW i \in 1..Len(acks), NEW j \in 1..Len(acks), i < j
                     PROVE  Behind(seqno', acks[i]) >= Behind(seqno', acks[j])
            OBVIOUS
        <3>1. acks[i] \in Nums /\ acks[j] \in Nums
            BY NumsType DEF Nums
        <3>2. Behind(seqno, acks[i]) >= Behind(seqno, acks[j])
            BY <2>1, <3>1 DEF AgeInv
        <3> QED
            BY <2>0, <3>1, <3>2
    <2>4. \A i, j \in 1..Len(reqs) : i < j => Behind(seqno', reqs[i].seq) >= Behind(seqno', reqs[j].seq)
        <3> SUFFICES ASSUME NEW i \in 1..Len(reqs), NEW j \in 1..Len(reqs), i < j
                     PROVE  Behind(seqno', reqs[i].seq) >= Behind(seqno', reqs[j].seq)
            OBVIOUS
        <3>1. reqs[i].seq \in Nums /\ reqs[j].seq \in Nums
            BY NumsType DEF Nums
        <3>2. Behind(seqno, reqs[i].seq) >= Behind(seqno, reqs[j].seq)
            BY <2>1, <3>1 DEF AgeInv
        <3> QED
            BY <2>0, <3>1, <3>2
    <2>5. \A x \in AckNums, y \in LastNums \cup ReqNums : Behind(seqno', x) >= Behind(seqno', y)
        <3> SUFFICES ASSUME NEW x \in AckNums, NEW y \in LastNums \cup ReqNums
                     PROVE  Behind(seqno', x) >= Behind(seqno', y)
            OBVIOUS
        <3>1. x \in Nums /\ y \in Nums
            BY DEF Nums
        <3>2. Behind(seqno, x) >= Behind(seqno, y)
            BY <2>1, <3>1 DEF AgeInv
        <3> QED
            BY <2>0, <3>1, <3>2
    <2>6. \A x \in LastNums, y \in ReqNums : Behind(seqno', x) >= Behind(seqno', y)
        <3> SUFFICES ASSUME NEW x \in LastNums, NEW y \in ReqNums
                     PROVE  Behind(seqno', x) >= Behind(seqno', y)
            OBVIOUS
        <3>1. x \in Nums /\ y \in Nums
            BY DEF Nums
        <3>2. Behind(seqno, x) >= Behind(seqno, y)
            BY <2>1, <3>1 DEF AgeInv
        <3> QED
            BY <2>0, <3>1, <3>2
    <2>7. AgeInv'
        BY <1>1, <1>2, <2>2, <2>3, <2>4, <2>5, <2>6 DEF AgeInv
    <2>8. seqno' \notin Nums
        BY <1>7, <1>8
    <2>9. \A i \in 1..Len(reqs) : reqs[i].seq # seqno'
        BY <2>8, NumsType DEF Nums
    <2> QED
        BY <1>1, <1>2, <2>7, <2>8, <2>9 DEF OwnInv, Nums
<1> QED
    BY <1>1, <1>6, <1>8 DEF AckInv, Few

\* WAIT_ONDATA is entered with the number that was just taken.
LEMMA AckWait == TypeOK /\ AckInv /\ WaitOnData => AckInv'
<1> SUFFICES ASSUME TypeOK, AckInv, WaitOnData PROVE AckInv'
    OBVIOUS
<1>1. /\ txState \in {"WAIT_FORREQ", "WAIT_ONDATA"} /\ txState' = "WAIT_ONDATA"
      /\ UNCHANGED <<ack_received, seqno, txFrame, errors, acks, reqs, rxState,
                     last_seqno, arrived>>
    BY DEF WaitOnData, TxPass, TxGoes, rxVars, TypeOK, TxStates
<1>2. /\ AckNums' = AckNums /\ LastNums' = LastNums /\ ReqNums' = ReqNums
      /\ Nums' = Nums
    BY <1>1 DEF Nums, AckNums, LastNums, ReqNums
<1>3. NumInv' /\ Begun /\ Begun'
    BY <1>1, <1>2 DEF AckInv, NumInv, Begun
<1>4. ASSUME AgeInv PROVE AgeInv'
    BY <1>1, <1>2, <1>4 DEF AgeInv
<1>5. ASSUME OwnInv PROVE OwnInv'
    BY <1>1, <1>2, <1>5 DEF OwnInv
<1> QED
    BY <1>1, <1>3, <1>4, <1>5 DEF AckInv, Few

\* A frame is transmitted for the first time, or again (es_txmit).
LEMMA AckTransmit == TypeOK /\ AckInv /\ es_txmit => AckInv'
<1> SUFFICES ASSUME TypeOK, AckInv, es_txmit PROVE AckInv'
    OBVIOUS
<1>1. /\ txState = "WAIT_ONDATA" \/ (txState = "TXMIT_ECPDU" /\ ~ack_received)
      /\ txState' = "TXMIT_ECPDU" /\ build_ecpdu
      /\ reqs' \in Transmit(reqs, txFrame')
      /\ UNCHANGED <<ack_received, seqno, errors, acks, rxState, last_seqno, arrived>>
    BY DEF es_txmit, TxPass, TxGoes, rxVars, TypeOK, TxStates
<1>2. /\ txFrame'.seq = seqno
      /\ txFrame' = txFrame \/ txState = "WAIT_ONDATA"
    BY <1>1 DEF build_ecpdu, AckInv, NumInv
<1>3. Begun /\ Begun' /\ seqno \in Seqnos /\ seqno >= 1
    BY <1>1 DEF Begun, AckInv, NumInv, TypeOK
<1>4. AckNums' = AckNums /\ LastNums' = LastNums
    BY <1>1 DEF AckNums, LastNums
<1>5. ASSUME NEW i \in 1..Len(reqs')
      PROVE  \/ i \in 1..Len(reqs) /\ reqs'[i] = reqs[i]
             \/ i = Len(reqs) + 1 /\ reqs'[i] = txFrame'
    <2>1. CASE reqs' = reqs
        BY <2>1
    <2>2. CASE reqs' = Append(reqs, txFrame')
        BY <2>2 DEF TypeOK
    <2> QED
        BY <1>1, <2>1, <2>2 DEF Transmit
<1>6. ReqNums' \subseteq ReqNums \cup {seqno}
    BY <1>2, <1>5 DEF ReqNums
<1>7. Nums' \subseteq Nums \cup {seqno}
    BY <1>4, <1>6 DEF Nums
<1>8. NumInv'
    BY <1>1, <1>2, <1>3, <1>7 DEF AckInv, NumInv
<1>9. \A x \in Nums \cup {seqno} : Behind(seqno, x) \in Nat
    <2>1. \A x \in Nums \cup {seqno} : x \in Seqnos /\ x >= 1
        BY <1>3, NumsType DEF AckInv, NumInv
    <2> QED
        BY <2>1, <1>3, BehindZero
<1>10. Behind(seqno, seqno) = 0
    BY <1>3, BehindZero
<1>11. ASSUME AgeInv PROVE AgeInv'
    <2>1. \A x \in Nums' : Behind(seqno', x) <= errors' + (IF txState' = "ERROR" THEN 0 ELSE 1)
        <3>1. errors \in Nat
            BY DEF TypeOK
        <3> QED
            BY <3>1, <1>1, <1>7, <1>10, <1>11 DEF AgeInv
    <2>2. \A i, j \in 1..Len(acks') : i < j => Behind(seqno', acks'[i]) >= Behind(seqno', acks'[j])
        BY <1>1, <1>11 DEF AgeInv
    <2>3. ASSUME NEW i \in 1..Len(reqs'), NEW j \in 1..Len(reqs'), i < j
          PROVE  Behind(seqno', reqs'[i].seq) >= Behind(seqno', reqs'[j].seq)
        <3>1. i \in 1..Len(reqs) /\ reqs'[i] = reqs[i] /\ reqs[i].seq \in Nums
            <4>1. Len(reqs) \in Nat /\ i \in Nat /\ j \in Nat
                BY NumsType
            <4>2. j <= Len(reqs) + 1
                BY <1>5, <4>1
            <4>3. i \in 1..Len(reqs) /\ reqs'[i] = reqs[i]
                BY <1>5, <2>3, <4>1, <4>2
            <4> QED
                BY <4>3, NumsType DEF Nums
        <3>2. CASE j \in 1..Len(reqs) /\ reqs'[j] = reqs[j]
            BY <3>1, <3>2, <1>1, <1>11, <2>3 DEF AgeInv
        <3>3. CASE reqs'[j] = txFrame'
            BY <3>1, <3>3, <1>1, <1>2, <1>9, <1>10
        <3> QED
            BY <1>5, <3>2, <3>3
    <2>4. \A x \in AckNums', y \in LastNums' \cup ReqNums' : Behind(seqno', x) >= Behind(seqno', y)
        <3> SUFFICES ASSUME NEW x \in AckNums, NEW y \in LastNums \cup ReqNums \cup {seqno}
                     PROVE  Behind(seqno, x) >= Behind(seqno, y)
            BY <1>1, <1>4, <1>6
        <3>1. CASE y = seqno
            BY <3>1, <1>9, <1>10 DEF Nums
        <3> QED
            BY <3>1, <1>11 DEF AgeInv
    <2>5. \A x \in LastNums', y \in ReqNums' : Behind(seqno', x) >= Behind(seqno', y)
        <3> SUFFICES ASSUME NEW x \in LastNums, NEW y \in ReqNums \cup {seqno}
                     PROVE  Behind(seqno, x) >= Behind(seqno, y)
            BY <1>1, <1>4, <1>6
        <3>1. CASE y = seqno
            BY <3>1, <1>9, <1>10 DEF Nums
        <3> QED
            BY <3>1, <1>11 DEF AgeInv
    <2> QED
        BY <2>1, <2>2, <2>3, <2>4, <2>5 DEF AgeInv
<1>12. ASSUME OwnInv PROVE OwnInv'
    <2>1. ~ack_received /\ (txFrame' = txFrame \/ seqno \notin Nums)
        BY <1>1, <1>2, <1>12 DEF OwnInv
    <2>2. seqno' \in AckNums' \cup LastNums' => txFrame'.data \in arrived'
        BY <1>1, <1>4, <1>12, <2>1 DEF OwnInv, Nums
    <2>3. ASSUME NEW i \in 1..Len(reqs'), reqs'[i].seq = seqno'
          PROVE  reqs'[i].data = txFrame'.data
        <3>1. CASE i \in 1..Len(reqs) /\ reqs'[i] = reqs[i]
            <4>1. seqno \in Nums
                BY <3>1, <2>3, <1>1, NumsType DEF Nums
            <4> QED
                BY <4>1, <3>1, <2>1, <2>3, <1>1, <1>12 DEF OwnInv
        <3> QED
            BY <3>1, <1>5
    <2> QED
        BY <1>1, <2>1, <2>2, <2>3 DEF OwnInv
<1> QED
    BY <1>1, <1>3, <1>8, <1>11, <1>12 DEF AckInv, Few

\* The PDU is given up (es_counterror).
LEMMA AckGiveUp == TypeOK /\ AckInv /\ es_counterror => AckInv'
<1> SUFFICES ASSUME TypeOK, AckInv, es_counterror PROVE AckInv'
    OBVIOUS
<1>1. /\ txState = "TXMIT_ECPDU" /\ ~ack_received /\ txState' = "ERROR"
      /\ errors' = errors + 1 /\ errors \in Nat /\ SeqMod \in Nat
      /\ UNCHANGED <<ack_received, seqno, txFrame, acks, reqs, rxState,
                     last_seqno, arrived>>
    BY ConstantsType DEF es_counterror, TxPass, TxGoes, rxVars, TypeOK, TxStates
<1>2. /\ AckNums' = AckNums /\ LastNums' = LastNums /\ ReqNums' = ReqNums
      /\ Nums' = Nums
    BY <1>1 DEF Nums, AckNums, LastNums, ReqNums
<1>3. NumInv' /\ Begun /\ Begun'
    BY <1>1, <1>2 DEF AckInv, NumInv, Begun
<1>4. ASSUME AgeInv PROVE AgeInv'
    BY <1>1, <1>2, <1>4 DEF AgeInv
<1>5. ASSUME OwnInv PROVE OwnInv'
    BY <1>1, <1>2, <1>5 DEF OwnInv
<1>6. Few' => Few
    BY <1>1 DEF Few
<1> QED
    BY <1>3, <1>4, <1>5, <1>6 DEF AckInv

\* The number of an acknowledgement that matches is the only one under way:
\* what is younger than the oldest number is not behind either.
LEMMA AckNoted == TypeOK /\ TxInv /\ AckInv /\ recack_frame => AckInv'
<1> SUFFICES ASSUME TypeOK, TxInv, AckInv, recack_frame PROVE AckInv'
    OBVIOUS
<1>1. /\ acks # <<>> /\ acks' = Tail(acks)
      /\ ack_received' = (ack_received \/ AckMatches(Head(acks)))
      /\ UNCHANGED <<txState, seqno, txFrame, errors, arrived, reqs, rxState, last_seqno>>
    BY DEF recack_frame, rxVars
<1>2. 1 \in 1..Len(acks) /\ Head(acks) = acks[1] /\ Head(acks) \in AckNums
    BY <1>1, TailElement DEF TypeOK, AckNums
<1>3. Begun
    BY <1>2 DEF AckInv, NumInv, Nums
<1>4. ASSUME Few, AckMatches(Head(acks))
      PROVE  /\ txFrame.data \in arrived /\ Nums \subseteq {seqno}
             /\ txState \notin {"WAIT_FORREQ", "WAIT_ONDATA"}
    <2>1. acks[1] = seqno
        BY <1>2, <1>4 DEF AckMatches
    <2>2. AgeInv /\ OwnInv
        BY <1>3, <1>4 DEF AckInv
    <2>3. \A x \in Nums : x \in Seqnos /\ x >= 1 /\ seqno \in Seqnos /\ seqno >= 1
        BY <1>3, NumsType DEF AckInv, NumInv, TypeOK
    <2>4. seqno \in AckNums /\ seqno \in Nums
        BY <1>2, <2>1 DEF Nums
    <2>5. Behind(seqno, seqno) = 0
        BY <2>3, <2>4, BehindZero
    <2>6. ASSUME NEW x \in Nums PROVE x = seqno
        <3>1. Behind(seqno, x) <= 0
            <4>1. CASE x \in LastNums \cup ReqNums
                BY <4>1, <2>2, <2>3, <2>4, <2>5, BehindZero DEF AgeInv
            <4>2. CASE x \in AckNums
                <5>1. PICK i \in 1..Len(acks) : x = acks[i]
                    BY <4>2 DEF AckNums
                <5>2. CASE i = 1
                    BY <5>1, <5>2, <2>1, <2>5
                <5>3. CASE i # 1
                    <6>1. 1 < i
                        BY <5>3
                    <6> QED
                        BY <5>1, <6>1, <1>2, <2>1, <2>2, <2>3, <2>5, BehindZero DEF AgeInv
                <5> QED
                    BY <5>2, <5>3
            <4> QED
                BY <4>1, <4>2 DEF Nums
        <3>2. Behind(seqno, x) \in Nat /\ (Behind(seqno, x) = 0 <=> x = seqno)
            BY <2>3, BehindZero
        <3> QED
            BY <3>1, <3>2
    <2> QED
        BY <2>2, <2>4, <2>6 DEF OwnInv
<1> QED
    BY <1>1, <1>3, <1>4, AckLess

\* es_first: the number before another one, modulo SeqMod, is not that one.
LEMMA NumberBefore ==
    ASSUME NEW m \in Nat, m > 2, NEW y \in 0..(m - 1)
    PROVE  (y + m - 1) % m # y
<1>1. ASSUME NEW z \in 0..(m - 1) PROVE z % m = z
    BY SMTT(30)
<1>2. CASE y = 0
    <2>1. y + m - 1 = m - 1
        BY <1>2
    <2> QED
        BY <2>1, <1>1, <1>2
<1>3. CASE y > 0
    BY <1>3, SMTT(30)
<1> QED
    BY <1>2, <1>3

\* A request is received: its number is the oldest of the requests and
\* younger than what the receiver remembers.
LEMMA AckReceive == TypeOK /\ AckInv /\ rx_receiveframe => AckInv'
<1> SUFFICES ASSUME TypeOK, AckInv, rx_receiveframe PROVE AckInv'
    OBVIOUS
<1> DEFINE req == Head(reqs)
<1>1. /\ reqs # <<>> /\ reqs' = Tail(reqs)
      /\ last_seqno' = req.seq /\ rxState' = "WAIT2"
      /\ acks' \in Transmit(acks, req.seq)
      /\ UNCHANGED <<txState, seqno, txFrame, errors, ack_received>>
    BY DEF rx_receiveframe, txVars
<1>2. /\ 1 \in 1..Len(reqs) /\ req = reqs[1] /\ req \in Frames
      /\ \A i \in 1..Len(reqs') :
            i \in Nat /\ i + 1 \in 1..Len(reqs) /\ reqs'[i] = reqs[i + 1]
    BY <1>1, TailElement DEF TypeOK
<1>3. /\ arrived \subseteq arrived'
      /\ IsNew(req.seq) => req.data \in arrived'
    BY DEF rx_receiveframe
<1> HIDE DEF req
<1>4. req.seq \in ReqNums /\ req.seq \in Nums /\ req.seq \in Seqnos
    BY <1>2, NumsType DEF Nums
<1>5. Begun /\ Begun'
    BY <1>1, <1>4 DEF AckInv, NumInv, Begun
<1>6. ASSUME NEW i \in 1..Len(acks')
      PROVE  \/ i \in 1..Len(acks) /\ acks'[i] = acks[i]
             \/ i = Len(acks) + 1 /\ acks'[i] = req.seq
    <2>1. CASE acks' = acks
        BY <2>1
    <2>2. CASE acks' = Append(acks, req.seq)
        BY <2>2, <1>4 DEF TypeOK
    <2> QED
        BY <1>1, <2>1, <2>2 DEF Transmit
<1>7. AckNums' \subseteq AckNums \cup {req.seq}
    BY <1>6 DEF AckNums
<1>8. LastNums' = {req.seq}
    BY <1>1 DEF LastNums
<1>9. ReqNums' \subseteq ReqNums
    BY <1>2 DEF ReqNums
<1>10. Nums' \subseteq Nums
    BY <1>4, <1>7, <1>8, <1>9 DEF Nums
<1>11. NumInv'
    BY <1>1, <1>5, <1>10 DEF AckInv, NumInv
<1>12. \A x \in Nums : Behind(seqno, x) \in Nat
    <2>1. \A x \in Nums : x \in Seqnos /\ x >= 1 /\ seqno \in Seqnos /\ seqno >= 1
        BY <1>5, NumsType DEF AckInv, NumInv, TypeOK
    <2> QED
        BY <2>1, BehindZero
<1>13. ASSUME AgeInv PROVE AgeInv'
    <2>1. \A x \in Nums' : Behind(seqno', x) <= errors' + (IF txState' = "ERROR" THEN 0 ELSE 1)
        BY <1>1, <1>10, <1>13 DEF AgeInv
    <2>2. ASSUME NEW i \in 1..Len(acks'), NEW j \in 1..Len(acks'), i < j
          PROVE  Behind(seqno', acks'[i]) >= Behind(seqno', acks'[j])
        <3>1. i \in 1..Len(acks) /\ acks'[i] = acks[i] /\ acks[i] \in AckNums
            <4>1. Len(acks) \in Nat /\ i \in Nat /\ j \in Nat
                BY NumsType
            <4>2. j <= Len(acks) + 1
                BY <1>6, <4>1
            <4>3. i \in 1..Len(acks) /\ acks'[i] = acks[i]
                BY <1>6, <2>2, <4>1, <4>2
            <4> QED
                BY <4>3, NumsType
        <3>2. CASE j \in 1..Len(acks) /\ acks'[j] = acks[j]
            BY <3>1, <3>2, <1>1, <1>13, <2>2 DEF AgeInv
        <3>3. CASE acks'[j] = req.seq
            BY <3>1, <3>3, <1>1, <1>4, <1>13 DEF AgeInv
        <3> QED
            BY <1>6, <3>2, <3>3
    <2>3. ASSUME NEW i \in 1..Len(reqs'), NEW j \in 1..Len(reqs'), i < j
          PROVE  Behind(seqno', reqs'[i].seq) >= Behind(seqno', reqs'[j].seq)
        <3>1. i + 1 < j + 1
            BY <1>2, <2>3
        <3> QED
            BY <3>1, <1>1, <1>2, <1>13 DEF AgeInv
    <2>4. ASSUME NEW y \in ReqNums' PROVE Behind(seqno, req.seq) >= Behind(seqno, y)
        <3>1. PICK i \in 1..Len(reqs') : y = reqs'[i].seq
            BY DEF ReqNums
        <3>2. i \in Nat /\ 1 < i + 1 /\ i + 1 \in 1..Len(reqs) /\ reqs'[i] = reqs[i + 1]
            BY <1>2
        <3> QED
            BY <3>1, <3>2, <1>2, <1>13 DEF AgeInv
    <2>5. ASSUME NEW x \in AckNums \cup {req.seq}, NEW y \in {req.seq} \cup ReqNums'
          PROVE  Behind(seqno, x) >= Behind(seqno, y)
        <3>1. Behind(seqno, req.seq) >= Behind(seqno, y)
            BY <1>4, <1>12, <2>4
        <3>2. Behind(seqno, x) >= Behind(seqno, req.seq)
            BY <1>4, <1>12, <1>13 DEF AgeInv
        <3>3. x \in Nums /\ y \in Nums
            BY <1>4, <1>9 DEF Nums
        <3> QED
            BY <3>1, <3>2, <3>3, <1>4, <1>12
    <2>6. /\ \A x \in AckNums', y \in LastNums' \cup ReqNums' : Behind(seqno', x) >= Behind(seqno', y)
          /\ \A x \in LastNums', y \in ReqNums' : Behind(seqno', x) >= Behind(seqno', y)
        BY <1>1, <1>7, <1>8, <2>5
    <2> QED
        BY <2>1, <2>2, <2>3, <2>6 DEF AgeInv
<1>14. ASSUME OwnInv PROVE OwnInv'
    <2>1. ASSUME req.seq = seqno PROVE txFrame.data \in arrived'
        <3>1. req.data = txFrame.data
            BY <1>2, <1>14, <2>1 DEF OwnInv
        <3>2. CASE IsNew(req.seq)
            BY <3>1, <3>2, <1>3
        <3>3. CASE ~IsNew(req.seq)
            <4>1. rxState # "WAIT"
                <5>1. SeqMod \in Nat /\ SeqMod > 2 /\ req.seq \in 0..(SeqMod - 1)
                    BY <1>4, ConstantsType DEF Seqnos
                <5>2. req.seq # (req.seq + SeqMod - 1) % SeqMod
                    BY <5>1, NumberBefore
                <5> QED
                    BY <3>3, <5>2 DEF IsNew, LastSeqno
            <4>2. rxState = "WAIT2" /\ last_seqno = seqno
                BY <3>3, <4>1, <2>1 DEF IsNew, LastSeqno, TypeOK
            <4> QED
                BY <4>2, <1>3, <1>14 DEF OwnInv, LastNums
        <3> QED
            BY <3>2, <3>3
    <2>2. seqno' \in AckNums' \cup LastNums' => txFrame'.data \in arrived'
        BY <1>1, <1>3, <1>7, <1>8, <1>14, <2>1 DEF OwnInv
    <2>3. \A i \in 1..Len(reqs') : reqs'[i].seq = seqno' => reqs'[i].data = txFrame'.data
        BY <1>1, <1>2, <1>14 DEF OwnInv
    <2>4. /\ txState' \in {"WAIT_FORREQ", "WAIT_ONDATA"} => seqno' \notin Nums' /\ ~ack_received'
          /\ ack_received' => txFrame'.data \in arrived' /\ Nums' \subseteq {seqno'}
        BY <1>1, <1>3, <1>10, <1>14 DEF OwnInv
    <2> QED
        BY <2>2, <2>3, <2>4 DEF OwnInv
<1> QED
    BY <1>1, <1>5, <1>11, <1>13, <1>14 DEF AckInv, Few

\* The account of numbers survives every step but a restart of the sender on
\* its own, which begins with number 1 while the old frames still travel.
LEMMA AckStep ==
    TypeOK /\ TxInv /\ AckInv /\ [Next]_vars /\ ~sender_restart => AckInv'
<1> SUFFICES ASSUME TypeOK, TxInv, AckInv, [Next]_vars, ~sender_restart
             PROVE  AckInv'
    OBVIOUS
<1>1. CASE tx_run_sm
    <2>1. CASE tx_run_sm_returns
        BY <2>1, AckLess DEF tx_run_sm_returns, txVars, rxVars
    <2> QED
        BY <1>1, <2>1, AckInit, AckNewNumber, AckWait, AckTransmit, AckGiveUp
        DEF tx_run_sm
<1>2. CASE req2send
    BY <1>2, AckLess DEF req2send, rxVars
<1>3. CASE ack_timeout_handler
    BY <1>3, AckLess DEF ack_timeout_handler, txVars, rxVars
<1>4. CASE Tick
    BY <1>4, AckLess DEF Tick, txVars, rxVars
<1>5. CASE recack_frame
    BY <1>5, AckNoted
<1>6. ASSUME NEW r \in 0..MaxRetry, NEW w \in 1..MaxWait, data_from_evb(r, w)
      PROVE  AckInv'
    BY <1>6, AckLess DEF data_from_evb, txVars, rxVars
<1>7. CASE ecp22_start
    BY <1>7, AckLess DEF ecp22_start, txVars, rxVars
<1>8. CASE rx_receiveframe
    BY <1>8, AckReceive
<1>9. CASE rx_start
    BY <1>9, AckLess DEF rx_start, txVars
<1>10. CASE link_down
    <2>1. /\ txState' = "BEGIN" /\ seqno' = 0 /\ errors' = 0 /\ ~ack_received'
          /\ rxState' = "WAIT" /\ reqs' = <<>> /\ acks' = <<>>
        BY <1>10 DEF link_down, ecp22_stop, rx_stop
    <2>2. AckNums' = {} /\ LastNums' = {} /\ ReqNums' = {}
        BY <2>1 DEF AckNums, LastNums, ReqNums
    <2> QED
        BY <2>1, <2>2 DEF AckInv, NumInv, Begun, Nums
<1>11. CASE receiver_restart
    BY <1>11, AckLess DEF receiver_restart, rx_stop, txVars
<1>12. CASE unheard
    <2>1. CASE ~rxUp /\ reqs # <<>> /\ reqs' = Tail(reqs) /\ UNCHANGED acks
        BY <1>12, <2>1, AckLess DEF unheard, txVars, rxVars
    <2>2. CASE ~up /\ acks # <<>> /\ acks' = Tail(acks) /\ UNCHANGED reqs
        BY <1>12, <2>2, AckLess DEF unheard, txVars, rxVars
    <2> QED
        BY <1>12, <2>1, <2>2 DEF unheard
<1>13. CASE UNCHANGED vars
    BY <1>13, AckLess DEF vars, txVars, rxVars
<1> QED
    BY <1>1, <1>2, <1>3, <1>4, <1>5, <1>6, <1>7, <1>8, <1>9, <1>10, <1>11,
       <1>12, <1>13 DEF Next

\* The account says what an acknowledgement that was noted means.
LEMMA AckAccount ==
    ASSUME TypeOK, AckInv
    PROVE  AckMeansDelivered
<1> SUFFICES ASSUME ack_received, errors < SeqMod - 2
             PROVE  txFrame.data \in arrived
    BY DEF AckMeansDelivered
<1>1. Begun
    BY DEF AckInv, NumInv
<1> QED
    BY <1>1 DEF AckInv, Few, OwnInv

\* Nothing is under way when the stations start.
LEMMA AckInitially == Init => AckInv
<1> SUFFICES ASSUME Init PROVE AckInv
    OBVIOUS
<1>1. AckNums = {} /\ LastNums = {} /\ ReqNums = {}
    BY DEF Init, AckNums, LastNums, ReqNums
<1> QED
    BY <1>1 DEF Init, AckInv, NumInv, Begun, Nums

\* As long as the sender is not restarted on its own, an acknowledgement that
\* recack_frame notes is that of the PDU in the transmit buffer and that PDU
\* was delivered: late acknowledgements and numbers that came round do not
\* count for another PDU, unless all the numbers but two were given up.
THEOREM AcksAreForTheirPdu == HistorySpec => []AckMeansDeliveredUnlessRestarted
<1>1. HistorySpec => Spec
    <2>1. HistoryInit => Init
        BY DEF HistoryInit
    <2>2. [HistoryNext]_<<vars, alone>> => [Next]_vars
        BY DEF HistoryNext
    <2> QED
        BY <2>1, <2>2, PTL DEF HistorySpec, Spec
<1>2. HistoryInit => (alone \/ AckInv)
    BY AckInitially DEF HistoryInit
<1>3. TypeOK /\ TxInv /\ (alone \/ AckInv) /\ [HistoryNext]_<<vars, alone>>
      => (alone \/ AckInv)'
    <2> SUFFICES ASSUME TypeOK, TxInv, alone \/ AckInv, [HistoryNext]_<<vars, alone>>
                 PROVE  alone' \/ AckInv'
        OBVIOUS
    <2>1. CASE alone
        BY <2>1 DEF HistoryNext
    <2>2. CASE ~alone
        <3>1. [Next]_vars /\ (sender_restart => alone' \/ UNCHANGED vars)
            BY DEF HistoryNext
        <3>2. CASE sender_restart /\ alone'
            BY <3>2
        <3>3. CASE ~sender_restart
            BY <2>2, <3>1, <3>3, AckStep
        <3>4. CASE UNCHANGED vars
            BY <2>2, <3>4, AckLess DEF vars, txVars, rxVars
        <3> QED
            BY <3>1, <3>2, <3>3, <3>4
    <2> QED
        BY <2>1, <2>2
<1>4. TypeOK /\ (alone \/ AckInv) => AckMeansDeliveredUnlessRestarted
    BY AckAccount DEF AckMeansDeliveredUnlessRestarted
<1> QED
    BY <1>1, <1>2, <1>3, <1>4, TxInvariant, PTL DEF HistorySpec

\* Where senders are not restarted on their own, no history is needed.
THEOREM AckMeansDelivery == ~SenderRestarts => (Spec => []AckMeansDelivered)
<1> SUFFICES ASSUME ~SenderRestarts PROVE Spec => []AckMeansDelivered
    OBVIOUS
<1>1. TypeOK /\ TxInv /\ AckInv /\ [Next]_vars => AckInv'
    BY AckStep DEF sender_restart
<1>2. TypeOK /\ AckInv => AckMeansDelivered
    BY AckAccount
<1> QED
    BY <1>1, <1>2, AckInitially, TxInvariant, PTL DEF Spec

-----------------------------------------------------------------------------
(* The EVB TLV                                                             *)

USE DEF Ends, Modes, RrStats, Exps

\* No structure is the mark of an absent one: the records differ in their
\* members (ed->..., the ECP and VDP lookups that return NULL).
LEMMA PresentData ==
  /\ \A d \in Datas : d # NoData
  /\ \A n : [rte |-> n] # NoData
  /\ \A v \in Vdps : v # NoData
  /\ \A t \in TLVs : t # NoData
<1>1. DOMAIN NoData = {"none"}
  BY DEF NoData
<1>2. ASSUME NEW d \in Datas PROVE d # NoData
  <2>1. "tx" \in DOMAIN d
    BY DEF Datas
  <2> QED
    BY <1>1, <2>1
<1>3. ASSUME NEW n PROVE [rte |-> n] # NoData
  <2>1. "rte" \in DOMAIN [rte |-> n]
    OBVIOUS
  <2> QED
    BY <1>1, <2>1
<1>4. ASSUME NEW v \in Vdps PROVE v # NoData
  <2>1. "role" \in DOMAIN v
    BY DEF Vdps
  <2> QED
    BY <1>1, <2>1
<1>5. ASSUME NEW t \in TLVs PROVE t # NoData
  <2>1. "oui" \in DOMAIN t
    BY DEF TLVs
  <2> QED
    BY <1>1, <2>1
<1> QED
  BY <1>2, <1>3, <1>4, <1>5

\* The empty TLV is a TLV.
LEMMA ZeroType == Zero \in TLVs
  BY IntBitsAssumption DEF Zero, TLVs

\* The policy read from a configuration file.
LEMMA PolicyType ==
  ASSUME NEW c \in Configs
  PROVE  evb22_init_tlv(c) \in Datas
<1>1. /\ c.rte \in Exps /\ c.rwd \in Exps /\ c.mode \in Modes
      /\ c.tx \in BOOLEAN
  BY ExponentsAssumption DEF Configs
<1> DEFINE st == c.mode = "station"
           stat == IF st THEN "dont" ELSE "no"
           sgid == st /\ c.gid
           rrreq == st /\ c.rrreq
           bgid == c.mode = "bridge" /\ c.gid
           rrcap == c.mode = "bridge" /\ c.rrcap
           policy == [Zero EXCEPT !.oui = TRUE, !.mode = c.mode,
                        !.rte = c.rte, !.rwd = c.rwd, !.rrstat = stat,
                        !.sgid = sgid, !.rrreq = rrreq,
                        !.bgid = bgid, !.rrcap = rrcap]
<1>2. stat \in RrStats
  OBVIOUS
<1>3. {sgid, rrreq, bgid, rrcap} \subseteq BOOLEAN
  OBVIOUS
<1> HIDE DEF st, stat, sgid, rrreq, bgid, rrcap
<1>4. policy \in TLVs /\ policy.mode \in Modes
  BY <1>1, <1>2, <1>3, ZeroType DEF TLVs
<1>5. [Zero EXCEPT !.oui = TRUE] \in TLVs
  BY ZeroType DEF TLVs
<1>6. evb22_init_tlv(c) =
        [tx |-> c.tx, last |-> Zero, out |-> [Zero EXCEPT !.oui = TRUE],
         started |-> FALSE, policy |-> policy]
  BY DEF evb22_init_tlv, st, stat, sgid, rrreq, bgid, rrcap
<1> HIDE DEF policy
<1> QED
  BY <1>1, <1>4, <1>5, <1>6, ZeroType DEF Datas

\* What an end answers is a TLV: the larger of two exponents is one of them.
LEMMA NewOutType ==
  ASSUME NEW d \in Datas
  PROVE  NewOut(d) \in TLVs
<1>1. /\ d.policy \in TLVs /\ d.last \in TLVs /\ d.out \in TLVs
  BY DEF Datas
<1>2. ASSUME NEW a \in Exps, NEW b \in Exps PROVE Max2(a, b) \in Exps
  BY DEF Max2
<1>3. ASSUME NEW m \in TLVs, NEW r \in TLVs, NEW o \in TLVs
      PROVE  common_tlv(m, r, o) \in TLVs
  <2>1. Max2(m.rte, r.rte) \in Exps /\ Max2(m.rwd, r.rwd) \in Exps
    BY <1>2 DEF TLVs
  <2> QED
    BY <2>1 DEF common_tlv, TLVs
<1>4. station_tlv(d.policy, d.last, d.out) \in TLVs
  <2> DEFINE stat == IF ~d.last.oui THEN "dont"
                     ELSE IF d.last.rrctr THEN "yes" ELSE "no"
             o == [d.out EXCEPT !.bgid = d.last.bgid, !.rrcap = d.last.rrcap,
                    !.rrctr = d.last.rrctr, !.sgid = d.policy.sgid,
                    !.rrreq = d.policy.rrreq, !.rrstat = stat]
  <2>1. stat \in RrStats
    OBVIOUS
  <2> HIDE DEF stat
  <2>2. o \in TLVs
    BY <1>1, <2>1 DEF TLVs
  <2>3. station_tlv(d.policy, d.last, d.out) = common_tlv(d.policy, d.last, o)
    BY DEF station_tlv, stat
  <2> QED
    BY <1>1, <1>3, <2>2, <2>3
<1>5. bridge_tlv(d.policy, d.last, d.out) \in TLVs
  <2> DEFINE ctr == d.policy.rrctr \/ (d.last.rrreq /\ d.policy.rrcap)
             o == [d.out EXCEPT !.sgid = d.last.sgid, !.rrreq = d.last.rrreq,
                    !.rrstat = d.last.rrstat,
                    !.bgid = d.policy.bgid, !.rrcap = d.policy.rrcap,
                    !.rrctr = ctr]
  <2>1. ctr \in BOOLEAN
    BY Zenon
  <2>2. bridge_tlv(d.policy, d.last, d.out) = common_tlv(d.policy, d.last, o)
    BY DEF bridge_tlv
  <2> HIDE DEF ctr
  <2>3. o \in TLVs
    BY <1>1, <2>1 DEF TLVs
  <2> QED
    BY <1>1, <1>3, <2>2, <2>3
<1> QED
  BY <1>4, <1>5 DEF NewOut

\* evb22_update_tlv() keeps the data of the three modules in their types.
LEMMA UpdateType ==
  ASSUME EvbTypeOK, NEW e \in Ends, NEW d \in Datas, evb22_update_tlv(e, d)
  PROVE  /\ ed' \in [Ends -> Datas \cup {NoData}]
         /\ ecp' \in [Ends -> [rte : Exps] \cup {NoData}]
         /\ vdp' \in [Ends -> Vdps \cup {NoData}]
<1> DEFINE out == NewOut(d)
<1>1. out \in TLVs
  BY NewOutType
<1>2. out.rte \in Exps /\ out.rwd \in Exps /\ (out.bgid /\ out.sgid) \in BOOLEAN
  BY <1>1 DEF TLVs
<1>3. [d EXCEPT !.out = out] \in Datas
  BY <1>1 DEF Datas
<1>4. [rte |-> out.rte] \in [rte : Exps]
  BY <1>2
<1>5. ASSUME NEW v \in Vdps
      PROVE  [v EXCEPT !.rte = out.rte, !.rwd = out.rwd,
                       !.gpid = out.bgid /\ out.sgid, !.evbon = d.tx] \in Vdps
  BY <1>2 DEF Vdps, Datas
<1> HIDE DEF out
<1>6. ed' \in [Ends -> Datas \cup {NoData}]
  BY <1>3 DEF EvbTypeOK, evb22_update_tlv, out
<1>7. ecp' \in [Ends -> [rte : Exps] \cup {NoData}]
  BY <1>4 DEF EvbTypeOK, evb22_update_tlv, out
<1>8. vdp' \in [Ends -> Vdps \cup {NoData}]
  BY <1>5 DEF EvbTypeOK, evb22_update_tlv, out
<1> QED
  BY <1>6, <1>7, <1>8

\* Each command changes one setting and one member of the policy: not whether
\* ECP and VDP were started, nor what the peer said, and rte to an exponent.
Retains(c, d, o) == /\ d.started = o.started /\ d.last = o.last
                    /\ d.policy.rte \in {o.policy.rte, c.rte}

LEMMA CommandData ==
  ASSUME EvbTypeOK, NEW e \in Ends, Commands(e)
  PROVE  /\ Up(e)
         /\ \E c \in Configs, d \in Datas :
              Command(e, c, d) /\ Retains(c, d, ed[e])
<1>1. Up(e)
  BY DEF Commands, Command, set_arg_evbmode, set_rte, set_rwd, set_txmit,
         set_gpid, set_rrreq, set_rrcap
<1>2. ed[e] \in Datas /\ ed[e].policy \in TLVs /\ cfg[e] \in Configs
  BY <1>1 DEF EvbTypeOK, Up, Datas
<1> DEFINE Goal == \E c \in Configs, d \in Datas :
                     Command(e, c, d) /\ Retains(c, d, ed[e])
<1>3. ASSUME NEW m \in Modes, set_arg_evbmode(e, m) PROVE Goal
  <2>1. [cfg[e] EXCEPT !.mode = m] \in Configs
    BY <1>2 DEF Configs
  <2>2. /\ [ed[e] EXCEPT !.policy.mode = m] \in Datas
        /\ Retains([cfg[e] EXCEPT !.mode = m], [ed[e] EXCEPT !.policy.mode = m], ed[e])
    BY <1>2 DEF Datas, TLVs, Configs, Retains
  <2> QED
    BY <1>3, <2>1, <2>2 DEF set_arg_evbmode
<1>4. ASSUME NEW n \in Exponents, set_rte(e, n) PROVE Goal
  <2>1. [cfg[e] EXCEPT !.rte = n] \in Configs
    BY <1>2 DEF Configs
  <2>2. /\ [ed[e] EXCEPT !.policy.rte = n] \in Datas
        /\ Retains([cfg[e] EXCEPT !.rte = n], [ed[e] EXCEPT !.policy.rte = n], ed[e])
    BY <1>2, ExponentsAssumption DEF Datas, TLVs, Configs, Retains
  <2> QED
    BY <1>4, <2>1, <2>2 DEF set_rte
<1>5. ASSUME NEW n \in Exponents, set_rwd(e, n) PROVE Goal
  <2>1. [cfg[e] EXCEPT !.rwd = n] \in Configs
    BY <1>2 DEF Configs
  <2>2. /\ [ed[e] EXCEPT !.policy.rwd = n] \in Datas
        /\ Retains([cfg[e] EXCEPT !.rwd = n], [ed[e] EXCEPT !.policy.rwd = n], ed[e])
    BY <1>2, ExponentsAssumption DEF Datas, TLVs, Configs, Retains
  <2> QED
    BY <1>5, <2>1, <2>2 DEF set_rwd
<1>6. ASSUME NEW b \in BOOLEAN, set_txmit(e, b) PROVE Goal
  <2>1. [cfg[e] EXCEPT !.tx = b] \in Configs
    BY <1>2 DEF Configs
  <2>2. /\ [ed[e] EXCEPT !.tx = b] \in Datas
        /\ Retains([cfg[e] EXCEPT !.tx = b], [ed[e] EXCEPT !.tx = b], ed[e])
    BY <1>2 DEF Datas, TLVs, Configs, Retains
  <2> QED
    BY <1>6, <2>1, <2>2 DEF set_txmit
<1>7. ASSUME NEW b \in BOOLEAN, set_gpid(e, b) PROVE Goal
  <2>1. [cfg[e] EXCEPT !.gid = b] \in Configs
    BY <1>2 DEF Configs
  <2> DEFINE d == IF ed[e].policy.mode = "station"
                  THEN [ed[e] EXCEPT !.policy.sgid = b]
                  ELSE [ed[e] EXCEPT !.policy.bgid = b]
  <2>2. d \in Datas /\ Retains([cfg[e] EXCEPT !.gid = b], d, ed[e])
    BY <1>2 DEF Datas, TLVs, Configs, Retains
  <2>3. Command(e, [cfg[e] EXCEPT !.gid = b], d)
    BY <1>7 DEF set_gpid
  <2> HIDE DEF d
  <2> QED
    BY <2>1, <2>2, <2>3
<1>8. ASSUME NEW b \in BOOLEAN, set_rrreq(e, b) PROVE Goal
  <2>1. [cfg[e] EXCEPT !.rrreq = b] \in Configs
    BY <1>2 DEF Configs
  <2>2. /\ [ed[e] EXCEPT !.policy.rrreq = b] \in Datas
        /\ Retains([cfg[e] EXCEPT !.rrreq = b], [ed[e] EXCEPT !.policy.rrreq = b], ed[e])
    BY <1>2 DEF Datas, TLVs, Configs, Retains
  <2> QED
    BY <1>8, <2>1, <2>2 DEF set_rrreq
<1>9. ASSUME NEW b \in BOOLEAN, set_rrcap(e, b) PROVE Goal
  <2>1. [cfg[e] EXCEPT !.rrcap = b] \in Configs
    BY <1>2 DEF Configs
  <2>2. /\ [ed[e] EXCEPT !.policy.rrcap = b] \in Datas
        /\ Retains([cfg[e] EXCEPT !.rrcap = b], [ed[e] EXCEPT !.policy.rrcap = b], ed[e])
    BY <1>2 DEF Datas, TLVs, Configs, Retains
  <2> QED
    BY <1>9, <2>1, <2>2 DEF set_rrcap
<1> QED
  BY <1>1, <1>3, <1>4, <1>5, <1>6, <1>7, <1>8, <1>9 DEF Commands

-----------------------------------------------------------------------------
\* Every step stays in the types: one step per operation of the module.
LEMMA EvbStepType == EvbTypeOK /\ [EvbNext]_endVars => EvbTypeOK'
<1> SUFFICES ASSUME EvbTypeOK, [EvbNext]_endVars PROVE EvbTypeOK'
  OBVIOUS
<1> USE DEF EvbTypeOK
<1>1. CASE UNCHANGED endVars
  BY <1>1 DEF endVars
<1>2. ASSUME NEW e \in Ends, evb22_ifup(e) PROVE EvbTypeOK'
  BY <1>2, PolicyType DEF evb22_ifup
<1>3. ASSUME NEW e \in Ends, evb22_ifdown(e) PROVE EvbTypeOK'
  BY <1>3, MaxChangesAssumption DEF evb22_ifdown, Disturbed
<1>4. ASSUME NEW e \in Ends, evb22_timer(e) PROVE EvbTypeOK'
  <2>1. ed[e] \in Datas
    BY <1>4 DEF evb22_timer, Up
  <2>2. [ed[e] EXCEPT !.started = TRUE] \in Datas
    BY <2>1 DEF Datas
  <2>3. [rte |-> DefaultRte] \in [rte : Exps]
    BY DefaultRteAssumption
  <2>4. ed[e].policy.mode \in Modes
    BY <2>1 DEF Datas
  <2>5. [role |-> ed[e].policy.mode, rte |-> 0, rwd |-> 0,
         gpid |-> FALSE, evbon |-> FALSE] \in Vdps
    BY <2>4, IntBitsAssumption DEF Vdps
  <2> QED
    BY <1>4, <2>2, <2>3, <2>5 DEF evb22_timer
<1>5. ASSUME NEW e \in Ends, evb22_gettlv(e) PROVE EvbTypeOK'
  <2>1. ed[e] \in Datas
    BY <1>5 DEF evb22_gettlv, Up
  <2>2. CASE ed[e].tx
    <3>1. NewOut(ed[e]) \in TLVs
      BY <2>1, NewOutType
    <3>2. /\ ed' \in [Ends -> Datas \cup {NoData}]
          /\ ecp' \in [Ends -> [rte : Exps] \cup {NoData}]
          /\ vdp' \in [Ends -> Vdps \cup {NoData}]
      BY <1>5, <2>1, <2>2, UpdateType DEF evb22_gettlv
    <3>3. link' \in [Ends -> TLVs \cup {NoData}]
      BY <1>5, <2>2, <3>1 DEF evb22_gettlv
    <3> QED
      BY <1>5, <3>2, <3>3 DEF evb22_gettlv
  <2>3. CASE ~ed[e].tx
    BY <1>5, <2>3, ZeroType DEF evb22_gettlv
  <2> QED
    BY <2>2, <2>3
<1>6. ASSUME NEW e \in Ends, evb22_rchange(e) PROVE EvbTypeOK'
  <2> DEFINE frame == link[Peer(e)]
             Taken == Up(e) /\ frame # heard[e] /\ frame.oui /\ ed[e].tx
  <2>1. frame \in TLVs
    BY <1>6 DEF evb22_rchange, Peer
  <2>2. /\ link' \in [Ends -> TLVs \cup {NoData}]
        /\ heard' \in [Ends -> TLVs \cup {NoData}]
    BY <1>6, <2>1 DEF evb22_rchange
  <2>3. CASE Taken
    <3>1. ed[e] \in Datas
      BY <2>3 DEF Up
    <3>2. [ed[e] EXCEPT !.last = frame] \in Datas
      BY <2>1, <3>1 DEF Datas
    <3>3. evb22_update_tlv(e, [ed[e] EXCEPT !.last = frame])
      BY <1>6, <2>3 DEF evb22_rchange
    <3>4. /\ ed' \in [Ends -> Datas \cup {NoData}]
          /\ ecp' \in [Ends -> [rte : Exps] \cup {NoData}]
          /\ vdp' \in [Ends -> Vdps \cup {NoData}]
      BY <3>2, <3>3, UpdateType
    <3> QED
      BY <1>6, <2>2, <3>4 DEF evb22_rchange
  <2>4. CASE ~Taken
    BY <1>6, <2>2, <2>4 DEF evb22_rchange
  <2> QED
    BY <2>3, <2>4
<1>7. ASSUME NEW e \in Ends, lost(e) PROVE EvbTypeOK'
  BY <1>7 DEF lost
<1>8. ASSUME NEW e \in Ends, evb22_mibdelete(e) PROVE EvbTypeOK'
  <2>1. ed[e] \in Datas
    BY <1>8 DEF evb22_mibdelete, Up
  <2>2. [ed[e] EXCEPT !.last = Zero] \in Datas
    BY <2>1, ZeroType DEF Datas
  <2> QED
    BY <1>8, <2>2, MaxChangesAssumption DEF evb22_mibdelete, Disturbed
<1>9. ASSUME NEW e \in Ends, Commands(e) PROVE EvbTypeOK'
  <2>1. PICK c \in Configs, d \in Datas : Command(e, c, d)
    BY <1>9, CommandData
  <2> QED
    BY <2>1, MaxChangesAssumption DEF Command, Disturbed, Configs
<1> QED
  BY <1>1, <1>2, <1>3, <1>4, <1>5, <1>6, <1>7, <1>8, <1>9 DEF EvbNext

\* The data of EVB, ECP and VDP and the TLVs on the link keep their types, and
\* the negotiated exponents their range, whatever the ends configure and send
\* (evb22_update_tlv(), common_tlv(), the commands).
THEOREM EvbTypeCorrect == EvbSpec => []EvbTypeOK
<1>1. EvbInit => EvbTypeOK
  BY InitConfigsAssumption, MaxChangesAssumption, ZeroType
  DEF EvbInit, EvbTypeOK, Configs
<1> QED
  BY <1>1, EvbStepType, PTL DEF EvbSpec

-----------------------------------------------------------------------------
\* One operation of one end leaves ECP running exactly where EVB started it.
LEMMA EvbStepEcp == EvbTypeOK /\ EcpRunsWithEvb /\ [EvbNext]_endVars => EcpRunsWithEvb'
<1> SUFFICES ASSUME EvbTypeOK, EcpRunsWithEvb, [EvbNext]_endVars PROVE EcpRunsWithEvb'
  OBVIOUS
<1> USE DEF EcpRunsWithEvb, Up
<1>1. ASSUME NEW e \in Ends, NEW d \in Datas, evb22_update_tlv(e, d),
             Up(e), d.started = ed[e].started
      PROVE  EcpRunsWithEvb'
  <2> DEFINE o == [d EXCEPT !.out = NewOut(d)]
  <2>1. o \in Datas /\ o.started = ed[e].started
    BY <1>1, NewOutType DEF Datas
  <2>2. o # NoData
    BY <2>1, PresentData
  <2>3. ed' = [ed EXCEPT ![e] = o]
    BY <1>1 DEF evb22_update_tlv
  <2> HIDE DEF o
  <2>4. \A f \in Ends : (ecp'[f] # NoData) <=> (ecp[f] # NoData)
    BY <1>1, PresentData DEF evb22_update_tlv, EvbTypeOK
  <2>5. \A f \in Ends : /\ (ed'[f] # NoData) <=> (ed[f] # NoData)
                        /\ ed'[f].started = ed[f].started
    BY <1>1, <2>1, <2>2, <2>3 DEF EvbTypeOK
  <2> QED
    BY <2>4, <2>5
<1>2. ASSUME NEW e \in Ends, NEW d \in Datas, Up(e),
             d.started = ed[e].started, ed' = [ed EXCEPT ![e] = d],
             UNCHANGED ecp
      PROVE  EcpRunsWithEvb'
  BY <1>2, PresentData DEF EvbTypeOK
<1>3. CASE UNCHANGED endVars
  BY <1>3 DEF endVars
<1>4. ASSUME NEW e \in Ends, evb22_ifup(e) PROVE EcpRunsWithEvb'
  <2>1. ~evb22_init_tlv(cfg[e]).started
    BY DEF evb22_init_tlv
  <2> QED
    BY <1>4, <2>1 DEF evb22_ifup, EvbTypeOK
<1>5. ASSUME NEW e \in Ends, evb22_ifdown(e) PROVE EcpRunsWithEvb'
  BY <1>5 DEF evb22_ifdown, EvbTypeOK
<1>6. ASSUME NEW e \in Ends, evb22_timer(e) PROVE EcpRunsWithEvb'
  <2>1. ed[e] \in Datas
    BY <1>6 DEF evb22_timer, EvbTypeOK
  <2> DEFINE d == [ed[e] EXCEPT !.started = TRUE]
  <2>2. d \in Datas /\ d.started
    BY <2>1 DEF Datas
  <2>3. d # NoData
    BY <2>2, PresentData
  <2>4. ed' = [ed EXCEPT ![e] = d]
    BY <1>6 DEF evb22_timer
  <2> HIDE DEF d
  <2>5. ecp'[e] # NoData /\ \A f \in Ends \ {e} : ecp'[f] = ecp[f]
    BY <1>6, PresentData DEF evb22_timer, EvbTypeOK
  <2> QED
    BY <2>2, <2>3, <2>4, <2>5 DEF EvbTypeOK
<1>7. ASSUME NEW e \in Ends, evb22_gettlv(e) PROVE EcpRunsWithEvb'
  BY <1>1, <1>7 DEF evb22_gettlv, EvbTypeOK
<1>8. ASSUME NEW e \in Ends, evb22_rchange(e) PROVE EcpRunsWithEvb'
  <2> DEFINE frame == link[Peer(e)]
             Taken == Up(e) /\ frame # heard[e] /\ frame.oui /\ ed[e].tx
  <2>1. CASE Taken
    <3> DEFINE d == [ed[e] EXCEPT !.last = frame]
    <3>1. ed[e] \in Datas /\ frame \in TLVs
      BY <1>8, <2>1 DEF evb22_rchange, Peer, EvbTypeOK
    <3>2. d \in Datas /\ d.started = ed[e].started
      BY <3>1 DEF Datas
    <3> QED
      BY <1>1, <1>8, <2>1, <3>2 DEF evb22_rchange
  <2>2. CASE ~Taken
    BY <1>8, <2>2 DEF evb22_rchange
  <2> QED
    BY <2>1, <2>2
<1>9. ASSUME NEW e \in Ends, lost(e) PROVE EcpRunsWithEvb'
  BY <1>9 DEF lost
<1>10. ASSUME NEW e \in Ends, evb22_mibdelete(e) PROVE EcpRunsWithEvb'
  <2> DEFINE d == [ed[e] EXCEPT !.last = Zero]
  <2>1. ed[e] \in Datas
    BY <1>10 DEF evb22_mibdelete, EvbTypeOK
  <2>2. d \in Datas /\ d.started = ed[e].started
    BY <2>1, ZeroType DEF Datas
  <2> QED
    BY <1>2, <1>10, <2>2 DEF evb22_mibdelete
<1>11. ASSUME NEW e \in Ends, Commands(e) PROVE EcpRunsWithEvb'
  <2>1. PICK c \in Configs, d \in Datas :
          Command(e, c, d) /\ d.started = ed[e].started
    BY <1>11, CommandData DEF Retains
  <2> QED
    BY <1>2, <2>1 DEF Command
<1> QED
  BY <1>3, <1>4, <1>5, <1>6, <1>7, <1>8, <1>9, <1>10, <1>11 DEF EvbNext

\* ECP of the ratified standard runs on an interface exactly while the EVB data
\* of the interface say it was started, for any configurations and any order of
\* link events, TLVs and commands (evb22_timer(), evb22_ifdown()).
THEOREM EcpFollowsEvb == EvbSpec => []EcpRunsWithEvb
<1>1. EvbInit => EcpRunsWithEvb
  BY DEF EvbInit, EcpRunsWithEvb, Up
<1> QED
  BY <1>1, EvbStepEcp, EvbTypeCorrect, PTL DEF EvbSpec

-----------------------------------------------------------------------------
(* The wait of ECP                                                         *)

\* What the file and the policy of an end ask for has been asked for, what the
\* end has heard and what is on the link too unless it is nothing, and ECP uses
\* one of them or its default.
Asked == /\ \A e \in Ends : cfg[e].rte \in asked
         /\ \A e \in Ends : ed[e] # NoData =>
               ed[e].policy.rte \in asked /\ ed[e].last.rte \in asked \cup {0}
         /\ \A e \in Ends : link[e] # NoData => link[e].rte \in asked \cup {0}
         /\ \A e \in Ends : ecp[e] # NoData =>
               ecp[e].rte \in asked \cup {DefaultRte}

\* The larger of what is configured and what was received, or nothing was.
LEMMA NewOutAsked ==
  ASSUME NEW A \in SUBSET Exponents, NEW d \in Datas, d.policy.rte \in A,
         d.last.rte \in A \cup {0}
  PROVE  NewOut(d).rte \in A
<1>1. d.policy \in TLVs /\ d.last \in TLVs /\ d.out \in TLVs
  BY DEF Datas
<1>2. ASSUME NEW a \in A, NEW b \in A \cup {0}
      PROVE  Max2(a, b) \in A
  <2>1. a \in Nat /\ b \in Nat
    BY ExponentsAssumption, IntBitsAssumption
  <2>2. CASE a > b
    BY <2>2 DEF Max2
  <2>3. CASE ~(a > b)
    <3>1. b = 0 => a = b
      BY <2>1, <2>3
    <3>2. b \in A
      BY <3>1
    <3> QED
      BY <2>3, <3>2 DEF Max2
  <2> QED
    BY <2>2, <2>3
<1>3. NewOut(d).rte = Max2(d.policy.rte, d.last.rte)
  <2> DEFINE m == d.policy
             r == d.last
             a == [d.out EXCEPT !.bgid = r.bgid, !.rrcap = r.rrcap,
                     !.rrctr = r.rrctr, !.sgid = m.sgid, !.rrreq = m.rrreq,
                     !.rrstat = IF ~r.oui THEN "dont"
                                ELSE IF r.rrctr THEN "yes" ELSE "no"]
             b == [d.out EXCEPT !.sgid = r.sgid, !.rrreq = r.rrreq,
                     !.rrstat = r.rrstat, !.bgid = m.bgid, !.rrcap = m.rrcap,
                     !.rrctr = m.rrctr \/ (r.rrreq /\ m.rrcap)]
  <2>1. NewOut(d) \in {common_tlv(m, r, a), common_tlv(m, r, b)}
    BY DEF NewOut, station_tlv, bridge_tlv
  <2>2. "rte" \in DOMAIN a /\ "rte" \in DOMAIN b
    BY <1>1 DEF TLVs
  <2> HIDE DEF m, r, a, b
  <2>3. common_tlv(m, r, a).rte = Max2(m.rte, r.rte)
    BY <2>2 DEF common_tlv
  <2>4. common_tlv(m, r, b).rte = Max2(m.rte, r.rte)
    BY <2>2 DEF common_tlv
  <2> QED
    BY <2>1, <2>3, <2>4 DEF m, r
<1> QED
  BY <1>2, <1>3

\* An end chooses its parameters anew.
LEMMA UpdateAsked ==
  ASSUME EvbTypeOK, Asked, NEW e \in Ends, NEW d \in Datas, evb22_update_tlv(e, d),
         d.policy.rte \in asked, d.last.rte \in asked \cup {0},
         \A f \in Ends : link'[f] # NoData => link'[f].rte \in asked \cup {0},
         cfg' = cfg, asked' = asked
  PROVE  Asked'
<1> DEFINE out == NewOut(d)
           o == [d EXCEPT !.out = out]
<1>1. out.rte \in asked
  BY NewOutAsked DEF EvbTypeOK
<1>2. /\ ed' = [ed EXCEPT ![e] = o]
      /\ ecp' = [ecp EXCEPT ![e] = IF @ = NoData THEN @ ELSE [rte |-> out.rte]]
  BY DEF evb22_update_tlv
<1>3. o.policy = d.policy /\ o.last = d.last
  BY DEF Datas
<1> HIDE DEF o, out
<1>4. \A f \in Ends : ed'[f] # NoData =>
        ed'[f].policy.rte \in asked /\ ed'[f].last.rte \in asked \cup {0}
  BY <1>2, <1>3 DEF Asked, EvbTypeOK
<1>5. \A f \in Ends : ecp'[f] # NoData => ecp'[f].rte \in asked \cup {DefaultRte}
  BY <1>1, <1>2 DEF Asked, EvbTypeOK
<1> QED
  BY <1>4, <1>5 DEF Asked

LEMMA EvbStepAsked == EvbTypeOK /\ Asked /\ [EvbNext]_endVars => Asked'
<1> SUFFICES ASSUME EvbTypeOK, Asked, [EvbNext]_endVars PROVE Asked'
  OBVIOUS
<1>0. Zero.rte = 0
  BY DEF Zero
<1>1. ASSUME NEW e \in Ends, NEW d, ed' = [ed EXCEPT ![e] = d],
             d.policy.rte \in asked', d.last.rte \in asked' \cup {0},
             link' = link, asked \subseteq asked',
             \A f \in Ends : cfg'[f].rte \in asked',
             \A f \in Ends : ecp'[f] \in {ecp[f], NoData, [rte |-> DefaultRte]}
      PROVE  Asked'
  <2>1. \A f \in Ends : ed'[f] # NoData =>
          ed'[f].policy.rte \in asked' /\ ed'[f].last.rte \in asked' \cup {0}
    BY <1>1 DEF Asked, EvbTypeOK
  <2>2. \A f \in Ends : ecp'[f] # NoData => ecp'[f].rte \in asked' \cup {DefaultRte}
    BY <1>1 DEF Asked
  <2>3. \A f \in Ends : link'[f] # NoData => link'[f].rte \in asked' \cup {0}
    BY <1>1 DEF Asked
  <2> QED
    BY <1>1, <2>1, <2>2, <2>3 DEF Asked
<1>2. CASE UNCHANGED endVars
  BY <1>2 DEF endVars, Asked
<1>3. ASSUME NEW e \in Ends, evb22_ifup(e) PROVE Asked'
  <2> DEFINE d == evb22_init_tlv(cfg[e])
  <2>1. d.policy.rte = cfg[e].rte /\ d.last = Zero
    BY DEF evb22_init_tlv, Zero
  <2>2. \A f \in Ends : cfg'[f].rte \in asked' /\ asked' = asked /\ cfg' = cfg
    BY <1>3 DEF evb22_ifup, Asked
  <2> HIDE DEF d
  <2>3. ed' = [ed EXCEPT ![e] = d] /\ link' = link /\ ecp' = ecp
    BY <1>3 DEF evb22_ifup, d
  <2> QED
    BY <1>0, <1>1, <2>1, <2>2, <2>3
<1>4. ASSUME NEW e \in Ends, evb22_ifdown(e) PROVE Asked'
  BY <1>4 DEF evb22_ifdown, Asked, EvbTypeOK
<1>5. ASSUME NEW e \in Ends, evb22_timer(e) PROVE Asked'
  <2> DEFINE d == [ed[e] EXCEPT !.started = TRUE]
  <2>1. ed[e] \in Datas /\ ed[e] # NoData
    BY <1>5 DEF evb22_timer, Up, EvbTypeOK
  <2>2. d.policy = ed[e].policy /\ d.last = ed[e].last
    BY <2>1 DEF Datas
  <2>3. ed' = [ed EXCEPT ![e] = d] /\ link' = link /\ asked' = asked /\ cfg' = cfg
    BY <1>5 DEF evb22_timer
  <2>4. \A f \in Ends : ecp'[f] \in {ecp[f], NoData, [rte |-> DefaultRte]}
    BY <1>5 DEF evb22_timer, EvbTypeOK
  <2>5. /\ \A f \in Ends : cfg[f].rte \in asked
        /\ ed[e].policy.rte \in asked /\ ed[e].last.rte \in asked \cup {0}
    BY <2>1 DEF Asked
  <2> HIDE DEF d
  <2> QED
    BY <1>1, <2>2, <2>3, <2>4, <2>5
<1>6. ASSUME NEW e \in Ends, evb22_gettlv(e) PROVE Asked'
  <2>1. ed[e] \in Datas /\ ed[e] # NoData
    BY <1>6 DEF evb22_gettlv, Up, EvbTypeOK
  <2>2. NewOut(ed[e]).rte \in asked
    BY <2>1, NewOutAsked DEF Asked, EvbTypeOK
  <2>3. \A f \in Ends : link'[f] # NoData => link'[f].rte \in asked \cup {0}
    BY <1>0, <1>6, <2>2 DEF evb22_gettlv, Asked, EvbTypeOK
  <2>4. CASE ed[e].tx
    BY <1>6, <2>1, <2>3, <2>4, UpdateAsked DEF evb22_gettlv, Asked
  <2>5. CASE ~ed[e].tx
    BY <1>6, <2>3, <2>5 DEF evb22_gettlv, Asked
  <2> QED
    BY <2>4, <2>5
<1>7. ASSUME NEW e \in Ends, evb22_rchange(e) PROVE Asked'
  <2> DEFINE frame == link[Peer(e)]
             Taken == Up(e) /\ frame # heard[e] /\ frame.oui /\ ed[e].tx
  <2>1. \A f \in Ends : link'[f] # NoData => link'[f].rte \in asked \cup {0}
    BY <1>7 DEF evb22_rchange, Asked, EvbTypeOK
  <2>2. CASE Taken
    <3> DEFINE d == [ed[e] EXCEPT !.last = frame]
    <3>1. ed[e] \in Datas /\ ed[e] # NoData
      BY <2>2 DEF Up, EvbTypeOK
    <3>2. frame \in TLVs /\ frame.rte \in asked \cup {0}
      BY <1>7 DEF evb22_rchange, Peer, Asked, EvbTypeOK
    <3>3. d \in Datas /\ d.policy = ed[e].policy /\ d.last = frame
      BY <3>1, <3>2 DEF Datas
    <3>4. evb22_update_tlv(e, d) /\ cfg' = cfg /\ asked' = asked
      BY <1>7, <2>2 DEF evb22_rchange
    <3>5. d.policy.rte \in asked
      BY <3>1, <3>3 DEF Asked
    <3> HIDE DEF d, frame
    <3> QED
      BY <2>1, <3>2, <3>3, <3>4, <3>5, UpdateAsked
  <2>3. CASE ~Taken
    BY <1>7, <2>1, <2>3 DEF evb22_rchange, Asked
  <2> QED
    BY <2>2, <2>3
<1>8. ASSUME NEW e \in Ends, lost(e) PROVE Asked'
  BY <1>8 DEF lost, Asked, EvbTypeOK
<1>9. ASSUME NEW e \in Ends, evb22_mibdelete(e) PROVE Asked'
  <2> DEFINE d == [ed[e] EXCEPT !.last = Zero]
  <2>1. ed[e] \in Datas /\ ed[e] # NoData
    BY <1>9 DEF evb22_mibdelete, Up, EvbTypeOK
  <2>2. d.policy = ed[e].policy /\ d.last = Zero
    BY <2>1 DEF Datas
  <2>3. /\ ed' = [ed EXCEPT ![e] = d] /\ link' = link /\ ecp' = ecp
        /\ cfg' = cfg /\ asked' = asked
    BY <1>9 DEF evb22_mibdelete
  <2>4. ed[e].policy.rte \in asked /\ \A f \in Ends : cfg[f].rte \in asked
    BY <2>1 DEF Asked
  <2> HIDE DEF d
  <2> QED
    BY <1>0, <1>1, <2>2, <2>3, <2>4
<1>10. ASSUME NEW e \in Ends, Commands(e) PROVE Asked'
  <2>1. PICK c \in Configs, d \in Datas : Command(e, c, d) /\ Retains(c, d, ed[e])
    BY <1>10, CommandData
  <2>2. ed[e] # NoData
    BY <1>10, CommandData DEF Up
  <2>3. /\ asked' = asked \cup {c.rte} /\ cfg' = [cfg EXCEPT ![e] = c]
        /\ ed' = [ed EXCEPT ![e] = d] /\ link' = link /\ ecp' = ecp
    BY <2>1 DEF Command
  <2>4. d.policy.rte \in asked' /\ d.last.rte \in asked' \cup {0}
    BY <2>1, <2>2, <2>3 DEF Retains, Asked
  <2>5. \A f \in Ends : cfg'[f].rte \in asked'
    BY <2>3 DEF Asked, EvbTypeOK
  <2> QED
    BY <1>1, <2>3, <2>4, <2>5
<1> QED
  BY <1>2, <1>3, <1>4, <1>5, <1>6, <1>7, <1>8, <1>9, <1>10 DEF EvbNext

\* A value that fits in an int is not changed by being one.
LEMMA WrapKeeps ==
  ASSUME NEW x \in Nat, x < 2^(IntBits - 1)
  PROVE  Wrap(x) = x
<1> DEFINE m == 2^(IntBits - 1)
<1>1. m \in Nat /\ 2^IntBits = 2 * m /\ x < m
  BY PowersAssumption, IntBitsAssumption
<1>2. Wrap(x) = ((x + m) % (2 * m)) - m
  BY <1>1 DEF Wrap
<1> HIDE DEF m
<1> QED
  BY <1>1, <1>2

\* Being an int leaves a value in the range of one.
LEMMA WrapRange ==
  ASSUME NEW x \in Int
  PROVE  Wrap(x) \in Int /\ Wrap(x) < 2^(IntBits - 1)
<1> DEFINE m == 2^(IntBits - 1)
<1>1. m \in Nat /\ 2^IntBits = 2 * m
  BY PowersAssumption, IntBitsAssumption
<1>2. m > 0
  BY PowersAssumption, IntBitsAssumption
<1>3. Wrap(x) = ((x + m) % (2 * m)) - m
  BY <1>1 DEF Wrap
<1> HIDE DEF m
<1>4. (x + m) % (2 * m) \in 0..(2 * m - 1)
  BY <1>1, <1>2
<1> QED
  BY <1>1, <1>3, <1>4 DEF m

\* For any width of an int, any exponents and any sequence of commands, link
\* failures and losses: the exponent ECP runs with is one a policy has asked
\* for or the default, and ECP waits for the documented 10 * 2^ecprte
\* microseconds exactly when that wait fits in an int, so never for the
\* exponents 28 to 31 that the documentation allows (rtevalue(), common_tlv(),
\* ecp22_create()).
THEOREM EcpWaitsAsAskedFor == EvbSpec => []WrongWaitsWereAskedFor
<1>1. EvbInit => Asked
  BY DEF EvbInit, Asked
<1>2. EvbTypeOK /\ Asked => WrongWaitsWereAskedFor
  <2> SUFFICES ASSUME EvbTypeOK, Asked, NEW e \in Ends, ecp[e] # NoData
               PROVE  /\ ecp[e].rte \in asked \cup {DefaultRte}
                      /\ rtevalue(ecp[e].rte) = 10 * 2^ecp[e].rte
                           <=> Fits(ecp[e].rte)
    BY DEF WrongWaitsWereAskedFor
  <2> DEFINE n == ecp[e].rte
             p == 2^n
             m == 2^(IntBits - 1)
  <2>1. n \in 0..IntBits
    BY IntBitsAssumption DEF EvbTypeOK
  <2>2. p \in Nat /\ m \in Nat
    BY <2>1, PowersAssumption, IntBitsAssumption
  <2>3. rtevalue(n) = Wrap(Wrap(p) * 10)
    BY DEF rtevalue
  <2>4. CASE Fits(n)
    <3>1. 10 * p < m
      BY <2>4 DEF Fits
    <3>2. p < m /\ p * 10 < m /\ p * 10 \in Nat /\ p * 10 = 10 * p
      <4> HIDE DEF p, m
      <4> QED
        BY <2>2, <3>1
    <3>3. Wrap(p) = p
      <4> HIDE DEF p
      <4> QED
        BY <2>2, <3>2, WrapKeeps
    <3>4. Wrap(p * 10) = p * 10
      <4> DEFINE q == p * 10
      <4>1. q \in Nat /\ q < 2^(IntBits - 1)
        BY <3>2
      <4> HIDE DEF q
      <4>2. Wrap(q) = q
        BY <4>1, WrapKeeps
      <4> QED
        BY <4>2 DEF q
    <3> QED
      BY <2>3, <2>4, <3>2, <3>3, <3>4 DEF Asked
  <2>5. CASE ~Fits(n)
    <3>1. ~(10 * p < m)
      BY <2>5 DEF Fits
    <3>5. Wrap(p) \in Int /\ Wrap(p) * 10 \in Int
      <4> HIDE DEF p
      <4> QED
        BY <2>2, WrapRange
    <3>2. rtevalue(n) < m
      BY <2>3, <3>5, WrapRange
    <3>3. rtevalue(n) # 10 * p
      <4> HIDE DEF p, m
      <4> QED
        BY <3>1, <3>2
    <3> QED
      BY <2>5, <3>3 DEF Asked
  <2> QED
    BY <2>4, <2>5
<1> QED
  BY <1>1, <1>2, EvbStepAsked, EvbTypeCorrect, PTL DEF EvbSpec
=============================================================================
