------------------------------- MODULE LldpRx -------------------------------
(***************************************************************************)
(* The receive side of an LLDP agent (lldp/rx.c): rxReceiveFrame, the      *)
(* receive state machine run_rx_sm and the ageing of what was received.    *)
(*                                                                         *)
(* A received frame is abstracted to the fields that decide what happens:  *)
(* its chassis id, port id and TTL, how many of its TLV groups pass the    *)
(* validation of rxProcessFrame (`good': 0 none, 1 the chassis id, 2 also  *)
(* the port id, 3 also the TTL, 4 the whole LLDPDU up to the End TLV) and  *)
(* whether it carries 802.1Qaz TLVs.  The TLVs in front of the one that    *)
(* fails are acted upon before the validation fails, as in the code.       *)
(***************************************************************************)
EXTENDS LldpPort

CONSTANTS
    Frames,  \* the frames that the peers may send to an agent
    MaxTTL   \* bound on the TTL of a frame

ASSUME RxAssumption ==
    /\ MaxTTL \in Nat
    /\ \A f \in Frames : /\ f.ttl \in 0..MaxTTL
                         /\ f.good \in 0..4
                         /\ f.qaz \in BOOLEAN
                         /\ f.chassis # NULL
                         /\ f.portid # NULL
    /\ NULL \notin Frames

VARIABLES
    rxState,             \* agent->rx.state
    framein,             \* agent->rx.framein, NULL or the last frame
    rcvFrame,            \* agent->rx.rcvFrame
    rxInfoAge,           \* agent->rx.rxInfoAge
    rxChanges,           \* agent->rxChanges
    tooManyNghbrs,       \* agent->rx.tooManyNghbrs
    tooManyNghbrsTimer,  \* agent->timers.tooManyNghbrsTimer
    rxTTL,               \* agent->timers.rxTTL
    lastrxTTL,           \* agent->timers.lastrxTTL
    mib                  \* neighbours whose LLDPDUs the modules hold data of

rxTimerVars == <<tooManyNghbrsTimer, rxTTL, lastrxTTL>>
rxVars == <<rxState, framein, rcvFrame, rxInfoAge, rxChanges, tooManyNghbrs,
            rxTimerVars, mib>>

RxStates == {"LLDP_WAIT_PORT_OPERATIONAL", "DELETE_AGED_INFO",
             "RX_LLDP_INITIALIZE", "RX_WAIT_FOR_FRAME", "RX_FRAME",
             "DELETE_INFO", "UPDATE_INFO"}

\* The MSAP identifier of the sender of a frame.
Sender(f) == <<f.chassis, f.portid>>
Neighbours == {Sender(f) : f \in Frames}

RxTypeOK ==
    /\ rxState \in [Agents -> RxStates]
    /\ framein \in [Agents -> Frames \cup {NULL}]
    /\ rcvFrame \in [Agents -> BOOLEAN]
    /\ rxInfoAge \in [Agents -> BOOLEAN]
    /\ rxChanges \in [Agents -> BOOLEAN]
    /\ tooManyNghbrs \in [Agents -> BOOLEAN]
    /\ tooManyNghbrsTimer \in [Agents -> 0..MaxTTL]
    /\ rxTTL \in [Agents -> 0..MaxTTL]
    /\ lastrxTTL \in [Agents -> 0..MaxTTL]
    /\ mib \in [Agents -> SUBSET Neighbours]
    /\ msap1 \in [Agents -> {f.chassis : f \in Frames} \cup {NULL}]
    /\ msap2 \in [Agents -> {f.portid : f \in Frames} \cup {NULL}]

RxInit ==
    /\ rxState = [a \in Agents |-> "LLDP_WAIT_PORT_OPERATIONAL"]
    /\ framein = [a \in Agents |-> NULL]
    /\ rcvFrame = [a \in Agents |-> FALSE]
    /\ rxInfoAge = [a \in Agents |-> FALSE]
    /\ rxChanges = [a \in Agents |-> FALSE]
    /\ tooManyNghbrs = [a \in Agents |-> FALSE]
    /\ tooManyNghbrsTimer = [a \in Agents |-> 0]
    /\ rxTTL = [a \in Agents |-> 0]
    /\ lastrxTTL = [a \in Agents |-> 0]
    /\ mib = [a \in Agents |-> {}]

-----------------------------------------------------------------------------
(* run_rx_sm                                                               *)

\* The state from which the switch of set_rx_state() starts.
RxBase(a) == IF ~rxInfoAge[a] /\ ~portEnabled
             THEN "LLDP_WAIT_PORT_OPERATIONAL"
             ELSE rxState[a]

\* The state that the switch of set_rx_state() selects.  set_rx_state()
\* returns true exactly when it selects another state than RxBase.
RxGoes(a) ==
    CASE RxBase(a) = "LLDP_WAIT_PORT_OPERATIONAL" ->
            IF rxInfoAge[a] THEN "DELETE_AGED_INFO"
            ELSE IF portEnabled THEN "RX_LLDP_INITIALIZE"
            ELSE "LLDP_WAIT_PORT_OPERATIONAL"
      [] RxBase(a) = "DELETE_AGED_INFO" -> "LLDP_WAIT_PORT_OPERATIONAL"
      [] RxBase(a) = "RX_LLDP_INITIALIZE" ->
            IF RxAdmin(a) THEN "RX_WAIT_FOR_FRAME" ELSE "RX_LLDP_INITIALIZE"
      [] RxBase(a) = "RX_WAIT_FOR_FRAME" ->
            IF ~RxAdmin(a) THEN "RX_LLDP_INITIALIZE"
            ELSE IF rxInfoAge[a] THEN "DELETE_INFO"
            ELSE IF rcvFrame[a] THEN "RX_FRAME"
            ELSE "RX_WAIT_FOR_FRAME"
      [] RxBase(a) \in {"DELETE_INFO", "UPDATE_INFO"} -> "RX_WAIT_FOR_FRAME"
      [] RxBase(a) = "RX_FRAME" ->
            IF rxTTL[a] = 0 THEN "DELETE_INFO"
            ELSE IF rxChanges[a] THEN "UPDATE_INFO"
            ELSE "RX_WAIT_FOR_FRAME"

\* set_rx_state() selects state s and the loop in run_rx_sm() processes it.
RxEnters(a, s) ==
    /\ Calling("run_rx_sm", a)
    /\ ~Entered \/ RxGoes(a) # RxBase(a)
    /\ RxGoes(a) = s
    /\ rxState' = [rxState EXCEPT ![a] = s]
    /\ UNCHANGED portVars

RxPass(a, s) ==
    /\ RxEnters(a, s)
    /\ Continue
    /\ UNCHANGED <<running, adminStatus, newNeighbor, rxChanges, rxTimerVars>>

mibDeleteObjects_KeepsMsap(a) ==
    /\ mib' = [mib EXCEPT ![a] = {}]
    /\ UNCHANGED <<msap1, msap2>>
    /\ ModulesMayChangeLocal(a)

\* mibDeleteObjects(): the modules drop what they hold (802.1Qaz then asks
\* for a transmission) and the agent forgets the neighbour.
mibDeleteObjects(a) ==
    /\ mib' = [mib EXCEPT ![a] = {}]
    /\ msap1' = [msap1 EXCEPT ![a] = NULL]
    /\ msap2' = [msap2 EXCEPT ![a] = NULL]
    /\ ModulesMayChangeLocal(a)

RxWaitPortOperational(a) ==
    /\ RxPass(a, "LLDP_WAIT_PORT_OPERATIONAL")
    /\ UNCHANGED <<localChange, txFast, unsent, msap1, msap2, framein,
                   rcvFrame, rxInfoAge, tooManyNghbrs, mib>>

process_delete_aged_info(a) ==
    /\ RxPass(a, "DELETE_AGED_INFO")
    /\ mibDeleteObjects(a)
    /\ rxInfoAge' = [rxInfoAge EXCEPT ![a] = FALSE]
    /\ UNCHANGED <<framein, rcvFrame, tooManyNghbrs>>

process_rx_lldp_initialize(a) ==
    /\ RxPass(a, "RX_LLDP_INITIALIZE")
    /\ rcvFrame' = [rcvFrame EXCEPT ![a] = FALSE]
    /\ tooManyNghbrs' = [tooManyNghbrs EXCEPT ![a] = FALSE]
    /\ rxInfoAge' = [rxInfoAge EXCEPT ![a] = FALSE]
    /\ framein' = [framein EXCEPT ![a] = NULL]
    /\ mibDeleteObjects(a)

process_wait_for_frame(a) ==
    /\ RxPass(a, "RX_WAIT_FOR_FRAME")
    /\ rxInfoAge' = [rxInfoAge EXCEPT ![a] = FALSE]
    /\ UNCHANGED <<localChange, txFast, unsent, msap1, msap2, framein,
                   rcvFrame, tooManyNghbrs, mib>>

process_delete_info(a) ==
    /\ RxPass(a, "DELETE_INFO")
    /\ mibDeleteObjects(a)
    /\ framein' = [framein EXCEPT ![a] = NULL]
    /\ UNCHANGED <<rcvFrame, rxInfoAge, tooManyNghbrs>>

process_update_info(a) ==
    /\ RxPass(a, "UPDATE_INFO")
    /\ UNCHANGED <<localChange, txFast, unsent, msap1, msap2, framein,
                   rcvFrame, rxInfoAge, tooManyNghbrs, mib>>

-----------------------------------------------------------------------------
(* rxProcessFrame                                                          *)

HasChassis(f) == f.good >= 1
HasPortId(f)  == f.good >= 2
HasTTL(f)     == f.good >= 3
Complete(f)   == f.good = 4

\* msap_compare_1 and msap_compare_2: both identifiers were known before
\* this frame and are those of its sender.
GoodNeighbour(a, f) == msap1[a] = f.chassis /\ msap2[a] = f.portid

\* The frame is found to be from a neighbour other than the stored one.
OtherNeighbour(a, f) ==
    HasPortId(f) /\ msap2[a] # NULL /\ ~GoodNeighbour(a, f)

\* Chassis id and port id TLVs.
StoreMsap(a, f) ==
    /\ msap1' = [msap1 EXCEPT ![a] =
                   IF HasChassis(f) /\ @ = NULL THEN f.chassis ELSE @]
    /\ msap2' = [msap2 EXCEPT ![a] =
                   IF HasPortId(f) /\ @ = NULL THEN f.portid ELSE @]
    /\ newNeighbor' = [newNeighbor EXCEPT ![a] =
                   @ \/ (HasPortId(f) /\ ~GoodNeighbour(a, f))]
    /\ tooManyNghbrs' = [tooManyNghbrs EXCEPT ![a] =
                   @ \/ OtherNeighbour(a, f)]

\* TTL TLV: it goes to tooManyNghbrsTimer while tooManyNghbrs holds, unless
\* the frame is from the stored neighbour.
StoreTTL(a, f) ==
    LET tooMany == tooManyNghbrs[a] \/ OtherNeighbour(a, f)
    IN  IF ~HasTTL(f) THEN UNCHANGED rxTimerVars
        ELSE IF tooMany /\ ~GoodNeighbour(a, f)
        THEN /\ tooManyNghbrsTimer' = [tooManyNghbrsTimer EXCEPT ![a] =
                                         IF f.ttl > @ THEN f.ttl ELSE @]
             /\ UNCHANGED <<rxTTL, lastrxTTL>>
        ELSE /\ rxTTL' = [rxTTL EXCEPT ![a] = f.ttl]
             /\ lastrxTTL' = [lastrxTTL EXCEPT ![a] = f.ttl]
             /\ UNCHANGED tooManyNghbrsTimer

\* The optional TLVs go to the modules (lldp_mod_rchange), one by one, from
\* whatever neighbour they come.
StoreOptional(a, f) ==
    /\ mib' \in {[mib EXCEPT ![a] = @ \cup new] :
                   new \in CASE Complete(f) -> {{Sender(f)}}
                             [] f.good = 3  -> {{}, {Sender(f)}}
                             [] OTHER       -> {{}}}
    /\ rxChanges' \in {[rxChanges EXCEPT ![a] = c] :
                         c \in IF Complete(f) THEN BOOLEAN ELSE {FALSE}}

\* What rxProcessFrame() does to the state of the agent, the TLVs in order.
rxProcessFrame(a, f) ==
    /\ StoreMsap(a, f)
    /\ StoreTTL(a, f)
    /\ StoreOptional(a, f)

\* The modules may call set_lldp_agent_admin() from rxProcessFrame(): at the
\* End TLV 802.1Qaz turns an agent that only receives by default into one
\* that also transmits.  The state machines then run inside run_rx_sm().
QazEnablesTx(a, f) ==
    /\ Complete(f)
    /\ f.qaz
    /\ adminStatus[a] = "enabledRxOnly"
    /\ set_lldp_agent_admin(a, "enabledRxTx",
            <<[Head(work) EXCEPT !.entered = TRUE]>> \o Tail(work))

process_rx_frame(a) ==
    /\ RxEnters(a, "RX_FRAME")
    /\ framein[a] # NULL
    /\ rcvFrame' = [rcvFrame EXCEPT ![a] = FALSE]
    /\ rxProcessFrame(a, framein[a])
    /\ \/ QazEnablesTx(a, framein[a])
       \/ /\ IF HasTTL(framein[a]) THEN ModulesMayChangeLocal(a)
             ELSE UNCHANGED <<localChange, txFast, unsent>>
          /\ Continue
          /\ UNCHANGED adminStatus
    /\ UNCHANGED <<running, framein, rxInfoAge>>

\* assert(agent->rx.framein && agent->rx.sizein) fails: abort().
process_rx_frame_aborts(a) ==
    /\ RxEnters(a, "RX_FRAME")
    /\ framein[a] = NULL
    /\ running' = "aborted"
    /\ UNCHANGED <<agentVars, work, framein, rcvFrame, rxInfoAge, rxChanges,
                   tooManyNghbrs, rxTimerVars, mib>>

\* run_rx_sm() returns: set_rx_state() selected no new state.
run_rx_sm_returns(a) ==
    /\ Calling("run_rx_sm", a)
    /\ Entered
    /\ RxGoes(a) = RxBase(a)
    /\ rxState' = [rxState EXCEPT ![a] = RxBase(a)]
    /\ Return
    /\ UNCHANGED <<running, portVars, agentVars, framein, rcvFrame, rxInfoAge,
                   rxChanges, tooManyNghbrs, rxTimerVars, mib>>

run_rx_sm(a) ==
    \/ RxWaitPortOperational(a)
    \/ process_delete_aged_info(a)
    \/ process_rx_lldp_initialize(a)
    \/ process_wait_for_frame(a)
    \/ process_rx_frame(a)
    \/ process_rx_frame_aborts(a)
    \/ process_delete_info(a)
    \/ process_update_info(a)
    \/ run_rx_sm_returns(a)

-----------------------------------------------------------------------------
\* The stored information reaches the end of its time to live.
Expires_Late(a) == rxTTL[a] = 0
Expires_OnlyWithTooMany(a) == rxTTL[a] = 1 /\ tooManyNghbrsTimer[a] # 0
Expires(a) == rxTTL[a] = 1

\* update_rx_timers(): the expiry of rxTTL also ends tooManyNghbrs, if its
\* timer is running.
update_rx_timers(a) ==
    LET cleared == Expires(a) /\ tooManyNghbrsTimer[a] # 0
        runsOut == ~Expires(a) /\ tooManyNghbrsTimer[a] = 1
    IN  /\ Calling("update_rx_timers", a)
        /\ Return
        /\ rxTTL' = [rxTTL EXCEPT ![a] = IF @ > 0 THEN @ - 1 ELSE 0]
        /\ rxInfoAge' = [rxInfoAge EXCEPT ![a] = @ \/ Expires(a)]
        /\ tooManyNghbrsTimer' = [tooManyNghbrsTimer EXCEPT ![a] =
                IF cleared \/ @ = 0 THEN 0 ELSE @ - 1]
        /\ tooManyNghbrs' = [tooManyNghbrs EXCEPT ![a] =
                @ /\ ~cleared /\ ~runsOut]
        /\ UNCHANGED <<running, portVars, agentVars, rxState, framein,
                       rcvFrame, rxChanges, lastrxTTL, mib>>

\* rxReceiveFrame(): a copy of the last frame only restarts the clock, also
\* when that frame was not from the stored neighbour; another frame replaces
\* the last one and starts the receive state machine.
rxReceiveFrame(a, f) ==
    /\ Dispatch
    /\ present
    /\ \/ /\ framein[a] = f
          /\ rxTTL' = [rxTTL EXCEPT ![a] = lastrxTTL[a]]
          /\ UNCHANGED <<framein, rcvFrame, work>>
       \/ /\ framein[a] # f
          /\ RxAdmin(a)
          /\ framein' = [framein EXCEPT ![a] = f]
          /\ rcvFrame' = [rcvFrame EXCEPT ![a] = TRUE]
          /\ work' = <<Job("run_rx_sm", a)>>
          /\ UNCHANGED rxTTL
    /\ UNCHANGED <<running, portVars, agentVars, rxState, rxInfoAge, rxChanges,
                   tooManyNghbrs, tooManyNghbrsTimer, lastrxTTL, mib>>

\* The receive part of reinit_port(): rxInitializeLLDP() for every agent.
\* The timers, rxTTL among them, keep running.
RxReinit ==
    /\ rxState' = [a \in Agents |-> "LLDP_WAIT_PORT_OPERATIONAL"]
    /\ framein' = [a \in Agents |-> NULL]
    /\ rcvFrame' = [a \in Agents |-> FALSE]
    /\ rxInfoAge' = [a \in Agents |-> FALSE]
    /\ tooManyNghbrs' = [a \in Agents |-> FALSE]
    /\ mib' = [a \in Agents |-> {}]
=============================================================================
