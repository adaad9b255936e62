-------------------------- MODULE LldpAgentProofs ---------------------------
(***************************************************************************)
(* Proofs about the LLDP agents of a port, for any number of agents, any   *)
(* set of frames and any values of the timing constants.                   *)
(***************************************************************************)
EXTENDS LldpAgent, SequenceTheorems, TLAPS

-----------------------------------------------------------------------------
\* The timing constants are positive integers.
LEMMA ConstantsType ==
    /\ TX_FAST_INIT \in Nat /\ TX_FAST_INIT > 0
    /\ TX_CREDIT_MAX \in Nat /\ TX_CREDIT_MAX > 0
    /\ DEFAULT_TX_INTERVAL \in Nat
    /\ FAST_TX_INTERVAL \in Nat
    /\ REINIT_DELAY \in Nat
    /\ MaxTTL \in Nat
<1>1. TX_FAST_INIT \in Nat \ {0}
    BY PortAssumption
<1>2. /\ TX_CREDIT_MAX \in Nat \ {0}
      /\ DEFAULT_TX_INTERVAL \in Nat \ {0}
      /\ FAST_TX_INTERVAL \in Nat \ {0}
      /\ REINIT_DELAY \in Nat \ {0}
    BY TxAssumption
<1>3. MaxTTL \in Nat
    BY RxAssumption
<1> QED
    BY <1>1, <1>2, <1>3

-----------------------------------------------------------------------------
(* The call stack                                                          *)

\* A job of the list of operations is a job.
LEMMA JobIsJob ==
    ASSUME NEW op \in Ops, NEW a \in Agents \cup {NULL}
    PROVE  Job(op, a) \in Jobs
BY DEF Job, Jobs

\* LIST_FOREACH over the agents makes a sequence of calls.
LEMMA ForEachAgentType ==
    ASSUME NEW op \in Ops
    PROVE  ForEachAgent(op) \in Seq(Jobs)
<1>1. AgentList \in Seq(Agents)
    BY PortAssumption
<1>2. DOMAIN AgentList = 1..Len(AgentList) /\ Len(AgentList) \in Nat
    BY <1>1
<1>3. \A i \in 1..Len(AgentList) : Job(op, AgentList[i]) \in Jobs
    BY <1>1, <1>2, JobIsJob
<1> QED
    BY <1>2, <1>3 DEF ForEachAgent

\* The calls that bring a port up are a sequence of calls.
LEMMA BringUpType == BringUp \in Seq(Jobs)
<1>1. ForEachAgent("lldp_mod_ifup") \in Seq(Jobs)
    BY ForEachAgentType DEF Ops
<1>2. <<Job("set_lldp_port_enable", NULL)>> \in Seq(Jobs)
    BY JobIsJob DEF Ops
<1> QED
    BY <1>1, <1>2 DEF BringUp

\* Going through a loop once more, returning and calling keep `work' a
\* sequence of calls.
LEMMA StackType ==
    ASSUME work \in Seq(Jobs), work # <<>>
    PROVE  /\ Head(work) \in Jobs
           /\ Tail(work) \in Seq(Jobs)
           /\ <<[Head(work) EXCEPT !.entered = TRUE]>> \o Tail(work) \in Seq(Jobs)
           /\ \A s \in Seq(Jobs) : s \o Tail(work) \in Seq(Jobs)
<1>1. Head(work) \in Jobs /\ Tail(work) \in Seq(Jobs)
    OBVIOUS
<1>2. [Head(work) EXCEPT !.entered = TRUE] \in Jobs
    BY <1>1 DEF Jobs
<1> QED
    BY <1>1, <1>2

\* What a step of a state machine does to the stack.
LEMMA WorkType ==
    ASSUME work \in Seq(Jobs), work # <<>>
    PROVE  /\ Continue => work' \in Seq(Jobs)
           /\ Return => work' \in Seq(Jobs)
           /\ \A s \in Seq(Jobs) : Call(s) => work' \in Seq(Jobs)
BY StackType DEF Continue, Return, Call

\* The calls of set_lldp_agent_admin() in front of a stack are a stack.
LEMMA AdminCallsType ==
    ASSUME NEW a \in Agents, NEW rest \in Seq(Jobs)
    PROVE  <<Job("run_tx_sm", a), Job("run_rx_sm", a)>> \o rest \in Seq(Jobs)
<1>1. Job("run_tx_sm", a) \in Jobs /\ Job("run_rx_sm", a) \in Jobs
    BY JobIsJob DEF Ops
<1> QED
    BY <1>1

-----------------------------------------------------------------------------
(* Type correctness                                                        *)

\* The daemon starts with well-typed variables.
LEMMA InitType == Init => TypeOK
<1> SUFFICES ASSUME Init PROVE TypeOK
    OBVIOUS
<1>1. PortTypeOK
    <2>1. txFast \in [Agents -> 0..TX_FAST_INIT]
        BY ConstantsType DEF Init, PortInit
    <2>2. work \in Seq(Jobs)
        BY DEF Init, PortInit
    <2> QED
        BY <2>1, <2>2 DEF Init, PortInit, PortTypeOK, AdminStatus
<1>2. TxTypeOK
    BY ConstantsType DEF Init, TxInit, TxTypeOK, TxStates, TimerStates
<1>3. RxTypeOK
    BY RxAssumption DEF Init, PortInit, RxInit, RxTypeOK, RxStates
<1> QED
    BY <1>1, <1>2, <1>3 DEF TypeOK

\* somethingChangedLocal() keeps the types of what it writes.
LEMMA ChangeLocalType ==
    ASSUME TypeOK, NEW a \in Agents,
           somethingChangedLocal(a) \/ ModulesMayChangeLocal(a)
    PROVE  /\ localChange' \in [Agents -> BOOLEAN]
           /\ txFast' \in [Agents -> 0..TX_FAST_INIT]
           /\ unsent' \in [Agents -> BOOLEAN]
<1>1. /\ localChange \in [Agents -> BOOLEAN]
      /\ txFast \in [Agents -> 0..TX_FAST_INIT]
      /\ unsent \in [Agents -> BOOLEAN]
    BY DEF TypeOK, PortTypeOK
<1>2. somethingChangedLocal(a) \/ UNCHANGED <<localChange, txFast, unsent>>
    BY DEF ModulesMayChangeLocal
<1>3. txFast' \in [Agents -> 0..TX_FAST_INIT]
    BY <1>1, <1>2, ConstantsType DEF somethingChangedLocal
<1>4. localChange' \in [Agents -> BOOLEAN] /\ unsent' \in [Agents -> BOOLEAN]
    BY <1>1, <1>2 DEF somethingChangedLocal
<1> QED
    BY <1>3, <1>4

\* A step of the transmit state machine keeps the types.
LEMMA TxStepType ==
    ASSUME TypeOK, NEW a \in Agents, run_tx_sm(a), UNCHANGED rxVars
    PROVE  TypeOK'
<1> USE DEF TypeOK
<1>0. work # <<>>
    BY DEF run_tx_sm, TxPass, Calling, txInitializeLLDP, process_tx_idle,
           process_tx_shutdown_frame, process_tx_info_frame, run_tx_sm_returns
<1>1. work' \in Seq(Jobs)
    BY <1>0, WorkType
    DEF PortTypeOK, run_tx_sm, TxPass, txInitializeLLDP, process_tx_idle,
        process_tx_shutdown_frame, process_tx_info_frame, run_tx_sm_returns
<1>2. CASE txInitializeLLDP(a)
    BY <1>1, <1>2
    DEF txInitializeLLDP, TxPass, PortTypeOK, TxTypeOK, RxTypeOK, rxVars,
        rxTimerVars, txTimerVars, TxStates
<1>3. CASE process_tx_idle(a)
    BY <1>1, <1>3
    DEF process_tx_idle, TxPass, PortTypeOK, TxTypeOK, RxTypeOK, rxVars,
        rxTimerVars, txTimerVars, TxStates
<1>4. CASE process_tx_shutdown_frame(a)
    BY <1>1, <1>4
    DEF process_tx_shutdown_frame, ShutdownFrame, TxPass, PortTypeOK, TxTypeOK,
        RxTypeOK, rxVars, rxTimerVars, txTimerVars, TxStates
<1>5. CASE process_tx_info_frame(a)
    <2>1. /\ txCredit' \in [Agents -> 0..TX_CREDIT_MAX]
          /\ burst' \in [Agents -> Nat]
        BY <1>5, ConstantsType DEF process_tx_info_frame, CreditSpent, TxTypeOK
    <2>2. wire' \in [Agents -> {"none", "info", "shutdown"}]
        BY <1>5 DEF process_tx_info_frame, TxTypeOK
    <2>3. txNow' \in [Agents -> BOOLEAN] /\ unsent' \in [Agents -> BOOLEAN]
        BY <1>5 DEF process_tx_info_frame, PortTypeOK, TxTypeOK
    <2>4. txState' \in [Agents -> TxStates]
        BY <1>5 DEF process_tx_info_frame, TxPass, TxTypeOK, TxStates
    <2> QED
        BY <1>1, <1>5, <2>1, <2>2, <2>3, <2>4
        DEF process_tx_info_frame, TxPass, PortTypeOK, TxTypeOK, RxTypeOK,
            rxVars, rxTimerVars, txTimerVars
<1>6. CASE run_tx_sm_returns(a)
    BY <1>1, <1>6
    DEF run_tx_sm_returns, TxBase, PortTypeOK, TxTypeOK, RxTypeOK, rxVars,
        rxTimerVars, txTimerVars, agentVars, TxStates
<1> QED
    BY <1>2, <1>3, <1>4, <1>5, <1>6 DEF run_tx_sm

\* A step of the transmit timer state machine keeps the types.
LEMMA TimerStepType ==
    ASSUME TypeOK, NEW a \in Agents, run_tx_timers_sm(a), UNCHANGED rxVars
    PROVE  TypeOK'
<1> USE DEF TypeOK
<1>0. work # <<>>
    BY DEF run_tx_timers_sm, TimerPass, Calling, txInitializeTimers, TimerIdle,
           TimerExpires, TxTick, SignalTx, TxFastStart, run_tx_timers_sm_returns
<1>1. work' \in Seq(Jobs)
    BY <1>0, WorkType
    DEF PortTypeOK, run_tx_timers_sm, TimerPass, txInitializeTimers, TimerIdle,
        TimerExpires, TxTick, SignalTx, TxFastStart, run_tx_timers_sm_returns
<1> USE DEF PortTypeOK, TxTypeOK, RxTypeOK, rxVars, rxTimerVars, portVars,
            TimerStates
<1>2. CASE txInitializeTimers(a)
    BY <1>1, <1>2, ConstantsType, SMTT(30)
    DEF txInitializeTimers, TimerPass
<1>3. CASE TimerIdle(a)
    BY <1>1, <1>3 DEF TimerIdle, TimerPass
<1>4. CASE TimerExpires(a)
    <2>1. txFast' \in [Agents -> 0..TX_FAST_INIT]
        BY <1>4, ConstantsType DEF TimerExpires
    <2> QED
        BY <1>1, <1>4, <2>1 DEF TimerExpires, TimerPass
<1>5. CASE TxTick(a)
    <2>1. txCredit' \in [Agents -> 0..TX_CREDIT_MAX]
        BY <1>5, ConstantsType DEF TxTick, CreditRefilled
    <2> QED
        BY <1>1, <1>5, <2>1 DEF TxTick, TimerPass
<1>6. CASE SignalTx(a)
    BY <1>1, <1>6, ConstantsType DEF SignalTx, NextTTR, TimerPass
<1>7. CASE TxFastStart(a)
    <2>1. txFast' \in [Agents -> 0..TX_FAST_INIT]
        BY <1>7, ConstantsType DEF TxFastStart
    <2> QED
        BY <1>1, <1>7, <2>1 DEF TxFastStart, TimerPass
<1>8. CASE run_tx_timers_sm_returns(a)
    BY <1>1, <1>8 DEF run_tx_timers_sm_returns, TimerBase, agentVars
<1> QED
    BY <1>2, <1>3, <1>4, <1>5, <1>6, <1>7, <1>8 DEF run_tx_timers_sm

\* The frames have TTLs within the bound and identifiers of their own.
LEMMA FrameType ==
    ASSUME NEW f \in Frames
    PROVE  /\ f.ttl \in 0..MaxTTL
           /\ f.chassis \in {g.chassis : g \in Frames}
           /\ f.portid \in {g.portid : g \in Frames}
           /\ {Sender(f)} \in SUBSET Neighbours
BY RxAssumption DEF Neighbours

\* What mibDeleteObjects() writes keeps its types.
LEMMA MibDeleteType ==
    ASSUME TypeOK, NEW a \in Agents, mibDeleteObjects(a)
    PROVE  /\ localChange' \in [Agents -> BOOLEAN]
           /\ txFast' \in [Agents -> 0..TX_FAST_INIT]
           /\ unsent' \in [Agents -> BOOLEAN]
           /\ mib' \in [Agents -> SUBSET Neighbours]
           /\ msap1' \in [Agents -> {f.chassis : f \in Frames} \cup {NULL}]
           /\ msap2' \in [Agents -> {f.portid : f \in Frames} \cup {NULL}]
<1>1. ModulesMayChangeLocal(a)
    BY DEF mibDeleteObjects
<1>2. /\ localChange' \in [Agents -> BOOLEAN]
      /\ txFast' \in [Agents -> 0..TX_FAST_INIT]
      /\ unsent' \in [Agents -> BOOLEAN]
    BY <1>1, ChangeLocalType
<1>3. /\ mib' \in [Agents -> SUBSET Neighbours]
      /\ msap1' \in [Agents -> {f.chassis : f \in Frames} \cup {NULL}]
      /\ msap2' \in [Agents -> {f.portid : f \in Frames} \cup {NULL}]
    BY DEF mibDeleteObjects, TypeOK, RxTypeOK
<1> QED
    BY <1>2, <1>3

\* What rxProcessFrame() writes keeps its types.
LEMMA ProcessFrameType ==
    ASSUME TypeOK, NEW a \in Agents, NEW f \in Frames, rxProcessFrame(a, f)
    PROVE  /\ msap1' \in [Agents -> {g.chassis : g \in Frames} \cup {NULL}]
           /\ msap2' \in [Agents -> {g.portid : g \in Frames} \cup {NULL}]
           /\ newNeighbor' \in [Agents -> BOOLEAN]
           /\ tooManyNghbrs' \in [Agents -> BOOLEAN]
           /\ tooManyNghbrsTimer' \in [Agents -> 0..MaxTTL]
           /\ rxTTL' \in [Agents -> 0..MaxTTL]
           /\ lastrxTTL' \in [Agents -> 0..MaxTTL]
           /\ mib' \in [Agents -> SUBSET Neighbours]
           /\ rxChanges' \in [Agents -> BOOLEAN]
<1> USE DEF TypeOK
<1>1. /\ msap1' \in [Agents -> {g.chassis : g \in Frames} \cup {NULL}]
      /\ msap2' \in [Agents -> {g.portid : g \in Frames} \cup {NULL}]
    BY FrameType DEF rxProcessFrame, StoreMsap, RxTypeOK
<1>2. /\ newNeighbor' \in [Agents -> BOOLEAN]
      /\ tooManyNghbrs' \in [Agents -> BOOLEAN]
    BY DEF rxProcessFrame, StoreMsap, RxTypeOK, PortTypeOK, HasPortId,
           GoodNeighbour, OtherNeighbour
<1>3. /\ tooManyNghbrsTimer' \in [Agents -> 0..MaxTTL]
      /\ rxTTL' \in [Agents -> 0..MaxTTL]
      /\ lastrxTTL' \in [Agents -> 0..MaxTTL]
    <2>1. f.ttl \in 0..MaxTTL
        BY FrameType
    <2>2. StoreTTL(a, f)
        BY DEF rxProcessFrame
    <2>3. \/ UNCHANGED rxTimerVars
          \/ /\ tooManyNghbrsTimer' = [tooManyNghbrsTimer EXCEPT ![a] =
                                         IF f.ttl > @ THEN f.ttl ELSE @]
             /\ UNCHANGED <<rxTTL, lastrxTTL>>
          \/ /\ rxTTL' = [rxTTL EXCEPT ![a] = f.ttl]
             /\ lastrxTTL' = [lastrxTTL EXCEPT ![a] = f.ttl]
             /\ UNCHANGED tooManyNghbrsTimer
        BY <2>2, Zenon DEF StoreTTL
    <2> QED
        BY <2>1, <2>3 DEF RxTypeOK, rxTimerVars
<1>4. mib' \in [Agents -> SUBSET Neighbours]
    <2>1. \E new \in {{}, {Sender(f)}} : mib' = [mib EXCEPT ![a] = @ \cup new]
        BY DEF rxProcessFrame, StoreOptional
    <2> QED
        BY <2>1, FrameType DEF RxTypeOK
<1>5. rxChanges' \in [Agents -> BOOLEAN]
    <2>1. \E c \in BOOLEAN : rxChanges' = [rxChanges EXCEPT ![a] = c]
        BY DEF rxProcessFrame, StoreOptional
    <2> QED
        BY <2>1 DEF RxTypeOK
<1> QED
    BY <1>1, <1>2, <1>3, <1>4, <1>5

\* A step of the receive state machine keeps the types.
LEMMA RxStepType ==
    ASSUME TypeOK, NEW a \in Agents, run_rx_sm(a), UNCHANGED txVars
    PROVE  TypeOK'
<1> USE DEF TypeOK
<1>0. work # <<>>
    BY DEF run_rx_sm, RxPass, RxEnters, Calling, RxWaitPortOperational,
           process_delete_aged_info, process_rx_lldp_initialize,
           process_wait_for_frame, process_rx_frame, process_rx_frame_aborts,
           process_delete_info, process_update_info, run_rx_sm_returns
<1>1. TxTypeOK'
    BY DEF TxTypeOK, txVars, txTimerVars
<1>2. \A s : RxPass(a, s) => work' \in Seq(Jobs)
    BY <1>0, WorkType DEF RxPass, PortTypeOK
<1>3. rxState' \in [Agents -> RxStates]
    BY DEF run_rx_sm, RxPass, RxEnters, RxBase, RxTypeOK, RxStates,
           RxWaitPortOperational, process_delete_aged_info,
           process_rx_lldp_initialize, process_wait_for_frame,
           process_rx_frame, process_rx_frame_aborts, process_delete_info,
           process_update_info, run_rx_sm_returns
<1> USE DEF PortTypeOK, RxTypeOK, portVars, rxTimerVars
<1>4. CASE RxWaitPortOperational(a)
    BY <1>1, <1>2, <1>3, <1>4 DEF RxWaitPortOperational, RxPass, RxEnters
<1>5. CASE process_delete_aged_info(a)
    BY <1>1, <1>2, <1>3, <1>5, MibDeleteType
    DEF process_delete_aged_info, RxPass, RxEnters
<1>6. CASE process_rx_lldp_initialize(a)
    BY <1>1, <1>2, <1>3, <1>6, MibDeleteType
    DEF process_rx_lldp_initialize, RxPass, RxEnters
<1>7. CASE process_wait_for_frame(a)
    BY <1>1, <1>2, <1>3, <1>7 DEF process_wait_for_frame, RxPass, RxEnters
<1>8. CASE process_rx_frame(a)
    <2>1. framein[a] \in Frames
        BY <1>8 DEF process_rx_frame
    <2>2. rxProcessFrame(a, framein[a])
        BY <1>8 DEF process_rx_frame
    <2>3. /\ rcvFrame' \in [Agents -> BOOLEAN]
          /\ UNCHANGED <<running, portVars, framein, rxInfoAge>>
        BY <1>8 DEF process_rx_frame, RxEnters
    <2>4. /\ work' \in Seq(Jobs)
          /\ adminStatus' \in [Agents -> AdminStatus]
          /\ localChange' \in [Agents -> BOOLEAN]
          /\ txFast' \in [Agents -> 0..TX_FAST_INIT]
          /\ unsent' \in [Agents -> BOOLEAN]
        <3>1. CASE QazEnablesTx(a, framein[a])
            <4>1. work' \in Seq(Jobs)
                BY <1>0, <3>1, StackType, AdminCallsType
                DEF QazEnablesTx, set_lldp_agent_admin
            <4>2. somethingChangedLocal(a)
                BY <3>1 DEF QazEnablesTx, set_lldp_agent_admin
            <4>3. adminStatus' \in [Agents -> AdminStatus]
                BY <3>1 DEF QazEnablesTx, set_lldp_agent_admin, AdminStatus
            <4> QED
                BY <4>1, <4>2, <4>3, ChangeLocalType
        <3>2. CASE ~QazEnablesTx(a, framein[a])
            <4>1. Continue /\ UNCHANGED adminStatus
                BY <1>8, <3>2 DEF process_rx_frame
            <4>2. \/ ModulesMayChangeLocal(a)
                  \/ UNCHANGED <<localChange, txFast, unsent>>
                BY <1>8, <3>2 DEF process_rx_frame
            <4> QED
                BY <1>0, <4>1, <4>2, WorkType, ChangeLocalType
        <3> QED
            BY <3>1, <3>2
    <2>5. PortTypeOK'
        BY <2>1, <2>2, <2>3, <2>4, ProcessFrameType
    <2>6. RxTypeOK'
        BY <1>3, <2>1, <2>2, <2>3, ProcessFrameType
    <2> QED
        BY <1>1, <2>5, <2>6
<1>9. CASE process_rx_frame_aborts(a)
    BY <1>1, <1>3, <1>9 DEF process_rx_frame_aborts, RxEnters, agentVars
<1>10. CASE process_delete_info(a)
    BY <1>1, <1>2, <1>3, <1>10, MibDeleteType
    DEF process_delete_info, RxPass, RxEnters
<1>11. CASE process_update_info(a)
    BY <1>1, <1>2, <1>3, <1>11 DEF process_update_info, RxPass, RxEnters
<1>12. CASE run_rx_sm_returns(a)
    BY <1>0, <1>1, <1>3, <1>12, WorkType DEF run_rx_sm_returns, agentVars
<1> QED
    BY <1>4, <1>5, <1>6, <1>7, <1>8, <1>9, <1>10, <1>11, <1>12 DEF run_rx_sm

\* The other calls of a handler keep the types.
LEMMA CallType ==
    ASSUME TypeOK, NEW a \in Agents,
           \/ timer_agent(a)
           \/ update_rx_timers(a) /\ UNCHANGED txVars
           \/ lldp_mod_timer(a)
           \/ lldp_mod_ifup(a)
           \/ run_agent(a)
    PROVE  TypeOK'
<1> USE DEF TypeOK
<1>0. work # <<>>
    BY DEF timer_agent, update_rx_timers, lldp_mod_timer, lldp_mod_ifup,
           run_agent, Calling
<1>1. CASE timer_agent(a)
    <2>1. \A op \in Ops : Job(op, a) \in Jobs
        BY JobIsJob
    <2>2. <<Job("run_tx_timers_sm", a), Job("run_tx_sm", a),
            Job("run_rx_sm", a), Job("update_rx_timers", a),
            Job("lldp_mod_timer", a)>> \in Seq(Jobs)
        BY <2>1 DEF Ops
    <2>3. work' \in Seq(Jobs)
        BY <1>0, <1>1, <2>2, WorkType DEF timer_agent, PortTypeOK
    <2>4. txTTR' \in [Agents -> Nat] /\ burst' \in [Agents -> Nat]
        BY <1>1 DEF timer_agent, update_tx_timers, TxTypeOK
    <2>5. txTick' \in [Agents -> BOOLEAN]
        BY <1>1 DEF timer_agent, update_tx_timers, TxTypeOK
    <2> QED
        BY <1>1, <2>3, <2>4, <2>5
        DEF timer_agent, PortTypeOK, TxTypeOK, RxTypeOK, portVars, agentVars,
            rxVars, rxTimerVars
<1>2. CASE update_rx_timers(a) /\ UNCHANGED txVars
    <2>1. work' \in Seq(Jobs)
        BY <1>0, <1>2, WorkType DEF update_rx_timers, PortTypeOK
    <2>2. /\ rxTTL' \in [Agents -> 0..MaxTTL]
          /\ tooManyNghbrsTimer' \in [Agents -> 0..MaxTTL]
        BY <1>2, ConstantsType DEF update_rx_timers, RxTypeOK
    <2>3. /\ rxInfoAge' \in [Agents -> BOOLEAN]
          /\ tooManyNghbrs' \in [Agents -> BOOLEAN]
        BY <1>2 DEF update_rx_timers, Expires, RxTypeOK
    <2> QED
        BY <1>2, <2>1, <2>2, <2>3
        DEF update_rx_timers, PortTypeOK, TxTypeOK, RxTypeOK, portVars,
            agentVars, txVars, txTimerVars
<1>3. CASE lldp_mod_timer(a)
    <2>1. work' \in Seq(Jobs)
        BY <1>0, <1>3, WorkType DEF lldp_mod_timer, PortTypeOK
    <2>2. ModulesMayChangeLocal(a)
        BY <1>3 DEF lldp_mod_timer
    <2> QED
        BY <1>3, <2>1, <2>2, ChangeLocalType
        DEF lldp_mod_timer, PortTypeOK, TxTypeOK, RxTypeOK, portVars, txVars,
            txTimerVars, rxVars, rxTimerVars
<1>4. CASE lldp_mod_ifup(a)
    <2>1. CASE Return /\ UNCHANGED <<adminStatus, localChange, txFast, unsent>>
        BY <1>0, <1>4, <2>1, WorkType
        DEF lldp_mod_ifup, PortTypeOK, TxTypeOK, RxTypeOK, portVars, txVars,
            txTimerVars, rxVars, rxTimerVars
    <2>2. ASSUME NEW status \in {"disabled", "enabledRxOnly", "enabledRxTx"},
                 set_lldp_agent_admin(a, status, Tail(work))
          PROVE  TypeOK'
        <3>1. work' \in Seq(Jobs)
            BY <1>0, <2>2, StackType, AdminCallsType
            DEF set_lldp_agent_admin, PortTypeOK
        <3>2. somethingChangedLocal(a)
            BY <2>2 DEF set_lldp_agent_admin
        <3>3. adminStatus' \in [Agents -> AdminStatus]
            BY <2>2 DEF set_lldp_agent_admin, PortTypeOK, AdminStatus
        <3> QED
            BY <1>4, <3>1, <3>2, <3>3, ChangeLocalType
            DEF lldp_mod_ifup, PortTypeOK, TxTypeOK, RxTypeOK, portVars, txVars,
                txTimerVars, rxVars, rxTimerVars
    <2> QED
        BY <1>4, <2>1, <2>2 DEF lldp_mod_ifup
<1>5. CASE run_agent(a)
    <2>1. <<Job("run_tx_sm", a), Job("run_rx_sm", a)>> \in Seq(Jobs)
        BY JobIsJob DEF Ops
    <2>2. work' \in Seq(Jobs)
        BY <1>0, <1>5, <2>1, WorkType DEF run_agent, PortTypeOK
    <2> QED
        BY <1>5, <2>2
        DEF run_agent, PortTypeOK, TxTypeOK, RxTypeOK, portVars, agentVars,
            txVars, txTimerVars, rxVars, rxTimerVars
<1> QED
    BY <1>1, <1>2, <1>3, <1>4, <1>5

\* set_lldp_port_enable() keeps the types.
LEMMA PortEnableType ==
    ASSUME TypeOK, port_enable
    PROVE  TypeOK'
<1>0. work # <<>>
    BY DEF port_enable, Calling
<1>1. ForEachAgent("run_agent") \in Seq(Jobs)
    BY ForEachAgentType DEF Ops
<1>2. work' \in Seq(Jobs)
    BY <1>0, <1>1, WorkType DEF port_enable, TypeOK, PortTypeOK
<1> QED
    BY <1>2
    DEF TypeOK, port_enable, PortTypeOK, TxTypeOK, RxTypeOK, agentVars, txVars,
        txTimerVars, rxVars, rxTimerVars

\* Initialised agents are well typed.
LEMMA ReinitType ==
    ASSUME AgentsReinit
    PROVE  /\ localChange' \in [Agents -> BOOLEAN]
           /\ txFast' \in [Agents -> 0..TX_FAST_INIT]
           /\ newNeighbor' \in [Agents -> BOOLEAN]
           /\ msap1' \in [Agents -> {f.chassis : f \in Frames} \cup {NULL}]
           /\ msap2' \in [Agents -> {f.portid : f \in Frames} \cup {NULL}]
           /\ txState' \in [Agents -> TxStates]
           /\ timerState' \in [Agents -> TimerStates]
           /\ txTTR' \in [Agents -> Nat]
           /\ txCredit' \in [Agents -> 0..TX_CREDIT_MAX]
           /\ txShutdownWhile' \in [Agents -> {0, REINIT_DELAY}]
           /\ txTick' \in [Agents -> BOOLEAN]
           /\ txNow' \in [Agents -> BOOLEAN]
           /\ burst' \in [Agents -> Nat]
           /\ rxState' \in [Agents -> RxStates]
           /\ framein' \in [Agents -> Frames \cup {NULL}]
           /\ rcvFrame' \in [Agents -> BOOLEAN]
           /\ rxInfoAge' \in [Agents -> BOOLEAN]
           /\ tooManyNghbrs' \in [Agents -> BOOLEAN]
           /\ mib' \in [Agents -> SUBSET Neighbours]
<1>1. /\ txFast' \in [Agents -> 0..TX_FAST_INIT]
      /\ txTTR' \in [Agents -> Nat]
      /\ txCredit' \in [Agents -> 0..TX_CREDIT_MAX]
      /\ txShutdownWhile' \in [Agents -> {0, REINIT_DELAY}]
      /\ burst' \in [Agents -> Nat]
    BY ConstantsType DEF AgentsReinit, TxReinit
<1>2. /\ localChange' \in [Agents -> BOOLEAN]
      /\ newNeighbor' \in [Agents -> BOOLEAN]
      /\ txState' \in [Agents -> TxStates]
      /\ timerState' \in [Agents -> TimerStates]
      /\ txTick' \in [Agents -> BOOLEAN]
      /\ txNow' \in [Agents -> BOOLEAN]
    BY DEF AgentsReinit, TxReinit, TxStates, TimerStates
<1>3. /\ msap1' \in [Agents -> {f.chassis : f \in Frames} \cup {NULL}]
      /\ msap2' \in [Agents -> {f.portid : f \in Frames} \cup {NULL}]
      /\ rxState' \in [Agents -> RxStates]
      /\ framein' \in [Agents -> Frames \cup {NULL}]
      /\ rcvFrame' \in [Agents -> BOOLEAN]
      /\ rxInfoAge' \in [Agents -> BOOLEAN]
      /\ tooManyNghbrs' \in [Agents -> BOOLEAN]
      /\ mib' \in [Agents -> SUBSET Neighbours]
    BY DEF AgentsReinit, RxReinit, RxStates
<1> QED
    BY <1>1, <1>2, <1>3

\* A port whose agents are created is well typed.
LEMMA CreateType ==
    ASSUME TypeOK, CreateAgents, work' \in Seq(Jobs), UNCHANGED running,
           wire' \in [Agents -> {"none", "info", "shutdown"}]
    PROVE  TypeOK'
<1>1. AgentsReinit
    BY DEF CreateAgents
<1>2. /\ rxTTL' \in [Agents -> 0..MaxTTL]
      /\ lastrxTTL' \in [Agents -> 0..MaxTTL]
      /\ tooManyNghbrsTimer' \in [Agents -> 0..MaxTTL]
    BY ConstantsType DEF CreateAgents
<1>3. PortTypeOK'
    BY <1>1, ReinitType DEF TypeOK, PortTypeOK, CreateAgents
<1>4. TxTypeOK'
    BY <1>1, ReinitType DEF TypeOK, TxTypeOK
<1>5. RxTypeOK'
    BY <1>1, <1>2, ReinitType DEF TypeOK, RxTypeOK, CreateAgents
<1> QED
    BY <1>3, <1>4, <1>5 DEF TypeOK

\* An event keeps the types.
LEMMA EventType ==
    ASSUME TypeOK, Event
    PROVE  TypeOK'
<1> USE DEF TypeOK
<1>1. CASE timer
    <2>1. work' \in Seq(Jobs)
        BY <1>1, ForEachAgentType DEF timer, Ops
    <2> QED
        BY <1>1, <2>1
        DEF timer, PortTypeOK, TxTypeOK, RxTypeOK, portVars, agentVars, txVars,
            txTimerVars, rxVars, rxTimerVars
<1>2. CASE Receive
    <2> PICK a \in Agents, f \in Frames :
                rxReceiveFrame(a, f) /\ UNCHANGED txVars
        BY <1>2 DEF Receive
    <2>0. Job("run_rx_sm", a) \in Jobs
        BY JobIsJob DEF Ops
    <2>1. work' \in Seq(Jobs)
        <3>1. work' = work \/ work' = <<Job("run_rx_sm", a)>>
            BY DEF rxReceiveFrame
        <3>2. <<Job("run_rx_sm", a)>> \in Seq(Jobs)
            BY <2>0
        <3> QED
            BY <3>1, <3>2 DEF PortTypeOK
    <2>2. rxTTL' \in [Agents -> 0..MaxTTL]
        BY DEF rxReceiveFrame, RxTypeOK
    <2>3. framein' \in [Agents -> Frames \cup {NULL}]
        <3>1. \/ framein' = framein
              \/ framein' = [framein EXCEPT ![a] = f]
            BY DEF rxReceiveFrame
        <3> QED
            BY <3>1 DEF RxTypeOK
    <2>4. rcvFrame' \in [Agents -> BOOLEAN]
        <3>1. \/ rcvFrame' = rcvFrame
              \/ rcvFrame' = [rcvFrame EXCEPT ![a] = TRUE]
            BY DEF rxReceiveFrame
        <3> QED
            BY <3>1 DEF RxTypeOK
    <2> QED
        BY <2>1, <2>2, <2>3, <2>4
        DEF rxReceiveFrame, PortTypeOK, TxTypeOK, RxTypeOK, portVars,
            agentVars, txVars, txTimerVars
<1>3. CASE \E a \in Agents : local_change(a)
    <2> PICK a \in Agents : local_change(a)
        BY <1>3
    <2>1. somethingChangedLocal(a)
        BY DEF local_change
    <2> QED
        BY <2>1, ChangeLocalType
        DEF local_change, PortTypeOK, TxTypeOK, RxTypeOK, portVars, txVars,
            txTimerVars, rxVars, rxTimerVars
<1>4. CASE \E a \in Agents, status \in AdminStatus :
              set_arg_adminstatus(a, status)
    <2> PICK a \in Agents, status \in AdminStatus :
                set_arg_adminstatus(a, status)
        BY <1>4
    <2>1. somethingChangedLocal(a)
        BY DEF set_arg_adminstatus, set_lldp_agent_admin
    <2>2. work' \in Seq(Jobs)
        <3>1. <<>> \in Seq(Jobs)
            OBVIOUS
        <3>2. work' = <<Job("run_tx_sm", a), Job("run_rx_sm", a)>> \o <<>>
            BY DEF set_arg_adminstatus, set_lldp_agent_admin
        <3> QED
            BY <3>1, <3>2, AdminCallsType
    <2>3. adminStatus' \in [Agents -> AdminStatus]
        BY DEF set_arg_adminstatus, set_lldp_agent_admin, PortTypeOK
    <2> QED
        BY <2>1, <2>2, <2>3, ChangeLocalType
        DEF set_arg_adminstatus, PortTypeOK, TxTypeOK, RxTypeOK, portVars,
            txVars, txTimerVars, rxVars, rxTimerVars
<1>5. CASE oper_add_device
    <2>1. /\ work' \in Seq(Jobs)
          /\ UNCHANGED running
          /\ wire' \in [Agents -> {"none", "info", "shutdown"}]
        BY <1>5, BringUpType DEF oper_add_device, TxTypeOK
    <2>2. CASE CreateAgents
        BY <2>1, <2>2, CreateType
    <2>3. CASE reinit_port
        <3>1. AgentsReinit
            BY <2>3 DEF reinit_port
        <3>2. PortTypeOK'
            BY <2>1, <2>3, <3>1, ReinitType DEF reinit_port, PortTypeOK
        <3>3. TxTypeOK'
            BY <2>1, <3>1, ReinitType DEF TxTypeOK
        <3>4. RxTypeOK'
            BY <2>3, <3>1, ReinitType DEF reinit_port, RxTypeOK, rxTimerVars
        <3> QED
            BY <3>2, <3>3, <3>4
    <2>4. CASE UNCHANGED <<portVars, agentVars, rxVars, txState, txTimerVars,
                           txCredit, txShutdownWhile, txNow, burst>>
        BY <2>1, <2>4
        DEF PortTypeOK, TxTypeOK, RxTypeOK, portVars, agentVars, txTimerVars,
            rxVars, rxTimerVars
    <2> QED
        BY <1>5, <2>2, <2>3, <2>4 DEF oper_add_device
<1>6. CASE port_disable
    <2>1. work' \in Seq(Jobs)
        BY <1>6, ForEachAgentType DEF port_disable, Ops
    <2>2. /\ rxInfoAge' \in [Agents -> BOOLEAN]
          /\ wire' \in [Agents -> {"none", "info", "shutdown"}]
        BY <1>6 DEF port_disable
    <2> QED
        BY <1>6, <2>1, <2>2
        DEF port_disable, PortTypeOK, TxTypeOK, RxTypeOK, agentVars,
            txTimerVars, rxTimerVars
<1>7. CASE remove_port
    <2>1. AgentsReinit
        BY <1>7 DEF remove_port
    <2>2. /\ rxTTL' \in [Agents -> 0..MaxTTL]
          /\ lastrxTTL' \in [Agents -> 0..MaxTTL]
          /\ tooManyNghbrsTimer' \in [Agents -> 0..MaxTTL]
        BY <1>7, ConstantsType DEF remove_port
    <2>3. PortTypeOK'
        BY <1>7, <2>1, ReinitType DEF remove_port, PortTypeOK, AdminStatus
    <2>4. TxTypeOK'
        BY <1>7, <2>1, ReinitType DEF remove_port, TxTypeOK
    <2>5. RxTypeOK'
        BY <1>7, <2>1, <2>2, ReinitType DEF remove_port, RxTypeOK
    <2> QED
        BY <2>3, <2>4, <2>5
<1>8. CASE lldpad_reconfig
    <2>1. work' \in Seq(Jobs)
        BY <1>8, BringUpType DEF lldpad_reconfig
    <2>2. wire' \in [Agents -> {"none", "info", "shutdown"}]
        BY <1>8 DEF lldpad_reconfig, TxTypeOK
    <2> QED
        BY <1>8, <2>1, <2>2, CreateType DEF lldpad_reconfig
<1>9. CASE eloop_terminate
    <2>1. /\ wire' \in [Agents -> {"none", "info", "shutdown"}]
          /\ txShutdownWhile' \in [Agents -> {0, REINIT_DELAY}]
        BY <1>9 DEF eloop_terminate, clean_lldp_agents, ShutdownFrame, TxTypeOK
    <2> QED
        BY <1>9, <2>1
        DEF eloop_terminate, PortTypeOK, TxTypeOK, RxTypeOK, portVars,
            agentVars, txTimerVars, rxVars, rxTimerVars
<1> QED
    BY <1>1, <1>2, <1>3, <1>4, <1>5, <1>6, <1>7, <1>8, <1>9 DEF Event

\* Every step keeps the types.
LEMMA TypeStep == TypeOK /\ [Next]_vars => TypeOK'
<1> SUFFICES ASSUME TypeOK, [Next]_vars PROVE TypeOK'
    OBVIOUS
<1>1. CASE Step
    <2>1. CASE port_enable
        BY <2>1, PortEnableType
    <2>2. ASSUME NEW a \in Agents,
                 \/ run_tx_timers_sm(a) /\ UNCHANGED rxVars
                 \/ run_tx_sm(a) /\ UNCHANGED rxVars
          PROVE  TypeOK'
        BY <2>2, TxStepType, TimerStepType
    <2>3. ASSUME NEW a \in Agents, run_rx_sm(a) /\ UNCHANGED txVars
          PROVE  TypeOK'
        BY <2>3, RxStepType
    <2>4. ASSUME NEW a \in Agents,
                 \/ timer_agent(a)
                 \/ update_rx_timers(a) /\ UNCHANGED txVars
                 \/ lldp_mod_timer(a)
                 \/ lldp_mod_ifup(a)
                 \/ run_agent(a)
          PROVE  TypeOK'
        BY <2>4, CallType
    <2> QED
        BY <1>1, <2>1, <2>2, <2>3, <2>4 DEF Step
<1>2. CASE Event
    BY <1>2, EventType
<1>3. CASE UNCHANGED vars
    BY <1>3
    DEF vars, TypeOK, PortTypeOK, TxTypeOK, RxTypeOK, portVars, agentVars,
        txVars, txTimerVars, rxVars, rxTimerVars
<1> QED
    BY <1>1, <1>2, <1>3 DEF Next

\* Every variable of the port and of its agents stays in its range, for any
\* agents, frames and constants: txCredit within 0..TX_CREDIT_MAX, rxTTL within
\* the TTLs received, and the handler's calls only those of the code.
THEOREM TypeCorrect == Spec => []TypeOK
BY InitType, TypeStep, PTL DEF Spec

-----------------------------------------------------------------------------
(* The rate of transmissions                                               *)

\* A call other than run_tx_timers_sm(), or none, is running.
NotTiming == work # <<>> => Head(work).op # "run_tx_timers_sm"

\* A step that does nothing to the credit and the requests of any agent.
CreditIdle == NotTiming /\ UNCHANGED <<txCredit, burst, txTick, txNow>>

\* A step in which the agents start anew.
CreditReset ==
    /\ txCredit' = [a \in Agents |-> TX_CREDIT_MAX]
    /\ burst' = [a \in Agents |-> 0]
    /\ txTick' = [a \in Agents |-> FALSE]
    /\ txNow' = [a \in Agents |-> FALSE]

\* Initialising the agents resets their credit.
LEMMA ReinitResets == AgentsReinit => CreditReset
BY DEF AgentsReinit, TxReinit, CreditReset

\* The steps of Next, as the credit sees them.
LEMMA CreditCases ==
    ASSUME Next
    PROVE  \/ CreditIdle
           \/ CreditReset
           \/ \E a \in Agents : \/ timer_agent(a)
                                \/ process_tx_info_frame(a)
                                \/ run_tx_timers_sm(a)
<1>1. CASE port_enable
    BY <1>1
    DEF port_enable, Calling, CreditIdle, NotTiming, txVars, txTimerVars
<1>2. ASSUME NEW a \in Agents, run_tx_sm(a), ~process_tx_info_frame(a)
      PROVE  CreditIdle
    BY <1>2
    DEF run_tx_sm, TxPass, Calling, CreditIdle, NotTiming, txTimerVars,
        txInitializeLLDP, process_tx_idle, process_tx_shutdown_frame,
        run_tx_sm_returns
<1>3. ASSUME NEW a \in Agents, run_rx_sm(a), UNCHANGED txVars
      PROVE  CreditIdle
    BY <1>3
    DEF run_rx_sm, RxPass, RxEnters, Calling, CreditIdle, NotTiming, txVars,
        txTimerVars, RxWaitPortOperational, process_delete_aged_info,
        process_rx_lldp_initialize, process_wait_for_frame, process_rx_frame,
        process_rx_frame_aborts, process_delete_info, process_update_info,
        run_rx_sm_returns
<1>4. ASSUME NEW a \in Agents,
             \/ update_rx_timers(a) /\ UNCHANGED txVars
             \/ lldp_mod_timer(a)
             \/ lldp_mod_ifup(a)
             \/ run_agent(a)
      PROVE  CreditIdle
    BY <1>4
    DEF update_rx_timers, lldp_mod_timer, lldp_mod_ifup, run_agent, Calling,
        CreditIdle, NotTiming, txVars, txTimerVars
<1>5. CASE Step
    BY <1>1, <1>2, <1>3, <1>4, <1>5 DEF Step
<1>6. CASE timer \/ Receive \/ port_disable \/ eloop_terminate
    BY <1>6
    DEF timer, Receive, rxReceiveFrame, port_disable, eloop_terminate,
        Dispatch, AtRest, CreditIdle, NotTiming, txVars, txTimerVars
<1>7. ASSUME NEW a \in Agents,
             \/ local_change(a)
             \/ \E status \in AdminStatus : set_arg_adminstatus(a, status)
      PROVE  CreditIdle
    BY <1>7
    DEF local_change, set_arg_adminstatus, Dispatch, AtRest, CreditIdle,
        NotTiming, txVars, txTimerVars
<1>8. CASE oper_add_device
    <2>1. CASE CreateAgents \/ reinit_port
        BY <2>1, ReinitResets DEF CreateAgents, reinit_port
    <2>2. CASE UNCHANGED <<portVars, agentVars, rxVars, txState, txTimerVars,
                           txCredit, txShutdownWhile, txNow, burst>>
        BY <1>8, <2>2
        DEF oper_add_device, Dispatch, AtRest, CreditIdle, NotTiming,
            txTimerVars
    <2> QED
        BY <1>8, <2>1, <2>2 DEF oper_add_device
<1>9. CASE remove_port \/ lldpad_reconfig
    BY <1>9, ReinitResets DEF remove_port, lldpad_reconfig, CreateAgents
<1> QED
    BY <1>5, <1>6, <1>7, <1>8, <1>9 DEF Next, Event

\* No tick is pending outside run_tx_timers_sm().
LEMMA NoTickPending ==
    ASSUME TypeOK, CreditAccounting, NotTiming, NEW a \in Agents
    PROVE  ~txTick[a]
BY DEF CreditAccounting, TickPending, NotTiming

\* Inside run_tx_timers_sm() only the tick of its own agent is pending.
LEMMA OneTickPending ==
    ASSUME TypeOK, CreditAccounting, NEW a \in Agents, NEW b \in Agents,
           Calling("run_tx_timers_sm", a), txTick[b]
    PROVE  b = a
BY DEF CreditAccounting, TickPending, Calling

\* What Continue leaves on the stack.
LEMMA ContinueHead ==
    ASSUME TypeOK, work # <<>>, Continue
    PROVE  /\ work' # <<>>
           /\ Head(work') = [Head(work) EXCEPT !.entered = TRUE]
<1>1. Tail(work) \in Seq(Jobs)
    BY StackType DEF TypeOK, PortTypeOK
<1>2. <<[Head(work) EXCEPT !.entered = TRUE]>> \in
          Seq({[Head(work) EXCEPT !.entered = TRUE]} \cup Jobs)
    OBVIOUS
<1> QED
    BY <1>1, <1>2 DEF Continue

\* The timer state machine keeps the accounts: TX_TICK turns the pending tick
\* into a credit, and the machine does not return before it has.
LEMMA TimerCredit ==
    ASSUME TypeOK, CreditAccounting, NEW a \in Agents, run_tx_timers_sm(a)
    PROVE  CreditAccounting'
<1>0. Calling("run_tx_timers_sm", a) /\ work # <<>>
    BY DEF run_tx_timers_sm, TimerPass, Calling, txInitializeTimers, TimerIdle,
           TimerExpires, TxTick, SignalTx, TxFastStart, run_tx_timers_sm_returns
<1>1. /\ txCredit \in [Agents -> Nat]
      /\ burst \in [Agents -> Nat]
      /\ txTick \in [Agents -> BOOLEAN]
      /\ \A b \in Agents : txCredit[b] <= TX_CREDIT_MAX
      /\ TX_CREDIT_MAX \in Nat
    BY ConstantsType DEF TypeOK, TxTypeOK
<1>2. \A b \in Agents : txTick[b] => b = a
    BY <1>0, OneTickPending
<1>3. Head(work) \in Jobs
    BY <1>0, StackType DEF TypeOK, PortTypeOK
<1>4. CASE txInitializeTimers(a)
    <2>1. \A b \in Agents : txCredit'[b] + burst'[b] <= TX_CREDIT_MAX
        BY <1>1, <1>4 DEF txInitializeTimers, CreditAccounting
    <2>2. \A b \in Agents : ~txTick'[b]
        BY <1>1, <1>2, <1>4 DEF txInitializeTimers
    <2> QED
        BY <2>1, <2>2 DEF CreditAccounting
<1>5. CASE TxTick(a)
    <2>1. \A b \in Agents : ~txTick'[b]
        BY <1>1, <1>2, <1>5 DEF TxTick
    <2>2. txTick[a]
        <3>1. timerState[a] \in TimerStates
            BY DEF TypeOK, TxTypeOK
        <3>2. TimerGoes(a) = "TX_TICK"
            BY <1>5 DEF TxTick, TimerPass
        <3> QED
            BY <3>1, <3>2 DEF TimerGoes, TimerBase, TimerStates
    <2>3. txCredit[a] + burst[a] < TX_CREDIT_MAX \/ burst[a] = 0
        BY <2>2 DEF CreditAccounting, TickPending
    <2>4. /\ txCredit' = [txCredit EXCEPT ![a] = CreditRefilled(@)]
          /\ burst' = burst
        BY <1>5 DEF TxTick
    <2>5. \A b \in Agents : txCredit'[b] + burst'[b] <= TX_CREDIT_MAX
        BY <1>1, <2>3, <2>4 DEF CreditRefilled, CreditAccounting
    <2> QED
        BY <2>1, <2>5 DEF CreditAccounting
<1>6. CASE TimerIdle(a) \/ TimerExpires(a) \/ SignalTx(a) \/ TxFastStart(a)
    <2>1. /\ Continue
          /\ UNCHANGED <<txCredit, burst, txTick, portEnabled, adminStatus>>
        BY <1>6
        DEF TimerIdle, TimerExpires, SignalTx, TxFastStart, TimerPass, portVars
    <2>2. portEnabled /\ TxAdmin(a)
        BY <1>6
        DEF TimerIdle, TimerExpires, SignalTx, TxFastStart, TimerPass,
            TimerGoes, TimerBase
    <2>3. work' # <<>> /\ Head(work') = [Head(work) EXCEPT !.entered = TRUE]
        BY <1>0, <2>1, ContinueHead
    <2>4. /\ Head(work').op = Head(work).op
          /\ Head(work').agent = Head(work).agent
        BY <1>3, <2>3 DEF Jobs
    <2>5. ASSUME NEW b \in Agents, txTick'[b] PROVE TickPending(b)'
        <3>1. txTick[b] /\ b = a /\ TickPending(b)
            BY <1>2, <2>1, <2>5 DEF CreditAccounting
        <3>2. Head(work).op = "run_tx_timers_sm" /\ Head(work).agent = b
            BY <3>1 DEF TickPending
        <3> QED
            BY <2>1, <2>2, <2>3, <2>4, <3>1, <3>2 DEF TickPending, TxAdmin
    <2> QED
        BY <2>1, <2>5 DEF CreditAccounting
<1>7. CASE run_tx_timers_sm_returns(a)
    <2>1. /\ Entered
          /\ TimerGoes(a) = TimerBase(a)
          /\ UNCHANGED <<txCredit, burst, txTick>>
        BY <1>7 DEF run_tx_timers_sm_returns
    <2>2. ~txTick[a]
        <3> SUFFICES ASSUME txTick[a] PROVE FALSE
            OBVIOUS
        <3>1. portEnabled /\ TxAdmin(a)
            BY <2>1 DEF CreditAccounting, TickPending, Entered
        <3>2. timerState[a] \in TimerStates
            BY DEF TypeOK, TxTypeOK
        <3> QED
            BY <2>1, <3>1, <3>2 DEF TimerGoes, TimerBase, TimerStates
    <2>3. \A b \in Agents : ~txTick'[b]
        BY <1>2, <2>1, <2>2
    <2> QED
        BY <2>1, <2>3 DEF CreditAccounting
<1> QED
    BY <1>4, <1>5, <1>6, <1>7 DEF run_tx_timers_sm

\* run_tx_sm() enters TX_INFO_FRAME only on request and with credit left.
LEMMA SendingNeedsCredit ==
    ASSUME TypeOK, NEW a \in Agents, process_tx_info_frame(a)
    PROVE  txNow[a] /\ txCredit[a] > 0
<1>1. TxBase(a) \in TxStates
    BY DEF TypeOK, TxTypeOK, TxBase, TxStates
<1>2. TxGoes(a) = "TX_INFO_FRAME"
    BY DEF process_tx_info_frame, TxPass
<1> QED
    BY <1>1, <1>2 DEF TxGoes, TxMaySend, TxStates

\* No step upsets the accounts.
LEMMA CreditStep == TypeOK /\ CreditAccounting /\ [Next]_vars => CreditAccounting'
<1> SUFFICES ASSUME TypeOK, CreditAccounting, [Next]_vars
             PROVE  CreditAccounting'
    OBVIOUS
<1>1. /\ txCredit \in [Agents -> Nat]
      /\ burst \in [Agents -> Nat]
      /\ txTick \in [Agents -> BOOLEAN]
      /\ TX_CREDIT_MAX \in Nat
      /\ work \in Seq(Jobs)
    BY ConstantsType DEF TypeOK, TxTypeOK, PortTypeOK
<1>2. CASE CreditIdle
    <2>1. \A a \in Agents : ~txTick[a]
        BY <1>2, NoTickPending DEF CreditIdle
    <2> QED
        BY <1>2, <2>1 DEF CreditIdle, CreditAccounting
<1>3. CASE CreditReset
    BY <1>1, <1>3 DEF CreditReset, CreditAccounting
<1>4. ASSUME NEW a \in Agents, timer_agent(a) PROVE CreditAccounting'
    <2>1. NotTiming /\ work # <<>>
        BY <1>4 DEF timer_agent, Calling, NotTiming
    <2>2. \A b \in Agents : ~txTick[b]
        BY <2>1, NoTickPending
    <2>3. /\ burst' = [burst EXCEPT ![a] = IF @ > 0 THEN @ - 1 ELSE 0]
          /\ txTick' = [txTick EXCEPT ![a] = TRUE]
          /\ txCredit' = txCredit
        BY <1>4 DEF timer_agent, update_tx_timers
    <2>4. \A b \in Agents : txCredit'[b] + burst'[b] <= TX_CREDIT_MAX
        BY <1>1, <2>3 DEF CreditAccounting
    <2>5. txCredit'[a] + burst'[a] < TX_CREDIT_MAX \/ burst'[a] = 0
        BY <1>1, <2>3 DEF CreditAccounting
    <2>6. work' # <<>> /\ Head(work') = Job("run_tx_timers_sm", a)
        <3>1. Tail(work) \in Seq(Jobs)
            BY <1>1, <2>1
        <3>2. /\ Job("run_tx_timers_sm", a) \in Jobs
              /\ Job("run_tx_sm", a) \in Jobs
              /\ Job("run_rx_sm", a) \in Jobs
              /\ Job("update_rx_timers", a) \in Jobs
              /\ Job("lldp_mod_timer", a) \in Jobs
            BY JobIsJob DEF Ops
        <3> QED
            BY <1>4, <3>1, <3>2 DEF timer_agent, Call
    <2>7. \A b \in Agents : txTick'[b] => b = a
        BY <1>1, <2>2, <2>3
    <2>8. TickPending(a)'
        BY <2>5, <2>6 DEF TickPending, Job
    <2> QED
        BY <2>4, <2>7, <2>8 DEF CreditAccounting
<1>5. ASSUME NEW a \in Agents, process_tx_info_frame(a)
      PROVE  CreditAccounting'
    <2>1. NotTiming /\ UNCHANGED txTick
        BY <1>5
        DEF process_tx_info_frame, TxPass, Calling, NotTiming, txTimerVars
    <2>2. \A b \in Agents : ~txTick'[b]
        BY <2>1, NoTickPending
    <2>3. txCredit[a] > 0
        BY <1>5, SendingNeedsCredit
    <2>4. /\ txCredit' = [txCredit EXCEPT ![a] = CreditSpent(@)]
          /\ burst' = [burst EXCEPT ![a] = @ + 1]
        BY <1>5 DEF process_tx_info_frame
    <2>5. \A b \in Agents : txCredit'[b] + burst'[b] <= TX_CREDIT_MAX
        BY <1>1, <2>3, <2>4 DEF CreditSpent, CreditAccounting
    <2> QED
        BY <2>2, <2>5 DEF CreditAccounting
<1>6. CASE UNCHANGED vars
    BY <1>6
    DEF vars, portVars, agentVars, txVars, txTimerVars, CreditAccounting,
        TickPending, TxAdmin
<1> QED
    BY <1>2, <1>3, <1>4, <1>5, <1>6, CreditCases, TimerCredit

\* The accounts are in order when the daemon starts.
LEMMA CreditInit == Init => CreditAccounting
BY ConstantsType DEF Init, TxInit, CreditAccounting

\* The credit accounts of every agent are kept in every reachable state.
THEOREM CreditIsAccounted == Spec => []CreditAccounting
<1>1. TypeOK /\ CreditAccounting /\ [Next]_vars => (TypeOK /\ CreditAccounting)'
    BY TypeStep, CreditStep
<1> QED
    BY <1>1, InitType, CreditInit, PTL DEF Spec

-----------------------------------------------------------------------------
(* One LLDPDU per second                                                   *)

\* The calls other than run_tx_timers_sm().
QuietJobs == {j \in Jobs : j.op # "run_tx_timers_sm"}

\* run_tx_timers_sm() is never waiting for another call to return.
StackShape == work # <<>> => Tail(work) \in Seq(QuietJobs)

\* run_tx_timers_sm() of agent a is the call that is running.
Timing(a) ==
    /\ work # <<>>
    /\ Head(work).op = "run_tx_timers_sm"
    /\ Head(work).agent = a

\* While SIGNAL_TX may ask for an LLDPDU, and as long as what it asked for is
\* outstanding, the agent has not sent since the last tick.
RequestUnspent == \A a \in Agents : txNow[a] \/ Timing(a) => burst[a] = 0

\* The inductive invariant.
RateInv == StackShape /\ RequestUnspent /\ RateLimited

\* A call of one of the other operations is one of the other calls.
LEMMA QuietJob ==
    ASSUME NEW op \in Ops \ {"run_tx_timers_sm"}, NEW a \in Agents \cup {NULL}
    PROVE  Job(op, a) \in QuietJobs
BY DEF Job, Jobs, QuietJobs

\* LIST_FOREACH over the agents with one of the other operations.
LEMMA ForEachAgentQuiet ==
    ASSUME NEW op \in Ops \ {"run_tx_timers_sm"}
    PROVE  ForEachAgent(op) \in Seq(QuietJobs)
<1>1. AgentList \in Seq(Agents)
    BY PortAssumption
<1>2. DOMAIN AgentList = 1..Len(AgentList) /\ Len(AgentList) \in Nat
    BY <1>1
<1>3. \A i \in 1..Len(AgentList) : Job(op, AgentList[i]) \in QuietJobs
    BY <1>1, <1>2, QuietJob
<1> QED
    BY <1>2, <1>3 DEF ForEachAgent

\* The calls that bring a port up do not run the transmit timers.
LEMMA BringUpQuiet == BringUp \in Seq(QuietJobs)
<1>1. ForEachAgent("lldp_mod_ifup") \in Seq(QuietJobs)
    BY ForEachAgentQuiet DEF Ops
<1>2. <<Job("set_lldp_port_enable", NULL)>> \in Seq(QuietJobs)
    BY QuietJob DEF Ops
<1> QED
    BY <1>1, <1>2 DEF BringUp

\* The calls of set_lldp_agent_admin() do not either.
LEMMA AdminCallsQuiet ==
    ASSUME NEW a \in Agents
    PROVE  <<Job("run_tx_sm", a), Job("run_rx_sm", a)>> \in Seq(QuietJobs)
BY QuietJob DEF Ops

\* What Next does to the stack: run_tx_timers_sm() is called by the body of
\* timer() only.
LEMMA StackCases ==
    ASSUME TypeOK, StackShape, Next
    PROVE  \/ work' \in Seq(QuietJobs)
           \/ work' = work
           \/ work # <<>> /\ Continue
           \/ \E a \in Agents : timer_agent(a)
<1> DEFINE Goal == \/ work' \in Seq(QuietJobs)
                   \/ work' = work
                   \/ work # <<>> /\ Continue
                   \/ \E a \in Agents : timer_agent(a)
<1>1. work # <<>> /\ Return => work' \in Seq(QuietJobs)
    BY DEF StackShape, Return
<1>2. ASSUME NEW s \in Seq(QuietJobs), work # <<>>, Call(s)
      PROVE  work' \in Seq(QuietJobs)
    BY <1>2 DEF StackShape, Call
<1>3. CASE port_enable
    <2>1. ForEachAgent("run_agent") \in Seq(QuietJobs)
        BY ForEachAgentQuiet DEF Ops
    <2> QED
        BY <1>2, <1>3, <2>1 DEF port_enable, Calling
<1>4. ASSUME NEW a \in Agents, run_tx_sm(a) \/ run_tx_timers_sm(a)
      PROVE  Goal
    BY <1>1, <1>4
    DEF run_tx_sm, TxPass, Calling, txInitializeLLDP, process_tx_idle,
        process_tx_shutdown_frame, process_tx_info_frame, run_tx_sm_returns,
        run_tx_timers_sm, TimerPass, txInitializeTimers, TimerIdle,
        TimerExpires, TxTick, SignalTx, TxFastStart, run_tx_timers_sm_returns
<1>5. ASSUME NEW a \in Agents, run_rx_sm(a)
      PROVE  Goal
    <2>1. CASE process_rx_frame(a) /\ ~Continue
        <3>1. /\ work # <<>>
              /\ Head(work).op = "run_rx_sm"
              /\ work' = <<Job("run_tx_sm", a), Job("run_rx_sm", a)>>
                           \o (<<[Head(work) EXCEPT !.entered = TRUE]>>
                                 \o Tail(work))
            BY <2>1
            DEF process_rx_frame, RxEnters, Calling, QazEnablesTx,
                set_lldp_agent_admin
        <3>2. Head(work) \in Jobs
            BY <3>1, StackType DEF TypeOK, PortTypeOK
        <3>3. [Head(work) EXCEPT !.entered = TRUE] \in QuietJobs
            BY <3>1, <3>2 DEF QuietJobs, Jobs
        <3>4. <<[Head(work) EXCEPT !.entered = TRUE]>> \o Tail(work)
                 \in Seq(QuietJobs)
            BY <3>1, <3>3 DEF StackShape
        <3> QED
            BY <3>1, <3>4, AdminCallsQuiet
    <2>2. CASE process_rx_frame(a) /\ Continue
        BY <2>2 DEF process_rx_frame, RxEnters, Calling
    <2> QED
        BY <1>1, <1>5, <2>1, <2>2
        DEF run_rx_sm, RxPass, RxEnters, Calling, RxWaitPortOperational,
            process_delete_aged_info, process_rx_lldp_initialize,
            process_wait_for_frame, process_rx_frame_aborts,
            process_delete_info, process_update_info, run_rx_sm_returns
<1>6. ASSUME NEW a \in Agents,
             update_rx_timers(a) \/ lldp_mod_timer(a) \/ lldp_mod_ifup(a)
                \/ run_agent(a)
      PROVE  Goal
    <2>1. CASE update_rx_timers(a) \/ lldp_mod_timer(a)
        BY <1>1, <2>1 DEF update_rx_timers, lldp_mod_timer, Calling
    <2>2. CASE lldp_mod_ifup(a)
        <3>1. Return \/ Call(<<Job("run_tx_sm", a), Job("run_rx_sm", a)>>)
            BY <2>2 DEF lldp_mod_ifup, set_lldp_agent_admin, Call
        <3> QED
            BY <1>1, <1>2, <2>2, <3>1, AdminCallsQuiet
            DEF lldp_mod_ifup, Calling
    <2>3. CASE run_agent(a)
        BY <1>2, <2>3, AdminCallsQuiet DEF run_agent, Calling
    <2> QED
        BY <1>6, <2>1, <2>2, <2>3
<1>7. CASE Step
    BY <1>3, <1>4, <1>5, <1>6, <1>7 DEF Step
<1>8. CASE timer \/ port_disable
    <2>1. \A op \in {"timer", "run_agent"} : ForEachAgent(op) \in Seq(QuietJobs)
        BY ForEachAgentQuiet DEF Ops
    <2> QED
        BY <1>8, <2>1 DEF timer, port_disable
<1>9. CASE Receive
    <2>1. \A a \in Agents : <<Job("run_rx_sm", a)>> \in Seq(QuietJobs)
        BY QuietJob DEF Ops
    <2> QED
        BY <1>9, <2>1 DEF Receive, rxReceiveFrame
<1>10. ASSUME NEW a \in Agents, NEW status \in AdminStatus,
              set_arg_adminstatus(a, status)
       PROVE  Goal
    <2>1. work' = <<Job("run_tx_sm", a), Job("run_rx_sm", a)>> \o <<>>
        BY <1>10 DEF set_arg_adminstatus, set_lldp_agent_admin
    <2> QED
        BY <2>1, AdminCallsQuiet
<1>11. CASE oper_add_device \/ lldpad_reconfig
    BY <1>11, BringUpQuiet DEF oper_add_device, lldpad_reconfig
<1>12. ASSUME \/ \E a \in Agents : local_change(a)
              \/ remove_port
              \/ eloop_terminate
       PROVE  Goal
    BY <1>12 DEF local_change, remove_port, eloop_terminate
<1> QED
    BY <1>7, <1>8, <1>9, <1>10, <1>11, <1>12 DEF Next, Event

\* A step keeps the shape of the stack.
LEMMA ShapeStep ==
    TypeOK /\ StackShape /\ [Next]_vars => StackShape'
<1> SUFFICES ASSUME TypeOK, StackShape, [Next]_vars PROVE StackShape'
    OBVIOUS
<1>1. CASE work' \in Seq(QuietJobs)
    BY <1>1 DEF StackShape
<1>2. CASE work' = work
    BY <1>2 DEF StackShape
<1>3. CASE work # <<>> /\ Continue
    <2> DEFINE again == [Head(work) EXCEPT !.entered = TRUE]
    <2>1. again \in Jobs /\ Tail(work) \in Seq(Jobs)
        <3>1. Head(work) \in Jobs /\ Tail(work) \in Seq(Jobs)
            BY <1>3, StackType DEF TypeOK, PortTypeOK
        <3> QED
            BY <3>1 DEF Jobs
    <2>2. work' = <<again>> \o Tail(work)
        BY <1>3 DEF Continue
    <2> HIDE DEF again
    <2>3. Tail(work') = Tail(work)
        BY <2>1, <2>2
    <2> QED
        BY <1>3, <2>3 DEF StackShape
<1>4. ASSUME NEW a \in Agents, timer_agent(a) PROVE StackShape'
    <2> DEFINE rest == <<Job("run_tx_sm", a), Job("run_rx_sm", a),
                         Job("update_rx_timers", a), Job("lldp_mod_timer", a)>>
               calls == <<Job("run_tx_timers_sm", a), Job("run_tx_sm", a),
                          Job("run_rx_sm", a), Job("update_rx_timers", a),
                          Job("lldp_mod_timer", a)>>
    <2>1. work # <<>> /\ work' = calls \o Tail(work)
        BY <1>4 DEF timer_agent, Calling, Call
    <2>2. rest \in Seq(QuietJobs)
        BY QuietJob DEF Ops
    <2>3. Job("run_tx_timers_sm", a) \in Jobs /\ rest \in Seq(Jobs)
        BY JobIsJob DEF Ops
    <2>4. Tail(work) \in Seq(QuietJobs) /\ Tail(work) \in Seq(Jobs)
        BY <2>1, StackType DEF StackShape, TypeOK, PortTypeOK
    <2>5. calls = <<Job("run_tx_timers_sm", a)>> \o rest
        BY <2>3
    <2> HIDE DEF rest, calls
    <2>6. work' = <<Job("run_tx_timers_sm", a)>> \o (rest \o Tail(work))
        BY <2>1, <2>3, <2>4, <2>5, ConcatAssociative
    <2>7. rest \o Tail(work) \in Seq(QuietJobs) /\ rest \o Tail(work) \in Seq(Jobs)
        BY <2>2, <2>3, <2>4
    <2>8. Tail(work') = rest \o Tail(work)
        BY <2>3, <2>6, <2>7
    <2> QED
        BY <2>7, <2>8 DEF StackShape
<1> QED
    BY <1>1, <1>2, <1>3, <1>4, StackCases DEF vars

\* run_tx_timers_sm() of an agent is running because it was before, or because
\* the body of timer() has just called it.
LEMMA TimingFrom ==
    ASSUME TypeOK, StackShape, [Next]_vars, NEW b \in Agents, Timing(b)'
    PROVE  Timing(b) \/ timer_agent(b)
<1>1. CASE work' \in Seq(QuietJobs)
    <2>1. Head(work') \in QuietJobs
        BY <1>1 DEF Timing
    <2> QED
        BY <2>1 DEF Timing, QuietJobs
<1>2. CASE work' = work
    BY <1>2 DEF Timing
<1>3. CASE work # <<>> /\ Continue
    <2>1. Head(work') = [Head(work) EXCEPT !.entered = TRUE]
        BY <1>3, ContinueHead
    <2>2. Head(work) \in Jobs
        BY <1>3, StackType DEF TypeOK, PortTypeOK
    <2> QED
        BY <1>3, <2>1, <2>2 DEF Timing, Jobs
<1>4. ASSUME NEW a \in Agents, timer_agent(a) PROVE timer_agent(b)
    <2>1. \A op \in Ops : Job(op, a) \in Jobs
        BY JobIsJob
    <2>2. Tail(work) \in Seq(Jobs)
        BY <1>4, StackType DEF timer_agent, Calling, TypeOK, PortTypeOK
    <2>3. Head(work') = Job("run_tx_timers_sm", a)
        BY <1>4, <2>1, <2>2 DEF timer_agent, Call, Ops
    <2>4. b = a
        BY <2>3 DEF Timing, Job
    <2> QED
        BY <1>4, <2>4
<1> QED
    BY <1>1, <1>2, <1>3, <1>4, StackCases DEF vars

\* No step lets an agent send, or ask, twice between two ticks.
LEMMA RateStep ==
    TypeOK /\ RateInv /\ [Next]_vars => (RequestUnspent /\ RateLimited)'
<1> SUFFICES ASSUME TypeOK, RateInv, [Next]_vars, NEW b \in Agents
             PROVE  /\ burst'[b] <= 1
                    /\ txNow'[b] \/ Timing(b)' => burst'[b] = 0
    BY DEF RequestUnspent, RateLimited
<1>1. /\ burst \in [Agents -> Nat]
      /\ txNow \in [Agents -> BOOLEAN]
      /\ \A c \in Agents : burst[c] <= 1
      /\ \A c \in Agents : txNow[c] \/ Timing(c) => burst[c] = 0
    BY DEF TypeOK, TxTypeOK, RateInv, RateLimited, RequestUnspent
<1>2. Timing(b)' => Timing(b) \/ timer_agent(b)
    BY TimingFrom DEF RateInv
<1>3. ASSUME NEW a \in Agents, timer_agent(a)
      PROVE  /\ burst'[b] <= 1
             /\ txNow'[b] \/ Timing(b)' => burst'[b] = 0
    <2>1. /\ burst' = [burst EXCEPT ![a] = IF @ > 0 THEN @ - 1 ELSE 0]
          /\ txNow' = txNow
        BY <1>3 DEF timer_agent, update_tx_timers
    <2>2. timer_agent(b) => b = a
        BY <1>3 DEF timer_agent, Calling
    <2>3. CASE b = a
        BY <1>1, <2>1, <2>3
    <2>4. CASE b # a
        BY <1>1, <1>2, <2>1, <2>2, <2>4
    <2> QED
        BY <2>3, <2>4
<1>4. CASE CreditIdle /\ ~timer_agent(b)
    BY <1>1, <1>2, <1>4 DEF CreditIdle
<1>5. CASE CreditReset
    BY <1>5 DEF CreditReset
<1>6. ASSUME NEW a \in Agents, process_tx_info_frame(a)
      PROVE  /\ burst'[b] <= 1
             /\ txNow'[b] \/ Timing(b)' => burst'[b] = 0
    <2>1. burst[a] = 0
        BY <1>1, <1>6, SendingNeedsCredit
    <2>2. /\ burst' = [burst EXCEPT ![a] = @ + 1]
          /\ txNow' = [txNow EXCEPT ![a] = FALSE]
          /\ Calling("run_tx_sm", a)
        BY <1>6 DEF process_tx_info_frame, TxPass
    <2>3. ~Timing(b)'
        BY <1>2, <2>2 DEF Timing, timer_agent, Calling
    <2>4. CASE b = a
        BY <1>1, <2>1, <2>2, <2>3, <2>4
    <2>5. CASE b # a
        BY <1>1, <2>2, <2>3, <2>5
    <2> QED
        BY <2>4, <2>5
<1>7. ASSUME NEW a \in Agents, run_tx_timers_sm(a)
      PROVE  /\ burst'[b] <= 1
             /\ txNow'[b] \/ Timing(b)' => burst'[b] = 0
    <2>1. Calling("run_tx_timers_sm", a)
        BY <1>7
        DEF run_tx_timers_sm, TimerPass, txInitializeTimers, TimerIdle,
            TimerExpires, TxTick, SignalTx, TxFastStart,
            run_tx_timers_sm_returns
    <2>2. burst[a] = 0 /\ (Timing(b)' => Timing(b))
        BY <1>1, <1>2, <2>1 DEF Timing, Calling, timer_agent
    <2>3. /\ burst' = burst \/ burst' = [burst EXCEPT ![a] = 0]
          /\ \/ txNow' = txNow
             \/ txNow' = [txNow EXCEPT ![a] = TRUE]
             \/ txNow' = [txNow EXCEPT ![a] = FALSE]
        BY <1>7
        DEF run_tx_timers_sm, TimerPass, txInitializeTimers, TimerIdle,
            TimerExpires, TxTick, SignalTx, TxFastStart,
            run_tx_timers_sm_returns
    <2>4. CASE b = a
        BY <1>1, <2>2, <2>3, <2>4
    <2>5. CASE b # a
        BY <1>1, <2>2, <2>3, <2>5
    <2> QED
        BY <2>4, <2>5
<1>8. CASE UNCHANGED vars
    BY <1>1, <1>8 DEF vars, txVars, Timing
<1> QED
    BY <1>3, <1>4, <1>5, <1>6, <1>7, <1>8, CreditCases

\* The daemon starts with nothing sent and no handler running.
LEMMA RateInit == Init => RateInv
BY DEF Init, PortInit, TxInit, RateInv, StackShape, RequestUnspent, Timing,
       RateLimited

\* The invariant holds in every reachable state.
LEMMA RateInvariant == Spec => []RateInv
<1>1. TypeOK /\ RateInv /\ [Next]_vars => (TypeOK /\ RateInv)'
    BY TypeStep, ShapeStep, RateStep DEF RateInv
<1> QED
    BY <1>1, InitType, RateInit, PTL DEF Spec

\* run_tx_sm() never sends more than one LLDPDU from one tick of
\* update_tx_timers() to the next, for any number of agents, any frames
\* received and any timing constants.
THEOREM RateIsLimited == Spec => []RateLimited
<1>1. RateInv => RateLimited
    BY DEF RateInv
<1> QED
    BY <1>1, RateInvariant, PTL

\* A step of the agents is a step of the leaky bucket or leaves it alone.
LEMMA BudgetStep ==
    TypeOK /\ RateInv /\ [Next]_vars => [Budget!Next]_burst
<1> SUFFICES ASSUME TypeOK, RateInv, [Next]_vars
             PROVE  Budget!Next \/ UNCHANGED burst
    OBVIOUS
<1>1. burst \in [Agents -> Nat]
    BY DEF TypeOK, TxTypeOK
<1>2. CASE CreditIdle \/ UNCHANGED vars
    BY <1>2 DEF CreditIdle, vars, txVars
<1>3. CASE CreditReset
    <2>1. Budget!Empty(Agents)
        BY <1>3 DEF CreditReset, Budget!Empty
    <2>2. Agents \in SUBSET Agents
        OBVIOUS
    <2> QED
        BY <2>1, <2>2 DEF Budget!Next
<1>4. ASSUME NEW a \in Agents, timer_agent(a)
      PROVE  Budget!Next \/ UNCHANGED burst
    <2>1. burst' = [burst EXCEPT ![a] = IF @ > 0 THEN @ - 1 ELSE 0]
        BY <1>4 DEF timer_agent, update_tx_timers
    <2>2. CASE burst[a] > 0
        <3>1. Budget!Drain(a)
            BY <2>1, <2>2 DEF Budget!Drain
        <3> QED
            BY <3>1 DEF Budget!Next
    <2>3. CASE ~(burst[a] > 0)
        <3>1. burst[a] = 0
            BY <1>1, <2>3
        <3> QED
            BY <1>1, <2>1, <2>3, <3>1
    <2> QED
        BY <2>2, <2>3
<1>5. ASSUME NEW a \in Agents, process_tx_info_frame(a)
      PROVE  Budget!Next
    <2>1. txNow[a]
        BY <1>5, SendingNeedsCredit
    <2>2. burst[a] < 1
        BY <1>1, <2>1 DEF RateInv, RequestUnspent
    <2>3. Budget!Send(a)
        BY <1>5, <2>2 DEF process_tx_info_frame, Budget!Send
    <2> QED
        BY <2>3 DEF Budget!Next
<1>6. ASSUME NEW a \in Agents, run_tx_timers_sm(a)
      PROVE  Budget!Next \/ UNCHANGED burst
    <2>1. CASE txInitializeTimers(a)
        <3>1. burst' = [b \in Agents |-> IF b \in {a} THEN 0 ELSE burst[b]]
            BY <1>1, <2>1 DEF txInitializeTimers
        <3>2. Budget!Empty({a}) /\ {a} \in SUBSET Agents
            BY <3>1 DEF Budget!Empty
        <3> QED
            BY <3>2 DEF Budget!Next
    <2>2. CASE ~txInitializeTimers(a)
        BY <1>6, <2>2
        DEF run_tx_timers_sm, TimerIdle, TimerExpires, TxTick, SignalTx,
            TxFastStart, run_tx_timers_sm_returns
    <2> QED
        BY <2>1, <2>2
<1> QED
    BY <1>2, <1>3, <1>4, <1>5, <1>6, CreditCases

\* The agents of a port implement the leaky bucket of TransmitBudget.
THEOREM BudgetIsImplemented == Spec => ImplementsBudget
<1>1. Init => Budget!Init
    BY DEF Init, TxInit, Budget!Init
<1> QED
    BY <1>1, BudgetStep, TypeCorrect, RateInvariant, PTL
    DEF Spec, ImplementsBudget, Budget!Spec

-----------------------------------------------------------------------------
(***************************************************************************)
(* What a handler of the daemon has settled when it returns to the event   *)
(* loop: the receive and the transmit side of every agent, for any number  *)
(* of agents, any set of frames and any values of the timing constants.    *)
(*                                                                         *)
(* In the middle of a handler an agent may be in a state that the event    *)
(* loop never sees.  The invariants therefore speak of the calls that are  *)
(* still on the stack: an agent is settled, or the call that will settle   *)
(* it is due.                                                              *)
(***************************************************************************)
(* The calls on a stack                                                    *)

\* One of the calls `ops' for agent a is in stack w.
DueIn(w, ops, a) == \E i \in DOMAIN w : w[i].op \in ops /\ w[i].agent = a

\* ... and still to be made, or to return, in the handler that is running.
Due(ops, a) == DueIn(work, ops, a)

\* set_lldp_port_enable(ifname, 1) is still to come.
EnablePending == Due({"set_lldp_port_enable"}, NULL)

\* The state machines of an agent, and the calls that run them.
MachineOps == {"run_tx_timers_sm", "run_tx_sm", "run_rx_sm", "run_agent"}

\* Call x may stand in front of call y: run_rx_sm() of an agent never waits
\* for another call for that agent than those of its state machines.
Before(x, y) ==
    y.op \in {"run_rx_sm", "run_agent"} /\ x.agent = y.agent
        => x.op \in MachineOps

InOrder(w) == \A i, j \in DOMAIN w : i < j => Before(w[i], w[j])

\* A stack is its first call and the rest.
LEMMA DueCons ==
    ASSUME NEW w \in Seq(Jobs), w # <<>>, NEW ops, NEW a
    PROVE  DueIn(w, ops, a) <=> \/ Head(w).op \in ops /\ Head(w).agent = a
                                \/ DueIn(Tail(w), ops, a)
<1> DEFINE t == Tail(w)
<1>1. /\ t \in Seq(Jobs) /\ Len(w) \in Nat \ {0} /\ Len(t) = Len(w) - 1
      /\ DOMAIN w = 1..Len(w) /\ DOMAIN t = 1..Len(t)
      /\ Head(w) = w[1]
      /\ \A i \in 1..Len(t) : t[i] = w[i + 1]
    OBVIOUS
<1> HIDE DEF t
<1>2. ASSUME NEW i \in DOMAIN w, w[i].op \in ops /\ w[i].agent = a
      PROVE  \/ Head(w).op \in ops /\ Head(w).agent = a
             \/ DueIn(t, ops, a)
    <2>1. CASE i = 1
        BY <1>1, <1>2, <2>1
    <2>2. CASE i # 1
        <3>1. i - 1 \in 1..Len(t) /\ t[i - 1] = w[i]
            BY <1>1, <2>2
        <3> QED
            BY <1>1, <1>2, <3>1 DEF DueIn
    <2> QED
        BY <2>1, <2>2
<1>3. ASSUME NEW i \in DOMAIN t, t[i].op \in ops /\ t[i].agent = a
      PROVE  DueIn(w, ops, a)
    <2>1. i + 1 \in DOMAIN w /\ w[i + 1] = t[i]
        BY <1>1
    <2> QED
        BY <1>3, <2>1 DEF DueIn
<1>4. 1 \in DOMAIN w
    BY <1>1
<1> QED
    BY <1>1, <1>2, <1>3, <1>4 DEF DueIn, t

\* A call in front of a stack, and a stack of no calls.
LEMMA DuePush ==
    ASSUME NEW w \in Seq(Jobs), NEW x \in Jobs, NEW ops, NEW a
    PROVE  DueIn(<<x>> \o w, ops, a) <=> \/ x.op \in ops /\ x.agent = a
                                         \/ DueIn(w, ops, a)
<1> DEFINE c == <<x>> \o w
<1>1. c \in Seq(Jobs) /\ c # <<>> /\ Head(c) = x /\ Tail(c) = w
    OBVIOUS
<1> HIDE DEF c
<1>2. DueIn(c, ops, a) <=> \/ Head(c).op \in ops /\ Head(c).agent = a
                           \/ DueIn(Tail(c), ops, a)
    BY <1>1, DueCons
<1> QED
    BY <1>1, <1>2 DEF c

\* Nothing is due on the empty stack.
LEMMA DueNone ==
    ASSUME NEW ops, NEW a
    PROVE  ~DueIn(<<>>, ops, a)
BY DEF DueIn

\* What stands in front of a stack adds to what is due.
LEMMA DueConcat ==
    ASSUME NEW s \in Seq(Jobs), NEW w \in Seq(Jobs), NEW ops, NEW a
    PROVE  DueIn(s \o w, ops, a) <=> DueIn(s, ops, a) \/ DueIn(w, ops, a)
<1> DEFINE c == s \o w
<1>1. /\ c \in Seq(Jobs) /\ Len(s) \in Nat /\ Len(w) \in Nat
      /\ Len(c) = Len(s) + Len(w)
      /\ DOMAIN c = 1..Len(c) /\ DOMAIN s = 1..Len(s) /\ DOMAIN w = 1..Len(w)
      /\ \A i \in 1..Len(s) : c[i] = s[i]
      /\ \A i \in 1..Len(w) : c[i + Len(s)] = w[i]
    OBVIOUS
<1> HIDE DEF c
<1>2. ASSUME NEW i \in DOMAIN c, c[i].op \in ops /\ c[i].agent = a
      PROVE  DueIn(s, ops, a) \/ DueIn(w, ops, a)
    <2>1. CASE i \in DOMAIN s
        BY <1>1, <1>2, <2>1 DEF DueIn
    <2>2. CASE i \notin DOMAIN s
        <3>1. i - Len(s) \in DOMAIN w /\ w[i - Len(s)] = c[i]
            BY <1>1, <2>2
        <3> QED
            BY <1>2, <3>1 DEF DueIn
    <2> QED
        BY <2>1, <2>2
<1>3. ASSUME NEW i \in DOMAIN s, s[i].op \in ops /\ s[i].agent = a
      PROVE  DueIn(c, ops, a)
    <2>1. i \in DOMAIN c /\ c[i] = s[i]
        BY <1>1
    <2> QED
        BY <1>3, <2>1 DEF DueIn
<1>4. ASSUME NEW i \in DOMAIN w, w[i].op \in ops /\ w[i].agent = a
      PROVE  DueIn(c, ops, a)
    <2>1. i + Len(s) \in DOMAIN c /\ c[i + Len(s)] = w[i]
        BY <1>1
    <2> QED
        BY <1>4, <2>1 DEF DueIn
<1> QED
    BY <1>2, <1>3, <1>4 DEF DueIn, c

\* LIST_FOREACH makes its call for every agent, and no other.
LEMMA DueForEach ==
    ASSUME NEW op \in Ops, NEW ops, NEW a
    PROVE  DueIn(ForEachAgent(op), ops, a) <=> op \in ops /\ a \in Agents
<1>1. DOMAIN ForEachAgent(op) = DOMAIN AgentList
    BY DEF ForEachAgent
<1>2. \A i \in DOMAIN AgentList :
          /\ ForEachAgent(op)[i].op = op
          /\ ForEachAgent(op)[i].agent = AgentList[i]
    BY DEF ForEachAgent, Job
<1> QED
    BY <1>1, <1>2 DEF DueIn, Agents

\* Bringing a port up: the ifup operations, and the port is enabled.
LEMMA DueBringUp ==
    ASSUME NEW ops, NEW a
    PROVE  DueIn(BringUp, ops, a)
              <=> \/ "lldp_mod_ifup" \in ops /\ a \in Agents
                  \/ "set_lldp_port_enable" \in ops /\ a = NULL
<1>1. ForEachAgent("lldp_mod_ifup") \in Seq(Jobs)
    BY ForEachAgentType DEF Ops
<1>2. /\ Job("set_lldp_port_enable", NULL) \in Jobs
      /\ Job("set_lldp_port_enable", NULL).op = "set_lldp_port_enable"
      /\ Job("set_lldp_port_enable", NULL).agent = NULL
    BY JobIsJob DEF Ops, Job
<1>3. <<Job("set_lldp_port_enable", NULL)>> \in Seq(Jobs)
    BY <1>2
<1>4. DueIn(<<Job("set_lldp_port_enable", NULL)>>, ops, a)
         <=> "set_lldp_port_enable" \in ops /\ a = NULL
    <2>1. /\ <<Job("set_lldp_port_enable", NULL)>> # <<>>
          /\ Head(<<Job("set_lldp_port_enable", NULL)>>)
                = Job("set_lldp_port_enable", NULL)
          /\ Tail(<<Job("set_lldp_port_enable", NULL)>>) = <<>>
        OBVIOUS
    <2> QED
        BY <1>2, <1>3, <2>1, DueCons, DueNone
<1>5. DueIn(ForEachAgent("lldp_mod_ifup"), ops, a)
         <=> "lldp_mod_ifup" \in ops /\ a \in Agents
    BY DueForEach DEF Ops
<1> QED
    BY <1>1, <1>3, <1>4, <1>5, DueConcat DEF BringUp

\* The order of a stack is that of its rest, with the first call in front.
LEMMA OrderCons ==
    ASSUME NEW w \in Seq(Jobs), w # <<>>
    PROVE  InOrder(w) <=> /\ InOrder(Tail(w))
                          /\ \A j \in DOMAIN Tail(w) : Before(Head(w), Tail(w)[j])
<1> DEFINE t == Tail(w)
<1>1. /\ t \in Seq(Jobs) /\ Len(w) \in Nat \ {0} /\ Len(t) = Len(w) - 1
      /\ DOMAIN w = 1..Len(w) /\ DOMAIN t = 1..Len(t)
      /\ Head(w) = w[1]
      /\ \A i \in 1..Len(t) : t[i] = w[i + 1]
    OBVIOUS
<1> HIDE DEF t
<1>2. ASSUME InOrder(w)
      PROVE  InOrder(t) /\ \A j \in DOMAIN t : Before(Head(w), t[j])
    <2>1. ASSUME NEW i \in DOMAIN t, NEW j \in DOMAIN t, i < j
          PROVE  Before(t[i], t[j])
        <3>1. i + 1 \in DOMAIN w /\ j + 1 \in DOMAIN w /\ i + 1 < j + 1
            BY <1>1, <2>1
        <3>2. Before(w[i + 1], w[j + 1])
            BY <1>2, <3>1 DEF InOrder
        <3> QED
            BY <1>1, <3>2
    <2>2. ASSUME NEW j \in DOMAIN t
          PROVE  Before(Head(w), t[j])
        <3>1. 1 \in DOMAIN w /\ j + 1 \in DOMAIN w /\ 1 < j + 1
            BY <1>1
        <3>2. Before(w[1], w[j + 1])
            BY <1>2, <3>1 DEF InOrder
        <3> QED
            BY <1>1, <3>2
    <2> QED
        BY <2>1, <2>2 DEF InOrder
<1>3. ASSUME InOrder(t), \A j \in DOMAIN t : Before(Head(w), t[j]),
             NEW i \in DOMAIN w, NEW j \in DOMAIN w, i < j
      PROVE  Before(w[i], w[j])
    <2>1. j - 1 \in DOMAIN t /\ t[j - 1] = w[j]
        BY <1>1, <1>3
    <2>2. CASE i = 1
        BY <1>1, <1>3, <2>1, <2>2
    <2>3. CASE i # 1
        <3>1. i - 1 \in DOMAIN t /\ t[i - 1] = w[i] /\ i - 1 < j - 1
            BY <1>1, <1>3, <2>3
        <3> QED
            BY <1>3, <2>1, <3>1 DEF InOrder
    <2> QED
        BY <2>2, <2>3
<1> QED
    BY <1>2, <1>3 DEF InOrder, t

\* Stacks that are in order may be put in front of each other when each call
\* in front runs a state machine, or has no run_rx_sm() of its agent behind.
LEMMA OrderConcat ==
    ASSUME NEW s \in Seq(Jobs), NEW w \in Seq(Jobs), InOrder(s), InOrder(w),
           \A i \in DOMAIN s :
              \/ s[i].op \in MachineOps
              \/ ~DueIn(w, {"run_rx_sm", "run_agent"}, s[i].agent)
    PROVE  InOrder(s \o w)
<1> DEFINE c == s \o w
<1>1. /\ c \in Seq(Jobs) /\ Len(s) \in Nat /\ Len(w) \in Nat
      /\ Len(c) = Len(s) + Len(w)
      /\ DOMAIN c = 1..Len(c) /\ DOMAIN s = 1..Len(s) /\ DOMAIN w = 1..Len(w)
      /\ \A i \in 1..Len(s) : c[i] = s[i]
      /\ \A i \in 1..Len(w) : c[i + Len(s)] = w[i]
    OBVIOUS
<1> HIDE DEF c
<1> SUFFICES ASSUME NEW i \in DOMAIN c, NEW j \in DOMAIN c, i < j
             PROVE  Before(c[i], c[j])
    BY DEF InOrder, c
<1>2. CASE j \in DOMAIN s
    <2>1. i \in DOMAIN s
        BY <1>1, <1>2
    <2> QED
        BY <1>1, <1>2, <2>1 DEF InOrder
<1>3. CASE i \in DOMAIN s /\ j \notin DOMAIN s
    <2>1. j - Len(s) \in DOMAIN w /\ w[j - Len(s)] = c[j]
        BY <1>1, <1>3
    <2> QED
        BY <1>1, <1>3, <2>1 DEF Before, DueIn
<1>4. CASE i \notin DOMAIN s
    <2>1. /\ i - Len(s) \in DOMAIN w /\ w[i - Len(s)] = c[i]
          /\ j - Len(s) \in DOMAIN w /\ w[j - Len(s)] = c[j]
          /\ i - Len(s) < j - Len(s)
        BY <1>1, <1>4
    <2> QED
        BY <2>1 DEF InOrder
<1> QED
    BY <1>2, <1>3, <1>4

\* A stack without run_rx_sm(), and one of calls of state machines only, are
\* in order.
LEMMA OrderSimple ==
    ASSUME NEW w \in Seq(Jobs),
           \/ \A a : ~DueIn(w, {"run_rx_sm", "run_agent"}, a)
           \/ \A i \in DOMAIN w : w[i].op \in MachineOps
    PROVE  InOrder(w)
BY DEF InOrder, Before, DueIn

-----------------------------------------------------------------------------
(* What a step does to the stack                                           *)

\* Going through the loop of a state machine once more leaves the calls due
\* and their order.
LEMMA ContinueKeeps ==
    ASSUME work \in Seq(Jobs), work # <<>>, Continue
    PROVE  /\ \A ops, a : Due(ops, a)' <=> Due(ops, a)
           /\ InOrder(work) => InOrder(work')
<1> DEFINE again == [Head(work) EXCEPT !.entered = TRUE]
<1>1. Head(work) \in Jobs /\ Tail(work) \in Seq(Jobs)
    BY StackType
<1>2. again \in Jobs /\ again.op = Head(work).op /\ again.agent = Head(work).agent
    BY <1>1 DEF Jobs
<1>3. work' = <<again>> \o Tail(work)
    BY DEF Continue
<1> HIDE DEF again
<1>4. /\ work' \in Seq(Jobs) /\ work' # <<>>
      /\ Head(work') = again /\ Tail(work') = Tail(work)
    BY <1>1, <1>2, <1>3
<1>5. ASSUME NEW ops, NEW a
      PROVE  Due(ops, a)' <=> Due(ops, a)
    <2>1. DueIn(work', ops, a) <=> \/ Head(work').op \in ops /\ Head(work').agent = a
                                   \/ DueIn(Tail(work'), ops, a)
        BY <1>4, DueCons
    <2>2. DueIn(work, ops, a) <=> \/ Head(work).op \in ops /\ Head(work).agent = a
                                  \/ DueIn(Tail(work), ops, a)
        BY DueCons
    <2> QED
        BY <1>2, <1>4, <2>1, <2>2 DEF Due
<1>6. ASSUME InOrder(work)
      PROVE  InOrder(work')
    <2>1. /\ InOrder(Tail(work))
          /\ \A j \in DOMAIN Tail(work) : Before(Head(work), Tail(work)[j])
        BY <1>6, OrderCons
    <2>2. \A j \in DOMAIN Tail(work) : Before(again, Tail(work)[j])
        BY <1>2, <2>1 DEF Before
    <2> QED
        BY <1>4, <2>1, <2>2, OrderCons
<1> QED
    BY <1>5, <1>6

\* A call that returns is not due any more, at most, and the others are.
LEMMA ReturnKeeps ==
    ASSUME work \in Seq(Jobs), work # <<>>, Return
    PROVE  /\ \A ops, a : Due(ops, a)' => Due(ops, a)
           /\ \A ops, a : Due(ops, a) => \/ Head(work).op \in ops /\ Head(work).agent = a
                                        \/ Due(ops, a)'
           /\ InOrder(work) => InOrder(work')
<1>1. work' = Tail(work)
    BY DEF Return
<1>2. ASSUME NEW ops, NEW a
      PROVE  DueIn(work, ops, a) <=> \/ Head(work).op \in ops /\ Head(work).agent = a
                                     \/ DueIn(Tail(work), ops, a)
    BY DueCons
<1>3. InOrder(work) => InOrder(Tail(work))
    BY OrderCons
<1> QED
    BY <1>1, <1>2, <1>3 DEF Due

\* A call that is replaced by the calls of its body.
LEMMA CallKeeps ==
    ASSUME work \in Seq(Jobs), work # <<>>, NEW s \in Seq(Jobs), Call(s)
    PROVE  /\ \A ops, a : Due(ops, a)' <=> \/ DueIn(s, ops, a)
                                         \/ DueIn(Tail(work), ops, a)
           /\ \A ops, a : Due(ops, a) => \/ Head(work).op \in ops /\ Head(work).agent = a
                                        \/ Due(ops, a)'
<1>1. work' = s \o Tail(work) /\ Tail(work) \in Seq(Jobs)
    BY StackType DEF Call
<1>2. ASSUME NEW ops, NEW a
      PROVE  DueIn(work', ops, a) <=> DueIn(s, ops, a) \/ DueIn(Tail(work), ops, a)
    BY <1>1, DueConcat
<1>3. ASSUME NEW ops, NEW a
      PROVE  DueIn(work, ops, a) <=> \/ Head(work).op \in ops /\ Head(work).agent = a
                                     \/ DueIn(Tail(work), ops, a)
    BY DueCons
<1> QED
    BY <1>2, <1>3 DEF Due

\* The two calls of set_lldp_agent_admin() and of set_lldp_port_enable() in
\* front of a stack.
LEMMA AdminCallsDue ==
    ASSUME NEW w \in Seq(Jobs), NEW b \in Agents
    PROVE  /\ \A ops, a :
                DueIn(<<Job("run_tx_sm", b), Job("run_rx_sm", b)>> \o w, ops, a)
                   <=> \/ {"run_tx_sm", "run_rx_sm"} \cap ops # {} /\ a = b
                       \/ DueIn(w, ops, a)
           /\ InOrder(w) =>
                InOrder(<<Job("run_tx_sm", b), Job("run_rx_sm", b)>> \o w)
<1> DEFINE x == Job("run_tx_sm", b)
           y == Job("run_rx_sm", b)
           r == <<y>> \o w
           c == <<x, y>> \o w
<1>1. x \in Jobs /\ y \in Jobs
    BY JobIsJob DEF Ops
<1>2. x.op = "run_tx_sm" /\ x.agent = b /\ y.op = "run_rx_sm" /\ y.agent = b
    BY DEF Job
<1> HIDE DEF x, y
<1>3. <<x>> \in Seq(Jobs) /\ <<y>> \in Seq(Jobs)
    BY <1>1
<1>4. r \in Seq(Jobs) /\ c = <<x>> \o r
    <2>1. <<x, y>> = <<x>> \o <<y>>
        <3> HIDE DEF r, c
        <3>1. /\ <<x, y>> \in Seq(Jobs) /\ <<x>> \o <<y>> \in Seq(Jobs)
              /\ Len(<<x, y>>) = 2 /\ Len(<<x>> \o <<y>>) = 2
            BY <1>1, <1>3
        <3>2. \A i \in 1..2 : <<x, y>>[i] = (<<x>> \o <<y>>)[i]
            BY <1>1, <1>3
        <3> QED
            BY <3>1, <3>2, SeqEqual
    <2> QED
        BY <1>3, <2>1, ConcatAssociative
<1>5. ASSUME NEW ops, NEW a
      PROVE  DueIn(c, ops, a)
                <=> \/ {"run_tx_sm", "run_rx_sm"} \cap ops # {} /\ a = b
                    \/ DueIn(w, ops, a)
    <2>1. DueIn(r, ops, a) <=> \/ y.op \in ops /\ y.agent = a
                               \/ DueIn(w, ops, a)
        BY <1>1, DuePush
    <2>2. DueIn(<<x>> \o r, ops, a) <=> \/ x.op \in ops /\ x.agent = a
                                        \/ DueIn(r, ops, a)
        BY <1>1, <1>4, DuePush
    <2> HIDE DEF r, c
    <2> QED
        BY <1>2, <1>4, <2>1, <2>2
<1>6. InOrder(w) => InOrder(c)
    <2>1. /\ <<x, y>> \in Seq(Jobs) /\ DOMAIN <<x, y>> = 1..2
          /\ <<x, y>>[1] = x /\ <<x, y>>[2] = y
        <3> HIDE DEF r, c
        <3> QED
            BY <1>1
    <2>2. \A i \in DOMAIN <<x, y>> : <<x, y>>[i].op \in MachineOps
        <3> HIDE DEF r, c
        <3> QED
            BY <1>2, <2>1 DEF MachineOps
    <2>3. InOrder(<<x, y>>)
        BY <2>1, <2>2, OrderSimple
    <2> QED
        BY <2>1, <2>2, <2>3, OrderConcat
<1> QED
    BY <1>5, <1>6 DEF x, y
-----------------------------------------------------------------------------
(* The order of the stack                                                  *)

\* The body of timer() puts its calls in front of the walk.
LEMMA TimerOrder ==
    ASSUME TypeOK, InOrder(work), NEW a \in Agents, timer_agent(a)
    PROVE  InOrder(work')
<1> DEFINE s == <<Job("run_tx_timers_sm", a), Job("run_tx_sm", a),
                  Job("run_rx_sm", a), Job("update_rx_timers", a),
                  Job("lldp_mod_timer", a)>>
<1>1. /\ work \in Seq(Jobs) /\ work # <<>>
      /\ Head(work).op = "timer" /\ Head(work).agent = a
      /\ work' = s \o Tail(work)
    BY DEF TypeOK, PortTypeOK, timer_agent, Calling, Call
<1>2. \A op \in Ops : Job(op, a) \in Jobs
    BY JobIsJob
<1>3. /\ s \in Seq(Jobs) /\ DOMAIN s = 1..5
      /\ \A i \in 1..3 : s[i].op \in MachineOps
      /\ \A i \in 4..5 : s[i].op \notin {"run_rx_sm", "run_agent"}
      /\ \A i \in 1..5 : s[i].agent = a
    BY <1>2 DEF Ops, Job, MachineOps
<1>4. InOrder(s)
    <2> HIDE DEF s
    <2> SUFFICES ASSUME NEW i \in 1..5, NEW j \in 1..5, i < j
                 PROVE  Before(s[i], s[j])
        BY <1>3 DEF InOrder
    <2>1. CASE j \in 1..3
        <3>1. i \in 1..3
            BY <2>1
        <3> QED
            BY <1>3, <3>1 DEF Before
    <2>2. CASE j \in 4..5
        BY <1>3, <2>2 DEF Before
    <2> QED
        BY <2>1, <2>2
<1> HIDE DEF s
<1>5. Tail(work) \in Seq(Jobs) /\ InOrder(Tail(work))
    BY <1>1, OrderCons
<1>6. ~DueIn(Tail(work), {"run_rx_sm", "run_agent"}, a)
    <2>1. \A j \in DOMAIN Tail(work) : Before(Head(work), Tail(work)[j])
        BY <1>1, OrderCons
    <2> QED
        BY <1>1, <2>1 DEF Before, DueIn, MachineOps
<1>7. \A i \in DOMAIN s :
          \/ s[i].op \in MachineOps
          \/ ~DueIn(Tail(work), {"run_rx_sm", "run_agent"}, s[i].agent)
    BY <1>3, <1>6
<1> QED
    BY <1>1, <1>3, <1>4, <1>5, <1>7, OrderConcat

\* The calls of a walk over the agents.
LEMMA ForEachAgentJobs ==
    ASSUME NEW op \in Ops
    PROVE  /\ ForEachAgent(op) \in Seq(Jobs)
           /\ \A i \in DOMAIN ForEachAgent(op) : ForEachAgent(op)[i].op = op
BY ForEachAgentType DEF ForEachAgent, Job

\* Every step keeps the order of the stack.
LEMMA OrderStep ==
    ASSUME TypeOK, InOrder(work), Next
    PROVE  InOrder(work')
<1>0. work \in Seq(Jobs)
    BY DEF TypeOK, PortTypeOK
<1>1. work # <<>> /\ (Continue \/ Return) => InOrder(work')
    BY <1>0, ContinueKeeps, ReturnKeeps
<1>2. InOrder(<<>>)
    BY DEF InOrder
<1>3. ASSUME NEW a \in Agents, NEW w \in Seq(Jobs), InOrder(w),
             work' = <<Job("run_tx_sm", a), Job("run_rx_sm", a)>> \o w
      PROVE  InOrder(work')
    BY <1>3, AdminCallsDue
<1>4. work # <<>> => InOrder(Tail(work)) /\ Tail(work) \in Seq(Jobs)
    BY <1>0, OrderCons, StackType
<1>5. CASE port_enable
    <2> DEFINE s == ForEachAgent("run_agent")
    <2>1. s \in Seq(Jobs) /\ \A i \in DOMAIN s : s[i].op \in MachineOps
        BY ForEachAgentJobs DEF Ops, MachineOps
    <2>2. work # <<>> /\ work' = s \o Tail(work)
        BY <1>5 DEF port_enable, Calling, Call
    <2> HIDE DEF s
    <2>3. InOrder(s)
        BY <2>1, OrderSimple
    <2> QED
        BY <1>4, <2>1, <2>2, <2>3, OrderConcat
<1>6. ASSUME NEW a \in Agents, run_tx_sm(a) \/ run_tx_timers_sm(a)
      PROVE  InOrder(work')
    BY <1>1, <1>6
    DEF run_tx_sm, TxPass, Calling, txInitializeLLDP, process_tx_idle,
        process_tx_shutdown_frame, process_tx_info_frame, run_tx_sm_returns,
        run_tx_timers_sm, TimerPass, txInitializeTimers, TimerIdle,
        TimerExpires, TxTick, SignalTx, TxFastStart, run_tx_timers_sm_returns
<1>7. ASSUME NEW a \in Agents, run_rx_sm(a)
      PROVE  InOrder(work')
    <2>1. CASE process_rx_frame(a) /\ ~Continue
        <3> DEFINE again == <<[Head(work) EXCEPT !.entered = TRUE]>> \o Tail(work)
        <3>1. work # <<>> /\ work' = <<Job("run_tx_sm", a), Job("run_rx_sm", a)>> \o again
            BY <2>1
            DEF process_rx_frame, RxEnters, Calling, QazEnablesTx,
                set_lldp_agent_admin
        <3>2. again \in Seq(Jobs)
            BY <1>0, <3>1, StackType
        <3>3. InOrder(again)
            <4> DEFINE x == [Head(work) EXCEPT !.entered = TRUE]
            <4>1. Head(work) \in Jobs
                BY <1>0, <3>1, StackType
            <4>2. x \in Jobs /\ x.op = Head(work).op /\ x.agent = Head(work).agent
                BY <4>1 DEF Jobs
            <4>3. again = <<x>> \o Tail(work)
                OBVIOUS
            <4> HIDE DEF x, again
            <4>4. again # <<>> /\ Head(again) = x /\ Tail(again) = Tail(work)
                BY <1>4, <3>1, <4>2, <4>3
            <4>5. \A j \in DOMAIN Tail(work) : Before(Head(work), Tail(work)[j])
                BY <1>0, <3>1, OrderCons
            <4>6. \A j \in DOMAIN Tail(work) : Before(x, Tail(work)[j])
                BY <4>2, <4>5 DEF Before
            <4> QED
                BY <1>4, <3>1, <3>2, <4>4, <4>6, OrderCons
        <3> HIDE DEF again
        <3> QED
            BY <1>3, <3>1, <3>2, <3>3
    <2>2. CASE process_rx_frame(a) /\ Continue
        BY <1>1, <2>2 DEF process_rx_frame, RxEnters, Calling
    <2> QED
        BY <1>1, <1>7, <2>1, <2>2
        DEF run_rx_sm, RxPass, RxEnters, Calling, RxWaitPortOperational,
            process_delete_aged_info, process_rx_lldp_initialize,
            process_wait_for_frame, process_rx_frame_aborts,
            process_delete_info, process_update_info, run_rx_sm_returns
<1>8. ASSUME NEW a \in Agents, update_rx_timers(a) \/ lldp_mod_timer(a)
      PROVE  InOrder(work')
    BY <1>1, <1>8 DEF update_rx_timers, lldp_mod_timer, Calling
<1>9. ASSUME NEW a \in Agents, lldp_mod_ifup(a) \/ run_agent(a)
      PROVE  InOrder(work')
    <2>1. /\ work # <<>>
          /\ \/ Return
             \/ work' = <<Job("run_tx_sm", a), Job("run_rx_sm", a)>> \o Tail(work)
        BY <1>9 DEF lldp_mod_ifup, run_agent, Calling, Call, set_lldp_agent_admin
    <2> QED
        BY <1>1, <1>3, <1>4, <2>1
<1>10. ASSUME NEW a \in Agents, timer_agent(a)
       PROVE  InOrder(work')
    BY <1>10, TimerOrder
<1>11. CASE Step
    BY <1>5, <1>6, <1>7, <1>8, <1>9, <1>10, <1>11 DEF Step
<1>12. CASE timer \/ port_disable
    <2>1. ASSUME NEW op \in {"timer", "run_agent"}
          PROVE  InOrder(ForEachAgent(op))
        <3>1. op \in Ops
            BY DEF Ops
        <3>2. \A b : DueIn(ForEachAgent(op), {"run_rx_sm", "run_agent"}, b)
                        <=> op \in {"run_rx_sm", "run_agent"} /\ b \in Agents
            BY <3>1, DueForEach
        <3>3. /\ ForEachAgent(op) \in Seq(Jobs)
              /\ \A i \in DOMAIN ForEachAgent(op) : ForEachAgent(op)[i].op = op
            BY <3>1, ForEachAgentJobs
        <3> QED
            BY <3>2, <3>3, OrderSimple DEF MachineOps
    <2> QED
        BY <1>12, <2>1 DEF timer, port_disable
<1>13. CASE Receive
    <2>1. \A a \in Agents : InOrder(<<Job("run_rx_sm", a)>>)
        BY DEF InOrder
    <2> QED
        BY <1>13, <2>1 DEF Receive, rxReceiveFrame
<1>14. ASSUME NEW a \in Agents, NEW status \in AdminStatus,
              set_arg_adminstatus(a, status)
       PROVE  InOrder(work')
    <2>1. work' = <<Job("run_tx_sm", a), Job("run_rx_sm", a)>> \o <<>>
        BY <1>14 DEF set_arg_adminstatus, set_lldp_agent_admin
    <2>2. <<>> \in Seq(Jobs)
        OBVIOUS
    <2> QED
        BY <1>2, <1>3, <2>1, <2>2
<1>15. CASE oper_add_device \/ lldpad_reconfig
    <2>1. work' = BringUp
        BY <1>15 DEF oper_add_device, lldpad_reconfig
    <2>2. NULL \notin Agents
        BY PortAssumption
    <2>3. \A b : ~DueIn(BringUp, {"run_rx_sm", "run_agent"}, b)
        BY DueBringUp
    <2> QED
        BY <2>1, <2>3, BringUpType, OrderSimple
<1>16. ASSUME \/ \E a \in Agents : local_change(a)
              \/ remove_port
              \/ eloop_terminate
       PROVE  InOrder(work')
    BY <1>16 DEF local_change, remove_port, eloop_terminate
<1> QED
    BY <1>11, <1>12, <1>13, <1>14, <1>15, <1>16 DEF Next, Event
-----------------------------------------------------------------------------
(* The receive side                                                        *)

\* run_rx_sm() of the agent is due, at once or by the walk of
\* set_lldp_port_enable().
RxDue(a) == Due({"run_rx_sm", "run_agent"}, a)

\* The receive state machine has come to rest in the state that the port and
\* adminStatus ask for, or it is going to run.
RxSettled(a) ==
    \/ RxDue(a)
    \/ ~portEnabled /\ rxState[a] = "LLDP_WAIT_PORT_OPERATIONAL"
    \/ portEnabled /\ rxState[a] = "RX_LLDP_INITIALIZE" /\ ~RxAdmin(a)
    \/ /\ portEnabled /\ rxState[a] = "RX_WAIT_FOR_FRAME"
       /\ RxAdmin(a) /\ ~rcvFrame[a]

\* The states that run_rx_sm() only passes through.
RxPassing(a) ==
    rxState[a] \in {"RX_FRAME", "UPDATE_INFO", "DELETE_INFO", "DELETE_AGED_INFO"}

\* What each state of the receive state machine has made sure of.
RxStateKeeps(a) ==
    /\ RxPassing(a) => Due({"run_rx_sm"}, a)
    /\ rxState[a] \in {"RX_FRAME", "UPDATE_INFO", "DELETE_INFO"} => portEnabled
    /\ ~portEnabled /\ rxInfoAge[a] => rxState[a] = "LLDP_WAIT_PORT_OPERATIONAL"
    /\ rxState[a] = "RX_LLDP_INITIALIZE" =>
           ~HoldsNeighbour(a) /\ framein[a] = NULL /\ ~rcvFrame[a]
    /\ rxState[a] \in {"DELETE_INFO", "DELETE_AGED_INFO"} => ~HoldsNeighbour(a)
    /\ rxState[a] = "UPDATE_INFO" => rxTTL[a] > 0

\* The deadline of what is known of the neighbour, and the TTL that a
\* repeated frame restores.
Deadline(a) ==
    /\ /\ portEnabled \/ EnablePending
       /\ rxState[a] # "RX_FRAME"
       /\ HoldsNeighbour(a)
       => rxTTL[a] > 0 \/ rxInfoAge[a]
    /\ rxTTL[a] > 0 => lastrxTTL[a] > 0

RxInvOf(a) == RxSettled(a) /\ RxStateKeeps(a) /\ Deadline(a)

RxInv == InOrder(work) /\ \A a \in Agents : RxInvOf(a)

\* Steps that leave the receive side of agent a alone.  The port may be
\* enabled, and adminStatus may change, when run_rx_sm() is due then.
RxIdle(a) ==
    /\ rxState'[a] = rxState[a] /\ framein'[a] = framein[a]
    /\ rcvFrame'[a] = rcvFrame[a] /\ rxInfoAge'[a] = rxInfoAge[a]
    /\ rxTTL'[a] = rxTTL[a] /\ lastrxTTL'[a] = lastrxTTL[a]
    /\ mib'[a] = mib[a]
    /\ msap2'[a] \in {msap2[a], NULL}
    /\ Due({"run_rx_sm"}, a) => Due({"run_rx_sm"}, a)'
    /\ RxDue(a) => RxDue(a)'
    /\ EnablePending' => EnablePending \/ portEnabled
    /\ adminStatus'[a] = adminStatus[a] \/ RxDue(a)'
    /\ \/ portEnabled' = portEnabled
       \/ portEnabled' /\ EnablePending /\ RxDue(a)'

\* They keep the invariant.
LEMMA RxIdleStep ==
    ASSUME TypeOK, NEW a \in Agents, RxInvOf(a), RxIdle(a)
    PROVE  RxInvOf(a)'
<1>1. portEnabled \in BOOLEAN /\ portEnabled => portEnabled'
    BY DEF RxIdle
<1>2. HoldsNeighbour(a)' => HoldsNeighbour(a)
    BY DEF RxIdle, HoldsNeighbour
<1>3. RxSettled(a)'
    BY DEF RxInvOf, RxSettled, RxIdle, RxAdmin
<1>4. RxStateKeeps(a)'
    BY <1>1, <1>2 DEF RxInvOf, RxStateKeeps, RxPassing, RxIdle
<1>5. Deadline(a)'
    BY <1>1, <1>2 DEF RxInvOf, Deadline, RxIdle
<1> QED
    BY <1>3, <1>4, <1>5 DEF RxInvOf

\* The state that set_rx_state() selects, by the state it starts from.
LEMMA RxGoesFrom ==
    ASSUME TypeOK, NEW a \in Agents
    PROVE  /\ RxBase(a) \in RxStates
           /\ \/ ~rxInfoAge[a] /\ ~portEnabled
                 /\ RxBase(a) = "LLDP_WAIT_PORT_OPERATIONAL"
              \/ (rxInfoAge[a] \/ portEnabled) /\ RxBase(a) = rxState[a]
           /\ RxBase(a) = "LLDP_WAIT_PORT_OPERATIONAL" =>
                 RxGoes(a) = IF rxInfoAge[a] THEN "DELETE_AGED_INFO"
                             ELSE IF portEnabled THEN "RX_LLDP_INITIALIZE"
                             ELSE "LLDP_WAIT_PORT_OPERATIONAL"
           /\ RxBase(a) = "DELETE_AGED_INFO" =>
                 RxGoes(a) = "LLDP_WAIT_PORT_OPERATIONAL"
           /\ RxBase(a) = "RX_LLDP_INITIALIZE" =>
                 RxGoes(a) = IF RxAdmin(a) THEN "RX_WAIT_FOR_FRAME"
                             ELSE "RX_LLDP_INITIALIZE"
           /\ RxBase(a) = "RX_WAIT_FOR_FRAME" =>
                 RxGoes(a) = IF ~RxAdmin(a) THEN "RX_LLDP_INITIALIZE"
                             ELSE IF rxInfoAge[a] THEN "DELETE_INFO"
                             ELSE IF rcvFrame[a] THEN "RX_FRAME"
                             ELSE "RX_WAIT_FOR_FRAME"
           /\ RxBase(a) \in {"DELETE_INFO", "UPDATE_INFO"} =>
                 RxGoes(a) = "RX_WAIT_FOR_FRAME"
           /\ RxBase(a) = "RX_FRAME" =>
                 RxGoes(a) = IF rxTTL[a] = 0 THEN "DELETE_INFO"
                             ELSE IF rxChanges[a] THEN "UPDATE_INFO"
                             ELSE "RX_WAIT_FOR_FRAME"
<1>1. rxState[a] \in RxStates
    BY DEF TypeOK, RxTypeOK
<1>2. RxBase(a) \in RxStates
    BY <1>1 DEF RxBase, RxStates
<1>3. \/ ~rxInfoAge[a] /\ ~portEnabled
         /\ RxBase(a) = "LLDP_WAIT_PORT_OPERATIONAL"
      \/ (rxInfoAge[a] \/ portEnabled) /\ RxBase(a) = rxState[a]
    BY DEF RxBase
<1>4. RxBase(a) = "LLDP_WAIT_PORT_OPERATIONAL" =>
         RxGoes(a) = IF rxInfoAge[a] THEN "DELETE_AGED_INFO"
                     ELSE IF portEnabled THEN "RX_LLDP_INITIALIZE"
                     ELSE "LLDP_WAIT_PORT_OPERATIONAL"
    BY DEF RxGoes
<1>5. RxBase(a) = "DELETE_AGED_INFO" =>
         RxGoes(a) = "LLDP_WAIT_PORT_OPERATIONAL"
    BY DEF RxGoes
<1>6. RxBase(a) = "RX_LLDP_INITIALIZE" =>
         RxGoes(a) = IF RxAdmin(a) THEN "RX_WAIT_FOR_FRAME"
                     ELSE "RX_LLDP_INITIALIZE"
    BY DEF RxGoes
<1>7. RxBase(a) = "RX_WAIT_FOR_FRAME" =>
         RxGoes(a) = IF ~RxAdmin(a) THEN "RX_LLDP_INITIALIZE"
                     ELSE IF rxInfoAge[a] THEN "DELETE_INFO"
                     ELSE IF rcvFrame[a] THEN "RX_FRAME"
                     ELSE "RX_WAIT_FOR_FRAME"
    BY DEF RxGoes
<1>8. RxBase(a) \in {"DELETE_INFO", "UPDATE_INFO"} =>
         RxGoes(a) = "RX_WAIT_FOR_FRAME"
    BY DEF RxGoes
<1>9. RxBase(a) = "RX_FRAME" =>
         RxGoes(a) = IF rxTTL[a] = 0 THEN "DELETE_INFO"
                     ELSE IF rxChanges[a] THEN "UPDATE_INFO"
                     ELSE "RX_WAIT_FOR_FRAME"
    BY DEF RxGoes
<1> QED
    BY <1>2, <1>3, <1>4, <1>5, <1>6, <1>7, <1>8, <1>9

\* The call at the head of the stack is due.
LEMMA CallingDue ==
    ASSUME TypeOK, NEW op, NEW a, Calling(op, a)
    PROVE  /\ work \in Seq(Jobs) /\ work # <<>>
           /\ \A ops : op \in ops => Due(ops, a)
<1>1. work \in Seq(Jobs) /\ work # <<>> /\ Head(work).op = op /\ Head(work).agent = a
    BY DEF Calling, TypeOK, PortTypeOK
<1>2. ASSUME NEW ops, op \in ops PROVE Due(ops, a)
    BY <1>1, <1>2, DueCons DEF Due
<1> QED
    BY <1>1, <1>2

\* set_lldp_agent_admin() from within run_rx_sm(): the two state machines are
\* due, and run_rx_sm() goes on afterwards.
LEMMA QazCallsDue ==
    ASSUME TypeOK, NEW a \in Agents, NEW f, Calling("run_rx_sm", a),
           QazEnablesTx(a, f)
    PROVE  \A ops, c : Due(ops, c)' <=> \/ {"run_tx_sm", "run_rx_sm"} \cap ops # {} /\ c = a
                                        \/ Due(ops, c)
<1> DEFINE x == [Head(work) EXCEPT !.entered = TRUE]
           again == <<x>> \o Tail(work)
<1>1. /\ work \in Seq(Jobs) /\ work # <<>>
      /\ Head(work) \in Jobs /\ Tail(work) \in Seq(Jobs)
    BY CallingDue, StackType
<1>2. x \in Jobs /\ x.op = Head(work).op /\ x.agent = Head(work).agent
    BY <1>1 DEF Jobs
<1>3. work' = <<Job("run_tx_sm", a), Job("run_rx_sm", a)>> \o again
    BY DEF QazEnablesTx, set_lldp_agent_admin
<1> HIDE DEF x
<1>4. again \in Seq(Jobs)
    BY <1>1, <1>2
<1>5. ASSUME NEW ops, NEW c
      PROVE  DueIn(again, ops, c) <=> Due(ops, c)
    <2>1. DueIn(again, ops, c) <=> \/ x.op \in ops /\ x.agent = c
                                   \/ DueIn(Tail(work), ops, c)
        BY <1>1, <1>2, DuePush
    <2> QED
        BY <1>1, <1>2, <2>1, DueCons DEF Due
<1> HIDE DEF again
<1> QED
    BY <1>3, <1>4, <1>5, AdminCallsDue DEF Due

\* A pass of the loop of run_rx_sm() leaves run_rx_sm() due.
LEMMA RxPassDue ==
    ASSUME TypeOK, NEW a \in Agents, NEW s, RxPass(a, s)
    PROVE  /\ Due({"run_rx_sm"}, a)' /\ RxDue(a)'
           /\ rxState'[a] = s /\ RxGoes(a) = s
           /\ portEnabled' = portEnabled
           /\ (EnablePending' <=> EnablePending)
           /\ rxTTL' = rxTTL /\ lastrxTTL' = lastrxTTL
<1>1. Calling("run_rx_sm", a) /\ Continue
    BY DEF RxPass, RxEnters
<1>2. Due({"run_rx_sm"}, a) /\ RxDue(a) /\ work \in Seq(Jobs) /\ work # <<>>
    BY <1>1, CallingDue DEF RxDue
<1>3. Due({"run_rx_sm"}, a)' /\ RxDue(a)' /\ (EnablePending' <=> EnablePending)
    BY <1>1, <1>2, ContinueKeeps DEF RxDue, EnablePending
<1>4. rxState'[a] = s /\ RxGoes(a) = s
    BY DEF RxPass, RxEnters, TypeOK, RxTypeOK
<1> QED
    BY <1>3, <1>4 DEF RxPass, RxEnters, portVars, rxTimerVars

\* mibDeleteObjects() leaves no neighbour.
LEMMA DeleteForgets ==
    ASSUME TypeOK, NEW a \in Agents, mibDeleteObjects(a)
    PROVE  ~HoldsNeighbour(a)'
BY DEF mibDeleteObjects, HoldsNeighbour, TypeOK, RxTypeOK

\* A pass of the loop of run_rx_sm() other than RX_FRAME keeps the invariant.
LEMMA RxPassStep ==
    ASSUME TypeOK, NEW a \in Agents, RxInvOf(a),
           \/ RxWaitPortOperational(a)
           \/ process_delete_aged_info(a)
           \/ process_rx_lldp_initialize(a)
           \/ process_wait_for_frame(a)
           \/ process_delete_info(a)
           \/ process_update_info(a)
    PROVE  RxInvOf(a)'
<1> USE RxGoesFrom DEF RxInvOf, RxStateKeeps, Deadline, RxStates
<1>0. /\ portEnabled \in BOOLEAN /\ rxTTL[a] \in Nat
      /\ rxInfoAge \in [Agents -> BOOLEAN] /\ rcvFrame \in [Agents -> BOOLEAN]
      /\ framein \in [Agents -> Frames \cup {NULL}]
    <2>1. rxTTL[a] \in 0..MaxTTL
        BY DEF TypeOK, RxTypeOK
    <2> QED
        BY <2>1, ConstantsType DEF TypeOK, PortTypeOK, RxTypeOK
<1>1. CASE RxWaitPortOperational(a)
    <2>1. RxPass(a, "LLDP_WAIT_PORT_OPERATIONAL")
        BY <1>1 DEF RxWaitPortOperational
    <2>2. /\ HoldsNeighbour(a)' <=> HoldsNeighbour(a)
          /\ rxInfoAge' = rxInfoAge
        BY <1>1 DEF RxWaitPortOperational, HoldsNeighbour
    <2>3. \/ rxState[a] = "DELETE_AGED_INFO"
          \/ ~portEnabled /\ rxState[a] # "RX_FRAME"
        BY <2>1, RxPassDue
    <2> QED
        BY <2>1, <2>2, <2>3, RxPassDue DEF RxSettled, RxPassing
<1>2. CASE process_delete_aged_info(a)
    <2>1. RxPass(a, "DELETE_AGED_INFO") /\ ~HoldsNeighbour(a)'
        BY <1>2, DeleteForgets DEF process_delete_aged_info
    <2>2. ~rxInfoAge'[a]
        BY <1>0, <1>2 DEF process_delete_aged_info
    <2> QED
        BY <2>1, <2>2, RxPassDue DEF RxSettled, RxPassing
<1>3. CASE process_rx_lldp_initialize(a)
    <2>1. RxPass(a, "RX_LLDP_INITIALIZE") /\ ~HoldsNeighbour(a)'
        BY <1>3, DeleteForgets DEF process_rx_lldp_initialize
    <2>2. ~rxInfoAge'[a] /\ framein'[a] = NULL /\ ~rcvFrame'[a]
        BY <1>0, <1>3 DEF process_rx_lldp_initialize
    <2> QED
        BY <2>1, <2>2, RxPassDue DEF RxSettled, RxPassing
<1>4. CASE process_wait_for_frame(a)
    <2>1. RxPass(a, "RX_WAIT_FOR_FRAME")
        BY <1>4 DEF process_wait_for_frame
    <2>2. ~rxInfoAge'[a] /\ (HoldsNeighbour(a)' <=> HoldsNeighbour(a))
        BY <1>0, <1>4 DEF process_wait_for_frame, HoldsNeighbour
    <2>3. RxGoes(a) = "RX_WAIT_FOR_FRAME"
        BY <2>1, RxPassDue
    <2>4. /\ RxBase(a) = rxState[a]
          /\ rxState[a] # "RX_FRAME" /\ HoldsNeighbour(a) /\ portEnabled
                => rxTTL[a] > 0
          /\ rxState[a] = "RX_FRAME" => rxTTL[a] > 0
        BY <1>0, <2>3
    <2>5. EnablePending /\ ~portEnabled => ~HoldsNeighbour(a) \/ rxTTL[a] > 0
        BY <1>0, <2>3, <2>4
    <2> QED
        BY <2>1, <2>2, <2>4, <2>5, RxPassDue DEF RxSettled, RxPassing
<1>5. CASE process_delete_info(a)
    <2>1. RxPass(a, "DELETE_INFO") /\ ~HoldsNeighbour(a)'
        BY <1>5, DeleteForgets DEF process_delete_info
    <2>2. portEnabled
        BY <1>0, <2>1, RxPassDue
    <2> QED
        BY <2>1, <2>2, RxPassDue DEF RxSettled, RxPassing
<1>6. CASE process_update_info(a)
    <2>1. RxPass(a, "UPDATE_INFO")
        BY <1>6 DEF process_update_info
    <2>2. rxState[a] = "RX_FRAME" /\ rxTTL[a] > 0
        BY <1>0, <2>1, RxPassDue
    <2> QED
        BY <2>1, <2>2, RxPassDue DEF RxSettled, RxPassing
<1> QED
    BY <1>1, <1>2, <1>3, <1>4, <1>5, <1>6

\* Processing a frame keeps the invariant: the deadline may be missing until
\* the next pass of the loop only.
LEMMA RxFrameStep ==
    ASSUME TypeOK, NEW a \in Agents, RxInvOf(a),
           process_rx_frame(a) \/ process_rx_frame_aborts(a)
    PROVE  RxInvOf(a)'
<1>1. /\ Calling("run_rx_sm", a)
      /\ RxGoes(a) = "RX_FRAME" /\ rxState'[a] = "RX_FRAME"
      /\ portEnabled' = portEnabled
    BY DEF process_rx_frame, process_rx_frame_aborts, RxEnters, TypeOK,
           RxTypeOK, portVars
<1>2. portEnabled
    BY <1>1, RxGoesFrom DEF RxInvOf, RxStateKeeps, RxStates
<1>3. /\ Due({"run_rx_sm"}, a) /\ RxDue(a)
      /\ work \in Seq(Jobs) /\ work # <<>>
    BY <1>1, CallingDue DEF RxDue
<1>4. Due({"run_rx_sm"}, a)' /\ RxDue(a)'
    <2>1. CASE Continue \/ work' = work
        BY <1>3, <2>1, ContinueKeeps DEF RxDue, Due
    <2>2. CASE QazEnablesTx(a, framein[a])
        <3> DEFINE again == <<[Head(work) EXCEPT !.entered = TRUE]>> \o Tail(work)
        <3>1. again \in Seq(Jobs)
            BY <1>3, StackType
        <3>2. work' = <<Job("run_tx_sm", a), Job("run_rx_sm", a)>> \o again
            BY <2>2 DEF QazEnablesTx, set_lldp_agent_admin
        <3> HIDE DEF again
        <3>3. \A ops : "run_rx_sm" \in ops => DueIn(work', ops, a)
            BY <3>1, <3>2, AdminCallsDue
        <3> QED
            BY <3>3 DEF RxDue, Due
    <2> QED
        BY <2>1, <2>2 DEF process_rx_frame, process_rx_frame_aborts
<1>5. rxTTL'[a] > 0 => lastrxTTL'[a] > 0
    <2>1. UNCHANGED <<rxTTL, lastrxTTL>> \/ rxTTL'[a] = lastrxTTL'[a]
        <3>1. CASE process_rx_frame(a)
            <4>1. StoreTTL(a, framein[a])
                BY <3>1 DEF process_rx_frame, rxProcessFrame
            <4>2. \/ UNCHANGED <<rxTTL, lastrxTTL>>
                  \/ \E t : /\ rxTTL' = [rxTTL EXCEPT ![a] = t]
                            /\ lastrxTTL' = [lastrxTTL EXCEPT ![a] = t]
                BY <4>1, Zenon DEF StoreTTL, rxTimerVars
            <4> QED
                BY <4>2 DEF TypeOK, RxTypeOK
        <3>2. CASE process_rx_frame_aborts(a)
            BY <3>2 DEF process_rx_frame_aborts, rxTimerVars
        <3> QED
            BY <3>1, <3>2
    <2> QED
        BY <2>1 DEF RxInvOf, Deadline
<1> QED
    BY <1>1, <1>2, <1>4, <1>5
    DEF RxInvOf, RxSettled, RxStateKeeps, RxPassing, Deadline

\* When run_rx_sm() returns the agent is settled.
LEMMA RxReturnStep ==
    ASSUME TypeOK, NEW a \in Agents, RxInvOf(a), run_rx_sm_returns(a)
    PROVE  RxInvOf(a)'
<1>1. /\ Calling("run_rx_sm", a) /\ Return
      /\ RxGoes(a) = RxBase(a) /\ rxState'[a] = RxBase(a)
      /\ UNCHANGED <<portEnabled, adminStatus, msap2, framein, rcvFrame,
                     rxInfoAge, rxTTL, lastrxTTL, mib>>
    BY DEF run_rx_sm_returns, TypeOK, RxTypeOK, portVars, agentVars, rxTimerVars
<1>2. work \in Seq(Jobs) /\ work # <<>>
    BY <1>1, CallingDue
<1>3. EnablePending' => EnablePending
    BY <1>1, <1>2, ReturnKeeps DEF EnablePending
<1>4. HoldsNeighbour(a)' <=> HoldsNeighbour(a)
    BY <1>1 DEF HoldsNeighbour
<1>5. \/ ~portEnabled /\ RxBase(a) = "LLDP_WAIT_PORT_OPERATIONAL" /\ ~rxInfoAge[a]
      \/ /\ RxBase(a) = "RX_LLDP_INITIALIZE" /\ ~RxAdmin(a)
         /\ rxState[a] = "RX_LLDP_INITIALIZE" /\ portEnabled
      \/ /\ RxBase(a) = "RX_WAIT_FOR_FRAME" /\ RxAdmin(a)
         /\ rxState[a] = "RX_WAIT_FOR_FRAME" /\ portEnabled
         /\ ~rcvFrame[a]
    BY <1>1, RxGoesFrom DEF RxStates, RxInvOf, RxStateKeeps
<1>6. ~portEnabled => rxState[a] # "RX_FRAME"
    BY DEF RxInvOf, RxStateKeeps
<1> QED
    BY <1>1, <1>3, <1>4, <1>5, <1>6
    DEF RxInvOf, RxSettled, RxStateKeeps, RxPassing, Deadline, RxAdmin

\* Nothing is due while the event loop waits.
LEMMA NothingDue ==
    ASSUME Dispatch
    PROVE  \A ops, a : ~Due(ops, a)
BY DueNone DEF Dispatch, AtRest, Due

\* The receive side of one agent is no business of another.
LEMMA RxOthers ==
    ASSUME TypeOK, NEW a \in Agents, NEW b \in Agents, a # b,
           run_rx_sm(a) \/ update_rx_timers(a)
    PROVE  RxIdle(b)
<1> DEFINE same == /\ rxState'[b] = rxState[b] /\ framein'[b] = framein[b]
                   /\ rcvFrame'[b] = rcvFrame[b] /\ rxInfoAge'[b] = rxInfoAge[b]
                   /\ rxTTL'[b] = rxTTL[b] /\ lastrxTTL'[b] = lastrxTTL[b]
                   /\ mib'[b] = mib[b] /\ msap2'[b] = msap2[b]
                   /\ adminStatus'[b] = adminStatus[b]
                   /\ portEnabled' = portEnabled
           calls == /\ Due({"run_rx_sm"}, b) => Due({"run_rx_sm"}, b)'
                    /\ RxDue(b) => RxDue(b)'
                    /\ EnablePending' => EnablePending
<1>1. \E op : Calling(op, a)
    BY DEF run_rx_sm, RxPass, RxEnters, RxWaitPortOperational,
           process_delete_aged_info, process_rx_lldp_initialize,
           process_wait_for_frame, process_rx_frame, process_rx_frame_aborts,
           process_delete_info, process_update_info, run_rx_sm_returns,
           update_rx_timers
<1>2. /\ work \in Seq(Jobs) /\ work # <<>> /\ Head(work).agent = a
    BY <1>1 DEF Calling, TypeOK, PortTypeOK
<1>3. Continue \/ Return => calls
    BY <1>2, ContinueKeeps, ReturnKeeps DEF RxDue, EnablePending, Calling
<1>4. work' = work => calls
    BY DEF RxDue, EnablePending, Due
<1> HIDE DEF calls
<1> USE DEF TypeOK, PortTypeOK, RxTypeOK, portVars, rxTimerVars, agentVars
<1>5. CASE process_rx_frame(a)
    <2>1. same
        <3>1. /\ RxEnters(a, "RX_FRAME") /\ rxProcessFrame(a, framein[a])
              /\ rcvFrame' = [rcvFrame EXCEPT ![a] = FALSE]
              /\ UNCHANGED <<framein, rxInfoAge>>
            BY <1>5 DEF process_rx_frame
        <3>2. mib'[b] = mib[b]
            <4>1. \E new : mib' = [mib EXCEPT ![a] = @ \cup new]
                BY <3>1 DEF rxProcessFrame, StoreOptional
            <4> QED
                BY <4>1
        <3>3. rxTTL'[b] = rxTTL[b] /\ lastrxTTL'[b] = lastrxTTL[b]
            <4>1. \/ UNCHANGED <<rxTTL, lastrxTTL>>
                  \/ \E t : /\ rxTTL' = [rxTTL EXCEPT ![a] = t]
                            /\ lastrxTTL' = [lastrxTTL EXCEPT ![a] = t]
                BY <3>1, Zenon DEF rxProcessFrame, StoreTTL, rxTimerVars
            <4> QED
                BY <4>1
        <3>4. adminStatus'[b] = adminStatus[b]
            BY <1>5 DEF process_rx_frame, QazEnablesTx, set_lldp_agent_admin
        <3>5. msap2'[b] = msap2[b]
            BY <3>1 DEF rxProcessFrame, StoreMsap
        <3> QED
            BY <3>1, <3>2, <3>3, <3>4, <3>5 DEF RxEnters
    <2>2. calls
        <3>1. CASE Continue
            BY <1>3, <3>1
        <3>2. CASE QazEnablesTx(a, framein[a])
            <4>1. Calling("run_rx_sm", a)
                BY <1>5 DEF process_rx_frame, RxEnters
            <4>2. \A ops, c : Due(ops, c)' <=> \/ {"run_tx_sm", "run_rx_sm"} \cap ops # {} /\ c = a
                                              \/ Due(ops, c)
                BY <3>2, <4>1, QazCallsDue
            <4>3. {"run_tx_sm", "run_rx_sm"} \cap {"set_lldp_port_enable"} = {}
                OBVIOUS
            <4> QED
                BY <4>2, <4>3 DEF calls, RxDue, EnablePending
        <3> QED
            BY <1>5, <3>1, <3>2 DEF process_rx_frame
    <2> QED
        BY <2>1, <2>2 DEF calls, RxIdle
<1>6. CASE process_rx_frame_aborts(a)
    <2>1. same /\ calls
        BY <1>4, <1>6 DEF process_rx_frame_aborts, RxEnters
    <2> QED
        BY <2>1 DEF calls, RxIdle
<1>7. CASE run_rx_sm(a) /\ ~process_rx_frame(a) /\ ~process_rx_frame_aborts(a)
    <2>1. Continue \/ Return
        BY <1>7
        DEF run_rx_sm, RxPass, RxWaitPortOperational, process_delete_aged_info,
            process_rx_lldp_initialize, process_wait_for_frame,
            process_delete_info, process_update_info, run_rx_sm_returns
    <2>2. same
        BY <1>7
        DEF run_rx_sm, RxPass, RxEnters, RxWaitPortOperational,
            process_delete_aged_info, process_rx_lldp_initialize,
            process_wait_for_frame, process_delete_info, process_update_info,
            run_rx_sm_returns, mibDeleteObjects
    <2> QED
        BY <1>3, <2>1, <2>2 DEF calls, RxIdle
<1>8. CASE update_rx_timers(a)
    <2>1. same
        BY <1>8 DEF update_rx_timers
    <2> QED
        BY <1>3, <1>8, <2>1 DEF update_rx_timers, calls, RxIdle
<1> QED
    BY <1>5, <1>6, <1>7, <1>8

\* The timers of an agent run when its state machines are settled.
LEMMA RxTimersStep ==
    ASSUME TypeOK, NEW a \in Agents, InOrder(work), RxInvOf(a),
           update_rx_timers(a)
    PROVE  RxInvOf(a)'
<1>1. /\ Calling("update_rx_timers", a) /\ Return
      /\ work \in Seq(Jobs) /\ work # <<>>
      /\ Head(work).op = "update_rx_timers" /\ Head(work).agent = a
    BY CallingDue DEF update_rx_timers, Calling
<1>2. ~Due({"run_rx_sm"}, a) /\ ~RxDue(a)
    <2>1. \A j \in DOMAIN Tail(work) : Before(Head(work), Tail(work)[j])
        BY <1>1, OrderCons
    <2>2. ASSUME NEW ops \in SUBSET {"run_rx_sm", "run_agent"}
          PROVE  ~Due(ops, a)
        <3>1. ~DueIn(Tail(work), ops, a)
            BY <1>1, <2>1 DEF DueIn, Before, MachineOps
        <3>2. "update_rx_timers" \notin ops
            OBVIOUS
        <3> QED
            BY <1>1, <3>1, <3>2, DueCons DEF Due
    <2> QED
        BY <2>2 DEF RxDue
<1>3. /\ rxTTL[a] \in Nat
      /\ rxTTL'[a] = IF rxTTL[a] > 0 THEN rxTTL[a] - 1 ELSE 0
      /\ rxInfoAge'[a] = (rxInfoAge[a] \/ rxTTL[a] = 1)
      /\ UNCHANGED <<portEnabled, adminStatus, msap2, rxState, framein,
                     rcvFrame, lastrxTTL, mib>>
    <2>1. rxTTL[a] \in 0..MaxTTL
        BY DEF TypeOK, RxTypeOK
    <2> QED
        BY <2>1, ConstantsType
        DEF update_rx_timers, Expires, TypeOK, RxTypeOK, portVars, agentVars
<1>4. EnablePending' => EnablePending
    BY <1>1, ReturnKeeps DEF EnablePending
<1>5. HoldsNeighbour(a)' <=> HoldsNeighbour(a)
    BY <1>3 DEF HoldsNeighbour
<1>6. rxInfoAge'[a] <=> rxInfoAge[a] \/ rxTTL[a] = 1
    BY <1>3, Zenon
<1>7. rxTTL[a] > 0 \/ rxInfoAge[a] => rxTTL'[a] > 0 \/ rxInfoAge'[a]
    BY <1>3, <1>6
<1>8. RxSettled(a)'
    BY <1>2, <1>3 DEF RxInvOf, RxSettled, RxAdmin
<1>9. ~RxPassing(a)
    BY <1>2 DEF RxInvOf, RxStateKeeps
<1>10. RxStateKeeps(a)'
    BY <1>2, <1>3, <1>5, <1>6, <1>9
    DEF RxInvOf, RxSettled, RxStateKeeps, RxPassing
<1>11. Deadline(a)'
    BY <1>2, <1>3, <1>4, <1>5, <1>7, <1>9 DEF RxInvOf, Deadline, RxPassing
<1> QED
    BY <1>8, <1>10, <1>11 DEF RxInvOf

\* A frame finds the agents settled.
LEMMA RxReceiveStep ==
    ASSUME TypeOK, \A c \in Agents : RxInvOf(c),
           NEW a \in Agents, NEW f \in Frames, rxReceiveFrame(a, f),
           NEW b \in Agents
    PROVE  RxInvOf(b)'
<1>1. /\ \A ops, c : ~Due(ops, c)
      /\ ~EnablePending /\ ~RxDue(b)
    BY NothingDue DEF rxReceiveFrame, EnablePending, RxDue
<1>2. /\ UNCHANGED <<portEnabled, adminStatus, msap2, rxState, rxInfoAge,
                     lastrxTTL, mib>>
      /\ HoldsNeighbour(b)' <=> HoldsNeighbour(b)
    BY DEF rxReceiveFrame, portVars, agentVars, HoldsNeighbour
<1>3. CASE framein[a] = f /\ work' = work
    <2>1. rcvFrame' = rcvFrame /\ framein' = framein
        BY <1>3, RxAssumption DEF rxReceiveFrame
    <2>2. rxTTL' = [rxTTL EXCEPT ![a] = lastrxTTL[a]]
        BY <1>3 DEF rxReceiveFrame
    <2>3. rxTTL'[b] = rxTTL[b] \/ rxTTL'[b] = lastrxTTL[b]
        BY <2>2 DEF TypeOK, RxTypeOK
    <2>4. ~EnablePending' /\ ~RxDue(b)' /\ ~Due({"run_rx_sm"}, b)'
        BY <1>1, <1>3 DEF EnablePending, RxDue, Due
    <2>5. ~RxPassing(b)
        BY <1>1 DEF RxInvOf, RxStateKeeps
    <2> QED
        BY <1>1, <1>2, <2>1, <2>3, <2>4, <2>5
        DEF RxInvOf, RxSettled, RxStateKeeps, RxPassing, Deadline, RxAdmin
<1>4. CASE framein[a] # f
    <2>1. /\ RxAdmin(a)
          /\ framein' = [framein EXCEPT ![a] = f]
          /\ rcvFrame' = [rcvFrame EXCEPT ![a] = TRUE]
          /\ rxTTL' = rxTTL
          /\ work' = <<Job("run_rx_sm", a)>>
        BY <1>4 DEF rxReceiveFrame
    <2>2. /\ Due({"run_rx_sm"}, a)' /\ RxDue(a)'
          /\ ~EnablePending'
        <3>1. /\ DOMAIN work' = {1} /\ work'[1].op = "run_rx_sm"
              /\ work'[1].agent = a
            BY <2>1 DEF Job
        <3> QED
            BY <3>1 DEF RxDue, EnablePending, Due, DueIn
    <2>3. ~RxPassing(b)
        BY <1>1 DEF RxInvOf, RxStateKeeps
    <2>4. CASE b = a
        <3>1. rxState[a] # "RX_LLDP_INITIALIZE"
            BY <1>1, <2>1, <2>4 DEF RxInvOf, RxSettled
        <3> QED
            BY <1>1, <1>2, <2>1, <2>2, <2>3, <2>4, <3>1
            DEF RxInvOf, RxSettled, RxStateKeeps, RxPassing, Deadline
    <2>5. CASE b # a
        <3>1. framein'[b] = framein[b] /\ rcvFrame'[b] = rcvFrame[b]
            BY <2>1, <2>5 DEF TypeOK, RxTypeOK
        <3> QED
            BY <1>1, <1>2, <2>1, <2>2, <2>3, <3>1
            DEF RxInvOf, RxSettled, RxStateKeeps, RxPassing, Deadline, RxAdmin
    <2> QED
        BY <2>4, <2>5
<1>5. framein[a] = f /\ work' # work => FALSE
    BY DEF rxReceiveFrame
<1> QED
    BY <1>3, <1>4, <1>5

\* Initialised agents of a port that is down are settled.
LEMMA RxResetStep ==
    ASSUME TypeOK, NEW a \in Agents, RxInvOf(a), AgentsReinit, ~portEnabled',
           \/ UNCHANGED <<rxTTL, lastrxTTL>>
           \/ rxTTL' = [c \in Agents |-> 0] /\ lastrxTTL' = [c \in Agents |-> 0]
    PROVE  RxInvOf(a)'
<1>1. /\ rxState'[a] = "LLDP_WAIT_PORT_OPERATIONAL" /\ framein'[a] = NULL
      /\ ~rcvFrame'[a] /\ ~rxInfoAge'[a] /\ mib'[a] = {} /\ msap2'[a] = NULL
    BY DEF AgentsReinit, RxReinit
<1>2. ~HoldsNeighbour(a)'
    BY <1>1 DEF HoldsNeighbour
<1>3. rxTTL'[a] > 0 => lastrxTTL'[a] > 0
    BY DEF RxInvOf, Deadline
<1> QED
    BY <1>1, <1>2, <1>3
    DEF RxInvOf, RxSettled, RxStateKeeps, RxPassing, Deadline

\* When the link goes down run_rx_sm() is due for every agent.
LEMMA RxDisableStep ==
    ASSUME TypeOK, NEW a \in Agents, RxInvOf(a), port_disable
    PROVE  RxInvOf(a)'
<1>1. /\ ~portEnabled' /\ rxInfoAge' = [c \in Agents |-> FALSE]
      /\ work' = ForEachAgent("run_agent")
      /\ UNCHANGED <<msap2, rxState, framein, rcvFrame, rxTTL, lastrxTTL, mib>>
    BY DEF port_disable, agentVars, rxTimerVars
<1>2. RxDue(a)' /\ ~EnablePending'
    <2>1. \A ops, c : DueIn(ForEachAgent("run_agent"), ops, c)
                        <=> "run_agent" \in ops /\ c \in Agents
        BY DueForEach DEF Ops
    <2> QED
        BY <1>1, <2>1 DEF RxDue, EnablePending, Due
<1>3. ~RxPassing(a)
    BY NothingDue DEF port_disable, RxInvOf, RxStateKeeps
<1>4. HoldsNeighbour(a)' <=> HoldsNeighbour(a)
    BY <1>1 DEF HoldsNeighbour
<1> QED
    BY <1>1, <1>2, <1>3, <1>4
    DEF RxInvOf, RxSettled, RxStateKeeps, RxPassing, Deadline

\* The calls that leave the receive side alone.
LEMMA RxIdleCalls ==
    ASSUME TypeOK, NEW b \in Agents,
           \/ port_enable
           \/ \E a \in Agents : \/ timer_agent(a)
                                \/ run_tx_timers_sm(a) /\ UNCHANGED rxVars
                                \/ run_tx_sm(a) /\ UNCHANGED rxVars
                                \/ lldp_mod_timer(a)
                                \/ lldp_mod_ifup(a)
                                \/ run_agent(a)
    PROVE  RxIdle(b)
<1>1. ASSUME UNCHANGED rxVars, msap2'[b] \in {msap2[b], NULL},
             Due({"run_rx_sm"}, b) => Due({"run_rx_sm"}, b)',
             RxDue(b) => RxDue(b)',
             EnablePending' => EnablePending \/ portEnabled,
             adminStatus'[b] = adminStatus[b] \/ RxDue(b)',
             \/ portEnabled' = portEnabled
             \/ portEnabled' /\ EnablePending /\ RxDue(b)'
      PROVE  RxIdle(b)
    BY <1>1 DEF RxIdle, rxVars, rxTimerVars
<1>2. ASSUME NEW op, NEW a, Calling(op, a), op \notin {"run_rx_sm", "run_agent"},
             Continue \/ Return
      PROVE  /\ Due({"run_rx_sm"}, b) => Due({"run_rx_sm"}, b)'
             /\ RxDue(b) => RxDue(b)'
             /\ EnablePending' => EnablePending
    <2>1. /\ work \in Seq(Jobs) /\ work # <<>>
          /\ Head(work).op \notin {"run_rx_sm", "run_agent"}
        BY <1>2, CallingDue DEF Calling
    <2> QED
        BY <1>2, <2>1, ContinueKeeps, ReturnKeeps DEF RxDue, EnablePending
<1>3. CASE port_enable
    <2> DEFINE s == ForEachAgent("run_agent")
    <2>1. /\ Calling("set_lldp_port_enable", NULL) /\ Call(s) /\ portEnabled'
          /\ UNCHANGED <<agentVars, rxVars>>
        BY <1>3 DEF port_enable
    <2>2. /\ s \in Seq(Jobs)
          /\ \A ops, c : DueIn(s, ops, c) <=> "run_agent" \in ops /\ c \in Agents
        BY ForEachAgentType, DueForEach DEF Ops
    <2> HIDE DEF s
    <2>3. /\ work \in Seq(Jobs) /\ work # <<>> /\ EnablePending
          /\ Head(work).op = "set_lldp_port_enable"
        BY <2>1, CallingDue DEF EnablePending, Calling
    <2>4. /\ Due({"run_rx_sm"}, b) => Due({"run_rx_sm"}, b)'
          /\ RxDue(b)'
        BY <2>1, <2>2, <2>3, CallKeeps DEF RxDue
    <2> QED
        BY <1>1, <2>1, <2>3, <2>4 DEF agentVars
<1>4. ASSUME NEW a \in Agents, timer_agent(a)
      PROVE  RxIdle(b)
    <2> DEFINE s == <<Job("run_tx_timers_sm", a), Job("run_tx_sm", a),
                      Job("run_rx_sm", a), Job("update_rx_timers", a),
                      Job("lldp_mod_timer", a)>>
    <2>1. /\ Calling("timer", a) /\ Call(s)
          /\ UNCHANGED <<portVars, agentVars, rxVars>>
        BY <1>4 DEF timer_agent
    <2>2. \A op \in Ops : Job(op, a) \in Jobs
        BY JobIsJob
    <2>3. /\ s \in Seq(Jobs) /\ DOMAIN s = 1..5
          /\ \A i \in 1..5 : s[i].op # "set_lldp_port_enable"
        BY <2>2 DEF Ops, Job
    <2> HIDE DEF s
    <2>4. ~DueIn(s, {"set_lldp_port_enable"}, NULL)
        BY <2>3 DEF DueIn
    <2>5. work \in Seq(Jobs) /\ work # <<>> /\ Head(work).op = "timer"
        BY <2>1, CallingDue DEF Calling
    <2>6. \A ops, c : DueIn(Tail(work), ops, c) => Due(ops, c)
        BY <2>5, DueCons DEF Due
    <2>7. /\ Due({"run_rx_sm"}, b) => Due({"run_rx_sm"}, b)'
          /\ RxDue(b) => RxDue(b)'
          /\ EnablePending' => EnablePending
        BY <2>1, <2>3, <2>4, <2>5, <2>6, CallKeeps DEF RxDue, EnablePending
    <2> QED
        BY <1>1, <2>1, <2>7 DEF portVars, agentVars
<1>5. ASSUME NEW a \in Agents,
             (run_tx_timers_sm(a) \/ run_tx_sm(a)) /\ UNCHANGED rxVars
      PROVE  RxIdle(b)
    <2>1. /\ \E op \in {"run_tx_timers_sm", "run_tx_sm"} : Calling(op, a)
          /\ Continue \/ Return
        BY <1>5
        DEF run_tx_sm, TxPass, txInitializeLLDP, process_tx_idle,
            process_tx_shutdown_frame, process_tx_info_frame,
            run_tx_sm_returns, run_tx_timers_sm, TimerPass,
            txInitializeTimers, TimerIdle, TimerExpires, TxTick, SignalTx,
            TxFastStart, run_tx_timers_sm_returns
    <2>2. /\ msap2' = msap2 \/ msap2' = [msap2 EXCEPT ![a] = NULL]
          /\ UNCHANGED <<portEnabled, adminStatus>>
        BY <1>5
        DEF run_tx_sm, TxPass, txInitializeLLDP, process_tx_idle,
            process_tx_shutdown_frame, process_tx_info_frame,
            run_tx_sm_returns, run_tx_timers_sm, TimerPass,
            txInitializeTimers, TimerIdle, TimerExpires, TxTick, SignalTx,
            TxFastStart, run_tx_timers_sm_returns, portVars, agentVars
    <2>3. msap2'[b] \in {msap2[b], NULL}
        BY <2>2 DEF TypeOK, RxTypeOK
    <2> QED
        BY <1>1, <1>2, <1>5, <2>1, <2>2, <2>3
<1>6. ASSUME NEW a \in Agents, lldp_mod_timer(a)
      PROVE  RxIdle(b)
    <2>1. /\ Calling("lldp_mod_timer", a) /\ Return
          /\ UNCHANGED <<portEnabled, adminStatus, msap2, rxVars>>
        BY <1>6 DEF lldp_mod_timer, portVars
    <2> QED
        BY <1>1, <1>2, <2>1
<1>7. ASSUME NEW a \in Agents, NEW op \in {"lldp_mod_ifup", "run_agent"},
             Calling(op, a), UNCHANGED <<portEnabled, msap2, rxVars>>,
             Call(<<Job("run_tx_sm", a), Job("run_rx_sm", a)>>),
             \A c \in Agents : c # a => adminStatus'[c] = adminStatus[c]
      PROVE  RxIdle(b)
    <2>1. /\ work \in Seq(Jobs) /\ work # <<>>
          /\ Head(work).op = op /\ Head(work).agent = a
          /\ Tail(work) \in Seq(Jobs)
        BY <1>7, CallingDue, StackType DEF Calling
    <2>2. \A ops, c : Due(ops, c)' <=> \/ {"run_tx_sm", "run_rx_sm"} \cap ops # {} /\ c = a
                                      \/ DueIn(Tail(work), ops, c)
        BY <1>7, <2>1, AdminCallsDue DEF Call, Due
    <2>3. \A ops, c : Due(ops, c) <=> \/ op \in ops /\ a = c
                                     \/ DueIn(Tail(work), ops, c)
        BY <2>1, DueCons DEF Due
    <2>4. RxDue(a)' /\ Due({"run_rx_sm"}, a)'
        BY <2>2 DEF RxDue
    <2>5. CASE b = a
        BY <1>1, <1>7, <2>2, <2>3, <2>4, <2>5 DEF RxDue, EnablePending
    <2>6. CASE b # a
        BY <1>1, <1>7, <2>2, <2>3, <2>6 DEF RxDue, EnablePending
    <2> QED
        BY <2>5, <2>6
<1>8. ASSUME NEW a \in Agents, lldp_mod_ifup(a)
      PROVE  RxIdle(b)
    <2>1. /\ Calling("lldp_mod_ifup", a)
          /\ UNCHANGED <<portEnabled, msap2, rxVars>>
        BY <1>8 DEF lldp_mod_ifup, portVars
    <2>2. CASE Return /\ UNCHANGED adminStatus
        BY <1>1, <1>2, <2>1, <2>2
    <2>3. ASSUME NEW status, set_lldp_agent_admin(a, status, Tail(work))
          PROVE  RxIdle(b)
        <3>1. Call(<<Job("run_tx_sm", a), Job("run_rx_sm", a)>>)
            BY <2>3 DEF set_lldp_agent_admin, Call
        <3>2. \A c \in Agents : c # a => adminStatus'[c] = adminStatus[c]
            BY <2>3 DEF set_lldp_agent_admin, TypeOK, PortTypeOK
        <3> QED
            BY <1>7, <2>1, <3>1, <3>2
    <2> QED
        BY <1>8, <2>2, <2>3 DEF lldp_mod_ifup
<1>9. ASSUME NEW a \in Agents, run_agent(a)
      PROVE  RxIdle(b)
    <2>1. /\ Calling("run_agent", a)
          /\ Call(<<Job("run_tx_sm", a), Job("run_rx_sm", a)>>)
          /\ UNCHANGED <<portEnabled, adminStatus, msap2, rxVars>>
        BY <1>9 DEF run_agent, portVars, agentVars
    <2> QED
        BY <1>7, <2>1
<1> QED
    BY <1>3, <1>4, <1>5, <1>6, <1>8, <1>9

\* The events that leave the receive side alone.
LEMMA RxIdleEvents ==
    ASSUME TypeOK, NEW b \in Agents,
           \/ timer
           \/ \E a \in Agents : local_change(a)
           \/ \E a \in Agents, status \in AdminStatus : set_arg_adminstatus(a, status)
           \/ oper_add_device /\ portEnabled /\ UNCHANGED <<portVars, agentVars, rxVars>>
           \/ eloop_terminate
    PROVE  RxIdle(b)
<1>1. \A ops, c : ~Due(ops, c)
    BY NothingDue
    DEF timer, local_change, set_arg_adminstatus, oper_add_device,
        eloop_terminate
<1>2. UNCHANGED <<rxVars, portEnabled, msap2>>
    BY DEF timer, local_change, set_arg_adminstatus, eloop_terminate, portVars,
           agentVars
<1>3. ASSUME EnablePending' => EnablePending \/ portEnabled,
             adminStatus'[b] = adminStatus[b] \/ RxDue(b)'
      PROVE  RxIdle(b)
    BY <1>1, <1>2, <1>3 DEF RxIdle, RxDue, rxVars, rxTimerVars
<1>4. CASE timer
    <2>1. \A ops, c : DueIn(ForEachAgent("timer"), ops, c)
                        <=> "timer" \in ops /\ c \in Agents
        BY DueForEach DEF Ops
    <2>2. ~EnablePending' /\ adminStatus' = adminStatus
        BY <1>4, <2>1 DEF timer, agentVars, EnablePending, Due
    <2> QED
        BY <1>3, <2>2
<1>5. ASSUME \/ \E a \in Agents : local_change(a)
             \/ eloop_terminate
      PROVE  RxIdle(b)
    <2>1. work' = work /\ adminStatus' = adminStatus
        BY <1>5 DEF local_change, eloop_terminate, agentVars
    <2>2. ~EnablePending'
        BY <1>1, <2>1 DEF EnablePending, Due
    <2> QED
        BY <1>3, <2>1, <2>2
<1>6. ASSUME NEW a \in Agents, NEW status \in AdminStatus,
             set_arg_adminstatus(a, status)
      PROVE  RxIdle(b)
    <2>1. /\ work' = <<Job("run_tx_sm", a), Job("run_rx_sm", a)>> \o <<>>
          /\ adminStatus' = [adminStatus EXCEPT ![a] = status]
        BY <1>6 DEF set_arg_adminstatus, set_lldp_agent_admin
    <2>2. <<>> \in Seq(Jobs)
        OBVIOUS
    <2>3. \A ops, c : Due(ops, c)' <=> {"run_tx_sm", "run_rx_sm"} \cap ops # {} /\ c = a
        BY <2>1, <2>2, AdminCallsDue, DueNone DEF Due
    <2>4. ~EnablePending' /\ RxDue(a)'
        BY <2>3 DEF EnablePending, RxDue
    <2>5. b = a \/ adminStatus'[b] = adminStatus[b]
        BY <2>1 DEF TypeOK, PortTypeOK
    <2> QED
        BY <1>3, <2>4, <2>5
<1>7. CASE oper_add_device /\ portEnabled /\ UNCHANGED <<portVars, agentVars, rxVars>>
    BY <1>3, <1>7 DEF agentVars
<1> QED
    BY <1>4, <1>5, <1>6, <1>7

\* Every step keeps the receive side of every agent in order.
LEMMA RxStep ==
    ASSUME TypeOK, RxInv, Next, NEW b \in Agents
    PROVE  RxInvOf(b)'
<1>0. InOrder(work) /\ \A a \in Agents : RxInvOf(a)
    BY DEF RxInv
<1>1. RxIdle(b) => RxInvOf(b)'
    BY <1>0, RxIdleStep
<1>2. ASSUME NEW a \in Agents, run_rx_sm(a) \/ update_rx_timers(a)
      PROVE  RxInvOf(b)'
    <2>1. CASE a = b
        BY <1>0, <1>2, <2>1, RxPassStep, RxFrameStep, RxReturnStep, RxTimersStep
        DEF run_rx_sm
    <2>2. CASE a # b
        BY <1>1, <1>2, <2>2, RxOthers
    <2> QED
        BY <2>1, <2>2
<1>3. CASE Step
    BY <1>1, <1>2, <1>3, RxIdleCalls DEF Step
<1>4. CASE Receive
    BY <1>0, <1>4, RxReceiveStep DEF Receive
<1>5. CASE oper_add_device
    <2>1. CASE CreateAgents \/ reinit_port
        <3>1. /\ AgentsReinit /\ ~portEnabled'
              /\ \/ UNCHANGED <<rxTTL, lastrxTTL>>
                 \/ /\ rxTTL' = [c \in Agents |-> 0]
                    /\ lastrxTTL' = [c \in Agents |-> 0]
            BY <2>1 DEF CreateAgents, reinit_port, rxTimerVars
        <3> QED
            BY <1>0, <3>1, RxResetStep
    <2>2. CASE portEnabled /\ UNCHANGED <<portVars, agentVars, rxVars>>
        BY <1>1, <1>5, <2>2, RxIdleEvents
    <2> QED
        BY <1>5, <2>1, <2>2 DEF oper_add_device
<1>6. CASE lldpad_reconfig \/ remove_port
    <2>1. /\ AgentsReinit /\ ~portEnabled'
          /\ rxTTL' = [c \in Agents |-> 0] /\ lastrxTTL' = [c \in Agents |-> 0]
        BY <1>6 DEF lldpad_reconfig, remove_port, CreateAgents
    <2> QED
        BY <1>0, <2>1, RxResetStep
<1>7. CASE port_disable
    BY <1>0, <1>7, RxDisableStep
<1> QED
    BY <1>1, <1>3, <1>4, <1>5, <1>6, <1>7, RxIdleEvents DEF Next, Event

\* The daemon starts without ports.
LEMMA RxInvInit == Init => RxInv
<1> SUFFICES ASSUME Init PROVE RxInv
    OBVIOUS
<1>1. InOrder(work) /\ \A ops, c : ~Due(ops, c)
    BY DueNone DEF Init, PortInit, InOrder, Due
<1>2. ASSUME NEW a \in Agents PROVE RxInvOf(a)
    BY <1>1
    DEF Init, PortInit, RxInit, RxInvOf, RxSettled, RxStateKeeps, RxPassing,
        Deadline, EnablePending, HoldsNeighbour
<1> QED
    BY <1>1, <1>2 DEF RxInv

\* The invariant of the receive side holds in every reachable state.
LEMMA RxInvariant == Spec => []RxInv
<1>1. TypeOK /\ RxInv /\ [Next]_vars => (TypeOK /\ RxInv)'
    <2> SUFFICES ASSUME TypeOK, RxInv, [Next]_vars PROVE RxInv'
        BY TypeStep
    <2>1. CASE Next
        BY <2>1, OrderStep, RxStep DEF RxInv
    <2>2. CASE UNCHANGED vars
        BY <2>2
        DEF vars, portVars, agentVars, rxVars, rxTimerVars, RxInv, RxInvOf,
            RxSettled, RxStateKeeps, RxPassing, Deadline, RxDue, Due,
            EnablePending, HoldsNeighbour, RxAdmin
    <2> QED
        BY <2>1, <2>2
<1> QED
    BY <1>1, InitType, RxInvInit, PTL DEF Spec

\* An agent on an enabled port whose reception is off holds no neighbour and
\* no frame when the event loop waits, with whatever frame, expiry or nested
\* call of run_rx_sm() it was switched off (set_lldp_agent_admin, run_rx_sm).
THEOREM ReceiveOffIsEmpty == Spec => []ReceiveOffHoldsNothing
<1>1. RxInv => ReceiveOffHoldsNothing
    <2> SUFFICES ASSUME RxInv, AtRest, portEnabled, NEW a \in Agents, ~RxAdmin(a)
                 PROVE  ~HoldsNeighbour(a) /\ framein[a] = NULL /\ ~rcvFrame[a]
        BY DEF ReceiveOffHoldsNothing
    <2>1. ~RxDue(a)
        BY DueNone DEF AtRest, RxDue, Due
    <2>2. rxState[a] = "RX_LLDP_INITIALIZE"
        BY <2>1 DEF RxInv, RxInvOf, RxSettled
    <2> QED
        BY <2>2 DEF RxInv, RxInvOf, RxStateKeeps
<1> QED
    BY <1>1, RxInvariant, PTL

\* What an agent on an enabled port knows of a neighbour never loses its
\* deadline, whatever frames, re-initialisations and administrative changes
\* it goes through: rxTTL is counting down, or rxInfoAge is set
\* (rxProcessFrame, update_rx_timers, process_wait_for_frame).
THEOREM NeighboursHaveDeadlines == Spec => []NeighbourHasDeadline
<1>1. RxInv => NeighbourHasDeadline
    <2> SUFFICES ASSUME RxInv, AtRest, portEnabled, NEW a \in Agents,
                        HoldsNeighbour(a)
                 PROVE  rxTTL[a] > 0 \/ rxInfoAge[a]
        BY DEF NeighbourHasDeadline
    <2>1. ~Due({"run_rx_sm"}, a)
        BY DueNone DEF AtRest, Due
    <2>2. rxState[a] # "RX_FRAME"
        BY <2>1 DEF RxInv, RxInvOf, RxStateKeeps, RxPassing
    <2> QED
        BY <2>2 DEF RxInv, RxInvOf, Deadline
<1> QED
    BY <1>1, RxInvariant, PTL
-----------------------------------------------------------------------------
(* The transmit side                                                       *)

\* run_tx_sm() of the agent is due, at once or by the walk of
\* set_lldp_port_enable().
TxDue(a) == Due({"run_tx_sm", "run_agent"}, a)

\* The transmit state machine has come to rest, with nothing it could send,
\* or it is going to run.
TxSettled(a) ==
    \/ TxDue(a)
    \/ txState[a] \in {"TX_LLDP_INITIALIZE", "TX_SHUTDOWN_FRAME"}
    \/ txState[a] = "TX_IDLE" /\ TxAdmin(a) /\ ~TxMaySend(a)

\* On a port that is down, an agent that did not see it go down in
\* set_tx_state() has no request, or no credit, to send with.
NothingToSend(a) ==
    ~portEnabled /\ txState[a] \in {"TX_IDLE", "TX_INFO_FRAME"} => ~TxMaySend(a)

\* run_tx_timers_sm() makes requests only where run_tx_sm() follows.
RequestIsSeen(a) == Timing(a) => TxDue(a)

SendInvOf(a) == TxSettled(a) /\ NothingToSend(a) /\ RequestIsSeen(a)

SendInv == \A a \in Agents : SendInvOf(a)

\* Steps that leave the transmit side of agent a alone.  The port may be
\* enabled, and adminStatus may change when run_tx_sm() is due then.
TxIdle(a) ==
    /\ txState'[a] = txState[a] /\ txNow'[a] = txNow[a]
    /\ txCredit'[a] = txCredit[a]
    /\ TxDue(a) => TxDue(a)'
    /\ adminStatus'[a] = adminStatus[a] \/ TxDue(a)'
    /\ portEnabled' = portEnabled \/ portEnabled'
    /\ Timing(a)' => Timing(a) \/ TxDue(a)'

\* They keep the invariant.
LEMMA TxIdleStep ==
    ASSUME TypeOK, NEW a \in Agents, SendInvOf(a), TxIdle(a)
    PROVE  SendInvOf(a)'
<1>1. TxMaySend(a)' <=> TxMaySend(a)
    BY DEF TxIdle, TxMaySend
<1>2. TxSettled(a)'
    BY <1>1 DEF SendInvOf, TxSettled, TxIdle, TxAdmin
<1>3. NothingToSend(a)'
    BY <1>1 DEF SendInvOf, NothingToSend, TxIdle
<1>4. RequestIsSeen(a)'
    BY DEF SendInvOf, RequestIsSeen, TxIdle
<1> QED
    BY <1>2, <1>3, <1>4 DEF SendInvOf

\* The state that set_tx_state() selects, by the state it starts from.
LEMMA TxGoesFrom ==
    ASSUME TypeOK, NEW a \in Agents
    PROVE  /\ TxBase(a) \in TxStates
           /\ \/ PortFell /\ TxBase(a) = "TX_LLDP_INITIALIZE"
              \/ ~PortFell /\ TxBase(a) = txState[a]
           /\ TxBase(a) = "TX_LLDP_INITIALIZE" =>
                 TxGoes(a) = IF portEnabled /\ TxAdmin(a) THEN "TX_IDLE"
                             ELSE "TX_LLDP_INITIALIZE"
           /\ TxBase(a) = "TX_IDLE" =>
                 TxGoes(a) = IF ~TxAdmin(a) THEN "TX_SHUTDOWN_FRAME"
                             ELSE IF TxMaySend(a) THEN "TX_INFO_FRAME"
                             ELSE "TX_IDLE"
           /\ TxBase(a) = "TX_SHUTDOWN_FRAME" =>
                 TxGoes(a) = IF txShutdownWhile[a] = 0 THEN "TX_LLDP_INITIALIZE"
                             ELSE "TX_SHUTDOWN_FRAME"
           /\ TxBase(a) = "TX_INFO_FRAME" => TxGoes(a) = "TX_IDLE"
<1>1. txState[a] \in TxStates
    BY DEF TypeOK, TxTypeOK
<1>2. TxBase(a) \in TxStates
    BY <1>1 DEF TxBase, TxStates
<1>3. \/ PortFell /\ TxBase(a) = "TX_LLDP_INITIALIZE"
      \/ ~PortFell /\ TxBase(a) = txState[a]
    BY DEF TxBase
<1>4. TxBase(a) = "TX_LLDP_INITIALIZE" =>
         TxGoes(a) = IF portEnabled /\ TxAdmin(a) THEN "TX_IDLE"
                     ELSE "TX_LLDP_INITIALIZE"
    BY DEF TxGoes
<1>5. TxBase(a) = "TX_IDLE" =>
         TxGoes(a) = IF ~TxAdmin(a) THEN "TX_SHUTDOWN_FRAME"
                     ELSE IF TxMaySend(a) THEN "TX_INFO_FRAME"
                     ELSE "TX_IDLE"
    BY DEF TxGoes
<1>6. TxBase(a) = "TX_SHUTDOWN_FRAME" =>
         TxGoes(a) = IF txShutdownWhile[a] = 0 THEN "TX_LLDP_INITIALIZE"
                     ELSE "TX_SHUTDOWN_FRAME"
    BY DEF TxGoes
<1>7. TxBase(a) = "TX_INFO_FRAME" => TxGoes(a) = "TX_IDLE"
    BY DEF TxGoes
<1> QED
    BY <1>2, <1>3, <1>4, <1>5, <1>6, <1>7

\* What every step of run_tx_sm() has in common.
LEMMA TxMachine ==
    ASSUME TypeOK, NEW a \in Agents, run_tx_sm(a)
    PROVE  /\ Calling("run_tx_sm", a) /\ (Continue \/ Return)
           /\ UNCHANGED <<running, present, portEnabled, adminStatus>>
           /\ txState'[a] = TxGoes(a)
           /\ \A b \in Agents : b # a => txState'[b] = txState[b]
           /\ Return /\ ~Continue => run_tx_sm_returns(a)
           /\ run_tx_sm_returns(a) => TxGoes(a) = TxBase(a)
BY DEF run_tx_sm, TxPass, txInitializeLLDP, process_tx_idle,
       process_tx_shutdown_frame, process_tx_info_frame, run_tx_sm_returns,
       agentVars, TypeOK, TxTypeOK

\* An LLDPDU is built on an enabled port, by an agent that may transmit.
LEMMA SendsEnabled ==
    ASSUME TypeOK, NEW a \in Agents, SendInvOf(a), process_tx_info_frame(a)
    PROVE  portEnabled /\ TxAdmin(a)
<1>1. TxGoes(a) = "TX_INFO_FRAME"
    BY DEF process_tx_info_frame, TxPass
<1>2. txState[a] = "TX_IDLE" /\ TxAdmin(a) /\ TxMaySend(a)
    BY <1>1, TxGoesFrom DEF TxStates
<1> QED
    BY <1>2 DEF SendInvOf, NothingToSend, TypeOK, PortTypeOK

\* A step of run_tx_sm() of the agent itself keeps the invariant.
LEMMA TxMachineStep ==
    ASSUME TypeOK, StackShape, Next, NEW a \in Agents, SendInvOf(a), run_tx_sm(a)
    PROVE  SendInvOf(a)'
<1>1. /\ work \in Seq(Jobs) /\ work # <<>> /\ TxDue(a)
      /\ Head(work).op = "run_tx_sm" /\ UNCHANGED <<portEnabled, adminStatus>>
      /\ txState'[a] = TxGoes(a)
    BY TxMachine, CallingDue DEF TxDue, Calling
<1>2. ~Timing(a)'
    BY <1>1, TimingFrom DEF Timing, timer_agent, Calling
<1>3. TxMaySend(a)' => TxMaySend(a) /\ ~process_tx_info_frame(a)
    BY DEF run_tx_sm, txInitializeLLDP, process_tx_idle,
           process_tx_shutdown_frame, process_tx_info_frame,
           run_tx_sm_returns, TxMaySend, TypeOK, TxTypeOK
<1>4. NothingToSend(a)'
    <2> SUFFICES ASSUME ~portEnabled, TxGoes(a) \in {"TX_IDLE", "TX_INFO_FRAME"}
                 PROVE  ~TxMaySend(a)
        BY <1>1, <1>3 DEF NothingToSend
    <2>1. TxBase(a) = txState[a] /\ txState[a] \in {"TX_IDLE", "TX_INFO_FRAME"}
        BY TxGoesFrom DEF TxStates
    <2> QED
        BY <2>1 DEF SendInvOf, NothingToSend
<1>5. CASE Continue
    <2>1. TxDue(a)'
        BY <1>1, <1>5, ContinueKeeps DEF TxDue
    <2> QED
        BY <1>2, <1>4, <2>1 DEF SendInvOf, TxSettled, RequestIsSeen
<1>6. CASE ~Continue
    <2>1. /\ TxGoes(a) = TxBase(a) /\ run_tx_sm_returns(a)
        BY <1>6, TxMachine
    <2>2. TxMaySend(a)' <=> TxMaySend(a)
        BY <2>1 DEF run_tx_sm_returns, TxMaySend
    <2>3. TxSettled(a)'
        BY <1>1, <2>1, <2>2, TxGoesFrom DEF TxSettled, TxStates, TxAdmin
    <2> QED
        BY <1>2, <1>4, <2>3 DEF SendInvOf, RequestIsSeen
<1> QED
    BY <1>5, <1>6

\* What every step of run_tx_timers_sm() has in common.
LEMMA TimerMachine ==
    ASSUME TypeOK, NEW a \in Agents, run_tx_timers_sm(a)
    PROVE  /\ Calling("run_tx_timers_sm", a) /\ (Continue \/ Return)
           /\ UNCHANGED <<running, portVars, adminStatus, txState, wire>>
           /\ ~portEnabled => txNow' = txNow \/ txNow' = [txNow EXCEPT ![a] = FALSE]
           /\ ~portEnabled => txCredit' = txCredit \/ txNow' = [txNow EXCEPT ![a] = FALSE]
           /\ \A b \in Agents : b # a => /\ txNow'[b] = txNow[b]
                                        /\ txCredit'[b] = txCredit[b]
           /\ \A b \in Agents : txShutdownWhile'[b] \in {txShutdownWhile[b], 0}
<1>1. ~portEnabled => TimerGoes(a) = "TX_TIMER_INITIALIZE"
    BY DEF TimerBase, TimerGoes
<1>2. ~portEnabled => txInitializeTimers(a) \/ run_tx_timers_sm_returns(a)
    BY <1>1
    DEF run_tx_timers_sm, TimerPass, txInitializeTimers, TimerIdle,
        TimerExpires, TxTick, SignalTx, TxFastStart, run_tx_timers_sm_returns
<1>3. ~portEnabled => txNow' = txNow \/ txNow' = [txNow EXCEPT ![a] = FALSE]
    BY <1>2 DEF txInitializeTimers, run_tx_timers_sm_returns
<1>4. ~portEnabled => txCredit' = txCredit \/ txNow' = [txNow EXCEPT ![a] = FALSE]
    BY <1>2 DEF txInitializeTimers, run_tx_timers_sm_returns
<1>5. /\ Calling("run_tx_timers_sm", a) /\ (Continue \/ Return)
      /\ UNCHANGED <<running, portVars, adminStatus, txState, wire>>
    BY DEF run_tx_timers_sm, TimerPass, txInitializeTimers, TimerIdle,
        TimerExpires, TxTick, SignalTx, TxFastStart, run_tx_timers_sm_returns,
        portVars, agentVars
<1>6. \A b \in Agents : b # a => /\ txNow'[b] = txNow[b]
                               /\ txCredit'[b] = txCredit[b]
    BY DEF run_tx_timers_sm, TimerPass, txInitializeTimers, TimerIdle,
        TimerExpires, TxTick, SignalTx, TxFastStart, run_tx_timers_sm_returns,
        TypeOK, TxTypeOK
<1>7. \A b \in Agents : txShutdownWhile'[b] \in {txShutdownWhile[b], 0}
    BY DEF run_tx_timers_sm, TimerPass, txInitializeTimers, TimerIdle,
        TimerExpires, TxTick, SignalTx, TxFastStart, run_tx_timers_sm_returns,
        TypeOK, TxTypeOK
<1> QED
    BY <1>3, <1>4, <1>5, <1>6, <1>7

\* A step of run_tx_timers_sm() keeps the invariant: run_tx_sm() is due.
LEMMA TimerMachineStep ==
    ASSUME TypeOK, NEW a \in Agents, SendInvOf(a), run_tx_timers_sm(a)
    PROVE  SendInvOf(a)'
<1>1. /\ work \in Seq(Jobs) /\ work # <<>>
      /\ Head(work).op = "run_tx_timers_sm" /\ Head(work).agent = a
      /\ Continue \/ Return
      /\ UNCHANGED <<portEnabled, adminStatus, txState>>
    BY TimerMachine, CallingDue DEF Calling, portVars
<1>2. TxDue(a)
    BY <1>1 DEF SendInvOf, RequestIsSeen, Timing
<1>3. TxDue(a)'
    BY <1>1, <1>2, ContinueKeeps, ReturnKeeps DEF TxDue
<1>4. ~portEnabled => (TxMaySend(a)' => TxMaySend(a))
    BY TimerMachine DEF TxMaySend, TypeOK, TxTypeOK
<1> QED
    BY <1>1, <1>3, <1>4
    DEF SendInvOf, TxSettled, NothingToSend, RequestIsSeen

\* The calls of a handler that leave the transmit side of agent b alone.
LEMMA TxIdleCalls ==
    ASSUME TypeOK, StackShape, Next, NEW b \in Agents,
           \/ port_enable
           \/ \E a \in Agents :
                \/ timer_agent(a)
                \/ run_tx_timers_sm(a) /\ a # b
                \/ run_tx_sm(a) /\ a # b
                \/ run_rx_sm(a) /\ UNCHANGED txVars
                \/ update_rx_timers(a) /\ UNCHANGED txVars
                \/ lldp_mod_timer(a)
                \/ lldp_mod_ifup(a)
                \/ run_agent(a)
    PROVE  TxIdle(b)
<1>1. ASSUME txState'[b] = txState[b], txNow'[b] = txNow[b],
             txCredit'[b] = txCredit[b],
             TxDue(b) => TxDue(b)',
             adminStatus'[b] = adminStatus[b] \/ TxDue(b)',
             portEnabled' = portEnabled \/ portEnabled',
             timer_agent(b) => TxDue(b)'
      PROVE  TxIdle(b)
    BY <1>1, TimingFrom DEF TxIdle
<1>2. ASSUME NEW op, NEW a, Calling(op, a),
             op \notin {"run_tx_sm", "run_agent"} \/ a # b,
             Continue \/ Return \/ work' = work
      PROVE  TxDue(b) => TxDue(b)'
    <2>1. /\ work \in Seq(Jobs) /\ work # <<>>
          /\ Head(work).op \notin {"run_tx_sm", "run_agent"} \/ Head(work).agent # b
        BY <1>2, CallingDue DEF Calling
    <2> QED
        BY <1>2, <2>1, ContinueKeeps, ReturnKeeps DEF TxDue, Due
<1>3. ASSUME UNCHANGED <<txState, txNow, txCredit>>, ~timer_agent(b),
             UNCHANGED portEnabled, TxDue(b) => TxDue(b)',
             adminStatus'[b] = adminStatus[b] \/ TxDue(b)'
      PROVE  TxIdle(b)
    BY <1>1, <1>3
<1>4. CASE port_enable
    <2> DEFINE s == ForEachAgent("run_agent")
    <2>1. /\ Calling("set_lldp_port_enable", NULL) /\ Call(s) /\ portEnabled'
          /\ UNCHANGED <<agentVars, txVars>>
        BY <1>4 DEF port_enable
    <2>2. /\ s \in Seq(Jobs)
          /\ \A ops, c : DueIn(s, ops, c) <=> "run_agent" \in ops /\ c \in Agents
        BY ForEachAgentType, DueForEach DEF Ops
    <2> HIDE DEF s
    <2>3. work \in Seq(Jobs) /\ work # <<>>
        BY <2>1, CallingDue
    <2>4. TxDue(b)'
        BY <2>1, <2>2, <2>3, CallKeeps DEF TxDue
    <2> QED
        BY <1>1, <2>1, <2>4 DEF agentVars, txVars
<1>5. ASSUME NEW a \in Agents, timer_agent(a)
      PROVE  TxIdle(b)
    <2> DEFINE s == <<Job("run_tx_timers_sm", a), Job("run_tx_sm", a),
                      Job("run_rx_sm", a), Job("update_rx_timers", a),
                      Job("lldp_mod_timer", a)>>
    <2>1. /\ Calling("timer", a) /\ Call(s)
          /\ UNCHANGED <<portVars, agentVars, txState, txNow, txCredit>>
        BY <1>5 DEF timer_agent
    <2>2. \A op \in Ops : Job(op, a) \in Jobs
        BY JobIsJob
    <2>3. s \in Seq(Jobs) /\ 2 \in DOMAIN s /\ s[2].op = "run_tx_sm" /\ s[2].agent = a
        BY <2>2 DEF Ops, Job
    <2> HIDE DEF s
    <2>4. DueIn(s, {"run_tx_sm", "run_agent"}, a)
        BY <2>3 DEF DueIn
    <2>5. work \in Seq(Jobs) /\ work # <<>> /\ Head(work).op = "timer"
        BY <2>1, CallingDue DEF Calling
    <2>6. TxDue(b) => TxDue(b)'
        BY <2>1, <2>3, <2>5, CallKeeps DEF TxDue
    <2>7. TxDue(a)'
        BY <2>1, <2>3, <2>4, <2>5, CallKeeps DEF TxDue
    <2>8. timer_agent(b) => b = a
        BY <2>1 DEF timer_agent, Calling
    <2> QED
        BY <1>1, <2>1, <2>6, <2>7, <2>8 DEF portVars, agentVars
<1>6. ASSUME NEW a \in Agents, run_tx_timers_sm(a), a # b
      PROVE  TxIdle(b)
    <2>1. /\ Calling("run_tx_timers_sm", a) /\ (Continue \/ Return)
          /\ UNCHANGED <<portVars, adminStatus, txState>>
          /\ txNow'[b] = txNow[b] /\ txCredit'[b] = txCredit[b]
        BY <1>6, TimerMachine
    <2>2. ~timer_agent(b)
        BY <2>1 DEF timer_agent, Calling
    <2> QED
        BY <1>1, <1>2, <1>6, <2>1, <2>2 DEF portVars
<1>7. ASSUME NEW a \in Agents, run_tx_sm(a), a # b
      PROVE  TxIdle(b)
    <2>1. /\ Calling("run_tx_sm", a) /\ (Continue \/ Return)
          /\ UNCHANGED <<portEnabled, adminStatus>> /\ txState'[b] = txState[b]
        BY <1>7, TxMachine
    <2>2. txNow'[b] = txNow[b] /\ txCredit'[b] = txCredit[b]
        BY <1>7
        DEF run_tx_sm, txInitializeLLDP, process_tx_idle,
            process_tx_shutdown_frame, process_tx_info_frame,
            run_tx_sm_returns, TypeOK, TxTypeOK
    <2>3. ~timer_agent(b)
        BY <2>1 DEF timer_agent, Calling
    <2> QED
        BY <1>1, <1>2, <1>7, <2>1, <2>2, <2>3
<1>8. ASSUME NEW a \in Agents, run_rx_sm(a), UNCHANGED txVars
      PROVE  TxIdle(b)
    <2>1. /\ Calling("run_rx_sm", a) /\ UNCHANGED portEnabled
          /\ \/ /\ Continue \/ Return \/ work' = work
                /\ UNCHANGED adminStatus
             \/ QazEnablesTx(a, framein[a])
        BY <1>8
        DEF run_rx_sm, RxPass, RxEnters, RxWaitPortOperational,
            process_delete_aged_info, process_rx_lldp_initialize,
            process_wait_for_frame, process_rx_frame,
            process_rx_frame_aborts, process_delete_info,
            process_update_info, run_rx_sm_returns, portVars, agentVars
    <2>2. ~timer_agent(b)
        BY <2>1 DEF timer_agent, Calling
    <2>3. CASE (Continue \/ Return \/ work' = work) /\ UNCHANGED adminStatus
        BY <1>2, <1>3, <1>8, <2>1, <2>2, <2>3 DEF txVars
    <2>4. CASE QazEnablesTx(a, framein[a])
        <3>1. TxDue(b)' <=> b = a \/ TxDue(b)
            BY <2>1, <2>4, QazCallsDue DEF TxDue
        <3>2. b = a \/ adminStatus'[b] = adminStatus[b]
            BY <2>4 DEF QazEnablesTx, set_lldp_agent_admin, TypeOK, PortTypeOK
        <3> QED
            BY <1>3, <1>8, <2>1, <2>2, <3>1, <3>2 DEF txVars
    <2> QED
        BY <2>1, <2>3, <2>4
<1>9. ASSUME NEW a \in Agents,
             (update_rx_timers(a) /\ UNCHANGED txVars) \/ lldp_mod_timer(a)
      PROVE  TxIdle(b)
    <2>1. /\ \E op \in {"update_rx_timers", "lldp_mod_timer"} : Calling(op, a)
          /\ Return /\ UNCHANGED <<portVars, adminStatus, txVars>>
        BY <1>9 DEF update_rx_timers, lldp_mod_timer, agentVars
    <2>2. ~timer_agent(b)
        BY <2>1 DEF timer_agent, Calling
    <2> QED
        BY <1>2, <1>3, <2>1, <2>2 DEF txVars, portVars
<1>10. ASSUME NEW a \in Agents, lldp_mod_ifup(a) \/ run_agent(a)
       PROVE  TxIdle(b)
    <2>1. /\ \E op \in {"lldp_mod_ifup", "run_agent"} : Calling(op, a)
          /\ UNCHANGED <<portEnabled, txState, txNow, txCredit>>
          /\ \/ /\ Calling("lldp_mod_ifup", a) /\ Return
                /\ UNCHANGED adminStatus
             \/ /\ Call(<<Job("run_tx_sm", a), Job("run_rx_sm", a)>>)
                /\ \A c \in Agents : c # a => adminStatus'[c] = adminStatus[c]
        BY <1>10
        DEF lldp_mod_ifup, run_agent, set_lldp_agent_admin, Call, TypeOK,
            PortTypeOK, portVars, agentVars, txVars
    <2>2. ~timer_agent(b)
        BY <2>1 DEF timer_agent, Calling
    <2>3. CASE Calling("lldp_mod_ifup", a) /\ Return /\ UNCHANGED adminStatus
        BY <1>2, <1>3, <2>1, <2>2, <2>3
    <2>4. CASE /\ Call(<<Job("run_tx_sm", a), Job("run_rx_sm", a)>>)
               /\ \A c \in Agents : c # a => adminStatus'[c] = adminStatus[c]
        <3>1. /\ work \in Seq(Jobs) /\ work # <<>> /\ Tail(work) \in Seq(Jobs)
              /\ Head(work).agent = a
            BY <2>1, CallingDue, StackType DEF Calling
        <3>2. TxDue(b)' <=> b = a \/ DueIn(Tail(work), {"run_tx_sm", "run_agent"}, b)
            BY <2>4, <3>1, AdminCallsDue DEF Call, TxDue, Due
        <3>3. TxDue(b) => b = a \/ DueIn(Tail(work), {"run_tx_sm", "run_agent"}, b)
            BY <3>1, DueCons DEF TxDue, Due
        <3> QED
            BY <1>3, <2>1, <2>2, <2>4, <3>2, <3>3
    <2> QED
        BY <2>1, <2>3, <2>4
<1> QED
    BY <1>4, <1>5, <1>6, <1>7, <1>8, <1>9, <1>10

\* The events find the transmit side of every agent settled.
LEMMA TxEventStep ==
    ASSUME TypeOK, StackShape, Next, Event, NEW b \in Agents, SendInvOf(b)
    PROVE  SendInvOf(b)'
<1>1. Dispatch
    BY DEF Event, timer, Receive, rxReceiveFrame, local_change,
           set_arg_adminstatus, oper_add_device, port_disable, remove_port,
           lldpad_reconfig, eloop_terminate
<1>2. (\A ops, c : ~Due(ops, c)) /\ ~TxDue(b) /\ ~Timing(b)
    BY <1>1, NothingDue DEF TxDue, Timing, Dispatch, AtRest
<1>3. ~Timing(b)'
    BY <1>1, <1>2, TimingFrom DEF timer_agent, Calling, Dispatch, AtRest
<1>4. ASSUME UNCHANGED <<txState, txNow, txCredit, portEnabled>>,
             adminStatus'[b] = adminStatus[b] \/ TxDue(b)'
      PROVE  SendInvOf(b)'
    BY <1>2, <1>3, <1>4, TxIdleStep DEF TxIdle
<1>5. ASSUME timer \/ Receive \/ (\E a \in Agents : local_change(a)) \/ eloop_terminate
      PROVE  SendInvOf(b)'
    <2>1. UNCHANGED <<txState, txNow, txCredit, portEnabled, adminStatus>>
        BY <1>5
        DEF timer, Receive, rxReceiveFrame, local_change, eloop_terminate,
            portVars, agentVars, txVars
    <2> QED
        BY <1>4, <2>1
<1>6. ASSUME NEW a \in Agents, NEW status \in AdminStatus,
             set_arg_adminstatus(a, status)
      PROVE  SendInvOf(b)'
    <2>1. /\ work' = <<Job("run_tx_sm", a), Job("run_rx_sm", a)>> \o <<>>
          /\ adminStatus' = [adminStatus EXCEPT ![a] = status]
          /\ UNCHANGED <<txState, txNow, txCredit, portEnabled>>
        BY <1>6 DEF set_arg_adminstatus, set_lldp_agent_admin, portVars, txVars
    <2>2. <<>> \in Seq(Jobs)
        OBVIOUS
    <2>3. TxDue(a)'
        BY <2>1, <2>2, AdminCallsDue DEF TxDue, Due
    <2>4. b = a \/ adminStatus'[b] = adminStatus[b]
        BY <2>1 DEF TypeOK, PortTypeOK
    <2> QED
        BY <1>4, <2>1, <2>3, <2>4
<1>7. ASSUME AgentsReinit
      PROVE  SendInvOf(b)'
    <2>1. txState'[b] = "TX_LLDP_INITIALIZE"
        BY <1>7 DEF AgentsReinit, TxReinit
    <2> QED
        BY <1>3, <2>1 DEF SendInvOf, TxSettled, NothingToSend, RequestIsSeen
<1>8. CASE oper_add_device
    <2>1. CASE CreateAgents \/ reinit_port
        BY <1>7, <2>1 DEF CreateAgents, reinit_port
    <2>2. CASE UNCHANGED <<portVars, agentVars, txState, txCredit, txNow>>
        BY <1>4, <2>2 DEF portVars, agentVars
    <2> QED
        BY <1>8, <2>1, <2>2 DEF oper_add_device
<1>9. CASE remove_port \/ lldpad_reconfig
    BY <1>7, <1>9 DEF remove_port, lldpad_reconfig, CreateAgents
<1>10. CASE port_disable
    <2>1. /\ UNCHANGED <<txState, txNow, txCredit, adminStatus>>
          /\ work' = ForEachAgent("run_agent")
        BY <1>10 DEF port_disable, agentVars
    <2>2. TxDue(b)'
        <3>1. DueIn(ForEachAgent("run_agent"), {"run_tx_sm", "run_agent"}, b)
            BY DueForEach DEF Ops
        <3> QED
            BY <2>1, <3>1 DEF TxDue, Due
    <2>3. txState[b] \in {"TX_IDLE", "TX_INFO_FRAME"} => ~TxMaySend(b)
        BY <1>2 DEF SendInvOf, TxSettled
    <2>4. TxMaySend(b)' <=> TxMaySend(b)
        BY <2>1 DEF TxMaySend
    <2> QED
        BY <1>3, <2>1, <2>2, <2>3, <2>4
        DEF SendInvOf, TxSettled, NothingToSend, RequestIsSeen
<1> QED
    BY <1>5, <1>6, <1>8, <1>9, <1>10 DEF Event

\* Every step keeps the transmit side of every agent in order.
LEMMA SendStep ==
    ASSUME TypeOK, StackShape, SendInv, Next
    PROVE  SendInv'
<1> SUFFICES ASSUME NEW b \in Agents PROVE SendInvOf(b)'
    BY DEF SendInv
<1>1. SendInvOf(b)
    BY DEF SendInv
<1>2. CASE Event
    BY <1>1, <1>2, TxEventStep
<1>3. CASE run_tx_sm(b)
    BY <1>1, <1>3, TxMachineStep
<1>4. CASE run_tx_timers_sm(b)
    BY <1>1, <1>4, TimerMachineStep
<1>5. CASE Step /\ ~run_tx_sm(b) /\ ~run_tx_timers_sm(b)
    <2>1. TxIdle(b)
        BY <1>5, TxIdleCalls DEF Step
    <2> QED
        BY <1>1, <2>1, TxIdleStep
<1> QED
    BY <1>2, <1>3, <1>4, <1>5 DEF Next

\* The daemon starts with every agent in TX_LLDP_INITIALIZE.
LEMMA SendInvInit == Init => SendInv
BY DEF Init, PortInit, TxInit, SendInv, SendInvOf, TxSettled, NothingToSend,
       RequestIsSeen, Timing

\* The invariant of the transmit side holds in every reachable state.
LEMMA SendInvariant == Spec => []SendInv
<1>1. TypeOK /\ RateInv /\ SendInv /\ [Next]_vars => SendInv'
    <2> SUFFICES ASSUME TypeOK, RateInv, SendInv, [Next]_vars PROVE SendInv'
        OBVIOUS
    <2>1. CASE Next
        BY <2>1, SendStep DEF RateInv
    <2>2. CASE UNCHANGED vars
        BY <2>2
        DEF vars, portVars, agentVars, txVars, SendInv, SendInvOf, TxSettled,
            NothingToSend, RequestIsSeen, Timing, TxDue, Due, TxMaySend,
            TxAdmin
    <2> QED
        BY <2>1, <2>2
<1> QED
    BY <1>1, SendInvInit, TypeCorrect, RateInvariant, PTL DEF Spec

\* No agent builds an LLDPDU for a port that is down or while it may not
\* transmit, also when another agent of the port was the one to notice in
\* set_tx_state() that the link went down (prevPortEnabled).
THEOREM OnlyEnabledSend == Spec => SendsOnlyWhenEnabled
<1>1. ASSUME TypeOK, SendInv, [Next]_vars, NEW b \in Agents, burst'[b] > burst[b]
      PROVE  portEnabled /\ TxAdmin(b)
    <2>0. burst \in [Agents -> Nat]
        BY <1>1 DEF TypeOK, TxTypeOK
    <2>1. CASE CreditIdle \/ UNCHANGED vars
        BY <1>1, <2>0, <2>1 DEF CreditIdle, vars, txVars
    <2>2. CASE CreditReset
        BY <1>1, <2>0, <2>2 DEF CreditReset
    <2>3. ASSUME NEW a \in Agents, timer_agent(a) PROVE FALSE
        BY <1>1, <2>0, <2>3 DEF timer_agent, update_tx_timers
    <2>4. ASSUME NEW a \in Agents, run_tx_timers_sm(a) PROVE FALSE
        <3>1. burst' = burst \/ burst' = [burst EXCEPT ![a] = 0]
            BY <2>4
            DEF run_tx_timers_sm, txInitializeTimers, TimerIdle, TimerExpires,
                TxTick, SignalTx, TxFastStart, run_tx_timers_sm_returns
        <3> QED
            BY <1>1, <2>0, <3>1
    <2>5. ASSUME NEW a \in Agents, process_tx_info_frame(a)
          PROVE  portEnabled /\ TxAdmin(b)
        <3>1. a = b
            BY <1>1, <2>0, <2>5 DEF process_tx_info_frame
        <3> QED
            BY <1>1, <2>5, <3>1, SendsEnabled DEF SendInv
    <2> QED
        BY <1>1, <2>1, <2>2, <2>3, <2>4, <2>5, CreditCases
<1>2. TypeOK /\ SendInv /\ [Next]_vars =>
         [\A a \in Agents : burst'[a] > burst[a] => portEnabled /\ TxAdmin(a)]_vars
    BY <1>1
<1> QED
    BY <1>2, TypeCorrect, SendInvariant, PTL DEF Spec, SendsOnlyWhenEnabled

-----------------------------------------------------------------------------
(* The last LLDPDU on the wire                                             *)

\* The peer was told about the agent, and the agent goes on telling it: it is
\* at work on an enabled port, or it is a bond that has been initialised
\* again and is going to be brought up with adminStatus as it was.
Advertised(a) ==
    \/ portEnabled /\ txState[a] \in {"TX_IDLE", "TX_INFO_FRAME"}
    \/ /\ Bond /\ TxAdmin(a)
       /\ txState[a] = "TX_LLDP_INITIALIZE"
       /\ IF portEnabled THEN TxDue(a) ELSE EnablePending

\* The port is up, or the handler that is running is about to enable it.
ComesUp == portEnabled \/ EnablePending

\* A port is enabled with all its agents in TX_LLDP_INITIALIZE; on a port that
\* is up, a shutdown LLDPDU is never held back by an earlier one, but in
\* TX_SHUTDOWN_FRAME; and what was advertised is still advertised.
WireInvOf(a) ==
    /\ EnablePending /\ ~portEnabled => txState[a] = "TX_LLDP_INITIALIZE"
    /\ ComesUp /\ txState[a] # "TX_SHUTDOWN_FRAME" => txShutdownWhile[a] = 0
    /\ wire[a] = "info" => Advertised(a)

WireInv ==
    /\ running = "running" => /\ ComesUp => present
                              /\ \A a \in Agents : WireInvOf(a)
    /\ running = "stopped" => \A a \in Agents : portEnabled => wire[a] # "info"

\* Steps that leave alone what WireInvOf says of agent a.
WireIdle(a) ==
    /\ txState'[a] = txState[a] /\ wire'[a] = wire[a]
    /\ txShutdownWhile'[a] \in {txShutdownWhile[a], 0}
    /\ portEnabled' = portEnabled /\ present' = present
    /\ EnablePending' <=> EnablePending
    /\ TxDue(a) => TxDue(a)'
    /\ \/ adminStatus'[a] = adminStatus[a]
       \/ ~Bond \/ TxAdmin(a)'
       \/ ~TxDue(a) /\ ~EnablePending

\* They keep the invariant.
LEMMA WireIdleStep ==
    ASSUME NEW a \in Agents, WireIdle(a), ComesUp => present, WireInvOf(a)
    PROVE  (ComesUp => present)' /\ WireInvOf(a)'
<1>1. (ComesUp => present)'
    BY DEF WireIdle, ComesUp
<1>2. wire'[a] = "info" => Advertised(a)'
    BY DEF WireIdle, WireInvOf, Advertised, TxAdmin
<1> QED
    BY <1>1, <1>2 DEF WireIdle, WireInvOf, ComesUp

\* Of the calls of a handler only set_lldp_port_enable() itself takes the
\* port's coming up off the stack, and none puts it there.
LEMMA EnableKeeps ==
    ASSUME TypeOK, NEW op, NEW a \in Agents, Calling(op, a),
           \/ Continue \/ Return \/ work' = work
           \/ Call(<<Job("run_tx_sm", a), Job("run_rx_sm", a)>>)
           \/ timer_agent(a)
           \/ op = "run_rx_sm" /\ \E f : QazEnablesTx(a, f)
    PROVE  EnablePending' <=> EnablePending
<1> DEFINE ops == {"set_lldp_port_enable"}
<1>1. /\ work \in Seq(Jobs) /\ work # <<>> /\ Tail(work) \in Seq(Jobs)
      /\ Head(work).agent = a /\ a # NULL
    BY CallingDue, StackType, PortAssumption DEF Calling
<1>2. {"run_tx_sm", "run_rx_sm"} \cap ops = {}
    OBVIOUS
<1>3. Due(ops, NULL) <=> DueIn(Tail(work), ops, NULL)
    BY <1>1, DueCons DEF Due
<1>4. ASSUME NEW s \in Seq(Jobs), Call(s), ~DueIn(s, ops, NULL)
      PROVE  Due(ops, NULL)' <=> Due(ops, NULL)
    <2>1. Due(ops, NULL)' <=> DueIn(s, ops, NULL) \/ DueIn(Tail(work), ops, NULL)
        BY <1>1, <1>4, CallKeeps
    <2> QED
        BY <1>3, <1>4, <2>1
<1> HIDE DEF ops
<1>5. CASE Continue \/ Return
    <2>1. Continue => (Due(ops, NULL)' <=> Due(ops, NULL))
        BY <1>1, ContinueKeeps
    <2>2. Return => (Due(ops, NULL)' <=> Due(ops, NULL))
        BY <1>1, ReturnKeeps
    <2> QED
        BY <1>5, <2>1, <2>2 DEF EnablePending, ops
<1>6. CASE Call(<<Job("run_tx_sm", a), Job("run_rx_sm", a)>>)
    <2>1. Due(ops, NULL)' <=> DueIn(Tail(work), ops, NULL)
        BY <1>1, <1>2, <1>6, AdminCallsDue DEF Call, Due
    <2> QED
        BY <1>3, <2>1 DEF EnablePending, ops
<1>7. CASE timer_agent(a)
    <2> DEFINE s == <<Job("run_tx_timers_sm", a), Job("run_tx_sm", a),
                      Job("run_rx_sm", a), Job("update_rx_timers", a),
                      Job("lldp_mod_timer", a)>>
    <2>1. \A o \in Ops : Job(o, a) \in Jobs
        BY JobIsJob
    <2>2. /\ s \in Seq(Jobs) /\ DOMAIN s = 1..5
          /\ \A i \in 1..5 : s[i].op # "set_lldp_port_enable"
        BY <2>1 DEF Ops, Job
    <2>3. Call(s)
        BY <1>7 DEF timer_agent
    <2> HIDE DEF s
    <2>4. ~DueIn(s, ops, NULL)
        BY <2>2 DEF DueIn, ops
    <2> QED
        BY <1>4, <2>2, <2>3, <2>4 DEF EnablePending, ops
<1>8. ASSUME op = "run_rx_sm", NEW f, QazEnablesTx(a, f)
      PROVE  EnablePending' <=> EnablePending
    <2>1. Due(ops, NULL)' <=> Due(ops, NULL)
        BY <1>2, <1>8, QazCallsDue
    <2> QED
        BY <2>1 DEF EnablePending, ops
<1>9. CASE work' = work
    BY <1>9 DEF EnablePending, Due
<1> QED
    BY <1>5, <1>6, <1>7, <1>8, <1>9

\* The calls of a handler that do not concern the last LLDPDU of agent b.
LEMMA WireIdleCalls ==
    ASSUME TypeOK, StackShape, Next, NEW a \in Agents, NEW b \in Agents,
           \/ timer_agent(a)
           \/ run_tx_timers_sm(a) /\ UNCHANGED rxVars
           \/ run_tx_sm(a) /\ a # b
           \/ run_rx_sm(a) /\ UNCHANGED txVars
           \/ update_rx_timers(a) /\ UNCHANGED txVars
           \/ lldp_mod_timer(a)
           \/ lldp_mod_ifup(a)
           \/ run_agent(a)
    PROVE  WireIdle(b)
<1>1. CASE run_tx_timers_sm(a)
    <2>1. /\ Calling("run_tx_timers_sm", a) /\ (Continue \/ Return)
          /\ UNCHANGED <<portVars, adminStatus, txState, wire>>
          /\ txShutdownWhile'[b] \in {txShutdownWhile[b], 0}
        BY <1>1, TimerMachine
    <2>2. /\ work \in Seq(Jobs) /\ work # <<>>
          /\ Head(work).op = "run_tx_timers_sm"
        BY <2>1, CallingDue DEF Calling
    <2>3. TxDue(b) => TxDue(b)'
        BY <2>1, <2>2, ContinueKeeps, ReturnKeeps DEF TxDue
    <2>4. EnablePending' <=> EnablePending
        BY <2>1, EnableKeeps
    <2> QED
        BY <2>1, <2>3, <2>4 DEF WireIdle, portVars
<1>2. CASE ~run_tx_timers_sm(a)
    <2>1. TxIdle(b)
        BY <1>2, TxIdleCalls
    <2>2. ASSUME NEW op, Calling(op, a),
                 \/ Continue \/ Return \/ work' = work
                 \/ Call(<<Job("run_tx_sm", a), Job("run_rx_sm", a)>>)
                 \/ timer_agent(a)
                 \/ op = "run_rx_sm" /\ \E f : QazEnablesTx(a, f),
                 wire'[b] = wire[b], txShutdownWhile'[b] = txShutdownWhile[b],
                 UNCHANGED <<portEnabled, present>>,
                 \/ adminStatus'[b] = adminStatus[b]
                 \/ ~Bond \/ TxAdmin(b)'
          PROVE  WireIdle(b)
        <3>1. EnablePending' <=> EnablePending
            BY <2>2, EnableKeeps
        <3> QED
            BY <2>1, <2>2, <3>1 DEF WireIdle, TxIdle
    <2>3. CASE timer_agent(a)
        <3>1. /\ Calling("timer", a)
              /\ UNCHANGED <<portVars, agentVars, wire, txShutdownWhile>>
            BY <2>3 DEF timer_agent
        <3> QED
            BY <2>2, <2>3, <3>1 DEF portVars, agentVars
    <2>4. CASE run_tx_sm(a) /\ a # b
        <3>1. /\ Calling("run_tx_sm", a) /\ (Continue \/ Return)
              /\ UNCHANGED <<portEnabled, present, adminStatus>>
            BY <2>4, TxMachine
        <3>2. wire'[b] = wire[b] /\ txShutdownWhile'[b] = txShutdownWhile[b]
            BY <2>4
            DEF run_tx_sm, txInitializeLLDP, process_tx_idle,
                process_tx_shutdown_frame, ShutdownFrame,
                process_tx_info_frame, run_tx_sm_returns, TypeOK, TxTypeOK
        <3> QED
            BY <2>2, <3>1, <3>2
    <2>5. CASE run_rx_sm(a) /\ UNCHANGED txVars
        <3>1. /\ Calling("run_rx_sm", a) /\ UNCHANGED <<portEnabled, present>>
              /\ \/ /\ Continue \/ Return \/ work' = work
                    /\ UNCHANGED adminStatus
                 \/ QazEnablesTx(a, framein[a])
            BY <2>5
            DEF run_rx_sm, RxPass, RxEnters, RxWaitPortOperational,
                process_delete_aged_info, process_rx_lldp_initialize,
                process_wait_for_frame, process_rx_frame,
                process_rx_frame_aborts, process_delete_info,
                process_update_info, run_rx_sm_returns, portVars, agentVars
        <3>2. wire' = wire /\ txShutdownWhile' = txShutdownWhile
            BY <2>5 DEF txVars
        <3>3. adminStatus'[b] = adminStatus[b] \/ TxAdmin(b)'
            <4>1. ASSUME QazEnablesTx(a, framein[a])
                  PROVE  adminStatus'[b] = adminStatus[b] \/ TxAdmin(b)'
                <5>1. adminStatus' = [adminStatus EXCEPT ![a] = "enabledRxTx"]
                    BY <4>1 DEF QazEnablesTx, set_lldp_agent_admin
                <5> QED
                    BY <5>1 DEF TxAdmin, TypeOK, PortTypeOK
            <4> QED
                BY <3>1, <4>1
        <3> QED
            BY <2>2, <3>1, <3>2, <3>3
    <2>6. CASE (update_rx_timers(a) /\ UNCHANGED txVars) \/ lldp_mod_timer(a)
        <3>1. /\ \E op \in {"update_rx_timers", "lldp_mod_timer"} : Calling(op, a)
              /\ Return /\ UNCHANGED <<portVars, adminStatus, txVars>>
            BY <2>6 DEF update_rx_timers, lldp_mod_timer, agentVars
        <3> QED
            BY <2>2, <3>1 DEF portVars, txVars
    <2>7. CASE lldp_mod_ifup(a)
        <3>1. /\ Calling("lldp_mod_ifup", a) /\ UNCHANGED <<portVars, txVars>>
              /\ \/ Return /\ UNCHANGED adminStatus
                 \/ /\ ~Bond
                    /\ Call(<<Job("run_tx_sm", a), Job("run_rx_sm", a)>>)
            BY <2>7 DEF lldp_mod_ifup, set_lldp_agent_admin, Call
        <3> QED
            BY <2>2, <3>1 DEF portVars, txVars
    <2>8. CASE run_agent(a)
        <3>1. /\ Calling("run_agent", a)
              /\ Call(<<Job("run_tx_sm", a), Job("run_rx_sm", a)>>)
              /\ UNCHANGED <<portVars, agentVars, txVars>>
            BY <2>8 DEF run_agent
        <3> QED
            BY <2>2, <3>1 DEF portVars, agentVars, txVars
    <2> QED
        BY <1>2, <2>3, <2>4, <2>5, <2>6, <2>7, <2>8
<1> QED
    BY <1>1, <1>2

\* A step of run_tx_sm() of the agent itself: an agent leaves TX_IDLE for
\* TX_SHUTDOWN_FRAME with nothing to hold the shutdown LLDPDU back.
LEMMA WireMachineStep ==
    ASSUME TypeOK, NEW a \in Agents, run_tx_sm(a), SendInvOf(a),
           ComesUp => present, WireInvOf(a)
    PROVE  (ComesUp => present)' /\ WireInvOf(a)'
<1>1. /\ Calling("run_tx_sm", a) /\ (Continue \/ Return)
      /\ UNCHANGED <<present, portEnabled, adminStatus>>
      /\ txState'[a] = TxGoes(a)
    BY TxMachine
<1>2. EnablePending' <=> EnablePending
    BY <1>1, EnableKeeps
<1>3. portEnabled \in BOOLEAN /\ txState[a] \in TxStates
    BY DEF TypeOK, PortTypeOK, TxTypeOK
<1>4. (ComesUp => present)'
    BY <1>1, <1>2 DEF ComesUp
<1>5. (EnablePending /\ ~portEnabled => txState[a] = "TX_LLDP_INITIALIZE")'
    <2> SUFFICES ASSUME EnablePending, ~portEnabled
                 PROVE  TxGoes(a) = "TX_LLDP_INITIALIZE"
        BY <1>1, <1>2
    <2>1. TxBase(a) = "TX_LLDP_INITIALIZE"
        BY TxGoesFrom DEF WireInvOf
    <2> QED
        BY <2>1, TxGoesFrom
<1>6. /\ txShutdownWhile'[a] = txShutdownWhile[a]
      /\ wire'[a] = wire[a] \/ TxGoes(a) = "TX_INFO_FRAME"
      \/ TxGoes(a) = "TX_SHUTDOWN_FRAME"
    BY DEF run_tx_sm, TxPass, txInitializeLLDP, process_tx_idle,
           process_tx_shutdown_frame, process_tx_info_frame,
           run_tx_sm_returns, TypeOK, TxTypeOK
<1>7. (ComesUp /\ txState[a] # "TX_SHUTDOWN_FRAME" => txShutdownWhile[a] = 0)'
    <2> SUFFICES ASSUME ComesUp, TxGoes(a) # "TX_SHUTDOWN_FRAME"
                 PROVE  txShutdownWhile[a] = 0
        BY <1>1, <1>2, <1>6 DEF ComesUp
    <2>1. CASE txState[a] # "TX_SHUTDOWN_FRAME"
        BY <2>1 DEF WireInvOf
    <2>2. CASE txState[a] = "TX_SHUTDOWN_FRAME"
        <3>1. portEnabled
            BY <2>2 DEF WireInvOf, ComesUp
        <3>2. TxBase(a) = "TX_SHUTDOWN_FRAME"
            BY <2>2, <3>1, TxGoesFrom DEF PortFell
        <3> QED
            BY <3>2, TxGoesFrom
    <2> QED
        BY <2>1, <2>2
<1>8. (wire[a] = "info" => Advertised(a))'
    <2> SUFFICES ASSUME wire'[a] = "info" PROVE Advertised(a)'
        OBVIOUS
    <2>1. CASE process_tx_info_frame(a)
        <3>1. portEnabled /\ TxGoes(a) = "TX_INFO_FRAME"
            BY <2>1, SendsEnabled DEF process_tx_info_frame, TxPass
        <3> QED
            BY <1>1, <3>1 DEF Advertised
    <2>2. CASE process_tx_shutdown_frame(a)
        <3>1. /\ TxGoes(a) = "TX_SHUTDOWN_FRAME"
              /\ wire[a] = "info" /\ ~(ShutdownDue(a) /\ portEnabled)
            BY <2>2 DEF process_tx_shutdown_frame, TxPass, ShutdownFrame
        <3>2. Advertised(a)
            BY <3>1 DEF WireInvOf
        <3>3. txState[a] # "TX_LLDP_INITIALIZE"
            BY <3>1, TxGoesFrom
        <3>4. portEnabled /\ txShutdownWhile[a] = 0
            BY <3>2, <3>3 DEF Advertised, WireInvOf, ComesUp
        <3> QED
            BY <3>1, <3>4 DEF ShutdownDue
    <2>3. CASE txInitializeLLDP(a) \/ process_tx_idle(a) \/ run_tx_sm_returns(a)
        <3>1. /\ wire[a] = "info"
              /\ \/ TxGoes(a) \in {"TX_LLDP_INITIALIZE", "TX_IDLE"} /\ Continue
                 \/ TxGoes(a) = TxBase(a)
            BY <2>3
            DEF txInitializeLLDP, process_tx_idle, run_tx_sm_returns, TxPass
        <3>2. CASE portEnabled /\ txState[a] \in {"TX_IDLE", "TX_INFO_FRAME"}
            <4>1. TxBase(a) = txState[a]
                BY <3>2, TxGoesFrom DEF PortFell
            <4>2. TxGoes(a) \in {"TX_IDLE", "TX_INFO_FRAME"}
                BY <3>1, <3>2, <4>1, TxGoesFrom
            <4> QED
                BY <1>1, <3>2, <4>2 DEF Advertised
        <3>3. CASE /\ Bond /\ TxAdmin(a)
                   /\ txState[a] = "TX_LLDP_INITIALIZE"
                   /\ IF portEnabled THEN TxDue(a) ELSE EnablePending
            <4>1. TxBase(a) = "TX_LLDP_INITIALIZE"
                BY <3>3, TxGoesFrom
            <4>2. TxGoes(a) = IF portEnabled THEN "TX_IDLE"
                              ELSE "TX_LLDP_INITIALIZE"
                BY <3>3, <4>1, TxGoesFrom
            <4> QED
                BY <1>1, <1>2, <3>3, <4>2 DEF Advertised, TxAdmin
        <3> QED
            BY <3>1, <3>2, <3>3 DEF WireInvOf, Advertised
    <2> QED
        BY <2>1, <2>2, <2>3 DEF run_tx_sm
<1> QED
    BY <1>4, <1>5, <1>7, <1>8 DEF WireInvOf

\* set_lldp_port_enable(ifname, 1): every agent is about to run.
LEMMA WireEnableStep ==
    ASSUME TypeOK, port_enable, NEW a \in Agents, ComesUp => present, WireInvOf(a)
    PROVE  (ComesUp => present)' /\ WireInvOf(a)'
<1> DEFINE s == ForEachAgent("run_agent")
<1>1. /\ Calling("set_lldp_port_enable", NULL) /\ Call(s) /\ portEnabled'
      /\ UNCHANGED <<present, agentVars, txVars>>
    BY DEF port_enable
<1>2. /\ s \in Seq(Jobs)
      /\ \A ops, c : DueIn(s, ops, c) <=> "run_agent" \in ops /\ c \in Agents
    BY ForEachAgentType, DueForEach DEF Ops
<1> HIDE DEF s
<1>3. work \in Seq(Jobs) /\ work # <<>> /\ EnablePending
    BY <1>1, CallingDue DEF EnablePending
<1>4. TxDue(a)'
    BY <1>1, <1>2, <1>3, CallKeeps DEF TxDue
<1>5. present'
    BY <1>1, <1>3 DEF ComesUp
<1>6. txShutdownWhile[a] = 0 \/ txState[a] = "TX_SHUTDOWN_FRAME"
    BY <1>3 DEF WireInvOf, ComesUp
<1>7. wire[a] = "info" => Advertised(a)'
    BY <1>1, <1>4 DEF WireInvOf, Advertised, TxAdmin, agentVars, txVars
<1> QED
    BY <1>1, <1>5, <1>6, <1>7 DEF WireInvOf, txVars

\* The events find every agent that was advertised at work on an enabled
\* port, and leave it there, send it a shutdown LLDPDU, lose the link, or
\* bring a bond up again.
LEMMA WireEventStep ==
    ASSUME ~DcbMode, TypeOK, SendInv, WireInv, Event
    PROVE  WireInv'
<1>1. /\ Dispatch /\ running = "running" /\ \A ops, c : ~Due(ops, c)
      /\ work = <<>>
    <2>1. Dispatch
        BY DEF Event, timer, Receive, rxReceiveFrame, local_change,
               set_arg_adminstatus, oper_add_device, port_disable, remove_port,
               lldpad_reconfig, eloop_terminate
    <2> QED
        BY <2>1, NothingDue DEF Dispatch, AtRest
<1>2. ~EnablePending /\ (portEnabled => present) /\ \A b \in Agents : WireInvOf(b)
    BY <1>1 DEF WireInv, EnablePending, ComesUp
<1>3. ASSUME NEW b \in Agents, wire[b] = "info"
      PROVE  /\ portEnabled /\ txState[b] = "TX_IDLE" /\ TxAdmin(b)
             /\ txShutdownWhile[b] = 0
    <2>1. portEnabled /\ txState[b] \in {"TX_IDLE", "TX_INFO_FRAME"}
        BY <1>1, <1>2, <1>3 DEF WireInvOf, Advertised, TxDue
    <2>2. txShutdownWhile[b] = 0
        BY <1>2, <2>1 DEF WireInvOf, ComesUp
    <2> QED
        BY <1>1, <2>1, <2>2 DEF SendInv, SendInvOf, TxSettled, TxDue
<1>4. DueIn(BringUp, {"set_lldp_port_enable"}, NULL)
    BY DueBringUp
<1>5. ASSUME UNCHANGED running, (ComesUp => present)',
             \A b \in Agents : WireInvOf(b)'
      PROVE  WireInv'
    BY <1>1, <1>5 DEF WireInv
<1>6. CASE timer \/ Receive \/ (\E a \in Agents : local_change(a))
           \/ (\E a \in Agents, status \in AdminStatus : set_arg_adminstatus(a, status))
    <2>1. UNCHANGED <<running, portVars, txVars>>
        BY <1>6
        DEF timer, Receive, rxReceiveFrame, local_change, set_arg_adminstatus
    <2>2. ~EnablePending'
        <3>1. CASE timer
            <4>1. ~DueIn(ForEachAgent("timer"), {"set_lldp_port_enable"}, NULL)
                BY DueForEach DEF Ops
            <4> QED
                BY <3>1, <4>1 DEF timer, EnablePending, Due
        <3>2. CASE work' = work
            BY <1>2, <3>2 DEF EnablePending, Due
        <3>3. ASSUME NEW a \in Agents, work' = <<Job("run_rx_sm", a)>>
              PROVE  ~EnablePending'
            <4>1. DOMAIN work' = 1..1 /\ work'[1].op = "run_rx_sm"
                BY <3>3 DEF Job
            <4> QED
                BY <4>1 DEF EnablePending, Due, DueIn
        <3>4. ASSUME NEW a \in Agents, NEW status \in AdminStatus,
                     set_arg_adminstatus(a, status)
              PROVE  ~EnablePending'
            <4>1. work' = <<Job("run_tx_sm", a), Job("run_rx_sm", a)>> \o <<>>
                BY <3>4 DEF set_arg_adminstatus, set_lldp_agent_admin
            <4>2. <<>> \in Seq(Jobs) /\ {"run_tx_sm", "run_rx_sm"}
                                           \cap {"set_lldp_port_enable"} = {}
                OBVIOUS
            <4> QED
                BY <4>1, <4>2, AdminCallsDue, DueNone DEF EnablePending, Due
        <3> QED
            BY <1>6, <3>1, <3>2, <3>3, <3>4
            DEF Receive, rxReceiveFrame, local_change
    <2>3. ASSUME NEW b \in Agents PROVE WireInvOf(b)'
        <3>1. wire[b] = "info" => Advertised(b)'
            BY <1>3, <2>1 DEF Advertised, portVars, txVars
        <3> QED
            BY <1>2, <2>1, <2>2, <3>1 DEF WireInvOf, ComesUp, portVars, txVars
    <2> QED
        BY <1>2, <1>5, <2>1, <2>2, <2>3 DEF ComesUp, portVars
<1>7. ASSUME AgentsReinit, present', UNCHANGED running,
             \A b \in Agents : wire'[b] = "info" => Advertised(b)'
      PROVE  WireInv'
    <2>1. \A b \in Agents : /\ txState'[b] = "TX_LLDP_INITIALIZE"
                            /\ txShutdownWhile'[b] = 0
        BY <1>7 DEF AgentsReinit, TxReinit
    <2> QED
        BY <1>5, <1>7, <2>1 DEF WireInvOf
<1>8. CASE oper_add_device
    <2>1. work' = BringUp /\ UNCHANGED <<running, wire>> /\ EnablePending'
        BY <1>4, <1>8 DEF oper_add_device, EnablePending, Due
    <2>2. CASE ~present /\ CreateAgents
        BY <1>2, <1>3, <1>7, <2>1, <2>2 DEF CreateAgents
    <2>3. CASE present /\ (Bond \/ ~portEnabled) /\ reinit_port
        <3>1. AgentsReinit /\ present' /\ ~portEnabled' /\ UNCHANGED adminStatus
            BY <2>3 DEF reinit_port
        <3>2. ASSUME NEW b \in Agents, wire'[b] = "info" PROVE Advertised(b)'
            <4>1. portEnabled /\ TxAdmin(b)
                BY <1>3, <2>1, <3>2
            <4>2. txState'[b] = "TX_LLDP_INITIALIZE"
                BY <3>1 DEF AgentsReinit, TxReinit
            <4> QED
                BY <2>1, <2>3, <3>1, <4>1, <4>2 DEF Advertised, TxAdmin
        <3> QED
            BY <1>7, <2>1, <3>1, <3>2
    <2>4. CASE /\ present /\ portEnabled
               /\ UNCHANGED <<portVars, agentVars, txState, txShutdownWhile>>
        <3>1. ASSUME NEW b \in Agents PROVE WireInvOf(b)'
            <4>1. wire[b] = "info" => Advertised(b)'
                BY <1>3, <2>1, <2>4 DEF Advertised, portVars
            <4> QED
                BY <1>2, <2>1, <2>4, <4>1 DEF WireInvOf, ComesUp, portVars
        <3> QED
            BY <1>5, <2>1, <2>4, <3>1 DEF portVars
    <2> QED
        BY <1>8, <2>2, <2>3, <2>4 DEF oper_add_device
<1>9. CASE lldpad_reconfig
    <2>1. AgentsReinit /\ present' /\ UNCHANGED running
        BY <1>9 DEF lldpad_reconfig, CreateAgents
    <2>2. \A b \in Agents : wire'[b] # "info"
        BY <1>3, <1>9 DEF lldpad_reconfig, ShutdownDue
    <2> QED
        BY <1>7, <2>1, <2>2
<1>10. CASE port_disable \/ remove_port
    <2>1. /\ ~portEnabled' /\ UNCHANGED running
          /\ \A b \in Agents : wire'[b] = "none"
          /\ work' = work \/ work' = ForEachAgent("run_agent")
        BY <1>10 DEF port_disable, remove_port
    <2>2. ~DueIn(ForEachAgent("run_agent"), {"set_lldp_port_enable"}, NULL)
        BY DueForEach DEF Ops
    <2>3. ~EnablePending'
        BY <1>2, <2>1, <2>2 DEF EnablePending, Due
    <2>4. \A b \in Agents : WireInvOf(b)'
        BY <2>1, <2>3 DEF WireInvOf, ComesUp
    <2> QED
        BY <1>5, <2>1, <2>3, <2>4 DEF ComesUp
<1>11. CASE eloop_terminate
    <2>1. ASSUME NEW b \in Agents, portEnabled' PROVE wire'[b] # "info"
        <3>1. portEnabled /\ present
            BY <1>2, <1>11, <2>1 DEF eloop_terminate, portVars
        <3>2. wire'[b] = IF ShutdownDue(b) THEN "shutdown" ELSE wire[b]
            BY <1>11, <3>1
            DEF eloop_terminate, clean_lldp_agents, ShutdownFrame
        <3> QED
            BY <1>3, <3>2 DEF ShutdownDue
    <2>2. running' = "stopped"
        BY <1>11 DEF eloop_terminate
    <2> QED
        BY <2>1, <2>2 DEF WireInv
<1> QED
    BY <1>6, <1>8, <1>9, <1>10, <1>11 DEF Event

\* A step of a handler: the daemon runs, and unless an assertion fails it goes
\* on running.
LEMMA StepRuns ==
    ASSUME TypeOK, Step
    PROVE  running = "running" /\ running' # "stopped"
<1>1. CASE port_enable
    BY <1>1 DEF port_enable, Calling
<1>2. ASSUME NEW a \in Agents, run_tx_timers_sm(a) \/ run_tx_sm(a)
      PROVE  running = "running" /\ running' # "stopped"
    BY <1>2, TimerMachine, TxMachine DEF Calling
<1>3. ASSUME NEW a \in Agents, run_rx_sm(a)
      PROVE  running = "running" /\ running' # "stopped"
    BY <1>3
    DEF run_rx_sm, RxPass, RxEnters, RxWaitPortOperational,
        process_delete_aged_info, process_rx_lldp_initialize,
        process_wait_for_frame, process_rx_frame, process_rx_frame_aborts,
        process_delete_info, process_update_info, run_rx_sm_returns, Calling
<1>4. ASSUME NEW a \in Agents,
             \/ timer_agent(a) \/ update_rx_timers(a) \/ lldp_mod_timer(a)
             \/ lldp_mod_ifup(a) \/ run_agent(a)
      PROVE  running = "running" /\ running' # "stopped"
    BY <1>4
    DEF timer_agent, update_rx_timers, lldp_mod_timer, lldp_mod_ifup,
        run_agent, Calling
<1> QED
    BY <1>1, <1>2, <1>3, <1>4 DEF Step

\* Every step keeps what the wire says.
LEMMA WireStep ==
    ASSUME ~DcbMode, TypeOK, StackShape, SendInv, WireInv, Next
    PROVE  WireInv'
<1>1. CASE Event
    BY <1>1, WireEventStep
<1>2. CASE Step
    <2>1. running = "running" /\ running' # "stopped"
        BY <1>2, StepRuns
    <2>2. (ComesUp => present) /\ \A b \in Agents : WireInvOf(b) /\ SendInvOf(b)
        BY <2>1 DEF WireInv, SendInv
    <2>3. ASSUME NEW b \in Agents PROVE (ComesUp => present)' /\ WireInvOf(b)'
        <3>1. CASE port_enable
            BY <2>2, <3>1, WireEnableStep
        <3>2. CASE run_tx_sm(b)
            BY <2>2, <3>2, WireMachineStep
        <3>3. CASE ~port_enable /\ ~run_tx_sm(b)
            <4>1. WireIdle(b)
                BY <1>2, <3>3, WireIdleCalls DEF Step
            <4> QED
                BY <2>2, <4>1, WireIdleStep
        <3> QED
            BY <3>1, <3>2, <3>3
    <2>4. (ComesUp => present)'
        <3>1. CASE Agents = {}
            <4>1. port_enable
                BY <1>2, <3>1 DEF Step
            <4>2. EnablePending /\ UNCHANGED present
                BY <4>1, CallingDue DEF port_enable, EnablePending
            <4> QED
                BY <2>2, <4>2 DEF ComesUp
        <3> QED
            BY <2>3, <3>1
    <2> QED
        BY <2>1, <2>3, <2>4 DEF WireInv
<1> QED
    BY <1>1, <1>2 DEF Next

\* The daemon starts with nothing on the wire.
LEMMA WireInvInit == Init => WireInv
<1> SUFFICES ASSUME Init PROVE WireInv
    OBVIOUS
<1>1. ~EnablePending
    BY DueNone DEF Init, PortInit, EnablePending, Due
<1> QED
    BY <1>1 DEF Init, PortInit, TxInit, WireInv, WireInvOf, ComesUp

\* Whenever an agent of a port that does not run DCB stops advertising on a
\* link that is up, the last LLDPDU its peer got is a shutdown LLDPDU,
\* whatever sequence of commands, link events, SIGHUPs and timers led there
\* (process_tx_shutdown_frame, clean_lldp_agents).  On a port that runs DCB
\* clean_lldp_agents() sends none on purpose.
THEOREM AgentsAreWithdrawn ==
    ASSUME ~DcbMode
    PROVE  Spec => []Withdrawn
<1>1. TypeOK /\ StackShape /\ SendInv /\ WireInv /\ [Next]_vars => WireInv'
    <2> SUFFICES ASSUME TypeOK, StackShape, SendInv, WireInv, [Next]_vars
                 PROVE  WireInv'
        OBVIOUS
    <2>1. CASE Next
        BY <2>1, WireStep
    <2>2. CASE UNCHANGED vars
        BY <2>2
        DEF vars, portVars, agentVars, txVars, WireInv, WireInvOf, ComesUp,
            Advertised, EnablePending, TxDue, Due, TxAdmin
    <2> QED
        BY <2>1, <2>2
<1>2. SendInv /\ WireInv => Withdrawn
    <2> SUFFICES ASSUME SendInv, WireInv, NEW a \in Agents, portEnabled,
                        Silenced(a), wire[a] = "info"
                 PROVE  FALSE
        BY DEF Withdrawn
    <2>1. running = "running" /\ AtRest /\ ~TxAdmin(a)
        BY DEF WireInv, Silenced
    <2>2. ~TxDue(a)
        BY <2>1, DueNone DEF AtRest, TxDue, Due
    <2>3. Advertised(a)
        BY <2>1 DEF WireInv, WireInvOf
    <2> QED
        BY <2>1, <2>2, <2>3 DEF Advertised, SendInv, SendInvOf, TxSettled
<1>3. RateInv => StackShape
    BY DEF RateInv
<1> QED
    BY <1>1, <1>2, <1>3, WireInvInit, TypeCorrect, RateInvariant, SendInvariant,
       PTL DEF Spec
=============================================================================
