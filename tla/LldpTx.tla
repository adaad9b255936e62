------------------------------- MODULE LldpTx -------------------------------
(***************************************************************************)
(* The transmit side of an LLDP agent (lldp/tx.c): the transmit state      *)
(* machine run_tx_sm and the transmit timer state machine                  *)
(* run_tx_timers_sm.                                                       *)
(*                                                                         *)
(* Both have the form  set_state(); do { process(state); } while           *)
(* (set_state());  a pass of the loop is one step here: the state that     *)
(* set_state() selects, and the procedure of that state.                   *)
(***************************************************************************)
EXTENDS LldpPort

CONSTANTS
    TX_CREDIT_MAX,        \* lldp/ports.h: LLDPDUs that may go out in a row
    DEFAULT_TX_INTERVAL,  \* lldp/ports.h: msgTxInterval
    FAST_TX_INTERVAL,     \* lldp/ports.h: msgFastTx
    REINIT_DELAY,         \* lldp/ports.h: reinitDelay
    TlvsMayOverflow       \* the modules' TLVs may exceed one Ethernet frame

ASSUME TxAssumption ==
    /\ TX_CREDIT_MAX \in Nat \ {0}
    /\ DEFAULT_TX_INTERVAL \in Nat \ {0}
    /\ FAST_TX_INTERVAL \in Nat \ {0}
    /\ REINIT_DELAY \in Nat \ {0}
    /\ TlvsMayOverflow \in BOOLEAN

VARIABLES
    txState,          \* agent->tx.state
    timerState,       \* agent->timers.state
    txTTR,            \* agent->timers.txTTR
    txCredit,         \* agent->timers.txCredit
    txShutdownWhile,  \* agent->timers.txShutdownWhile
    txTick,           \* agent->timers.txTick
    txNow,            \* agent->tx.txNow
    burst,            \* history: LLDPDUs sent in excess of one per tick
    wire              \* history: the last LLDPDU the peer got on this link

txTimerVars == <<timerState, txTTR, txTick>>
txVars == <<txState, txTimerVars, txCredit, txShutdownWhile, txNow, burst, wire>>

TxStates == {"TX_LLDP_INITIALIZE", "TX_IDLE", "TX_SHUTDOWN_FRAME",
             "TX_INFO_FRAME"}

TimerStates == {"TX_TIMER_BEGIN", "TX_TIMER_INITIALIZE", "TX_TIMER_IDLE",
                "TX_TIMER_EXPIRES", "TX_TICK", "SIGNAL_TX", "TX_FAST_START"}

TxTypeOK ==
    /\ txState \in [Agents -> TxStates]
    /\ timerState \in [Agents -> TimerStates]
    /\ txTTR \in [Agents -> Nat]
    /\ txCredit \in [Agents -> 0..TX_CREDIT_MAX]
    /\ txShutdownWhile \in [Agents -> {0, REINIT_DELAY}]
    /\ txTick \in [Agents -> BOOLEAN]
    /\ txNow \in [Agents -> BOOLEAN]
    /\ burst \in [Agents -> Nat]
    /\ wire \in [Agents -> {"none", "info", "shutdown"}]

TxInit ==
    /\ txState = [a \in Agents |-> "TX_LLDP_INITIALIZE"]
    /\ timerState = [a \in Agents |-> "TX_TIMER_BEGIN"]
    /\ txTTR = [a \in Agents |-> 0]
    /\ txCredit = [a \in Agents |-> TX_CREDIT_MAX]
    /\ txShutdownWhile = [a \in Agents |-> 0]
    /\ txTick = [a \in Agents |-> FALSE]
    /\ txNow = [a \in Agents |-> FALSE]
    /\ burst = [a \in Agents |-> 0]
    /\ wire = [a \in Agents |-> "none"]

-----------------------------------------------------------------------------
(* run_tx_sm                                                               *)

\* set_tx_state() sees the port going down only once: it compares
\* portEnabled with the port's (not the agent's) prevPortEnabled.
PortFell == prevPortEnabled /\ ~portEnabled

\* The state from which the switch of set_tx_state() starts.
TxBase(a) == IF PortFell THEN "TX_LLDP_INITIALIZE" ELSE txState[a]

\* TX_IDLE goes to TX_INFO_FRAME.
TxMaySend_OffByOne(a) == txNow[a] /\ txCredit[a] > 1
TxMaySend(a) == txNow[a] /\ txCredit[a] > 0

\* The state that the switch of set_tx_state() selects.  set_tx_state()
\* returns true exactly when it selects another state than TxBase.
TxGoes(a) ==
    CASE TxBase(a) = "TX_LLDP_INITIALIZE" ->
            IF portEnabled /\ TxAdmin(a) THEN "TX_IDLE"
            ELSE "TX_LLDP_INITIALIZE"
      [] TxBase(a) = "TX_IDLE" ->
            IF ~TxAdmin(a) THEN "TX_SHUTDOWN_FRAME"
            ELSE IF TxMaySend(a) THEN "TX_INFO_FRAME"
            ELSE "TX_IDLE"
      [] TxBase(a) = "TX_SHUTDOWN_FRAME" ->
            IF txShutdownWhile[a] = 0 THEN "TX_LLDP_INITIALIZE"
            ELSE "TX_SHUTDOWN_FRAME"
      [] TxBase(a) = "TX_INFO_FRAME" -> "TX_IDLE"

\* A pass of the loop in run_tx_sm() that processes state s.
TxPass(a, s) ==
    /\ Calling("run_tx_sm", a)
    /\ ~Entered \/ TxGoes(a) # TxBase(a)
    /\ TxGoes(a) = s
    /\ txState' = [txState EXCEPT ![a] = s]
    /\ prevPortEnabled' = portEnabled
    /\ Continue
    /\ UNCHANGED <<running, present, portEnabled, adminStatus, txTimerVars>>

\* TX_LLDP_INITIALIZE: it also forgets who the neighbour is.
txInitializeLLDP(a) ==
    /\ TxPass(a, "TX_LLDP_INITIALIZE")
    /\ localChange' = [localChange EXCEPT ![a] = FALSE]
    /\ msap1' = [msap1 EXCEPT ![a] = NULL]
    /\ msap2' = [msap2 EXCEPT ![a] = NULL]
    /\ UNCHANGED <<txFast, newNeighbor, unsent, txCredit, txShutdownWhile,
                   txNow, burst, wire>>

process_tx_idle(a) ==
    /\ TxPass(a, "TX_IDLE")
    /\ UNCHANGED <<localChange, txFast, newNeighbor, msap1, msap2, unsent,
                   txCredit, txShutdownWhile, txNow, burst, wire>>

\* No shutdown LLDPDU was sent yet.
ShutdownDue_Inverted(a) == txShutdownWhile[a] > 0
ShutdownDue(a) == txShutdownWhile[a] = 0

\* What process_tx_shutdown_frame() does for the agents in `as': a shutdown
\* LLDPDU (TTL 0), unless one was sent and txShutdownWhile still holds.
ShutdownFrame(as) ==
    LET sends == {a \in as : ShutdownDue(a)}
    IN  /\ wire' = [a \in Agents |->
                      IF a \in sends /\ portEnabled THEN "shutdown"
                      ELSE wire[a]]
        /\ txShutdownWhile' = [a \in Agents |->
                      IF a \in sends THEN REINIT_DELAY ELSE txShutdownWhile[a]]

process_tx_shutdown_frame(a) ==
    /\ TxPass(a, "TX_SHUTDOWN_FRAME")
    /\ ShutdownFrame({a})
    /\ UNCHANGED <<localChange, txFast, newNeighbor, msap1, msap2, unsent,
                   txCredit, txNow, burst>>

CreditSpent_Kept(c) == c
CreditSpent(c) == IF c > 0 THEN c - 1 ELSE 0

process_tx_info_frame_TxNowKept(a) ==
    /\ TxPass(a, "TX_INFO_FRAME")
    /\ txCredit' = [txCredit EXCEPT ![a] = CreditSpent(@)]
    /\ UNCHANGED txNow
    /\ burst' = [burst EXCEPT ![a] = @ + 1]
    /\ \/ /\ wire' = [wire EXCEPT ![a] = IF portEnabled THEN "info" ELSE @]
          /\ unsent' = [unsent EXCEPT ![a] = FALSE]
       \/ /\ TlvsMayOverflow
          /\ UNCHANGED <<wire, unsent>>
    /\ UNCHANGED <<localChange, txFast, newNeighbor, msap1, msap2,
                   txShutdownWhile>>

\* TX_INFO_FRAME: the frame counts as sent even when the TLVs did not fit
\* and nothing could be built.
process_tx_info_frame(a) ==
    /\ TxPass(a, "TX_INFO_FRAME")
    /\ txCredit' = [txCredit EXCEPT ![a] = CreditSpent(@)]
    /\ txNow' = [txNow EXCEPT ![a] = FALSE]
    /\ burst' = [burst EXCEPT ![a] = @ + 1]
    /\ \/ /\ wire' = [wire EXCEPT ![a] = IF portEnabled THEN "info" ELSE @]
          /\ unsent' = [unsent EXCEPT ![a] = FALSE]
       \/ /\ TlvsMayOverflow
          /\ UNCHANGED <<wire, unsent>>
    /\ UNCHANGED <<localChange, txFast, newNeighbor, msap1, msap2,
                   txShutdownWhile>>

\* run_tx_sm() returns: set_tx_state() selected no new state.
run_tx_sm_returns(a) ==
    /\ Calling("run_tx_sm", a)
    /\ Entered
    /\ TxGoes(a) = TxBase(a)
    /\ txState' = [txState EXCEPT ![a] = TxBase(a)]
    /\ prevPortEnabled' = portEnabled
    /\ Return
    /\ UNCHANGED <<running, present, portEnabled, agentVars, txTimerVars,
                   txCredit, txShutdownWhile, txNow, burst, wire>>

run_tx_sm(a) ==
    \/ txInitializeLLDP(a)
    \/ process_tx_idle(a)
    \/ process_tx_shutdown_frame(a)
    \/ process_tx_info_frame(a)
    \/ run_tx_sm_returns(a)

-----------------------------------------------------------------------------
(* run_tx_timers_sm                                                        *)

\* The state from which the switch of set_tx_timers_state() starts.
TimerBase_IgnoresPort(a) ==
    IF timerState[a] = "TX_TIMER_BEGIN" \/ ~TxAdmin(a)
    THEN "TX_TIMER_INITIALIZE"
    ELSE timerState[a]

TimerBase(a) ==
    IF timerState[a] = "TX_TIMER_BEGIN" \/ ~portEnabled \/ ~TxAdmin(a)
    THEN "TX_TIMER_INITIALIZE"
    ELSE timerState[a]

\* The state that the switch selects; it returns true exactly when this is
\* another state than TimerBase.
TimerGoes(a) ==
    CASE TimerBase(a) = "TX_TIMER_INITIALIZE" ->
            IF portEnabled /\ TxAdmin(a) THEN "TX_TIMER_IDLE"
            ELSE "TX_TIMER_INITIALIZE"
      [] TimerBase(a) = "TX_TIMER_IDLE" ->
            IF localChange[a] THEN "SIGNAL_TX"
            ELSE IF txTTR[a] = 0 THEN "TX_TIMER_EXPIRES"
            ELSE IF newNeighbor[a] THEN "TX_FAST_START"
            ELSE IF txTick[a] THEN "TX_TICK"
            ELSE "TX_TIMER_IDLE"
      [] TimerBase(a) = "TX_TIMER_EXPIRES" -> "SIGNAL_TX"
      [] TimerBase(a) \in {"SIGNAL_TX", "TX_TICK"} -> "TX_TIMER_IDLE"
      [] TimerBase(a) = "TX_FAST_START" -> "TX_TIMER_EXPIRES"

\* A pass of the loop in run_tx_timers_sm() that processes state s.
TimerPass(a, s) ==
    /\ Calling("run_tx_timers_sm", a)
    /\ ~Entered \/ TimerGoes(a) # TimerBase(a)
    /\ TimerGoes(a) = s
    /\ Continue
    /\ UNCHANGED <<running, portVars, adminStatus, msap1, msap2, unsent,
                   txState, wire>>

txInitializeTimers(a) ==
    /\ TimerPass(a, "TX_TIMER_INITIALIZE")
    /\ txTick' = [txTick EXCEPT ![a] = FALSE]
    /\ txNow' = [txNow EXCEPT ![a] = FALSE]
    /\ localChange' = [localChange EXCEPT ![a] = FALSE]
    /\ txTTR' = [txTTR EXCEPT ![a] = 0]
    /\ txFast' = [txFast EXCEPT ![a] = 0]
    /\ txShutdownWhile' = [txShutdownWhile EXCEPT ![a] = 0]
    /\ newNeighbor' = [newNeighbor EXCEPT ![a] = FALSE]
    /\ txCredit' = [txCredit EXCEPT ![a] = TX_CREDIT_MAX]
    /\ timerState' = [timerState EXCEPT ![a] = "TX_TIMER_BEGIN"]
    /\ burst' = [burst EXCEPT ![a] = 0]

TimerIdle(a) ==
    /\ TimerPass(a, "TX_TIMER_IDLE")
    /\ timerState' = [timerState EXCEPT ![a] = "TX_TIMER_IDLE"]
    /\ UNCHANGED <<localChange, txFast, newNeighbor, txTTR, txTick, txCredit,
                   txShutdownWhile, txNow, burst>>

TimerExpires(a) ==
    /\ TimerPass(a, "TX_TIMER_EXPIRES")
    /\ timerState' = [timerState EXCEPT ![a] = "TX_TIMER_EXPIRES"]
    /\ txFast' = [txFast EXCEPT ![a] = IF @ > 0 THEN @ - 1 ELSE 0]
    /\ UNCHANGED <<localChange, newNeighbor, txTTR, txTick, txCredit,
                   txShutdownWhile, txNow, burst>>

CreditRefilled_NoCap(c) == c + 1
CreditRefilled(c) == IF c < TX_CREDIT_MAX THEN c + 1 ELSE c

TxTick(a) ==
    /\ TimerPass(a, "TX_TICK")
    /\ timerState' = [timerState EXCEPT ![a] = "TX_TICK"]
    /\ txTick' = [txTick EXCEPT ![a] = FALSE]
    /\ txCredit' = [txCredit EXCEPT ![a] = CreditRefilled(@)]
    /\ UNCHANGED <<localChange, txFast, newNeighbor, txTTR, txShutdownWhile,
                   txNow, burst>>

\* The time to the next periodic transmission.
NextTTR_NotArmed(a) == IF txFast[a] > 0 THEN FAST_TX_INTERVAL ELSE txTTR[a]
NextTTR(a) == IF txFast[a] > 0 THEN FAST_TX_INTERVAL ELSE DEFAULT_TX_INTERVAL

SignalTx(a) ==
    /\ TimerPass(a, "SIGNAL_TX")
    /\ timerState' = [timerState EXCEPT ![a] = "SIGNAL_TX"]
    /\ txNow' = [txNow EXCEPT ![a] = TRUE]
    /\ localChange' = [localChange EXCEPT ![a] = FALSE]
    /\ txTTR' = [txTTR EXCEPT ![a] = NextTTR(a)]
    /\ UNCHANGED <<txFast, newNeighbor, txTick, txCredit, txShutdownWhile,
                   burst>>

TxFastStart(a) ==
    /\ TimerPass(a, "TX_FAST_START")
    /\ timerState' = [timerState EXCEPT ![a] = "TX_FAST_START"]
    /\ newNeighbor' = [newNeighbor EXCEPT ![a] = FALSE]
    /\ txFast' = [txFast EXCEPT ![a] = IF @ = 0 THEN TX_FAST_INIT ELSE @]
    /\ UNCHANGED <<localChange, txTTR, txTick, txCredit, txShutdownWhile,
                   txNow, burst>>

\* run_tx_timers_sm() returns: set_tx_timers_state() selected no new state.
run_tx_timers_sm_returns(a) ==
    /\ Calling("run_tx_timers_sm", a)
    /\ Entered
    /\ TimerGoes(a) = TimerBase(a)
    /\ timerState' = [timerState EXCEPT ![a] = TimerBase(a)]
    /\ Return
    /\ UNCHANGED <<running, portVars, agentVars, txState, txTTR, txTick,
                   txCredit, txShutdownWhile, txNow, burst, wire>>

run_tx_timers_sm(a) ==
    \/ txInitializeTimers(a)
    \/ TimerIdle(a)
    \/ TimerExpires(a)
    \/ TxTick(a)
    \/ SignalTx(a)
    \/ TxFastStart(a)
    \/ run_tx_timers_sm_returns(a)

-----------------------------------------------------------------------------
\* update_tx_timers(): the once-a-second tick of the agent.
update_tx_timers(a) ==
    /\ txTTR' = [txTTR EXCEPT ![a] = IF @ > 0 THEN @ - 1 ELSE 0]
    /\ txTick' = [txTick EXCEPT ![a] = TRUE]
    /\ burst' = [burst EXCEPT ![a] = IF @ > 0 THEN @ - 1 ELSE 0]

\* The transmit part of reinit_port() and of lldp_init_agent(), which call
\* txInitializeTimers() and txInitializeLLDP() for every agent.
TxReinit ==
    /\ txState' = [a \in Agents |-> "TX_LLDP_INITIALIZE"]
    /\ timerState' = [a \in Agents |-> "TX_TIMER_BEGIN"]
    /\ txTTR' = [a \in Agents |-> 0]
    /\ txCredit' = [a \in Agents |-> TX_CREDIT_MAX]
    /\ txTick' = [a \in Agents |-> FALSE]
    /\ txNow' = [a \in Agents |-> FALSE]
    /\ txShutdownWhile' = [a \in Agents |-> 0]
    /\ burst' = [a \in Agents |-> 0]
=============================================================================
