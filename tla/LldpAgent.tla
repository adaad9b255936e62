----------------------------- MODULE LldpAgent ------------------------------
(***************************************************************************)
(* The LLDP agents of one port of lldpad under the events of the daemon:   *)
(* the one-second timer (lldp/agent.c), received frames (lldp/rx.c),       *)
(* link events (event_iface.c), administrative changes (lldp/ports.c),     *)
(* SIGHUP and termination (lldpad.c).                                      *)
(*                                                                         *)
(* The transmit side (LldpTx) and the receive side (LldpRx) meet here:     *)
(* they share localChange, txFast, newNeighbor, the MSAP identifier and    *)
(* the port's flags, and one handler runs both of them in turn.            *)
(***************************************************************************)
EXTENDS LldpTx, LldpRx

vars == <<running, portVars, agentVars, work, txVars, rxVars>>

Init == PortInit /\ TxInit /\ RxInit

-----------------------------------------------------------------------------
(* The timer                                                               *)

\* timer() starts its walk over the agents of the port.
timer ==
    /\ Dispatch
    /\ present
    /\ work' = ForEachAgent("timer")
    /\ UNCHANGED <<running, portVars, agentVars, txVars, rxVars>>

\* The body of the walk: update_tx_timers() here, then the state machines.
timer_agent(a) ==
    /\ Calling("timer", a)
    /\ update_tx_timers(a)
    /\ Call(<<Job("run_tx_timers_sm", a), Job("run_tx_sm", a),
              Job("run_rx_sm", a), Job("update_rx_timers", a),
              Job("lldp_mod_timer", a)>>)
    /\ UNCHANGED <<running, portVars, agentVars, txState, timerState, txCredit,
                   txShutdownWhile, txNow, wire, rxVars>>

\* The timer operations of the modules.
lldp_mod_timer(a) ==
    /\ Calling("lldp_mod_timer", a)
    /\ Return
    /\ ModulesMayChangeLocal(a)
    /\ UNCHANGED <<running, portVars, adminStatus, newNeighbor, msap1, msap2,
                   txVars, rxVars>>

-----------------------------------------------------------------------------
(* Local changes and administration                                        *)

\* A client command that changes a TLV.
local_change(a) ==
    /\ Dispatch
    /\ present
    /\ somethingChangedLocal(a)
    /\ UNCHANGED <<running, portVars, adminStatus, newNeighbor, msap1, msap2,
                   work, txVars, rxVars>>

\* A client command that sets adminStatus.
set_arg_adminstatus(a, status) ==
    /\ Dispatch
    /\ present
    /\ set_lldp_agent_admin(a, status, <<>>)
    /\ UNCHANGED <<running, portVars, newNeighbor, msap1, msap2, txVars, rxVars>>

-----------------------------------------------------------------------------
(* Link events                                                             *)

\* Both reinit_port() and lldp_init_agent() leave an agent like this.
AgentsReinit ==
    /\ localChange' = [a \in Agents |-> FALSE]
    /\ txFast' = [a \in Agents |-> 0]
    /\ newNeighbor' = [a \in Agents |-> FALSE]
    /\ msap1' = [a \in Agents |-> NULL]
    /\ msap2' = [a \in Agents |-> NULL]
    /\ TxReinit
    /\ RxReinit

\* add_port() and lldp_add_agent(): the port and its agents start from zeroed
\* memory; adminStatus comes from the configuration file.
CreateAgents ==
    /\ present' = TRUE
    /\ portEnabled' = FALSE
    /\ prevPortEnabled' = FALSE
    /\ adminStatus' \in [Agents -> AdminStatus]
    /\ unsent' = [a \in Agents |-> FALSE]
    /\ rxChanges' = [a \in Agents |-> FALSE]
    /\ tooManyNghbrsTimer' = [a \in Agents |-> 0]
    /\ rxTTL' = [a \in Agents |-> 0]
    /\ lastrxTTL' = [a \in Agents |-> 0]
    /\ AgentsReinit

reinit_port ==
    /\ portEnabled' = FALSE
    /\ AgentsReinit
    /\ UNCHANGED <<present, prevPortEnabled, adminStatus, unsent, rxChanges,
                   rxTimerVars>>

\* The calls that bring the port up: the modules' ifup operations, then
\* set_lldp_port_enable(ifname, 1).
BringUp == ForEachAgent("lldp_mod_ifup")
               \o <<Job("set_lldp_port_enable", NULL)>>

\* Link up or dormant: oper_add_device().
oper_add_device ==
    /\ Dispatch
    /\ \/ ~present /\ CreateAgents
       \/ present /\ (Bond \/ ~portEnabled) /\ reinit_port
       \/ /\ present
          /\ ~Bond /\ portEnabled
          /\ UNCHANGED <<portVars, agentVars, rxVars, txState, txTimerVars,
                         txCredit, txShutdownWhile, txNow, burst>>
    /\ work' = BringUp
    /\ UNCHANGED <<running, wire>>

\* The ifup operations: DCBX and 802.1Qaz set adminStatus when none is
\* configured; 802.1Qaz passes a value masked out of an uninitialised
\* variable when the firmware runs DCBX.  Bonds are left alone.
lldp_mod_ifup(a) ==
    /\ Calling("lldp_mod_ifup", a)
    /\ \/ /\ Return
          /\ UNCHANGED <<adminStatus, localChange, txFast, unsent>>
       \/ /\ ~Bond
          /\ \E status \in {"disabled", "enabledRxOnly", "enabledRxTx"} :
                set_lldp_agent_admin(a, status, Tail(work))
    /\ UNCHANGED <<running, portVars, newNeighbor, msap1, msap2, txVars, rxVars>>

\* set_lldp_port_enable(ifname, 1), its walk over the agents to follow.
port_enable ==
    /\ Calling("set_lldp_port_enable", NULL)
    /\ portEnabled' = TRUE
    /\ Call(ForEachAgent("run_agent"))
    /\ UNCHANGED <<running, present, prevPortEnabled, agentVars, txVars, rxVars>>

\* The body of the walk in set_lldp_port_enable().
run_agent(a) ==
    /\ Calling("run_agent", a)
    /\ Call(<<Job("run_tx_sm", a), Job("run_rx_sm", a)>>)
    /\ UNCHANGED <<running, portVars, agentVars, txVars, rxVars>>

\* Link down: set_lldp_port_enable(ifname, 0) drops a pending rxInfoAge.
port_disable ==
    /\ Dispatch
    /\ present
    /\ portEnabled' = FALSE
    /\ rxInfoAge' = [a \in Agents |-> FALSE]
    /\ wire' = [a \in Agents |-> "none"]
    /\ work' = ForEachAgent("run_agent")
    /\ UNCHANGED <<running, present, prevPortEnabled, agentVars, txState,
                   txTimerVars, txCredit, txShutdownWhile, txNow, burst,
                   rxState, framein, rcvFrame, rxChanges, tooManyNghbrs,
                   rxTimerVars, mib>>

\* The device is gone (RTM_DELLINK, or scan_port() no longer finds it): its
\* agents are freed.  What the modules hold of it is erased when the port is
\* created again, and not looked at before.
remove_port ==
    /\ Dispatch
    /\ present
    /\ present' = FALSE
    /\ portEnabled' = FALSE
    /\ prevPortEnabled' = FALSE
    /\ adminStatus' = [a \in Agents |-> "disabled"]
    /\ unsent' = [a \in Agents |-> FALSE]
    /\ rxChanges' = [a \in Agents |-> FALSE]
    /\ tooManyNghbrsTimer' = [a \in Agents |-> 0]
    /\ rxTTL' = [a \in Agents |-> 0]
    /\ lastrxTTL' = [a \in Agents |-> 0]
    /\ AgentsReinit
    /\ wire' = [a \in Agents |-> "none"]
    /\ UNCHANGED <<running, work>>

-----------------------------------------------------------------------------
(* SIGHUP and termination                                                  *)

\* clean_lldp_agents(): shutdown LLDPDUs, except on a port that runs DCB.
clean_lldp_agents ==
    ShutdownFrame(IF present /\ ~DcbMode THEN Agents ELSE {})

\* SIGHUP: shutdown frames, then every port is removed and, when its link is
\* up, created again.  When the link is down this is what remove_port() does.
lldpad_reconfig ==
    /\ Dispatch
    /\ present
    /\ portEnabled
    /\ wire' = [a \in Agents |->
                  IF ~DcbMode /\ ShutdownDue(a) THEN "shutdown"
                  ELSE wire[a]]
    /\ CreateAgents
    /\ work' = BringUp
    /\ UNCHANGED running

\* SIGTERM: the event loop ends and main() cleans up.
eloop_terminate ==
    /\ Dispatch
    /\ clean_lldp_agents
    /\ running' = "stopped"
    /\ UNCHANGED <<portVars, agentVars, work, txState, txTimerVars, txCredit,
                   txNow, burst, rxVars>>

-----------------------------------------------------------------------------
\* What the handler that is running does next.
Step ==
    \/ port_enable
    \/ \E a \in Agents : \/ timer_agent(a)
                         \/ run_tx_timers_sm(a) /\ UNCHANGED rxVars
                         \/ run_tx_sm(a) /\ UNCHANGED rxVars
                         \/ run_rx_sm(a) /\ UNCHANGED txVars
                         \/ update_rx_timers(a) /\ UNCHANGED txVars
                         \/ lldp_mod_timer(a)
                         \/ lldp_mod_ifup(a)
                         \/ run_agent(a)

Receive == \E a \in Agents, f \in Frames :
               rxReceiveFrame(a, f) /\ UNCHANGED txVars

Event ==
    \/ timer
    \/ Receive
    \/ \E a \in Agents : local_change(a)
    \/ \E a \in Agents, status \in AdminStatus : set_arg_adminstatus(a, status)
    \/ oper_add_device
    \/ port_disable
    \/ remove_port
    \/ lldpad_reconfig
    \/ eloop_terminate

Next == Step \/ Event

Spec == Init /\ [][Next]_vars

\* A handler that was started runs to its end, and the timeout of timer()
\* is looked at in every round of eloop_run(), so that no amount of other
\* events keeps it from running.
Fairness == WF_vars(Step) /\ SF_vars(timer)

FairSpec == Spec /\ Fairness

-----------------------------------------------------------------------------
(* Properties.  A handler is never interrupted, so most of them speak of   *)
(* the states in which the event loop waits (AtRest).                      *)

\* Every variable stays in its range (struct port, struct lldp_agent).
TypeOK == PortTypeOK /\ TxTypeOK /\ RxTypeOK

\* However local changes, new neighbours, expiring timers, link events and
\* administrative changes coincide, an agent sends at most one LLDPDU from one
\* tick of update_tx_timers() to the next, the one request that SIGNAL_TX
\* makes (txNow) and that TX_INFO_FRAME takes back.
RateLimited == \A a \in Agents : burst[a] <= 1

\* A tick that update_tx_timers() has signalled and TX_TICK has not yet turned
\* into credit: run_tx_timers_sm() of that agent is the call that is running,
\* there is room for the credit, and unless the loop is still to be entered
\* the transmit timers are not going to be initialised.
TickPending(a) ==
    /\ work # <<>>
    /\ Head(work).op = "run_tx_timers_sm"
    /\ Head(work).agent = a
    /\ Head(work).entered => portEnabled /\ TxAdmin(a)
    /\ txCredit[a] + burst[a] < TX_CREDIT_MAX \/ burst[a] = 0

\* The second line of defence, the credit: what an agent has sent in excess of
\* one LLDPDU per second and what it may still send never exceed TX_CREDIT_MAX
\* together, and a tick is worth one credit once only.
CreditAccounting ==
    \A a \in Agents : /\ txCredit[a] + burst[a] <= TX_CREDIT_MAX
                      /\ txTick[a] => TickPending(a)

\* RateLimited as an abstract specification: what goes out is what a leaky
\* bucket with room for one LLDPDU lets pass.
Budget == INSTANCE TransmitBudget WITH Max <- 1, bucket <- burst

\* The agents of the port implement the leaky bucket.
ImplementsBudget == Budget!Spec

\* The agent is not supposed to be advertised any more: the daemon has
\* terminated (a DCB port keeps quiet on purpose), or transmission is
\* administratively off.
Silenced(a) ==
    \/ running = "stopped" /\ ~DcbMode
    \/ running = "running" /\ AtRest /\ present /\ ~TxAdmin(a)

\* Whenever an agent stops advertising on a link that is up, for whatever
\* sequence of administrative, link and signal events, the last LLDPDU the
\* peer got from it is a shutdown LLDPDU: the peer is not left with
\* information nobody refreshes (process_tx_shutdown_frame, clean_lldp_agents).
Withdrawn ==
    \A a \in Agents : portEnabled /\ Silenced(a) => wire[a] # "info"

\* No agent ever builds an LLDPDU for a port that is down or while it may not
\* transmit.  Only one of the agents of a port notices in set_tx_state() that
\* the port went down (prevPortEnabled is shared): the others stay in TX_IDLE
\* and depend on txNow and txCredit for not sending.
SendsOnlyWhenEnabled ==
    [][\A a \in Agents : burst'[a] > burst[a] => portEnabled /\ TxAdmin(a)]_vars

\* The agent or the modules know a neighbour.
HoldsNeighbour(a) == msap2[a] # NULL \/ mib[a] # {}

\* What is known of a neighbour on an enabled port always has an end to its
\* life: rxTTL is counting down, or has run out and rxInfoAge has the next
\* run_rx_sm() delete it.  Malformed frames, frames of other neighbours,
\* duplicates and re-initialisations do not lose the deadline.
NeighbourHasDeadline ==
    running = "running" /\ AtRest /\ portEnabled =>
        \A a \in Agents : HoldsNeighbour(a) => rxTTL[a] > 0 \/ rxInfoAge[a]

\* An agent on an enabled port whose reception is off holds no neighbour, no
\* frame and no pending reception, even when reception was switched off with
\* a frame or an expiry outstanding (set_lldp_agent_admin, run_rx_sm).
ReceiveOffHoldsNothing ==
    running = "running" /\ AtRest /\ portEnabled =>
        \A a \in Agents : ~RxAdmin(a) =>
            ~HoldsNeighbour(a) /\ framein[a] = NULL /\ ~rcvFrame[a]

\* The do-while loops of the three state machines end, also when run_rx_sm()
\* is entered again from within: every handler returns to the event loop.
HandlersReturn == []<>(AtRest \/ running # "running")

\* The port and its administration let the agent transmit, and it is not held
\* in TX_SHUTDOWN_FRAME.
CanSend(a) ==
    /\ running = "running" /\ present /\ portEnabled /\ TxAdmin(a)
    /\ txState[a] # "TX_SHUTDOWN_FRAME"

\* A local change is carried by an LLDPDU eventually, as long as the agent can
\* send: no re-initialisation, credit shortage or order of timers loses the
\* localChange/txNow hand-over from somethingChangedLocal() to txFrame().
ChangesAreAnnounced ==
    \A a \in Agents : unsent[a] ~> (~unsent[a] \/ ~CanSend(a))

\* When no more frames come in, what is known of a neighbour is deleted
\* (update_rx_timers, DELETE_INFO), unless the port goes down first.
NeighboursAgeOut ==
    \A a \in Agents :
        \/ []<><<Receive>>_vars
        \/ HoldsNeighbour(a) /\ portEnabled
               ~> (~HoldsNeighbour(a) \/ ~portEnabled \/ running # "running")

-----------------------------------------------------------------------------
(* What the code asserts and a run refutes.                                *)

\* lldp/rx.c: assert(agent->rx.framein && agent->rx.sizein) in
\* rxProcessFrame() holds whenever it is reached.
NeverAborts == running # "aborted"
=============================================================================
