------------------------------ MODULE LldpPort ------------------------------
(***************************************************************************)
(* One port of lldpad: the state its LLDP agents share (struct port and    *)
(* the fields of struct lldp_agent that both the transmit and the receive  *)
(* side write) and the call stack of the handler that the event loop is    *)
(* running.                                                                *)
(*                                                                         *)
(* The daemon is single threaded: eloop_run calls one handler at a time    *)
(* and a handler runs to its end.  A handler calls the state machines of   *)
(* the agents, one after the other, and a state machine passes through     *)
(* several states in one call.  `work' holds the calls that the current    *)
(* handler still has to make or to return from, the innermost first; it is *)
(* empty exactly when the event loop is waiting in select().               *)
(***************************************************************************)
EXTENDS Naturals, Sequences

CONSTANTS
    AgentList,      \* port->agent_head: the agents of the port, in list order
    NULL,           \* a null pointer
    Bond,           \* is_bond(): the port is a bonding master
    DcbMode,        \* check_port_dcb_mode(): DCB is enabled on the port
    TX_FAST_INIT    \* lldp/ports.h: fast transmissions after a change

Agents == {AgentList[i] : i \in DOMAIN AgentList}

AdminStatus == {"disabled", "enabledTxOnly", "enabledRxOnly", "enabledRxTx"}

ASSUME PortAssumption ==
    /\ AgentList \in Seq(Agents)
    /\ NULL \notin Agents
    /\ Bond \in BOOLEAN
    /\ DcbMode \in BOOLEAN
    /\ TX_FAST_INIT \in Nat \ {0}

VARIABLES
    running,          \* "running", "stopped" (main returned) or "aborted"
    present,          \* the port is in the port list and has its agents
    portEnabled,      \* port->portEnabled
    prevPortEnabled,  \* port->prevPortEnabled, one flag for all the agents
    adminStatus,      \* agent->adminStatus
    localChange,      \* agent->tx.localChange
    txFast,           \* agent->tx.txFast
    newNeighbor,      \* agent->rx.newNeighbor
    msap1,            \* agent->msap.msap1: chassis id of the neighbour
    msap2,            \* agent->msap.msap2: port id of the neighbour
    unsent,           \* history: a local change no LLDPDU has carried yet
    work              \* calls of the current handler that are still to do

portVars == <<present, portEnabled, prevPortEnabled>>
agentVars == <<adminStatus, localChange, txFast, newNeighbor, msap1, msap2,
               unsent>>

-----------------------------------------------------------------------------
(* The call stack.  `entered' tells that the do-while loop of a state      *)
(* machine has made its first pass.                                        *)

Ops == {"timer", "run_tx_timers_sm", "run_tx_sm", "run_rx_sm",
        "update_rx_timers", "lldp_mod_timer", "lldp_mod_ifup",
        "set_lldp_port_enable", "run_agent"}

Jobs == [op : Ops, agent : Agents \cup {NULL}, entered : BOOLEAN]

Job(op, a) == [op |-> op, agent |-> a, entered |-> FALSE]

\* The call made for every agent of the port (LIST_FOREACH).
ForEachAgent(op) == [i \in DOMAIN AgentList |-> Job(op, AgentList[i])]

\* The event loop is waiting: no handler is running.
AtRest == work = <<>>

\* The next call to make or to carry on with is `op' for agent `a'.
Calling(op, a) ==
    /\ running = "running"
    /\ work # <<>>
    /\ Head(work).op = op
    /\ Head(work).agent = a

Entered == Head(work).entered

\* The state machine goes through its loop once more.
Continue == work' = <<[Head(work) EXCEPT !.entered = TRUE]>> \o Tail(work)

\* The call returns.
Return == work' = Tail(work)

\* The call is replaced by the calls that its body makes.
Call(jobs) == work' = jobs \o Tail(work)

\* The event loop dispatches an event.
Dispatch == running = "running" /\ AtRest

-----------------------------------------------------------------------------
TxAdmin(a) == adminStatus[a] \in {"enabledRxTx", "enabledTxOnly"}
RxAdmin(a) == adminStatus[a] \in {"enabledRxTx", "enabledRxOnly"}

\* somethingChangedLocal(): a local TLV changed, transmit soon and fast.
somethingChangedLocal(a) ==
    /\ localChange' = [localChange EXCEPT ![a] = TRUE]
    /\ txFast' = [txFast EXCEPT ![a] = TX_FAST_INIT]
    /\ unsent' = [unsent EXCEPT ![a] = TRUE]

\* A call into the TLV modules that may or may not end in
\* somethingChangedLocal(), as their own data decides.
ModulesMayChangeLocal(a) ==
    \/ somethingChangedLocal(a)
    \/ UNCHANGED <<localChange, txFast, unsent>>

\* set_lldp_agent_admin() and the state machines it runs, called from the
\* call at the head of `work', which goes on as `rest' afterwards.
set_lldp_agent_admin(a, status, rest) ==
    /\ adminStatus[a] # status
    /\ adminStatus' = [adminStatus EXCEPT ![a] = status]
    /\ somethingChangedLocal(a)
    /\ work' = <<Job("run_tx_sm", a), Job("run_rx_sm", a)>> \o rest

PortTypeOK ==
    /\ running \in {"running", "stopped", "aborted"}
    /\ present \in BOOLEAN
    /\ portEnabled \in BOOLEAN
    /\ prevPortEnabled \in BOOLEAN
    /\ adminStatus \in [Agents -> AdminStatus]
    /\ localChange \in [Agents -> BOOLEAN]
    /\ txFast \in [Agents -> 0..TX_FAST_INIT]
    /\ newNeighbor \in [Agents -> BOOLEAN]
    /\ unsent \in [Agents -> BOOLEAN]
    /\ work \in Seq(Jobs)

PortInit ==
    /\ running = "running"
    /\ present = FALSE
    /\ portEnabled = FALSE
    /\ prevPortEnabled = FALSE
    /\ adminStatus = [a \in Agents |-> "disabled"]
    /\ localChange = [a \in Agents |-> FALSE]
    /\ txFast = [a \in Agents |-> 0]
    /\ newNeighbor = [a \in Agents |-> FALSE]
    /\ msap1 = [a \in Agents |-> NULL]
    /\ msap2 = [a \in Agents |-> NULL]
    /\ unsent = [a \in Agents |-> FALSE]
    /\ work = <<>>
=============================================================================
