# A TLA+ model of lldpad

`lldpad` is the LLDP agent daemon of Linux data-centre hosts. It speaks LLDP
(IEEE 802.1AB) with the switch at the other end of every port, and carries
several protocols on top of it: DCBX and 802.1Qaz (data-centre bridging), MED,
and the edge virtual bridging protocols of 802.1Qbg (EVB, ECP, VDP). This
directory models the parts of it that have state and order, model-checks them
with TLC and proves the central facts with TLAPS.

## 1. Inventory

The daemon is one process with one thread. `eloop_run()` waits in `select()` and
calls one handler at a time: expired timeouts, signals, sockets. Nothing is
interrupted; everything difficult comes from the *order* of handlers, from state
left behind by one handler and read by a later one, from handlers that call state
machines which call modules which call the state machines again, and from the
peers.

| part | state | operations | interacts through |
|---|---|---|---|
| LLDP transmit (`lldp/tx.c`) | `tx.state`, `txNow`, `txCredit`, `txTTR`, `txFast`, `txShutdownWhile` | `run_tx_sm`, `run_tx_timers_sm`, `update_tx_timers` | `localChange` and `newNeighbor` from everyone else, `portEnabled`/`prevPortEnabled` of the port |
| LLDP receive (`lldp/rx.c`) | `rx.state`, `framein`, `rcvFrame`, `rxInfoAge`, `rxTTL`, `tooManyNghbrs`, MSAP id | `rxReceiveFrame`, `run_rx_sm`, `update_rx_timers` | modules' `rchange`/`mibdelete`, `newNeighbor` |
| agents and ports (`lldp/agent.c`, `lldp/ports.c`) | port list, agent list, `adminStatus` | `timer`, `set_lldp_agent_admin`, `set_lldp_port_enable`, `reinit_port`, `add_port`, `remove_port`, `clean_lldp_agents` | runs the machines above |
| link events (`event_iface.c`), start-up and SIGHUP (`config.c`, `lldpad.c`) | none of their own | `oper_add_device`, link down, `scan_port`, `lldpad_reconfig`, termination | ports, modules' `ifup`/`ifdown` |
| event loop (`eloop.c`) | timeout list, socket tables, signals | `eloop_register_timeout`, `eloop_cancel_timeout`, `eloop_run` | everything |
| ECP (`qbg/ecp22.c`, draft `qbg/ecp.c`) | two state machines per port, sequence numbers, retries, ack timer, queue of VDPDUs | send, ack, retransmit, receive, indicate | VDP above, link below |
| VDP (`qbg/vdp22*.c`, draft `qbg/vdp.c`) | a state machine per VSI, station and bridge side | associate, de-associate, keep-alive, acknowledgement timeouts | ECP, EVB parameters, netlink/clients |
| EVB (`lldp_evb22.c`, `lldp_evb.c`) | negotiated mode, RTE, RWD, RKA | TLV exchange | LLDP modules interface, starts VDP |
| DCBX (`dcb_protocol.c`, `tlv_dcbx.c`, `lldp_dcbx.c`) | control machine (sequence/ack numbers), a feature machine per feature | TLV exchange, commands | LLDP modules interface, kernel |
| 802.1Qaz (`lldp_8021qaz.c`) | ETS/PFC/APP local, remote and operational parameters | TLV exchange | LLDP modules interface, `set_lldp_agent_admin` |
| MED, mandatory, basic, 802.3 TLVs | configuration | build, print | LLDP modules interface |
| control interface (`ctrl_iface.c`, `clif.c`) | attached clients and their event masks | attach, detach, request, event | clients |
| configuration (`config.c`), shared memory (`lldpad_shm.c`) | settings that outlive the process | get, set, save | everything |
| clients (`lldptool`, `dcbtool`, `vdptool`) | none | parse, print | control interface |

What is hard: two agents of a port share one edge detector
(`prevPortEnabled`); an expiry signalled in one tick is acted upon in the next
handler, with a frame possibly in between; a module may re-enter the receive
machine from inside it; administrative changes may come twice within a tick;
partially valid frames are acted upon up to the first bad TLV; link events and
SIGHUP re-initialise half of the state; the loops of the machines must end;
negotiations (EVB, DCBX, 802.1Qaz) run over LLDPDUs that get lost, cross and are
dropped as duplicates; answers of ECP, VDP and the control socket carry no request
number or a short one and come late; timers are stopped by one event and expected
by another. The `hazards` of `PROJECT.json` list these with their lines and with
the properties that are about them.

What makes each part correct:

* transmit: never floods the link; never builds a frame while it must not; a
  change is announced; the peer is told when we stop;
* receive: what is stored is from one neighbour, has a deadline, and is deleted
  when it expires; nothing is stored while reception is off; the daemon survives
  every order of frames and ticks;
* ECP: at-most-once, in-order delivery with bounded retries; an acknowledged PDU
  was delivered; the sender never waits for ever;
* VDP: station and bridge agree on the state of a VSI after any loss; a VSI that
  was de-associated does not come back by a late message; keep-alives keep it;
* EVB/DCBX/802.1Qaz: both ends converge to the same operational parameters and
  never apply a mixture; the sequence/ack numbers detect completion;
* control interface: a client gets its own answer; daemon and client agree on
  who is attached, also after either died;
* TLV assembly: a neighbour sees one identity as long as the link is up; LLDP-MED
  is complete or absent;
* event loop: every timeout fires once, in order of time; a cancelled one never.

## 2. Plan

Order of the work, the most important behaviour first:

1. *(done)* `LldpPort`, `LldpTx`, `LldpRx`, `LldpAgent`: the LLDP core;
   `TransmitBudget` as its abstract specification; `LldpAgentProofs`.
2. *(done)* `Ecp22` (sender, receiver, lossy link) with the abstract specification
   `LossyFifo`; `QbgProofs`.
3. *(done)* `Evb22`: the negotiation that starts and parameterises ECP and VDP;
   `QbgProofs`. `Vdp22`: station and bridge machines over ECP; `Vdp22Proofs`.
   `Vdp02`: ECP and VDP of draft 0.2 at a station; `Vdp02Proofs`.
4. *(done)* `Dcbx`: control and feature machines of two peers, `DcbxProofs`; `Qaz`: the 802.1Qaz
   machines of two peers and the choice between the two protocols;
   `DcbRules`: what becomes of a priority-group configuration on its way to the
   driver; `DcbProofs` for both.
5. *(done)* `Ctrl`: daemon, clients and `lldpad -k`, `CtrlProofs`; `Tlvs`: what
   frames carry, and what survives a restart, `TlvsProofs`.
6. *Open, proofs:* every safety property of the runs is proved but
   `FoldKeepsBandwidth` of `DcbRules`; it and the liveness properties stay with TLC
   (section 5).
7. *Open, models:* the EVB TLV of draft 0.2, the bridge role of draft VDP, the
   timeout queue of `eloop.c` as a module of its own, `Vdp22` over `Ecp22` instead
   of over the abstract channel it is proved to implement.

## 3. Modules

| module | models | code |
|---|---|---|
| `LldpPort` | state shared by the agents of a port, the call stack of the running handler, `set_lldp_agent_admin`, `somethingChangedLocal` | `lldp/ports.c`, `lldp/agent.h`, `lldp_tlv.c`, `eloop.c` |
| `LldpTx` | `run_tx_sm`, `run_tx_timers_sm`, `update_tx_timers` | `lldp/tx.c` |
| `LldpRx` | `rxReceiveFrame`, `run_rx_sm`, `rxProcessFrame`, `update_rx_timers` | `lldp/rx.c` |
| `LldpAgent` | composition: timer, commands, link events, SIGHUP, termination; the properties | `lldp/agent.c`, `lldp/ports.c`, `event_iface.c`, `lldpad.c`, `config.c` |
| `TransmitBudget` | abstract specification: a leaky bucket per agent | what `txNow` and `txCredit` promise |
| `MCLldpAgent` | instances for TLC | |
| `LldpAgentProofs` | theorems: types, credit and rate of transmission, what a handler has settled when it returns | |
| `Ecp22` | transmit machine of a station, receive machine of its peer, the link; the properties | `qbg/ecp22.c`, start and stop from `lldp_evb22.c`, timers of `eloop.c` |
| `LossyFifo` | abstract specification: PDUs are delivered in order, at most once | what ECP promises to VDP |
| `MCEcp22` | `HistorySpec`, ECP with a history of lone sender restarts, and its instance for TLC, `MCSpec` | |
| `Evb22` | the EVB TLV at the two ends of a link, what it tells ECP and VDP | `lldp_evb22.c`, `lldp_evb22_cmds.c`, the conversions of exponents in `qbg/ecp22.c` and `qbg/vdp22.c` |
| `QbgProofs` | theorems on ECP and EVB | |
| `Vdp22` | VSI machines of a station and a bridge, requests, queues, ECP in between | `qbg/vdp22sm.c`, `qbg/vdp22.c`, `qbg/vdp22br.c`, `qbg/vdp22_cmds.c` |
| `Vdp22Proofs` | theorems | |
| `Vdp02` | ECP and VDP of draft 0.2 at the station | `qbg/ecp.c`, `qbg/vdp.c`, `qbg/vdpnl.c`, `qbg/vdp_cmds.c` |
| `Vdp02Proofs` | theorems | |
| `Dcbx` | control and feature machines of CIN and CEE DCBX at two ends | `dcb_protocol.c`, `tlv_dcbx.c`, `lldp_dcbx.c`, `lldp_dcbx_cmds.c` |
| `DcbxProofs` | theorems | |
| `DcbRules` | a priority-group configuration from TLV or command to driver | `dcb_rule_chk.c`, `tlv_dcbx.c`, `lldp_dcbx_nl.c`, `dcb_protocol.c` |
| `Qaz` | ETS, PFC and APP of two ends, activation against the older DCBX | `lldp_8021qaz.c`, `lldp_8021qaz_cmds.c`, parts of `lldp_dcbx.c` |
| `DcbProofs` | theorems on 802.1Qaz and the rules | |
| `Ctrl` | control socket, monitors, client programs, daemon start, stop and kill | `ctrl_iface.c`, `clif.c`, `lldpad.c`, `lldptool.c`, `dcbtool.c`, `vdptool.c`, `lldpad_shm.c` |
| `CtrlProofs` | theorems | |
| `Tlvs` | mandatory, basic, 802.3 and MED TLVs of a frame, identity over restarts | `lldp_mand.c`, `lldp_basman.c`, `lldp_8023.c`, `lldp_med.c`, their commands, `lldpad_shm.c` |
| `TlvsProofs` | theorems | |
| `MCEvb22`, `MCDcbx`, `MCQaz`, `MCCtrl`, `MCTlvs` | instances for TLC | |

### LLDP

**Handlers and state machines.** A handler of the daemon runs to its end, but
within it the machines of several agents run one after the other, and each of
them is a loop `set_state(); do { process(state); } while (set_state());`. One
pass of such a loop is one step of the model. The calls that the current handler
still has to make are kept on a stack, `work`; events (`timer`, `Receive`,
`oper_add_device`, ...) are possible only when it is empty (`AtRest`). A
procedure that calls another machine pushes the call: this is how
`set_lldp_agent_admin()` called by 802.1Qaz out of `rxProcessFrame()` re-enters
`run_rx_sm()` while the outer call stays in `RX_FRAME`. A fine-grained stack has
a second purpose: that the loops end is not assumed but checked
(`HandlersReturn`).

`TxBase`/`TxGoes` (and `TimerBase`/`TimerGoes`, `RxBase`/`RxGoes`) split
`set_*_state()` into the forced transition at its top and its switch; the
function returns true exactly when the switch selects another state.

**Frames.** A received frame is a record of chassis id, port id, TTL, the number
of TLV groups that pass the validation of `rxProcessFrame()` (`good`), and
whether 802.1Qaz TLVs are in it. TLVs in front of the first bad one are acted
upon, as in the code. `mib` is the set of neighbours whose TLVs were handed to
the modules since the last `mibDeleteObjects()`.

**History variables.** `burst` counts LLDPDUs sent in excess of one per tick,
`wire` the last LLDPDU the peer has got over the current link, `unsent` that a
local change has not been in any LLDPDU. They are written next to the code's
assignments and never read by a guard.

**Abstractions.** Memory is not exhausted (malloc results are not modelled);
statistics, `badFrame`, `remoteChange`, `hw_resetting` and `dormantDelay` are
left out, nothing modelled reads them; the TTL of our own LLDPDUs is not modelled;
modules are represented by the calls they make (`somethingChangedLocal`,
`set_lldp_agent_admin`), chosen nondeterministically where their own data
decides; an interface the kernel no longer lists (`RTM_DELLINK`, `scan_port`) and
a SIGHUP while the link is down have the same effect as `remove_port`. `ifdown`
of the modules does not change any of the variables here.

### ECP

`Ecp22` has one sending and one receiving station; both directions of a real link
are two copies of it that share nothing but the link. `TxGoes` is the switch of
`ecp22_set_tx_state()`, a pass of `ecp22_tx_run_sm()` is one step, and the other
handlers of the sender wait until the loop ends (`Dispatch`). The receive machine
runs from one request to the next without waiting, so `rx_receiveframe` is a
single step: FIRST, REC_ECPDU, NEW_ECPDU and SEND_ACK are its conditions.

*Time* is counted in ticks. `timers` holds, for each time left, the number of ack
timers with that time left: the code registers one with every transmission and
cancels none, so several may run. Time passes only when no timer is due.

*The link* keeps order and loses frames at will, a full link included. A PDU is
its number in the order of submission. A frame that reaches a station without ECP is dropped
(`unheard`).

*Stopping.* `link_down` is a link failure that both stations notice. A receiver may
also be restarted alone, a sender only where `SenderRestarts` says so, because
its numbers then start anew and an acknowledgement no longer means delivery.

*Left out.* The pool of free nodes; refused PDUs and frames (they change nothing);
the test of `prevPortEnabled` in `ecp22_set_tx_state()` (ECP has been stopped by
`evb22_ifdown()` before a port can be seen disabled); the socket and the timers
that survive `ecp22_stop()`: the model drops them with the structure.

### EVB

`Evb22` has two ends. `ed` is `struct evb22_data` (policy, last TLV received, TLV
sent), `cfg` the section of the configuration file, `ecp` and `vdp` what
`modules_notify` gave to those modules. `evb22_timer` starts them once a second,
`evb22_gettlv` composes and sends (`station_tlv`, `bridge_tlv`, `common_tlv`),
`evb22_rchange` receives, `evb22_mibdelete` and `evb22_ifdown` forget, one action per
command changes the policy. An LLDPDU on the link, with the TLV or without, is replaced by a later
one or lost. `heard` is `rx.framein`, the last LLDPDU an end took: `rxReceiveFrame()` drops one equal
to it before any module sees it, so nothing is repeated to `evb22_rchange`. `asked` is a history of
the exponents that policies have had.
`rte` stands for the retries too and `rwd` for `rka`, which the code treats alike.
`rtevalue` computes the wait in an int of `IntBits` bits.

### VDP of the ratified standard

`sque` and `bque` are the queues of the two ends, a record per VSI: the state of its
machine, its mode, the mode last confirmed (`cc`), the flags that the handlers set
and the numbers of timeouts registered. `vdp22st_run()` and `vdp22br_run()` run to
completion in one step, as in the code: `vdp22st_move_state` picks the transition
and the operators `vdp22st_*`, `vdp22br_*` are the bodies of the states. A run is
written as a bounded number of moves, more than the longest chain of states; a machine
that has stopped is left alone by the moves to spare. ECP is two
bounded queues that keep order and may give a TLV up, which is what `Ecp22` is
proved to promise. A TLV that arrives is copied to `input` and taken up by a timeout,
as in `data_from_ecp`. `granted` is a history of what the bridge granted.

### VDP and ECP of draft 0.2

`vd` is `struct vdp_data`: the profiles, ECP's transmit machine and its timer. Timeouts
that the code registers twice and cancels once are counted (`MaxTimeouts`). A run of
`vdp_vsi_sm_station()` is one step of three rounds of its loop; that no run needs a
fourth is proved (`RunsEnd` in `Vdp02Proofs`). The switch
answers what reached it in any order, may refuse, may take an association back;
`told` and `crossed` are histories.

### DCBX, its rules, and 802.1Qaz

`Dcbx`: `node[n]` holds the stores of a port (`feat`, `pf`, `ctl`), `Advance`, `Negotiate`
and `Send` are the bodies of the machines, `Receive` and `Transmit` the LLDP module's
`rchange` and `gettlv`; unchanged frames do not reach the modules, as in `rxProcessFrame()`.
Faults are lost frames, expiry, a second neighbour, a duplicate TLV, a replugged cable
and restarts with and without saved numbers. `DcbRules` follows one configuration
through `process_dcbx*_pg_tlv` or `set_pg_config`, `dcb_check_config`, `dcb_fixup_pg` and
`set_hw_pg`, with three priorities instead of eight. Shares of a TLV are bytes of any sum and
become bytes again after a fold; the ids `Stray` (8 to 14 in the code) are stored as received.
`wild` names the arrays that were indexed outside their bounds: such a write is lost in the
model, and what the request makes of it is not spoken of. The driver is told the checked
configuration, or the unfolded defaults when the feature does not operate (`!oper_mode`). `Qaz`: `ets_sm`, `pfc_sm` and the
application list, `run_all_sm` at the end of every handler, the driver as `hw`, and
`active`/`dcbx`, the two modules' views of who is in charge. A frame may be malformed (`bad`, from
another neighbour): `dcbx_rchange()` has then acted on it before it fails (`LeavesFrame`), and
`torn` is a history of that.

### Control interface

`Ctrl` has several instances of the daemon one after the other (`lldpad_main`,
`ctrl_iface_deinit`, `killme`), each with its list of monitors `dst` (by client: the module and
the error counter of each entry), and clients that
follow `client_main`, `cli_interactive`, `clif_request`, `cli_alarm`. How the clients are started
(`Started`) is any set of choices of a program and of a command line or a prompt. A client's socket
is found by name, so an answer may reach a socket opened later. Messages are the kind of
request they answer, or an event. vdptool's `-W` is an attach of its own ("watch"), on a command
line or at a prompt, where the client is attached already; `loose` counts the attaches
that the one bit `cli_attached` does not stand for.

`shm` is the process id in shared memory. `lldpad -k` is two actions, `killme` up to the signal and
`killme_waited`: the instance ends and the mark is left, or the wait is over first, no mark is left
and the instance ends later (`doomed`). `mark_lldpad_shm_for_removal` is `lldpad -s`. `invoked` and
`unmarked` are histories. One `-k` runs at a time.

### TLVs

`Tlvs`: `md` is the data of `lldp_mand.c`, `bd` which optional modules hold data for the
port, `conf` the settings, `host` the addresses, `shm` what shared memory has. A frame is
the set of TLVs packed and the identity they name; `said` is a history of the identities
since the link came up or an operator chose another one, `conf.denied` one of the TLVs that an
administrator has switched off.

## 4. Runs

Twelve runs, one per question. `TypeOK` is part of the LLDP run; in the other modules
it documents what the variables hold (and is proved for `Ecp22`, `Evb22` and `Tlvs`).
`CHECK_DEADLOCK FALSE` is set where the system may stop: the LLDP runs (the daemon may
be terminated or abort), `evb22`, `vdp22`, `vdp02`, `tlvs` (commands, requests and
restarts are bounded).

| run | instance | shows |
|---|---|---|
| `lldp_tx` | two agents of one port, no frames | `Withdrawn`: whoever stops advertising has said so; `SendsOnlyWhenEnabled`: the agents that miss the falling edge of `portEnabled` still send nothing; `ImplementsBudget`: at most one LLDPDU per tick, `CreditAccounting`: the credit behind it; `TypeOK` |
| `lldp_rx` | one agent of a bond in DCB mode, two neighbours, a frame bad at its third TLV, a shutdown, 802.1Qaz TLVs; fair | `NeighbourHasDeadline`, `ReceiveOffHoldsNothing`, `NeighboursAgeOut`, `HandlersReturn`, `ChangesAreAnnounced` |
| `abort` | one agent, two neighbours | a violation, see section 6 |
| `ecp` | four sequence numbers (0 unused), four PDUs, two frames in flight each way, up to one retry, restarts; fair | `ImplementsFifo`, `AckMeansDeliveredUnlessRestarted`, `NothingStranded`, `PdusSettle` |
| `evb22` | a station and a bridge with crossed or equal exponents, one disturbance or the TLV switched off and on; an int of 8 bits, in which the wait of one of the exponents overflows; fair | `Converges`: both ends settle on the larger exponents and on reflective relay; `EcpRunsWithEvb`; `WrongWaitsWereAskedFor`: the exchange never makes up an exponent, so that a wait is other than documented exactly when a policy asked for an exponent that overflows |
| `vdp22` | one VSI, two requests of an attached client, every kind of answer, one stop; fair | `ConfirmedWasGranted`, `SilentOnlyIfKept`, `BusyEnds`, `BridgeForgets` |
| `vdp02` | one VSI, two requests (netlink and lldptool), one loss of the link | `EcpMovesOn`, `WaitHasTimer`, `RenewalDue`, `SilentOnlyIfUnanswered` |
| `dcbx` | a willing and an unwilling end, two features, both versions, one command and one fault; fair | `OneInFlight`; `OperatesWithPeer`: PFC, priority groups and applications work only with what the present peer enables; `Converges` |
| `rules` | three priorities and groups, one group id that is none, shares 0, 50, 153 in any combination, one to three classes | `EveryPriorityHasAClass`, `KindsApart`, `FoldKeepsBandwidth`; `IndexesInside`: the arrays are left by such an id, or by a CIN neighbour with nothing but strict priorities, and never else |
| `qaz` | two willing ends, one may force CEE, a command and a fault, which may be a malformed frame; fair | `BothOnlyIfTorn`: both protocols are active only after a malformed frame; `Converges` |
| `ctrl` | a vdptool or a dcbtool at its prompt with an lldptool command, or two vdptool commands, with `-W` or not; one typed command, two faults; fair | `TakesOwnAnswer`; `ViewsAgree`: who is attached, and how many entries nobody accounts for; `KillsFirstOnly`: a second `-k` kills only where no mark was left; `Reattaches` |
| `tlvs` | two addresses, two host events, two commands, the MED Capabilities TLV among what they switch, a restart | `SameIdentity`, `MedComplete` |

*Bounds, LLDP.* Agents of a port interact only through the port's two flags, so two are
enough for one to consume the edge and the other to miss it; receive state is per agent.
Two neighbours are needed for `tooManyNghbrs`, a third adds no new case since only
"stored" and "other" are told apart. TTLs of 0 and 1 cover "shutdown" and "expires
before the next frame"; `abort` adds 2. `TX_CREDIT_MAX` 2 (1 where frames are received)
and intervals of 1 and 2 ticks keep every comparison of `run_tx_timers_sm` on both sides;
the theorems hold for all values. A frame that fails at the third TLV has set
`tooManyNghbrs` and the MSAP id already; `abort` also has the earlier failures.

*Bounds, ECP.* Four PDUs use the numbers 1, 2, 3 and 1 again, so that a late
acknowledgement of the first may meet the fourth; the condition of `AckMeansDelivered`
on the number of PDUs given up is sharp there (with one more it fails). Two frames in
flight hold a request and its retransmission, or the last of one PDU and the first of
the next. A wait of one tick and a stale timer already show every order of the two;
retries of 0 and 1 show giving up at once and after a retransmission. Lone restarts of
the sender come after the first or second PDU (`RestartAfter`); the theorems have no such bound.

*Bounds, others.* VSIs share nothing but the queues, so one is enough for the machines;
two requests are the least with a late answer to the first. One TLV at a time waits in
`vdp22`'s input buffer (`MaxPending`): two, where the second overwrites the first, exceed
the time of a run. The netlink client of `vdp22` polls and is told nothing, hence the
attached one. In `evb22`, `dcbx`, `qaz` one or two disturbances precede convergence: each
end keeps little of the past but its last TLV and its sequence numbers, so one disturbance
before, during or after the exchange meets the distinct cases; the invariant behind
`OperatesWithPeer` is proved for any number of commands and faults. In `rules` three priorities and classes distinguish PFC, strict and
best-effort traffic, and fewer classes than groups; the shares of a CIN neighbour fill whole
bandwidth groups (`Caps`). Of its shares, 50 and 50 make 100, and 50 + 153 + 153 = 356 is 100 in a byte;
commands have 100 in addition and nothing above (`UserPcts`, as in `parse_cli.l`). In `evb22` a command
that switches the TLV has half the weight of the other disturbances, so that off and on again is
within the bound. In `ctrl` two faults are a crash
and a late answer, or two kills; `lldpad -s` is not counted; one command at a prompt is a second attach; `ErrorLimit` 1
stands for the code's ten.

*Fairness.* The event loop looks at its timeouts in every round, before it dispatches
sockets, and runs a handler to its end: so a handler that was called runs on, and a
timeout that is due is handled (`WF` of the steps and timers everywhere, `SF(timer)` for
LLDP, where frames and commands come in between). LLDP transmits every
`msgTxInterval` (`WF` of `gettlv`, `Transmit`), and a link that is up does not lose all of
infinitely many LLDPDUs (`SF` of their reception, in `evb22`, `dcbx`, `qaz`). ECP delivers a
TLV or gives it up (`vdp22`). In `ctrl` the daemon serves its socket even if the client's
is full now and then (`SF`), an init system restarts it, and the `select` and `alarm`
timeouts of clients run out. Nothing is assumed of commands, requests, link events,
signals, faults or of what a peer decides; for ECP nothing is assumed of the link either.

## 5. Theorems

`LldpAgentProofs` is checked by TLAPS for any list of agents, any set of frames
and any positive constants (the assumptions `PortAssumption`, `TxAssumption`,
`RxAssumption`, which TLC evaluates on every run).

* `TypeCorrect`: `Spec => []TypeOK`. One lemma per machine (`TxStepType`,
  `TimerStepType`, `RxStepType`), one for the other calls (`CallType`) and one for
  the events (`EventType`); lemmas on the stack (`StackType`, `WorkType`) are shared.
* `CreditIsAccounted`: `Spec => []CreditAccounting`. That credit and burst together
  stay within `TX_CREDIT_MAX` is not inductive alone, because a tick is first
  signalled (`txTick`) and only later turned into credit. `CreditAccounting` adds
  that a signalled tick is pending only inside `run_tx_timers_sm()` of its agent,
  with room for the credit or on a loop that is about to reset it; the machine
  cannot return without consuming it. `CreditCases` reduces `Next` to the five
  kinds of steps that the credit can tell apart.
* `RateIsLimited`: `Spec => []RateLimited`. The inductive invariant `RateInv` adds
  that an agent has sent nothing since the last tick while a request is
  outstanding (`txNow`) or may still be made (`run_tx_timers_sm()` is running), and
  that `run_tx_timers_sm()` is only ever the innermost call, made by the body of
  `timer()` (`StackShape`, `StackCases`). The credit is not needed for it: the
  hand-over alone limits the rate, and the credit is a second line of defence.
* `BudgetIsImplemented`: `Spec => ImplementsBudget`, the refinement of
  `TransmitBudget` under the mapping `bucket <- burst`, `Max <- 1`; `BudgetStep` is
  the step simulation.

The second half of the module is about the moments at which the event loop waits; in the
middle of a handler its properties are false. The invariants therefore say of every agent
that it is settled or that the call that will settle it is still on the stack (`Due`), and
lemmas on the stack say what a step adds to it and takes from it.

* `ReceiveOffIsEmpty`: `Spec => []ReceiveOffHoldsNothing`, and `NeighboursHaveDeadlines`:
  `Spec => []NeighbourHasDeadline`. `RxInv` has three parts: an agent that may not receive is in
  RX_LLDP_INITIALIZE or its `run_rx_sm()` is due (`RxSettled`), what each state holds
  (`RxStateKeeps`), and the deadline of what is stored outside RX_FRAME (`Deadline`). The
  deadline also has to hold while the port is down and the running handler is about to
  enable it (`EnablePending`). Frames may be anything, also malformed.
* `OnlyEnabledSend`: `Spec => SendsOnlyWhenEnabled`. `SendInv`: an agent that missed the
  falling edge of `portEnabled` has nothing to send, since `run_tx_timers_sm()` makes requests
  only where `run_tx_sm()` follows.
* `AgentsAreWithdrawn`: `~DcbMode` implies `Spec => []Withdrawn`. `WireInv`: whoever advertised is
  still advertising, and on a port that is up no earlier shutdown holds the next one back. The
  hypothesis is needed: on a port in DCB mode `clean_lldp_agents()` sends no shutdown LLDPDU on
  purpose, and a SIGHUP may bring the agents back with another `adminStatus`. `DcbMode` is what
  `check_port_dcb_mode()` says of the port; the `lldp_tx` run has it `FALSE` as well.

The first half of `QbgProofs` is about ECP and holds for any range of sequence numbers above two,
any negotiated retries and wait times, any number of PDUs and any capacity of the link
(`EcpAssumption`), with and without lone restarts of the sender.

* `TypeCorrect`: `Spec => []TypeOK`, with the bound on `retries`.
* `NothingIsStranded`: `Spec => []NothingStranded`. The inductive invariant `TxInv`
  says where the machine may rest: in WAIT_ONDATA with an empty queue or in
  TXMIT_ECPDU with a timer running; `TickKeepsTimers` and `TransmissionTimed` are
  the two facts about timers it rests on.
* `InOrderAtMostOnce`: `Spec => ImplementsFifo`. What the receiver delivers is
  newer than all before it only because of what can still be on the way, so
  `FifoInv` orders the whole path: delivered PDUs, requests on the link, the
  transmit buffer and the queue hold non-decreasing PDUs; equal PDUs are the same
  frame with the same number; and a request for a PDU that was delivered already
  carries the number the receiver remembers (`Recognised`). `FifoSubmit`,
  `FifoTransmit` and `FifoReceive` are the steps that move PDUs along that path,
  `FifoRefinement` is the step simulation. The size of the sequence number space
  does not matter for it: on a link that keeps order, two numbers are enough.
* `AcksAreForTheirPdu`: `HistorySpec => []AckMeansDeliveredUnlessRestarted`. Here the numbers do
  matter, since an acknowledgement says nothing but a number. `AckInv` keeps an account of all
  numbers under way (the receiver's last one, the requests and the acknowledgements on the
  link): each is some distance behind the current one (`Behind`), the distances
  do not decrease from the transmit buffer outwards, and none is more than one larger than the
  number of PDUs given up since ECP started (`AgeInv`); hence, as long as fewer were given up
  than there are numbers, whatever carries the current number belongs to the current PDU
  (`OwnInv`). `HistorySpec` has none of the bounds of `MCSpec`. `AckMeansDelivery` is the
  same without the history, where `SenderRestarts` is false.

The second half of `QbgProofs` is about EVB and holds for any range of exponents, any configurations
of the two ends and any number of disturbances (`IntBitsAssumption`, `PowersAssumption`, `ExponentsAssumption`,
`InitConfigsAssumption`, `DefaultRteAssumption`, `MaxChangesAssumption`).

* `EvbTypeCorrect`: `EvbSpec => []EvbTypeOK`. `NewOutType` and `UpdateType` are the two facts about the
  composed TLV, `CommandData` the one about all commands.
* `EcpFollowsEvb`: `EvbSpec => []EcpRunsWithEvb`. The invariant is inductive together with
  `EvbTypeOK`, which it needs to tell a structure from an absent one (`PresentData`).
* `EcpWaitsAsAskedFor`: `EvbSpec => []WrongWaitsWereAskedFor`. The invariant says where an exponent
  can come from: a policy of some time, the zero of a fresh structure or ECP's default; negotiation takes the
  larger of two and so never leaves that set, and what ECP gets is no smaller than a policy. A value
  that fits in an int is unchanged by the conversion, one that does not is another. The provers know
  nothing of powers, so the two facts used (powers of two are positive natural numbers, and `2^IntBits` is
  twice the one below) are the assumption `PowersAssumption`, true in arithmetic and evaluated by TLC.

`Vdp22Proofs` holds for any set of VSIs, filters, mixture of clients, outcomes at the bridge,
capacity of the channels and number of requests (`VidsAssumption`, `ModesAssumption`,
`OutcomesAssumption`, `ClientsAssumption`, `BoundsAssumption`). A machine runs through several
states in one handler, so the lemmas go from the body of a state to a move, a run, a handler.

* `ConfirmedGranted`: `Spec => []ConfirmedWasGranted`. A machine takes any positive answer for the one
  to its last request. `GrantInv` says why that is harmless: every positive answer on the way,
  in the input buffer and in a machine's record was granted, and what is granted stays in the
  history.
* `ClientsAreTold`: `Spec => SilentOnlyIfKept`, an action property. `QuietInv` says what the record
  of a VSI with a waiting client may look like between handlers; the run lemmas follow the
  message that is owed from the state that decides the outcome to the one that sends it.

`Vdp02Proofs` holds for any set of VSIs, room in a frame, range of sequence numbers, number of
timeouts counted, requests and losses of the link (`RoomAssumption`, `ModesAssumption`,
`BoundsAssumption`).

* `WaitsAreTimed`: `Spec => []WaitHasTimer`, `RenewalIsDue`: `Spec => []RenewalDue`,
  `EcpAlwaysMovesOn`: `Spec => []EcpMovesOn`, `NoneIsForgottenSilently`:
  `Spec => SilentOnlyIfUnanswered`. They share `TimerInv`, a statement about the record of every
  profile between two handlers (`AtRest`) and about ECP (`EcpRest`). Timers alone are not
  inductive: whether a run of the machine restarts a timer depends on the state and the mode
  agreeing, on the pending local change and on `ackReceived` being clear. A handler makes a
  profile `Ready`, each round of the loop leads to `Round` or `Done`, and `Done` is `AtRest`.
  Nothing is needed of the frames, so the switch may send anything.
* `RunsEnd` (a lemma): after three rounds `vdp_vsi_sm_station()` has no transition left. It is what
  makes the unrolled run of the model the loop of the code.

`DcbxProofs` holds for any features, settings of the two ends and hardware rules and any number of
commands and faults (it uses `FeaturesAssumption` only).

* `OneNumberInFlight`: `Spec => OneInFlight`, an action property. `SeqInv` only says that the numbers are
  numbers; the content is in `Steps`, what a run of the machines for a local change may do to
  them, which composes: a command runs the machines up to four times, and once a number was
  taken it is not acknowledged before the command ends. A frame of the neighbour or its expiry
  runs them once, after `MyAckNo` was set.

* `OperatesOnlyWithPeer`: `OneVersion => (Spec => []OperatesWithPeer)`. `PeerInv` says of every port that
  what its feature machines operate with is present and enabled at a single peer (`Backed`), that
  all machines of a port are in INIT as long as its control machine is not in LISTEN or the
  protocol is inactive (`Fresh`), and which versions the ports and the frames carry. `FeatureBacked` follows one run of a feature
  machine, `ProtocolBacked` a run of all of them after the control machine, and the handlers are
  sequences of such runs. `OneVersion`, both ends having the same maximum version, is what
  any two daemons of this code have (`DCB_MAX_VERSION`); without it the property fails, because
  nothing runs while the control versions differ (section 6).

`DcbProofs` is about `Qaz` (`NodeAssumption`, `CapableAssumption`, `BoundsAssumption`) and `DcbRules`, the
latter for one to eight priorities (`NAssumption`), any number of classes, any ids that are no groups and
any shares (`StraysAssumption`, `ShareAssumption`, `SubtypesAssumption`):

* `OnlyTornPortsHaveBoth`: `Spec => []BothOnlyIfTorn`. `ActiveInv` adds only that the members exist; the
  work is in showing that each handler that switches one protocol on switches the other off
  or leaves it off, but for the frame that is left half-way.
* `ArraysAreLeftTwice`: `RulesSpec => []IndexesInside`, `EveryPriorityIsMapped`: `RulesSpec => []EveryPriorityHasAClass`, `KindsStayApart`:
  `RulesSpec => []KindsApart`, `NoneIsLost`: `RulesSpec => []CheckedStaysAccepted`. `RuleInv` follows the
  configuration from step to step: it is whole and its kinds are those asked for, once checked there is
  nothing left to fold (`Settled`), and what reaches the driver was accepted (`Accepted`). That link
  strict priorities find an unused group is a pigeonhole argument on the groups in use; that folding
  keeps kinds apart rests on the three ranges of classes being disjoint; and the second check of
  `put_pg` judges the same sums as the first because it folds nothing.

`CtrlProofs` holds for any set of clients, started in any way (program, prompt or command line, with or
without `-W`), any bound on the queues and any number of faults and commands (`CtrlAssumption`).

* `FirstKillOnly`: `Spec => []KillsFirstOnly`. `MarkInv`: once a `-k` has come to its end, the mark is in
  shared memory and no `lldpad -k` is between reading it and leaving its own, unless `unmarked`.
* `OwnAnswers`: `Spec => []TakesOwnAnswer`. `AnswerInv`: as long as a client has given up nothing, at
  most one exchange of it is under way, as a request in the daemon's queue or as an answer in
  its own, and it is the one the client waits for (`InStep`).
* `ViewsStayWithinBounds`: `Spec => []ViewsAgree`. Views differ while a request is queued, so `ViewInv` is
  about the future: an upper and a lower bound on the entries there will be once the queued
  requests are served (`AtMost`, `AtLeast`), against what the client means and what it has lost
  count of (`Means`, `Most`). A detach takes one entry and is sent for one, which is why the bounds
  move together; a step of a client keeps them (`Fits`), as does serving a request.

`TlvsProofs` holds for any addresses, device types, commands and numbers of events, commands and
restarts (`TlvsAssumption`).

* `TlvsTyped`: `Spec => []TypeOK`.
* `IdentityKept`: `Spec => SameIdentity`, an action property. `IdInv` relates the identity last sent to
  what the daemon, or after a stop shared memory, will build the next one from.
* `MedFramesComplete`: `Spec => []MedComplete`. `FrameInv` adds that no optional module keeps data for a
  port without the 802.3 module, whose TLV the MED TLVs of the next frame need, and that the
  Capabilities TLV is on unless it was denied.

Only model-checked:

* the liveness properties, since fairness and `ENABLED` are beyond the prover: `NeighboursAgeOut`,
  `HandlersReturn`, `ChangesAreAnnounced`, `PdusSettle`, `BusyEnds`, `BridgeForgets`, `Reattaches`
  and the three `Converges`;
* `FoldKeepsBandwidth`: the sum of the shares of the classes is the sum over their groups, which needs
  induction over a set. The other properties of `DcbRules` compare sums of equal
  shares and need none.

## 6. What the code does differently from what it says

`abort` is a run with expectation *violation*: the assertion at the start of
`rxProcessFrame()` can fail. TTL expires in a tick (`rxInfoAge`), another frame of the
neighbour comes in before the next tick: `DELETE_INFO` goes first and frees the frame, then
`RX_FRAME` is entered.

Behaviour met while modelling that the models contain, as the code has it, and that the
properties leave out by name:

* LLDP: `tooManyNghbrs` may be set without its timer (a second neighbour's frame with a bad
  or zero TTL) and then stays, so that the TTL of the only neighbour is not stored. A
  link-down event forgets an expiry that was about to be acted on. `txShutdownWhile` is
  never counted down: transmission disabled and enabled again between two ticks does not
  resume (`ChangesAreAnnounced`).
* ECP: ack timers are never cancelled; the one of a PDU that was given up retransmits the
  next PDU before its time. `ecp22_stop()` frees the structure that a registered timer
  points to. A sender restarted alone may have its first PDU acknowledged and not delivered
  (`AckMeansDeliveredUnlessRestarted`).
* EVB: `lldptool-evb22.8:35` and `:157` document exponents 0 to 31 and a wait of 10*2^ecprte; the
  code computes it in an int, which overflows from 28 on. `WrongWaitsWereAskedFor` says of every
  exponent on which side of that line it is, and that the exchange never crosses it by
  itself. A lowered exponent does not come down as long as the two ends echo the old one
  (`NoEcho` in `Converges`). An end whose TLV is switched off ignores what it hears; the peer's
  LLDPDUs do not change afterwards and are dropped as duplicates, so that an end switched on
  again goes on without the peer's exponents (`Deaf` in `Converges`).
* VDP: an answer with an error and KEEP completes an association silently
  (`SilentOnlyIfKept`); a VSI that waits when EVB stops VDP stays busy (`BusyEnds`); a filter
  that does not match leaves the bridge's VSI without a timer (`BridgeForgets`).
* Draft VDP: a request for another mode while one is under way, or an answer that changes the
  mode, may leave a profile in a PROCESSING state that nobody times (`WaitHasTimer`).
* DCBX: after a second neighbour has gone, the first one's unchanged LLDPDUs are not processed
  again (`Converges`). `run_dcb_protocol()` looks the LLINK feature up under its loop index, not under
  subtype 0, so its machine does not run for a local change: an LLINK advertised again keeps
  the mode it had on its own until the peer's next change (`OperatesWithPeer` leaves LLINK out).
  Between ends of different maximum versions a feature may stay in operation after its peer
  expired, since nothing runs while the control versions differ (`OneVersion`). 802.1Qaz: a link event of a port that is up makes an end forget the
  peer's application entries (`Converges`), and after a crash the driver keeps entries that
  nobody configures. A frame of the older DCBX with an empty sub-TLV makes that protocol active
  and is then discarded before 802.1Qaz sees it: both are active (`BothOnlyIfTorn`).
* Priority groups: `dcb_rule_chk.c:276` says the percentages "must total 100%"; they are added
  up in a byte, so that 356 is accepted (`FoldKeepsBandwidth` speaks of the sum in a byte). Ids 8 to 14
  of a CEE neighbour, and the leftover of a CIN neighbour with nothing but strict priorities, index
  arrays outside their bounds (`IndexesInside`). When the feature does not operate the driver is told
  the defaults unfolded, with a class for every priority whether the device has it or not
  (`DriverClasses` in `EveryPriorityHasAClass`).
* Control interface: an answer that comes after the client's timeout is taken for the next
  one (`TakesOwnAnswer`); behind systemd's socket a client does not notice a restart
  (`Reattaches`, `ViewsAgree`). `-W` typed at vdptool's prompt attaches a second time, and one of the
  two entries stays after the client has quit (`loose` in `ViewsAgree`); without a connection it
  attaches through a null pointer. `lldpad.8:144-145` says of `lldpad -k`: "Once lldpad -k has been
  invoked and lldpad has been restarted, subsequent invocations of lldpad -k will not terminate
  lldpad." They do in exactly two cases: `lldpad -s` has removed the mark, or the `-k` before had
  given up waiting and left none (`KillsFirstOnly`, `unmarked`).
* TLVs: `lldp_med.c:710` calls the MED Capabilities TLV "always mandatory for MED", but
  `med_bld_medcaps_tlv()` leaves it out without an error when its transmission is off (`denied` in
  `MedComplete`). An IP chassis identifier that cannot be built leaves the frame without one.

## 7. Not modelled

See the `not_modelled` and `partly` components of `PROJECT.json`.

* The EVB TLV of draft 0.2, the bridge role of draft VDP and the timeout queue of
  `eloop.c` are planned (section 2).
* Command-line parsing, printing of TLVs and statistics in the clients, TLV and netlink
  encoding, OUI fields, packet sockets, logging: conversions and I/O without protocol state.
* What happens after memory was freed or read past its end (an orphaned ECP timer, the shared
  memory entry past the last, the writes that `wild` of `DcbRules` notes): undefined, and the
  models stop short of it. Exhausted memory is not modelled.
* Blocking inside the event loop (`sleep` in `vdp_trigger()`, a blocking `sendmsg()` to a stopped
  client) and the amount of time that passes.
* The test programs.
