------------------------------- MODULE Vdp02 --------------------------------
(* ECP and VDP of IEEE 802.1Qbg draft 0.2 at a station: qbg/ecp.c carries    *)
(* VSI TLVs in acknowledged frames, one at a time, and qbg/vdp.c keeps a     *)
(* machine per VSI profile that a netlink client (qbg/vdpnl.c) or lldptool   *)
(* (qbg/vdp_cmds.c) asked for.  EVB starts and stops them (lldp_evb.c).  The *)
(* switch and the link are the environment: the switch acknowledges and      *)
(* answers what reaches it, may take an association back, and the link loses *)
(* frames.                                                                   *)
(*                                                                           *)
(* A handler runs to completion.  The operators below act on vd, struct      *)
(* vdp_data, or on one profile of it; while a machine runs the record also   *)
(* collects what the run hands on: a frame in vd.out, a local change for ECP *)
(* in p.ecp, a notification of the client in p.sent, a removal in p.gone.    *)
EXTENDS Integers, Sequences, FiniteSets

CONSTANTS
    VSIs,           \* identities of profiles: manager, type, version, UUID
    NlModes,        \* modes a netlink client asks for
    CmdModes,       \* modes lldptool asks for
    FrameRoom,      \* VSI TLVs that fit into an ECP frame
    Capacity,       \* bound on frames on their way from the switch
    SeqMod,         \* sequence numbers kept apart; see Send
    MaxTimeouts,    \* bound on the timeouts kept per handler and profile
    MaxRequests,    \* bound on requests of clients
    MaxFlaps        \* bound on losses of the link

ECP_MAX_RETRIES == 3
Modes == {"PRE", "PRE_RR", "ASSOC", "DEASSOC"}
Stopped == -1       \* ECP_ACK_TIMER_STOPPED, VDP_KEEPALIVE_TIMER_STOPPED

ASSUME RoomAssumption == FrameRoom \in Nat \ {0}
ASSUME ModesAssumption == NlModes \subseteq Modes /\ CmdModes \subseteq Modes
ASSUME BoundsAssumption ==
    /\ Capacity \in Nat \ {0} /\ SeqMod \in Nat \ {0, 1}
    /\ MaxTimeouts \in Nat \ {0} /\ MaxRequests \in Nat /\ MaxFlaps \in Nat

VARIABLES
    portEnabled,    \* the link is up
    started,        \* evb_data's vdp_start
    vd,             \* struct vdp_data, None until EVB starts VDP
    toStation,      \* frames on their way from the switch
    asked,          \* TLVs that reached the switch and wait for its answer
    holds,          \* VSIs the switch associates
    requests, flaps,
    told,           \* VSIs whose client was sent a DEASSOC by netlink
    crossed         \* VSIs whose mode changed while a request was under way,
                    \* or by an answer, since they were last asked for

vars == <<portEnabled, started, vd, toStation, asked, holds, requests,
          flaps, told, crossed>>

None == [none |-> TRUE]

Responses == {"none", "ok", "bad"}
Processing == {"ASSOC_PROCESSING", "PREASSOC_PROCESSING",
               "DEASSOC_PROCESSING"}
VsiStates == Processing \cup {"UNASSOCIATED", "ASSOCIATED", "PREASSOCIATED",
                              "EXIT"}
Seqs == 0..SeqMod - 1

\* struct vsi_profile.  The timer fields hold 1 for the interval, 0 for
\* expired and Stopped; ackTo, kaTo and lcTo count the registered timeouts.
\* pid: a netlink client asked for the profile last.
Profiles ==
    [mode : Modes, response : Responses, no_nlmsg : BOOLEAN, pid : BOOLEAN,
     ackTimer : {0, 1}, ackReceived : {FALSE}, ka : {Stopped, 0, 1},
     state : VsiStates, seqnr : Seqs \cup {Stopped}, localChange : BOOLEAN,
     remoteChange : BOOLEAN, txmit : BOOLEAN,
     ackTo : 0..MaxTimeouts, kaTo : 0..MaxTimeouts, lcTo : 0..MaxTimeouts,
     ecp : {FALSE}, sent : {FALSE}, gone : {FALSE}]

NewProfile(mode, pid) ==
    [mode |-> mode, response |-> "none", no_nlmsg |-> FALSE, pid |-> pid,
     ackTimer |-> 0, ackReceived |-> FALSE, ka |-> 0,
     state |-> "UNASSOCIATED", seqnr |-> Stopped, localChange |-> FALSE,
     remoteChange |-> FALSE, txmit |-> FALSE,
     ackTo |-> 0, kaTo |-> 0, lcTo |-> 0,
     ecp |-> FALSE, sent |-> FALSE, gone |-> FALSE]

Answers == [k : {"req"}, vsi : VSIs, mode : Modes,
            response : {"ok", "bad"}]
Acks == [k : {"ack"}, seq : Seqs]

TxStates == {"INIT_TRANSMIT", "WAIT_FOR_ACK", "REQUEST_PDU"}

TypeOK ==
    /\ portEnabled \in BOOLEAN
    /\ started \in BOOLEAN
    /\ vd = None \/
       /\ vd.vdpbit_on \in BOOLEAN
       /\ vd.tx \in TxStates
       /\ vd.ackTimer \in {Stopped, 0, 1}
       /\ vd.ackTimer = 0 => vd.tx = "INIT_TRANSMIT"
       /\ vd.ackTo \in BOOLEAN /\ vd.lcTo \in BOOLEAN
       /\ vd.localChange \in BOOLEAN
       /\ vd.retries \in 0..ECP_MAX_RETRIES - 1
       /\ vd.last \in Seqs
       /\ vd.out = None
       /\ vd.p \in [VSIs -> Profiles \cup {None}]
       /\ vd.list \in Seq(VSIs)
       /\ {vd.list[i] : i \in DOMAIN vd.list} = {v \in VSIs : vd.p[v] # None}
    /\ toStation \in Seq(Answers \cup Acks) /\ Len(toStation) <= Capacity
    /\ asked \subseteq VSIs \X Modes
    /\ holds \subseteq VSIs /\ told \subseteq VSIs
    /\ crossed \subseteq VSIs
    /\ requests \in 0..MaxRequests /\ flaps \in 0..MaxFlaps

\* f at the value v, which TLC evaluates once.
Apply(f(_), v) == CHOOSE e \in {f(u) : u \in {v}} : TRUE

-----------------------------------------------------------------------------
(* The timers of a profile.                                                 *)

\* eloop_register_timeout() adds one more to those already there.
One(n) == IF n < MaxTimeouts THEN n + 1 ELSE n

\* vdp_somethingChangedLocal(), vdp_start_localchange_timer()
vdp_somethingChangedLocal(p, flag) ==
    [p EXCEPT !.localChange = flag, !.lcTo = IF flag THEN One(@) ELSE @]

\* Mutant: the interval is set and no timeout registered.
IntervalOnly(p) == [p EXCEPT !.ackTimer = 1]

vdp_start_ackTimer(p) == [p EXCEPT !.ackTimer = 1, !.ackTo = One(@)]

\* vdp_stop_ackTimer() cancels the timeouts and leaves the interval.
vdp_stop_ackTimer(p) == [p EXCEPT !.ackTo = 0]

vdp_start_keepaliveTimer(p) == [p EXCEPT !.ka = 1, !.kaTo = One(@)]
vdp_stop_keepaliveTimer(p) == [p EXCEPT !.ka = Stopped, !.kaTo = 0]

-----------------------------------------------------------------------------
(* The station machine of a profile.                                        *)

vdp_vsi_negative_response(p) == p.response = "bad"

\* The state the mode asks for; PRE_RR moves only an unassociated profile.
ByMode(p) ==
    CASE p.mode = "ASSOC" -> "ASSOC_PROCESSING"
      [] p.mode = "DEASSOC" -> "DEASSOC_PROCESSING"
      [] OTHER -> "PREASSOC_PROCESSING"

\* The state the machine moves to, or the state it is in.
Successor(p) ==
    CASE p.state = "UNASSOCIATED" -> ByMode(p)
      [] p.state \in {"ASSOC_PROCESSING", "PREASSOC_PROCESSING"} ->
           (IF p.ackReceived
            THEN IF p.response # "ok" THEN "EXIT"
                 ELSE IF p.state = "ASSOC_PROCESSING" THEN "ASSOCIATED"
                 ELSE "PREASSOCIATED"
            ELSE IF p.ackTimer = 0 THEN "EXIT" ELSE p.state)
      [] p.state = "ASSOCIATED" ->
           (IF p.mode \in {"PRE", "DEASSOC"} THEN ByMode(p)
            ELSE IF vdp_vsi_negative_response(p) THEN "EXIT"
            ELSE IF p.ka = 0 THEN "ASSOC_PROCESSING" ELSE "ASSOCIATED")
      [] p.state = "PREASSOCIATED" ->
           (IF p.mode \in {"ASSOC", "DEASSOC"} THEN ByMode(p)
            ELSE IF p.ka = 0 THEN "PREASSOC_PROCESSING" ELSE "PREASSOCIATED")
      [] p.state = "DEASSOC_PROCESSING" ->
           (IF p.ackReceived \/ p.ackTimer = 0 \/ p.remoteChange
            THEN "EXIT" ELSE p.state)
      [] p.state = "EXIT" -> "EXIT"

\* A profile is associated anew when it leaves UNASSOCIATED and when its
\* keep-alive interval ended.
vdp_vsi_set_station_state(p) ==
    LET s == Successor(p)
        renews == /\ p.state \in {"ASSOCIATED", "PREASSOCIATED"}
                  /\ p.ka = 0
                  /\ \/ p.state = "ASSOCIATED" /\ s = "ASSOC_PROCESSING"
                     \/ p.state = "PREASSOCIATED" /\ s = "PREASSOC_PROCESSING"
        q == [p EXCEPT !.state = s]
    IN CASE p.state = "UNASSOCIATED" -> vdp_somethingChangedLocal(q, TRUE)
         [] renews -> vdp_somethingChangedLocal(vdp_stop_keepaliveTimer(q), TRUE)
         [] OTHER -> q

\* vdpnl_send(): a RTM_SETLINK message to the process that asked.
vdpnl_send(p) == [p EXCEPT !.sent = TRUE]

\* Mutant: the client is not told.
ForgetsSilently(p) ==
    IF p.no_nlmsg \/ ~p.pid THEN p ELSE [p EXCEPT !.gone = TRUE]

\* vdp_trigger(): the switch gave the VSI up; tell the client and forget it.
vdp_trigger(p) ==
    IF p.no_nlmsg \/ ~p.pid THEN p
    ELSE [vdpnl_send(p) EXCEPT !.gone = TRUE]

\* The body of the three PROCESSING states: hand the profile to ECP.
EnterProcessing(p) ==
    LET q == vdp_stop_keepaliveTimer(p)
    IN IF p.localChange
       THEN vdp_start_ackTimer([q EXCEPT !.response = "none", !.ecp = TRUE,
                                         !.ackReceived = FALSE])
       ELSE [q EXCEPT !.response = "none",
                      !.ackReceived = @ /\ p.state # "DEASSOC_PROCESSING"]

\* The body of ASSOCIATED and of PREASSOCIATED.
EnterAssociated(p) ==
    vdp_start_keepaliveTimer(
        vdp_stop_ackTimer([p EXCEPT !.ackReceived = FALSE,
                                    !.localChange = FALSE]))

\* The body of EXIT: a request that timed out is forgotten without a word.
EnterExit(p) ==
    LET bye == p.no_nlmsg /\ ~p.ackReceived /\ p.ackTimer = 0
        q == [vdp_stop_keepaliveTimer(vdp_stop_ackTimer(p))
                EXCEPT !.lcTo = 0]
    IN IF bye THEN [q EXCEPT !.gone = TRUE] ELSE vdp_trigger(q)

Enter(p) ==
    CASE p.state \in Processing -> EnterProcessing(p)
      [] p.state \in {"ASSOCIATED", "PREASSOCIATED"} -> EnterAssociated(p)
      [] p.state = "EXIT" -> EnterExit(p)
      [] OTHER -> p

\* The first round of a run works on the state the machine is in when it
\* cannot move; a later round is made only after a move.
Begin(p) ==
    Apply(Enter, IF Successor(p) = p.state THEN p
                 ELSE vdp_vsi_set_station_state(p))
Continue(p) ==
    IF p.gone \/ Successor(p) = p.state THEN p
    ELSE Apply(Enter, vdp_vsi_set_station_state(p))

\* No run has more than three rounds: see RunsEnd in Vdp02Proofs.
vdp_vsi_sm_station(p) == Apply(Continue, Apply(Continue, Apply(Begin, p)))

-----------------------------------------------------------------------------
(* The transmit side of ECP.  ackTimer and the timeouts of vd are ECP's.    *)

\* The timeout it registers for a cleared flag finds nothing to do.
ecp_somethingChangedLocal(d, flag) ==
    [d EXCEPT !.localChange = flag, !.lcTo = @ \/ flag]

ecp_tx_stop_ackTimer(d) == [d EXCEPT !.ackTimer = Stopped, !.ackTo = FALSE]

Removed(s, v) == SelectSeq(s, LAMBDA x : x # v)

\* d after the machine of profile v ran to p.
Ran(d, v, p) ==
    LET q == [p EXCEPT !.ecp = FALSE, !.sent = FALSE, !.gone = FALSE]
    IN [d EXCEPT !.localChange = @ \/ p.ecp, !.lcTo = @ \/ p.ecp,
                 !.p[v] = IF p.gone THEN None ELSE q,
                 !.list = IF p.gone THEN Removed(@, v) ELSE @]

\* vdp_bld_vsi_tlv(): of the fields of a TLV, those of the identity (the VSI)
\* and the mode matter to the switch.
vdp_bld_vsi_tlv(p) == p.mode

\* The changed profiles in the order of the list.
Changed(d) == SelectSeq(d.list, LAMBDA v : d.p[v].localChange)

\* ecp_build_ECPDU(): as many of the changed profiles as fit.  A profile that
\* bore the number of a much older frame no longer matches it.
ecp_build_ECPDU(d) ==
    LET s == (d.last + 1) % SeqMod
        changed == Changed(d)
        n == IF Len(changed) < FrameRoom THEN Len(changed) ELSE FrameRoom
        in == {changed[i] : i \in 1..n}
    IN [d EXCEPT
          !.last = s,
          !.p = [v \in VSIs |->
                   IF d.p[v] = None THEN None
                   ELSE IF v \in in THEN [d.p[v] EXCEPT !.seqnr = s]
                   ELSE IF d.p[v].seqnr = s
                   THEN [d.p[v] EXCEPT !.seqnr = Stopped] ELSE d.p[v]],
          !.out = [seq |-> s, tlvs |-> [v \in in |-> vdp_bld_vsi_tlv(d.p[v])]]]

\* TRANSMIT_ECPDU and the move to WAIT_FOR_ACK: ecp_tx_create_frame(),
\* ecp_tx_start_ackTimer().
ecp_tx_create_frame(d) ==
    LET b == IF d.localChange THEN ecp_build_ECPDU(d) ELSE d
    IN [ecp_somethingChangedLocal(b, FALSE)
          EXCEPT !.ackTimer = 1, !.ackTo = TRUE, !.tx = "WAIT_FOR_ACK"]

\* ecp_tx_Initialize()
ecp_tx_Initialize(d) ==
    [ecp_somethingChangedLocal(d, TRUE)
       EXCEPT !.last = 0, !.ackTimer = Stopped, !.retries = 0]

RequestPdu(d) ==
    LET r == [d EXCEPT !.tx = "REQUEST_PDU", !.retries = 0]
    IN IF r.localChange THEN ecp_tx_create_frame(r) ELSE r

vdp_vsis_pending(d) ==
    \E v \in VSIs : /\ d.p[v] # None
                    /\ d.p[v].localChange /\ ~d.p[v].txmit

\* Mutant: the third timeout neither retries nor gives up.
RetriesOut(d) ==
    IF d.retries + 1 < ECP_MAX_RETRIES
    THEN ecp_tx_create_frame([ecp_somethingChangedLocal(d, TRUE)
                                EXCEPT !.retries = @ + 1])
    ELSE d

\* ecp_set_tx_state() in WAIT_FOR_ACK when the timer expired.
AckTimedOut(d) ==
    IF d.retries + 1 < ECP_MAX_RETRIES
    THEN ecp_tx_create_frame([ecp_somethingChangedLocal(d, TRUE)
                                EXCEPT !.retries = @ + 1])
    ELSE RequestPdu(ecp_tx_stop_ackTimer(d))

\* ecp_tx_run_sm() without an acknowledgement.  The fall of portEnabled that
\* ecp_set_tx_state() looks for was already consumed: set_lldp_port_enable()
\* runs the LLDP machines, which update the same prevPortEnabled.
ecp_tx_run_sm(d) ==
    CASE d.tx = "INIT_TRANSMIT" ->
           IF portEnabled THEN ecp_tx_create_frame(ecp_tx_Initialize(d))
           ELSE ecp_tx_Initialize(d)
      [] d.tx = "WAIT_FOR_ACK" -> IF d.ackTimer = 0 THEN AckTimedOut(d) ELSE d
      [] d.tx = "REQUEST_PDU" -> RequestPdu(d)

\* vdp_ack_profiles()
vdp_ack_profiles(d, seq) ==
    [d EXCEPT !.p = [v \in VSIs |->
        IF d.p[v] # None /\ d.p[v].seqnr = seq
        THEN [d.p[v] EXCEPT !.ackReceived = FALSE, !.txmit = TRUE]
        ELSE d.p[v]]]

\* ecp_tx_run_sm() for an acknowledgement: any one stops the timer, only the
\* one of the last frame ends the wait.
AckReceived(d, seq) ==
    IF d.tx # "WAIT_FOR_ACK" THEN ecp_tx_run_sm(d)
    ELSE LET b == ecp_tx_stop_ackTimer(ecp_somethingChangedLocal(d, FALSE))
         IN IF seq # d.last THEN b
            ELSE RequestPdu(IF vdp_vsis_pending(b)
                            THEN ecp_somethingChangedLocal(b, TRUE) ELSE b)

-----------------------------------------------------------------------------
(* What a run of the station leaves behind.                                 *)

\* The switch takes the TLVs of frame f and acknowledges it.  An
\* acknowledgement overtaken by SeqMod later frames counts as lost, so that
\* the numbers of those on the way stay apart.
SwitchReceives(f, queue) ==
    /\ asked' = {a \in asked : a[1] \notin DOMAIN f.tlvs}
                  \cup {<<v, f.tlvs[v]>> : v \in DOMAIN f.tlvs}
    /\ toStation' = IF Len(queue) < Capacity
                    THEN Append(queue, [k |-> "ack", seq |-> f.seq])
                    ELSE queue

\* The frames of the queue without an acknowledgement of number seq.
NotOvertaken(queue, seq) ==
    SelectSeq(queue, LAMBDA f : f.k = "req" \/ f.seq # seq)

\* The station ran to d, with queue left of the frames for it: ecp_txFrame()
\* puts a frame it built on the link, which delivers or loses it.
Send(d, tellv, queue) ==
    /\ vd' = [d EXCEPT !.out = None]
    /\ told' = told \cup tellv
    /\ IF d.out = None THEN toStation' = queue /\ UNCHANGED asked
       ELSE LET q == NotOvertaken(queue, d.out.seq)
            IN \/ toStation' = q /\ UNCHANGED asked
               \/ portEnabled /\ SwitchReceives(d.out, q)

\* Profile v ran its machine.
RanAlone(v, p) ==
    /\ Send(Ran(vd, v, p), IF p.sent THEN {v} ELSE {}, toStation)
    /\ UNCHANGED <<portEnabled, started, holds, requests, flaps, crossed>>

Live(v) == vd # None /\ vd.p[v] # None

\* No local change is waiting for its handler.  Those are called after 1 ms,
\* the other timeouts after 500 ms and more; that one of these comes first, in
\* the last millisecond of its interval, is not explored.
Settled == vd # None /\ ~vd.lcTo /\ \A v \in VSIs : Live(v) => vd.p[v].lcTo = 0

\* vdp_localchange_handler()
vdp_localchange_handler(v) ==
    /\ Live(v) /\ vd.p[v].lcTo > 0
    /\ LET p == [vd.p[v] EXCEPT !.lcTo = @ - 1]
       IN RanAlone(v, IF p.localChange THEN vdp_vsi_sm_station(p) ELSE p)

\* vdp_ack_timeout_handler(); a timeout left over from an earlier start ends
\* the interval too.
vdp_ack_timeout_handler(v) ==
    /\ Settled /\ Live(v) /\ vd.p[v].ackTo > 0
    /\ RanAlone(v, vdp_vsi_sm_station([vd.p[v] EXCEPT !.ackTo = @ - 1,
                                                      !.ackTimer = 0]))

\* vdp_keepalive_timeout_handler()
vdp_keepalive_timeout_handler(v) ==
    /\ Settled /\ Live(v) /\ vd.p[v].kaTo > 0
    /\ LET p == [vd.p[v] EXCEPT !.kaTo = @ - 1,
                                !.ka = IF @ > 0 THEN 0 ELSE @]
       IN RanAlone(v, IF p.ka = 0 THEN vdp_vsi_sm_station(p) ELSE p)

\* The transmit machine of ECP ran to d.
EcpRan(d) ==
    /\ Send(d, {}, toStation)
    /\ UNCHANGED <<portEnabled, started, holds, requests, flaps, crossed>>

ecp_localchange_handler ==
    /\ vd # None /\ vd.lcTo
    /\ LET d == [vd EXCEPT !.lcTo = FALSE]
       IN EcpRan(IF d.localChange THEN ecp_tx_run_sm(d) ELSE d)

ecp_ack_timeout_handler ==
    /\ Settled /\ vd.ackTo
    /\ EcpRan(ecp_tx_run_sm([vd EXCEPT !.ackTo = FALSE, !.ackTimer = 0]))

-----------------------------------------------------------------------------
(* Frames from the switch.                                                  *)

\* vdp_indicate() for a profile that exists.
vdp_indicate(p, f) ==
    IF f.mode = "DEASSOC" /\ p.response \in {"none", "ok"} /\ p.mode = "PRE"
    THEN p
    ELSE [p EXCEPT
            !.ackReceived = TRUE,
            !.ka = 1,
            !.remoteChange = f.mode # p.mode,
            !.no_nlmsg = @ /\ ~(f.mode # p.mode /\ f.mode = "DEASSOC"),
            !.response = f.response,
            !.mode = IF f.response = "bad" THEN "DEASSOC" ELSE f.mode]

\* vdp_advance_sm() after the indication.
vdp_advance_sm(p) ==
    IF p.ackReceived
    THEN [vdp_vsi_sm_station(p) EXCEPT !.ackReceived = FALSE] ELSE p

\* ecp_rx_run_sm(), ecp_rx_ProcessFrame(): the acknowledgement it sends is
\* the switch's affair.
ecp_rx_ProcessFrame(d, f) ==
    IF d.p[f.vsi] = None
    THEN Send(d, {}, Tail(toStation)) /\ UNCHANGED crossed
    ELSE LET p == vdp_advance_sm(vdp_indicate(d.p[f.vsi], f))
         IN /\ Send(Ran(d, f.vsi, p), IF p.sent THEN {f.vsi} ELSE {},
                    Tail(toStation))
            /\ crossed' = IF p.mode = d.p[f.vsi].mode THEN crossed
                          ELSE crossed \cup {f.vsi}

\* ecp_rx_ReceiveFrame().  A frame equal to the one before it is dropped,
\* which to the station is as if it was lost.
ecp_rx_ReceiveFrame ==
    /\ toStation # <<>> /\ vd # None
    /\ LET f == Head(toStation)
       IN \/ f.k = "req" /\ ecp_rx_ProcessFrame(vd, f)
          \/ /\ f.k = "ack"
             /\ \E e \in {AckReceived(vdp_ack_profiles(vd, f.seq), f.seq)} :
                  Send(e, {}, Tail(toStation))
             /\ UNCHANGED crossed
    /\ UNCHANGED <<portEnabled, started, holds, requests, flaps>>

-----------------------------------------------------------------------------
(* Clients.                                                                 *)

\* vdp_add_profile() with vdp_takeover_macvlans().
vdp_add_profile(d, v, mode, pid) ==
    LET known == d.p[v] # None
        p == IF known
             THEN IF d.p[v].mode # mode
                  THEN [d.p[v] EXCEPT !.mode = mode, !.response = "none",
                                      !.pid = pid]
                  ELSE [d.p[v] EXCEPT !.pid = pid]
             ELSE [NewProfile(mode, pid) EXCEPT
                     !.response = IF mode = "DEASSOC" THEN "ok" ELSE "none"]
    IN [d EXCEPT !.list = IF known THEN @ ELSE <<v>> \o @,
                 !.p[v] = IF p.response = "ok" THEN p
                          ELSE vdp_somethingChangedLocal(p, TRUE)]

\* The bound on requests, and their history.
Asks(v) ==
    /\ requests < MaxRequests /\ requests' = requests + 1
    /\ told' = told \ {v}
    /\ crossed' = IF Live(v) /\ vd.p[v].state \in Processing
                  THEN crossed \cup {v} ELSE crossed \ {v}

\* vdp_request(): the client polls for the outcome, so that no message is owed.
vdp_request(v, mode) ==
    /\ vd # None /\ vd.vdpbit_on
    /\ portEnabled \/ mode = "DEASSOC"
    /\ LET d == vdp_add_profile(vd, v, mode, TRUE)
       IN vd' = [d EXCEPT !.p[v].no_nlmsg = TRUE, !.p[v].txmit = FALSE]

\* RTM_SETLINK of a netlink client, its attributes parsed.
vdpnl_setlink(v, mode) ==
    /\ vdp_request(v, mode)
    /\ Asks(v)
    /\ UNCHANGED <<portEnabled, started, toStation, asked, holds, flaps>>

\* lldptool's mode argument: _set_arg_mode().
set_arg_mode(v, mode) ==
    /\ vd # None
    /\ vd' = vdp_add_profile(vd, v, mode, FALSE)
    /\ Asks(v)
    /\ UNCHANGED <<portEnabled, started, toStation, asked, holds, flaps>>

\* vdp_status(): the profile is forgotten once its outcome was reported.
vdp_status(p) == p.response # "none" /\ p.state = "EXIT"

\* RTM_GETLINK: vdpnl_getlink() asks for entry 1, 2, ... of a list that
\* shrinks under it, and so passes over the entry behind a forgotten one.
Walk(list, p) ==
    LET after[i \in 0..Len(list)] ==
          IF i = 0 THEN list
          ELSE LET l == after[i - 1]
               IN IF i <= Len(l) /\ vdp_status(p[l[i]]) THEN Removed(l, l[i])
                  ELSE l
    IN after[Len(list)]

\* d with the list l that is left, without the profiles that were asked about
\* and so taken off the list.
Forgets(d, l) ==
    [d EXCEPT !.list = l,
              !.p = [v \in VSIs |->
                       IF /\ d.p[v] # None /\ vdp_status(d.p[v])
                          /\ \A i \in DOMAIN l : l[i] # v
                       THEN None ELSE d.p[v]]]

vdpnl_getlink ==
    /\ vd # None /\ \E v \in VSIs : Live(v) /\ vdp_status(vd.p[v])
    /\ \E l \in {Walk(vd.list, vd.p)} : vd' = Forgets(vd, l)
    /\ UNCHANGED <<portEnabled, started, toStation, asked, holds,
                   requests, flaps, told, crossed>>

-----------------------------------------------------------------------------
(* EVB and the link.                                                         *)

\* vdp_update(): EVB agreed on VDP with the switch, or no longer.
vdp_update(bit) ==
    /\ vd # None /\ vd.vdpbit_on # bit
    /\ vd' = [vd EXCEPT !.vdpbit_on = bit]
    /\ UNCHANGED <<portEnabled, started, toStation, asked, holds, requests,
                   flaps, told, crossed>>

\* ecp_init()
ecp_init(d) == ecp_somethingChangedLocal(d, TRUE)

NewVd ==
    [vdpbit_on |-> FALSE, tx |-> "INIT_TRANSMIT", ackTimer |-> 0,
     ackTo |-> FALSE, retries |-> 0, localChange |-> FALSE, lcTo |-> FALSE,
     last |-> 0, out |-> None, list |-> <<>>,
     p |-> [v \in VSIs |-> None]]

\* Mutant: nothing of the profiles is started again.
StartsEcpOnly(d) == ecp_init(IF d = None THEN NewVd ELSE d)

\* vdp_ifup(): what was running when the link fell is started again.
vdp_ifup(d) ==
    LET Again(p) == IF p.ackTimer > 0
                    THEN vdp_start_ackTimer(vdp_somethingChangedLocal(p, TRUE))
                    ELSE p
        Kept(p) == IF p.ka > 0 THEN vdp_start_keepaliveTimer(p) ELSE p
        e == ecp_init(IF d = None THEN NewVd ELSE d)
    IN [e EXCEPT !.p = [v \in VSIs |-> IF e.p[v] = None THEN None
                                       ELSE Kept(Again(e.p[v]))]]

\* ecp_deinit() leaves the state of the transmit machine.
ecp_deinit(d) == [ecp_tx_stop_ackTimer(d) EXCEPT !.lcTo = FALSE]

vdp_ifdown(d) ==
    LET Down(p) == IF p.ackTimer > 0 THEN vdp_stop_ackTimer(p) ELSE p
        Idle(p) == IF p.ka > 0 THEN vdp_stop_keepaliveTimer(p) ELSE p
    IN [ecp_deinit(d) EXCEPT
          !.p = [v \in VSIs |-> IF d.p[v] = None THEN None
                                ELSE Idle(Down(d.p[v]))]]

\* evb_timer() calls vdp_ifup() once the link is stable.
evb_start_modules ==
    /\ portEnabled /\ ~started
    /\ started' = TRUE
    /\ vd' = vdp_ifup(vd)
    /\ UNCHANGED <<portEnabled, toStation, asked, holds, requests, flaps, told,
                   crossed>>

LinkUp ==
    /\ ~portEnabled
    /\ portEnabled' = TRUE
    /\ UNCHANGED <<started, vd, toStation, asked, holds, requests, flaps, told,
                   crossed>>

\* The link is lost: evb_ifdown() calls vdp_ifdown().  The switch may forget
\* what it associated.
evb_stop_modules ==
    /\ portEnabled /\ flaps < MaxFlaps
    /\ portEnabled' = FALSE
    /\ started' = FALSE
    /\ vd' = IF started THEN vdp_ifdown(vd) ELSE vd
    /\ toStation' = <<>> /\ asked' = {}
    /\ holds' \in {holds, {}}
    /\ flaps' = flaps + 1
    /\ UNCHANGED <<requests, told, crossed>>

-----------------------------------------------------------------------------
(* The switch and the link.                                                 *)

Post(f) == /\ Len(toStation) < Capacity
           /\ toStation' = Append(toStation, f)

Others == UNCHANGED <<portEnabled, started, vd, requests, flaps, told,
                      crossed>>

\* The switch answers a TLV; what it holds already it does not refuse.
SwitchAnswers ==
    \E a \in asked, r \in {"ok", "bad"} :
      /\ r = "bad" => a[1] \notin holds /\ a[2] # "DEASSOC"
      /\ Post([k |-> "req", vsi |-> a[1], mode |-> a[2], response |-> r])
      /\ asked' = asked \ {a}
      /\ holds' = IF r = "ok" /\ a[2] = "ASSOC" THEN holds \cup {a[1]}
                  ELSE holds \ {a[1]}
      /\ Others

\* It takes an association back.
SwitchDeassociates ==
    \E v \in holds :
      /\ Post([k |-> "req", vsi |-> v, mode |-> "DEASSOC",
               response |-> "ok"])
      /\ holds' = holds \ {v}
      /\ Others /\ UNCHANGED asked

Lose ==
    /\ toStation # <<>> /\ toStation' = Tail(toStation)
    /\ Others /\ UNCHANGED <<asked, holds>>

-----------------------------------------------------------------------------
Init ==
    /\ portEnabled = TRUE
    /\ started = FALSE
    /\ vd = None
    /\ toStation = <<>> /\ asked = {} /\ holds = {}
    /\ requests = 0 /\ flaps = 0 /\ told = {} /\ crossed = {}

Timers ==
    \/ ecp_localchange_handler
    \/ ecp_ack_timeout_handler
    \/ \E v \in VSIs : \/ vdp_localchange_handler(v)
                       \/ vdp_ack_timeout_handler(v)
                       \/ vdp_keepalive_timeout_handler(v)

Next ==
    \/ Timers
    \/ ecp_rx_ReceiveFrame
    \/ \E v \in VSIs, m \in NlModes : vdpnl_setlink(v, m)
    \/ \E v \in VSIs, m \in CmdModes : set_arg_mode(v, m)
    \/ vdpnl_getlink
    \/ \E b \in BOOLEAN : vdp_update(b)
    \/ evb_start_modules \/ LinkUp \/ evb_stop_modules
    \/ SwitchAnswers \/ SwitchDeassociates
    \/ Lose

Spec == Init /\ [][Next]_vars

-----------------------------------------------------------------------------
\* A change ECP was told of is on its way: its handler is registered, or a
\* frame is on the wire and its timer runs, so that retries, an answer or
\* giving up lead back to the change.  The exceptions are the two ways to lose
\* the timer of a frame without leaving WAIT_FOR_ACK: the acknowledgement of
\* an older frame stops it (qbg/ecp.c:526), and a loss of the link does.
EcpMovesOn ==
    (vd # None /\ started /\ vd.localChange)
      => \/ vd.lcTo
         \/ vd.tx = "WAIT_FOR_ACK" /\ (vd.ackTo \/ vd.ackTimer = Stopped)

\* A request ends: a profile in a PROCESSING state has a timeout to come that
\* takes it out (vdp_vsi_set_station_state(), the 3 s timer), whatever is lost
\* on the way and whenever the link falls.  The exceptions are a request for
\* another mode while one is under way, and an answer that changes the mode (a
\* late one, or a refusal of what was granted before; qbg/vdp.c:1164): both can
\* move the profile on to a PROCESSING state that nobody times.
WaitHasTimer ==
    \A v \in VSIs \ crossed :
      (Live(v) /\ started /\ vd.p[v].state \in Processing)
        => vd.p[v].ackTo > 0 \/ vd.p[v].lcTo > 0

\* An association is renewed: an associated profile has its keep-alive timeout
\* to come, also after the link was lost (vdp_ifdown() stops the timer for
\* good, and vdp_ifup() has to start it again).
RenewalDue ==
    \A v \in VSIs :
      (Live(v) /\ started /\ vd.p[v].state \in {"ASSOCIATED", "PREASSOCIATED"})
        => vd.p[v].kaTo > 0 \/ vd.p[v].lcTo > 0

\* A profile leaves the list without a message to its client only when its
\* outcome was reported or its own request went unanswered.
SilentOnlyIfUnanswered ==
    [][\A v \in VSIs :
         (Live(v) /\ ~(Live(v))' /\ v \notin told')
           => \/ vdp_status(vd.p[v])
              \/ vd.p[v].response = "none" /\ vd.p[v].no_nlmsg]_vars
=============================================================================
