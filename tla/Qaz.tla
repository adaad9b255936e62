-------------------------------- MODULE Qaz ---------------------------------
(* IEEE 802.1Qaz (lldp_8021qaz.c, lldp_8021qaz_cmds.c) at the two ends of a   *)
(* link: the ETS, PFC and APP state machines, what they tell the driver, the  *)
(* commands, and the choice between IEEE DCBX and the older CEE/CIN that      *)
(* lldp_dcbx.c makes from the same frames.  A node is the daemon of one end.  *)
(* ETS settings (maps, bandwidths, algorithms) are one value, so are the PFC  *)
(* priorities; an application entry is one value.                             *)
EXTENDS Integers, FiniteSets

CONSTANTS
    Node,       \* the two ends
    Highest,    \* the end with the greater MAC address
    Value,      \* settings of ETS and PFC
    None,       \* no TLV, no frame
    App,        \* (priority, selector, protocol) triples
    Start,      \* Start[n]: the configuration file of n
    MayForce,   \* ends whose configuration may force CEE or CIN
    Capable,    \* sets of ends whose drivers may support the older DCBX
    MaxCmds,    \* bound: commands
    MaxFaults   \* bound: faults, link changes and link events

ASSUME NodeAssumption == Cardinality(Node) = 2 /\ Highest \in Node
ASSUME CapableAssumption == MayForce \subseteq Node /\ Capable \subseteq SUBSET Node
ASSUME BoundsAssumption == {MaxCmds, MaxFaults} \subseteq Nat

VARIABLES
    capable,    \* ends whose driver supports the older DCBX
    force,      \* gdcbx_subtype has DCBX_FORCE_BIT at these ends
    node,       \* per end: configuration, module data, what the driver has
    wire,       \* wire[n]: the frame on its way to n
    cmds, faults,
    again       \* the kernel has reported a port that was up already

vars == <<capable, force, node, wire, cmds, faults, again>>

Other(n) == CHOOSE m \in Node : m # n

\* The configuration file: settings and willing bits, which TLVs are sent,
\* whether the older DCBX is enabled; adm says whether adminStatus is stored.
Conf == [ets : Value, rec : Value, etsW : BOOLEAN, pfc : Value, pfcW : BOOLEAN,
         apps : SUBSET App, txRec : BOOLEAN, txPfc : BOOLEAN, txApp : BOOLEAN,
         dcb : BOOLEAN, adm : BOOLEAN]

\* An application entry: absent, to be set, done, to be deleted.
AppState == [hw : {"NONE", "SET", "DONE", "DEL"}, peer : BOOLEAN]
NoApp == [hw |-> "NONE", peer |-> FALSE]

-----------------------------------------------------------------------------
(* The application list.                                                     *)

ieee8021qaz_mod_app(apps, a, peer, del) ==
    CASE apps[a].hw # "NONE" /\ del  -> [apps EXCEPT ![a].hw = "DEL"]
      [] apps[a].hw = "NONE" /\ ~del -> [apps EXCEPT ![a] = [hw |-> "SET", peer |-> peer]]
      [] OTHER -> apps

ieee8021qaz_app_reset(apps) ==
    [a \in App |-> IF apps[a].hw # "NONE" /\ apps[a].peer
                   THEN [apps[a] EXCEPT !.hw = "DEL"] ELSE apps[a]]

\* What the peer lists is set; what it listed before and lists no more goes.
process_ieee8021qaz_app_tlv(apps, listed) ==
    LET old == ieee8021qaz_app_reset(apps)
    IN  [a \in App |->
            CASE a \notin listed -> old[a]
              [] a \in listed /\ old[a].hw # "NONE" -> [old[a] EXCEPT !.hw = "SET"]
              [] OTHER -> [hw |-> "SET", peer |-> TRUE]]

\* Requests to the driver: settings and entries to set, an entry to delete.
set_ieee_hw(hw, ets, pfc) == [hw EXCEPT !.ets = ets, !.pfc = pfc]
del_ieee_hw(hw, gone) == [hw EXCEPT !.app = @ \ gone]

\* Sets and deletions reach the driver, and the list is brought up to date.
SetHw(apps) ==
    [a \in App |-> CASE apps[a].hw = "SET" -> [hw |-> "DONE", peer |-> apps[a].peer]
                     [] apps[a].hw = "DEL" -> NoApp
                     [] OTHER -> apps[a]]

ieee8021qaz_app_sethw(s) ==
    [s EXCEPT !.hw = del_ieee_hw([s.hw EXCEPT !.app = s.hw.app \cup
                                    {a \in App : s.apps[a].hw = "SET"}],
                                 {a \in App : s.apps[a].hw = "DEL"}),
              !.apps = SetHw(@)]

-----------------------------------------------------------------------------
(* The state machines.                                                       *)

\* ETS: a willing end uses what the other recommends.
ets_sm(s) == IF s.conf.etsW /\ s.recr # None THEN "RX" ELSE "INIT"

\* cmp_mac_addrs(): this end's address is the greater one.
cmp_mac_addrs(n) == n = Highest

\* Mutant: two willing ends both yield.
PfcBothYield(n, s) ==
    IF s.conf.pfcW /\ (s.rem.w \/ s.rem.param) THEN "RX" ELSE "INIT"

\* PFC: a willing end uses the other's setting; of two, the one with the
\* smaller address does.  The second case does not ask for remote_param.
pfc_sm(n, s) ==
    IF \/ s.conf.pfcW /\ ~s.rem.w /\ s.rem.param
       \/ s.conf.pfcW /\ s.rem.w /\ ~cmp_mac_addrs(n)
    THEN "RX" ELSE "INIT"

ieee8021qaz_check_active(s) == s.active /\ ~s.pending

\* The settings in use: the recommendation or the configuration of ETS.
ets_to_ieee(s, e) == IF e = "RX" THEN s.recr ELSE s.conf.ets

\* Both machines run; the driver is told while IEEE DCBX is active.
run_all_sm(n, s) ==
    LET e == ets_sm(s)
        p == pfc_sm(n, s)
    IN  IF ieee8021qaz_check_active(s)
        THEN ieee8021qaz_app_sethw(
                [s EXCEPT !.ets = e, !.pfc = p,
                          !.hw = set_ieee_hw(@, ets_to_ieee(s, e),
                                    IF p = "RX" THEN s.rem.pfc ELSE s.conf.pfc)])
        ELSE [s EXCEPT !.ets = e, !.pfc = p]

-----------------------------------------------------------------------------
(* A port comes up.                                                          *)

\* The older DCBX is active where it is forced, or where shared memory says
\* that this port used it, unless it is disabled.
dcbx_ifup(n, s) ==
    [s EXCEPT !.dcbx = n \in capable /\ s.conf.dcb /\ (n \in force \/ s.shm)]

\* IEEE DCBX is active otherwise, but waits for the port to be stable, or for
\* a peer, before it touches the driver.
ieee8021qaz_ifup(n, s) ==
    LET legacy == n \in force \/ s.shm
    IN  [s EXCEPT !.active = ~legacy, !.pending = IF legacy THEN @ ELSE TRUE]

\* dcbx_ifup stores enabledRxTx where it finds no setting, and it is the first
\* of the two modules; without it the agent starts as a receiver.
read_cfg_file(n, conf) ==
    [conf EXCEPT !.adm = @ \/ n \in capable]

\* Module data as they are allocated, from the configuration file.
ieee8021qaz_data(n, conf, hw, shm) ==
    [conf |-> read_cfg_file(n, conf), tx |-> conf.adm \/ n \in capable,
     active |-> FALSE, pending |-> FALSE, dcbx |-> FALSE, shm |-> shm,
     wait |-> TRUE, recr |-> None,
     rem |-> [param |-> FALSE, w |-> FALSE, pfc |-> CHOOSE v \in Value : TRUE],
     ets |-> "INIT", pfc |-> "INIT",
     apps |-> [a \in App |-> IF a \in conf.apps
                             THEN [hw |-> "SET", peer |-> FALSE] ELSE NoApp],
     hw |-> hw, last |-> None, crashed |-> FALSE, torn |-> FALSE]

\* Both modules choose anew: the port is not torn between them any more.
oper_add_device(n, s) == ieee8021qaz_ifup(n, dcbx_ifup(n, [s EXCEPT !.torn = FALSE]))

Init ==
    /\ capable \in Capable
    /\ force \in SUBSET (MayForce \cap capable)
    /\ node = [n \in Node |->
                 oper_add_device(n, ieee8021qaz_data(n, Start[n],
                    [ets |-> Start[n].ets, pfc |-> Start[n].pfc, app |-> {}], FALSE))]
    /\ wire = [n \in Node |-> None]
    /\ cmds = 0 /\ faults = 0 /\ again = FALSE

\* dormantDelay counts down to one: the wait for a peer is over.
ieee8021qaz_check_pending(n) ==
    LET s == node[n]
    IN  /\ s.wait
        /\ node' = [node EXCEPT ![n] =
             IF s.active /\ s.pending
             THEN run_all_sm(n, [s EXCEPT !.wait = FALSE, !.pending = FALSE,
                                          !.apps = ieee8021qaz_app_reset(@)])
             ELSE [s EXCEPT !.wait = FALSE]]
        /\ UNCHANGED <<capable, force, wire, cmds, faults, again>>

-----------------------------------------------------------------------------
(* Frames.                                                                   *)

\* The configuration in use is sent, whoever it came from.
bld_ieee8021qaz_pfc_tlv(s) ==
    IF ~s.conf.txPfc THEN None
    ELSE [w |-> s.conf.pfcW, pfc |-> IF s.pfc = "INIT" THEN s.conf.pfc ELSE s.rem.pfc]

bld_ieee8021qaz_etsrec_tlv(s) == IF s.conf.txRec THEN s.conf.rec ELSE None

\* The application TLV lists what the driver has.
get_ieee_hw(s) == s.hw.app
bld_ieee8021qaz_app_tlv(s) == IF s.conf.txApp THEN get_ieee_hw(s) ELSE None

ieee8021qaz_bld_tlv(s) ==
    IF s.active
    THEN [ieee |-> TRUE, cee |-> s.dcbx, bad |-> FALSE,
          rec |-> bld_ieee8021qaz_etsrec_tlv(s),
          pfc |-> bld_ieee8021qaz_pfc_tlv(s), app |-> bld_ieee8021qaz_app_tlv(s)]
    ELSE [ieee |-> FALSE, cee |-> s.dcbx, bad |-> FALSE,
          rec |-> None, pfc |-> None, app |-> None]

\* ieee8021qaz_gettlv, as LLDP asks for the TLVs of a frame.
ieee8021qaz_gettlv(n) ==
    /\ node[n].tx
    /\ \E s \in {run_all_sm(n, node[n])} :
        /\ node' = [node EXCEPT ![n] = s]
        /\ wire' = [wire EXCEPT ![Other(n)] = ieee8021qaz_bld_tlv(s)]
    /\ UNCHANGED <<capable, force, cmds, faults, again>>

process_ieee8021qaz_pfc_tlv(s, fr) ==
    IF fr.pfc = None THEN [s.rem EXCEPT !.param = FALSE]
    ELSE [param |-> TRUE, w |-> fr.pfc.w, pfc |-> fr.pfc.pfc]

\* Without the TLV the recommendation of an earlier frame is freed.
process_ieee8021qaz_etsrec_tlv(fr) == fr.rec

ieee8021qaz_mibUpdateObjects(s, fr) ==
    [s EXCEPT !.recr = process_ieee8021qaz_etsrec_tlv(fr),
              !.rem = process_ieee8021qaz_pfc_tlv(s, fr),
              !.apps = IF fr.app = None THEN ieee8021qaz_app_reset(@)
                       ELSE process_ieee8021qaz_app_tlv(@, fr.app)]

\* Which DCBX the peer spoke in its last frame, as the TLVs were unpacked;
\* an end that has no data of the older DCBX does not hear that one.
ieee8021qaz_tlvs_rxed(fr) == fr.ieee
dcbx_tlvs_rxed(n, fr) == n \in capable /\ fr.cee

\* dcbx_rchange at the end of a frame: the older DCBX becomes active when the
\* peer speaks it and does not speak IEEE DCBX.
dcbx_rchange(n, s, fr) ==
    IF ~s.dcbx /\ dcbx_tlvs_rxed(n, fr) /\ ~ieee8021qaz_tlvs_rxed(fr) /\ s.conf.dcb
    THEN [s EXCEPT !.dcbx = TRUE, !.shm = TRUE] ELSE s

\* unpack_dcbx1_tlvs() and unpack_dcbx2_tlvs() refuse a TLV of the older DCBX
\* with a sub-TLV of length zero, once the lines above have been executed.
Refused(n, fr) == dcbx_tlvs_rxed(n, fr) /\ fr.bad

\* TLV_ERR ends the frame there: ieee8021qaz_rchange() never sees its end.
\* The port is torn if the frame made the older DCBX active (history).
LeavesFrame(n, s, fr) ==
    LET t == dcbx_rchange(n, s, fr)
    IN  [t EXCEPT !.last = fr, !.torn = @ \/ (t.dcbx /\ ~s.dcbx)]

\* A default receiver that hears IEEE DCBX becomes, and stays, a transmitter.
EnableTx(s, fr) ==
    IF ieee8021qaz_tlvs_rxed(fr) /\ ~s.conf.adm /\ ~s.tx
    THEN [s EXCEPT !.tx = TRUE, !.conf.adm = TRUE] ELSE s

\* Mutant: the peer's version of DCBX is not looked at.
StaysActive(n, s, fr) == s.active

\* IEEE DCBX stays active unless the peer speaks the older DCBX only.
RemainsActive(n, s, fr) ==
    s.active /\ ~(dcbx_tlvs_rxed(n, fr) /\ ~ieee8021qaz_tlvs_rxed(fr))

ieee8021qaz_rchange(n, s, fr) ==
    IF RemainsActive(n, s, fr)
    THEN ieee8021qaz_mibUpdateObjects(
            EnableTx([s EXCEPT !.pending = @ /\ ~ieee8021qaz_tlvs_rxed(fr),
                               !.last = fr], fr), fr)
    ELSE [s EXCEPT !.active = FALSE, !.torn = FALSE, !.last = fr]

\* A frame equal to the last one is not processed.  The state machines run
\* after the update.
Receive(n) ==
    /\ wire[n] # None
    /\ IF wire[n] = node[n].last THEN UNCHANGED node
       ELSE IF Refused(n, wire[n])
       THEN node' = [node EXCEPT ![n] = LeavesFrame(n, @, wire[n])]
       ELSE \E s \in {dcbx_rchange(n, node[n], wire[n])} :
            \E t \in {ieee8021qaz_rchange(n, s, wire[n])} :
                node' = [node EXCEPT ![n] = IF t.active THEN run_all_sm(n, t) ELSE t]
    /\ wire' = [wire EXCEPT ![n] = None]
    /\ UNCHANGED <<capable, force, cmds, faults, again>>

Lose(n) ==
    /\ wire[n] # None
    /\ wire' = [wire EXCEPT ![n] = None]
    /\ UNCHANGED <<capable, force, node, cmds, faults, again>>

-----------------------------------------------------------------------------
(* Commands.                                                                 *)

Command(n, s) ==
    /\ cmds < MaxCmds /\ cmds' = cmds + 1
    /\ node' = [node EXCEPT ![n] = s]
    /\ UNCHANGED <<capable, force, wire, faults, again>>

set_arg_willing(n) ==
    \/ Command(n, [node[n] EXCEPT !.conf.etsW = ~@])
    \/ Command(n, [node[n] EXCEPT !.conf.pfcW = ~@])

\* The three parts of an ETS value, in the configuration or in the
\* recommendation: priorities, bandwidths and algorithms of traffic classes.
SetEts(n) == \E v \in Value :
    \/ Command(n, [node[n] EXCEPT !.conf.ets = v])
    \/ Command(n, [node[n] EXCEPT !.conf.rec = v])

set_arg_up2tc(n) == SetEts(n)
set_arg_tcbw(n) == SetEts(n)
set_arg_tsa(n) == SetEts(n)

set_arg_enabled(n) == \E v \in Value : Command(n, [node[n] EXCEPT !.conf.pfc = v])

\* set_arg_app: the list, the driver and the configuration file change.
set_arg_app(n) ==
    \E a \in App, del \in BOOLEAN :
        LET s == [node[n] EXCEPT
                    !.apps = ieee8021qaz_mod_app(@, a, FALSE, del),
                    !.conf.apps = IF del THEN @ \ {a} ELSE @ \cup {a}]
        IN  Command(n, IF ieee8021qaz_check_active(s) THEN ieee8021qaz_app_sethw(s) ELSE s)

set_arg_tlvtxenable(n) ==
    \/ Command(n, [node[n] EXCEPT !.conf.txRec = ~@])
    \/ Command(n, [node[n] EXCEPT !.conf.txPfc = ~@])

\* "mode reset" forgets that the port used the older DCBX.
set_arg_dcbx_mode(n) == node[n].shm /\ Command(n, [node[n] EXCEPT !.shm = FALSE])

\* dcbtool turns the older DCBX off or on for the next link up or peer.
set_dcb_state(n) == Command(n, [node[n] EXCEPT !.conf.dcb = ~@])

-----------------------------------------------------------------------------
(* Faults.                                                                   *)

Fault(n, s) ==
    /\ faults < MaxFaults /\ faults' = faults + 1
    /\ node' = [node EXCEPT ![n] = s]
    /\ UNCHANGED <<capable, force, cmds, again>>

\* The neighbour's information ends.
ieee8021qaz_mibDeleteObject(s) ==
    [s EXCEPT !.recr = None, !.rem.param = FALSE, !.rem.w = FALSE,
              !.apps = ieee8021qaz_app_reset(@), !.last = None]

Expire(n) == node[n].last # None /\ UNCHANGED wire
             /\ Fault(n, ieee8021qaz_mibDeleteObject(node[n]))

\* The link goes down, which deletes the data of the older DCBX with its mark
\* in shared memory (dcbx_remove_adapter), and comes up.
Flap(n) ==
    /\ wire' = [wire EXCEPT ![n] = None]
    /\ Fault(n, oper_add_device(n, [ieee8021qaz_mibDeleteObject(node[n])
                                    EXCEPT !.shm = FALSE, !.wait = TRUE]))

\* The daemon ends, deleting its application entries from the driver
\* (ieee8021qaz_free_tlv), or crashes, and starts again.
ieee8021qaz_free_tlv(s) ==
    [s.hw EXCEPT !.app = @ \ {a \in App : s.apps[a].hw # "NONE"}]

Restart(n, crash) ==
    LET s == node[n]
        hw == IF crash THEN s.hw ELSE ieee8021qaz_free_tlv(s)
    IN  /\ wire' = [wire EXCEPT ![n] = None]
        /\ Fault(n, [oper_add_device(n, ieee8021qaz_data(n, s.conf, hw, s.shm))
                     EXCEPT !.crashed = s.crashed \/ crash])

\* The kernel reports a port that is up already: the modules' ifup runs again,
\* but the dormant delay does not start again.
LinkEvent(n) ==
    /\ faults < MaxFaults /\ faults' = faults + 1 /\ again' = TRUE
    /\ node' = [node EXCEPT ![n] = oper_add_device(n, @)]
    /\ UNCHANGED <<capable, force, wire, cmds>>

\* Another neighbour's frame with a malformed TLV of the older DCBX.
Malformed(n) == \E ieee \in BOOLEAN :
    /\ faults < MaxFaults /\ faults' = faults + 1
    /\ wire' = [wire EXCEPT ![n] = [ieee |-> ieee, cee |-> TRUE, bad |-> TRUE,
                                   rec |-> None, pfc |-> None, app |-> None]]
    /\ UNCHANGED <<capable, force, node, cmds, again>>

Next ==
    \E n \in Node :
        \/ ieee8021qaz_check_pending(n) \/ ieee8021qaz_gettlv(n)
        \/ Receive(n) \/ Lose(n)
        \/ set_arg_willing(n) \/ set_arg_enabled(n)
        \/ set_arg_up2tc(n) \/ set_arg_tcbw(n) \/ set_arg_tsa(n)
        \/ set_arg_app(n) \/ set_arg_tlvtxenable(n)
        \/ set_arg_dcbx_mode(n) \/ set_dcb_state(n)
        \/ Expire(n) \/ Flap(n) \/ \E crash \in BOOLEAN : Restart(n, crash)
        \/ LinkEvent(n) \/ Malformed(n)

Spec == Init /\ [][Next]_vars

\* LLDP transmits periodically, a frame sent again and again gets through, and
\* dormantDelay is counted down by the agents' timer.
Fairness ==
    \A n \in Node : /\ WF_vars(ieee8021qaz_gettlv(n)) /\ SF_vars(Receive(n))
                    /\ WF_vars(ieee8021qaz_check_pending(n))

FairSpec == Spec /\ Fairness

-----------------------------------------------------------------------------
(* Properties                                                                *)

\* Settings, lists and the driver hold values of their kinds, and an end in
\* RX holds a recommendation to use: the ETS TLV is built from it.
TypeOK ==
    \A n \in Node :
        /\ node[n].conf \in Conf
        /\ node[n].apps \in [App -> AppState]
        /\ node[n].hw \in [ets : Value, pfc : Value, app : SUBSET App]

\* IEEE DCBX and the older one drive one port together in one case only,
\* whatever the peer speaks and however links, restarts and commands
\* interleave: after a frame that made the older one active and was then
\* discarded for a sub-TLV of length zero (lldp_dcbx.c:783, 793, 801; rx.c:373),
\* and then at most until a peer speaks the older DCBX only, the port comes up
\* again or the daemon starts again (lldp_8021qaz.c:1963, lldp_dcbx.c:772).
BothOnlyIfTorn == \A n \in Node : node[n].active /\ node[n].dcbx => node[n].torn

Ieee(n) == ieee8021qaz_check_active(node[n]) /\ node[n].tx

\* The end whose PFC setting the standard's rule picks for n.
PfcFrom(n) ==
    LET m == Other(n)
    IN  IF node[n].conf.pfcW /\ (~node[m].conf.pfcW \/ ~cmp_mac_addrs(n)) THEN m ELSE n

\* Both ends use what the settings they have now call for.
Agreed ==
    \A n \in Node :
        LET m == Other(n)
        IN  /\ node[n].hw.pfc = node[PfcFrom(n)].conf.pfc
            /\ node[n].hw.ets = IF node[n].conf.etsW /\ node[m].conf.txRec
                                THEN node[m].conf.rec ELSE node[n].conf.ets
            /\ node[n].crashed \/ node[m].crashed
               \/ node[n].hw.app = node[n].conf.apps \cup
                      (IF node[m].conf.txApp THEN node[m].hw.app ELSE {})

\* Once commands and faults end, two ends that speak IEEE DCBX and send PFC
\* agree: on one PFC setting if either is willing, on the recommendation at a
\* willing end, and on the applications, unless a link event made an end
\* forget what the peer listed (lldp_8021qaz.c:674-723, 1845).
Converges ==
    [](~again) /\ <>[](\A n \in Node : Ieee(n) /\ node[n].conf.txPfc) => <>[]Agreed

=============================================================================
