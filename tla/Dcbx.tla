-------------------------------- MODULE Dcbx --------------------------------
(* DCBX, versions CIN (subtype 1) and CEE (subtype 2): the feature and the    *)
(* control state machine of dcb_protocol.c, the TLV of tlv_dcbx.c and the     *)
(* LLDP module of lldp_dcbx.c, at two ends of a link.  Both ends run this     *)
(* program; a larger MaxVersion stands for a later implementation of the same *)
(* protocol.  LLDP sends the latest state whenever a module asks for it and   *)
(* periodically, may lose a frame, and hands the modules only frames that     *)
(* differ from the last one.  Error_Flag, which is only reported, and events  *)
(* to attached clients are left out.                                          *)
EXTENDS Integers, Sequences, FiniteSets

CONSTANTS
    Node,           \* the two ends
    Features,       \* subset of {"PFC", "PG", "APP", "LLINK"}
    Subtypes,       \* what gdcbx_subtype may be: 1 (CIN), 2 (CEE)
    Config,         \* configurations of a feature
    Default,        \* the configuration in DEF_CFG_STORE
    Settings,       \* what a client may set: a set of settings
    Start,          \* Node -> settings each feature starts with
    Refused,        \* <<node, config>>: PG configurations the rules refuse
    Forced,         \* ends that use CEE or CIN from the start
    MaxVersion,     \* Node -> DCB_MAX_VERSION and the features' versions
    MaxPuts,        \* bound on changes by clients
    MaxFaults       \* bound on expiries, restarts, strangers, duplicates

Setting == [adv : BOOLEAN, en : BOOLEAN, will : BOOLEAN, cfg : Config]

ASSUME NodeAssumption == Cardinality(Node) = 2
ASSUME FeaturesAssumption == Features \subseteq {"PFC", "PG", "APP", "LLINK"}
ASSUME SubtypeAssumption == Subtypes \subseteq {1, 2}
ASSUME SettingsAssumption ==
    /\ Settings \subseteq Setting /\ Start \in [Node -> Setting]
    /\ Default \in Config /\ Refused \subseteq Node \X Config
    /\ \A n \in Node : <<n, Start[n].cfg>> \notin Refused
ASSUME ForcedAssumption == Forced \subseteq Node
ASSUME VersionAssumption == MaxVersion \in [Node -> Nat]
ASSUME BoundsAssumption == MaxPuts \in Nat /\ MaxFaults \in Nat

VARIABLES
    subtype,    \* gdcbx_subtype of both ends
    node,       \* node -> the stores of its port
    wire,       \* node -> the frame on its way to it
    puts,       \* changes by clients so far
    faults      \* faults so far

vars == <<subtype, node, wire, puts, faults>>

None == [none |-> TRUE]
Stray == "stray"
Other(n) == CHOOSE m \in Node : m # n
\* op(v), with v evaluated once.
Apply(op(_), v) == CHOOSE e \in {op(u) : u \in {v}} : TRUE
MinV(i, j) == IF i < j THEN i ELSE j

-----------------------------------------------------------------------------
(* The stores of a port                                                      *)

\* init_pg, init_pfc, init_apptlv, init_llink: a feature in state DCB_INIT with
\* the settings x of the configuration file.  hw is what the driver was told.
init_pg(x, hw) ==
    [state |-> "INIT", adv |-> x.adv, prev |-> FALSE, en |-> x.en,
     will |-> x.will, cfg |-> x.cfg, syncd |-> FALSE, sent |-> FALSE,
     oper |-> Default, mode |-> FALSE, err |-> FALSE, fseq |-> 0, ver |-> 0,
     force |-> FALSE, hw |-> hw]

\* init_peer_pg, init_peer_pfc, init_peer_apptlv, init_peer_llink.
init_peer_pg ==
    [present |-> FALSE, en |-> FALSE, will |-> FALSE, err |-> FALSE,
     ver |-> 0, max |-> 0, cfg |-> Default, dup |-> FALSE]

init_control_prot(seq, ack) ==
    [state |-> "INIT", seq |-> seq, ack |-> ack, myack |-> seq, ver |-> 0]

init_peer_control_prot(v) ==
    [seq |-> 0, ack |-> 0, ver |-> v, max |-> v, rx |-> "NONE",
     many |-> FALSE, dup |-> FALSE]

\* dcbx_add_adapter as the first dcbx_ifup() calls it: the stores are made,
\* and the machines do not run because the port is not active yet.
dcbx_add_adapter(n, x, hw, seq, ack, act) ==
    [active |-> act, txon |-> TRUE, tx |-> TRUE,
     ctl |-> init_control_prot(seq, ack),
     peer |-> init_peer_control_prot(MaxVersion[n]),
     feat |-> [f \in Features |-> init_pg(x[f], hw[f])],
     pf |-> [f \in Features |-> init_peer_pg],
     many |-> FALSE, msap |-> None, last |-> None, bad |-> FALSE]

Seqs == 0..(2 * (MaxPuts + MaxFaults) + 4)
Versions == 0..(MaxVersion[CHOOSE n \in Node : \A m \in Node :
                                MaxVersion[m] <= MaxVersion[n]])
LocalFeature ==
    [state : {"INIT", "LISTEN"}, adv : BOOLEAN, prev : BOOLEAN, en : BOOLEAN,
     will : BOOLEAN, cfg : Config, syncd : BOOLEAN, sent : BOOLEAN,
     oper : Config, mode : BOOLEAN, err : BOOLEAN, fseq : Seqs,
     ver : Versions, force : BOOLEAN, hw : Config]
Tlv == [en : BOOLEAN, will : BOOLEAN, err : BOOLEAN, ver : Versions,
        max : Versions, cfg : Config]

TypeOK ==
    /\ \A n \in Node :
        /\ node[n].active \in BOOLEAN /\ node[n].tx \in BOOLEAN
        /\ node[n].ctl \in [state : {"INIT", "LISTEN"}, seq : Seqs,
                            ack : Seqs, myack : Seqs, ver : Versions]
        /\ node[n].peer.rx \in {"NONE", "PRESENT", "EXPIRED", "RESET"}
        /\ \A f \in Features : node[n].feat[f] \in LocalFeature
        /\ ~node[n].bad
    /\ subtype \in Subtypes
    /\ puts \in 0..MaxPuts /\ faults \in 0..MaxFaults

Init ==
    /\ subtype \in Subtypes
    /\ node = [n \in Node |->
                 dcbx_add_adapter(n, [f \in Features |-> Start[n]],
                                  [f \in Features |-> Default], 0, 0,
                                  n \in Forced)]
    /\ wire = [n \in Node |-> None]
    /\ puts = 0 /\ faults = 0

-----------------------------------------------------------------------------
(* run_feature_protocol: l is the local store of the feature, p the peer's,  *)
(* seq the control machine's SeqNo                                           *)

\* set_configuration: the PG rules are checked again for a remote change.
\* When OperMode is false PG and PFC get the default; APP has no mode;
\* LLINK has no hardware.
ConfigFails(n, f, ev, l) ==
    f = "PG" /\ ev = "remote" /\ <<n, l.oper>> \in Refused
set_hw(f, l) ==
    CASE f \in {"PG", "PFC"} -> IF l.mode THEN l.oper ELSE Default
      [] f = "APP" -> l.oper
      [] f = "LLINK" -> l.hw
set_configuration(n, f, ev, l) ==
    IF ConfigFails(n, f, ev, l) THEN l ELSE [l EXCEPT !.hw = set_hw(f, l)]

\* State DCB_INIT.
EnterListen(n, l, seq) ==
    IF l.state # "INIT" THEN l
    ELSE [l EXCEPT !.state = "LISTEN", !.ver = MaxVersion[n], !.mode = FALSE,
                   !.err = FALSE, !.fseq = seq + 1, !.syncd = ~l.adv]

\* A local change of a feature that is not in sync waits for the peer first.
LocalChange(l, seq) ==
    IF ~l.syncd THEN l
    ELSE IF l.adv \/ l.prev THEN [l EXCEPT !.fseq = seq + 1, !.syncd = FALSE]
    ELSE [l EXCEPT !.fseq = seq + 1, !.sent = TRUE]

\* F4, F5: what is not advertised is used as configured.
NotAdvertised(n, f, ev, l) ==
    set_configuration(n, f, ev,
                      [l EXCEPT !.oper = l.cfg, !.err = FALSE, !.mode = l.en])

\* LocalPeerCompatible: CEE accepts any PG of the peer, LLINK none.
LocalPeerCompatible(f, l, p) ==
    CASE f = "PG" -> subtype = 2 \/ l.cfg = p.cfg
      [] f = "LLINK" -> FALSE
      [] OTHER -> l.cfg = p.cfg

\* F16 to F22: take the configuration c and OperMode m.
Take(n, f, l, c, m) ==
    LET t == [l EXCEPT !.oper = c, !.mode = m]
    IN  set_configuration(n, f, "remote",
            [t EXCEPT !.syncd = IF subtype = 2 THEN ~l.err ELSE @,
                      !.err = subtype = 1 /\ ConfigFails(n, f, "remote", t)])

\* F23: the configurations exclude each other.
Mismatch(n, f, l) ==
    set_configuration(n, f, "remote",
        [l EXCEPT !.oper = l.cfg, !.mode = FALSE, !.err = TRUE,
                  !.syncd = IF subtype = 2 THEN l.err ELSE @])

\* F9.1: duplicate TLVs.
Duplicate(n, f, l) ==
    set_configuration(n, f, "remote",
        [l EXCEPT !.oper = l.cfg, !.mode = FALSE, !.err = TRUE,
                  !.force = TRUE])

NegotiateTakesOwn(n, f, l, p) ==
    CASE ~l.en \/ ~p.en -> Take(n, f, l, l.cfg, FALSE)
      [] l.en /\ p.en ->
            IF l.will # p.will \/ LocalPeerCompatible(f, l, p)
            THEN Take(n, f, l, l.cfg, subtype = 1 \/ ~p.err)
            ELSE Mismatch(n, f, l)

\* F15 to F23.
Negotiate(n, f, l, p) ==
    CASE ~l.en \/ ~p.en -> Take(n, f, l, l.cfg, FALSE)
      [] l.en /\ p.en /\ l.will /\ ~p.will ->
            IF subtype = 2 /\ p.err THEN Take(n, f, l, l.cfg, FALSE)
            ELSE Take(n, f, l, p.cfg, TRUE)
      [] l.en /\ p.en /\ (~l.will \/ p.will) ->
            IF l.will # p.will \/ LocalPeerCompatible(f, l, p)
            THEN Take(n, f, l, l.cfg, subtype = 1 \/ ~p.err)
            ELSE Mismatch(n, f, l)

\* ErrProt, for t reached from l.
ErrProt(n, f, l, t, p, seq) ==
    LET off == subtype = 1 /\ (t.err \/ p.err) /\ t.mode
        u == IF off
             THEN set_configuration(n, f, "remote", [t EXCEPT !.mode = FALSE])
             ELSE t
    IN  IF t.err = l.err THEN u
        ELSE [u EXCEPT !.fseq = seq + 1,
                       !.syncd = IF subtype = 1 THEN FALSE ELSE @]

NotPresentKeepsMode(n, f, l) ==
    set_configuration(n, f, "remote",
        [l EXCEPT !.oper = l.cfg, !.syncd = TRUE, !.ver = MaxVersion[n],
                  !.err = subtype = 2])

\* F8 and F6.2: no TLV of the feature, or CEE and the neighbour has aged out.
NotPresent(n, f, l) ==
    set_configuration(n, f, "remote",
        [l EXCEPT !.oper = l.cfg, !.mode = FALSE, !.syncd = TRUE,
                  !.ver = MaxVersion[n], !.err = subtype = 2])
PeerExpired(n, f, l) ==
    set_configuration(n, f, "remote",
        [l EXCEPT !.oper = l.cfg, !.mode = FALSE, !.syncd = FALSE,
                  !.err = TRUE, !.fseq = 1])
\* A remote change of an advertised feature, versions being agreed.
RemoteChange(n, f, l, p, peer, seq) ==
    LET ver == MinV(p.max, MaxVersion[n])
        s == [l EXCEPT !.syncd = TRUE]
    IN  IF subtype = 2 /\ peer.rx = "EXPIRED" THEN PeerExpired(n, f, l)
        ELSE IF ~p.present THEN NotPresent(n, f, l)
        ELSE IF ~l.syncd /\ peer.ack # l.fseq THEN l
        ELSE IF p.dup
             THEN Apply(LAMBDA t : ErrProt(n, f, l, t, p, seq),
                        Duplicate(n, f, l))
        ELSE IF l.ver # ver
             THEN [l EXCEPT !.ver = ver, !.syncd = FALSE, !.fseq = seq + 1]
        ELSE IF p.ver # ver THEN s
        ELSE Apply(LAMBDA t : ErrProt(n, f, l, t, p, seq),
                   Negotiate(n, f, s, p))

\* The control versions agree.
CtrlVersionOK(n, s) ==
    s.ctl.ver = MinV(s.peer.max, MaxVersion[n]) /\ s.ctl.ver = s.peer.ver

\* State DCB_LISTEN, for a feature l whose local change has been noted.
Listen(n, f, ev, added, p, s, l) ==
    IF ~l.adv THEN NotAdvertised(n, f, ev, l)
    ELSE IF added
    THEN set_configuration(n, f, ev, [l EXCEPT !.oper = l.cfg])
    ELSE IF ev = "remote" /\ CtrlVersionOK(n, s)
    THEN RemoteChange(n, f, l, p, s.peer, s.ctl.seq)
    ELSE l

run_feature_protocol(n, f, ev, s) ==
    LET p == IF s.peer.many THEN [s.pf[f] EXCEPT !.present = FALSE]
             ELSE s.pf[f]
        i == EnterListen(n, s.feat[f], s.ctl.seq)
        l == IF ev = "local" THEN LocalChange(i, s.ctl.seq) ELSE i
        added == f = "PFC" /\ ev = "local" /\ s.feat[f].state = "INIT"
    IN  [s EXCEPT !.feat[f] = Apply(LAMBDA u : Listen(n, f, ev, added, p, s, u), l),
                  !.pf[f] = p,
                  !.bad = ev = "remote" /\ s.feat[f].adv /\ ~CtrlVersionOK(n, s)]

-----------------------------------------------------------------------------
(* run_control_protocol                                                      *)

FeaturesSynched(s) ==
    \A f \in Features : s.feat[f].state = "LISTEN" =>
                            s.feat[f].syncd /\ s.feat[f].sent

update_feature_syncd(s) ==
    [s EXCEPT !.feat = [f \in Features |->
        [s.feat[f] EXCEPT !.syncd = @ \/ ~s.feat[f].adv \/ s.feat[f].force]]]

SendUnacked(s, again) ==
    IF ~FeaturesSynched(s)
    THEN [update_feature_syncd(s) EXCEPT !.ctl.seq = @ + 1, !.tx = TRUE]
    ELSE [s EXCEPT !.tx = @ \/ again]

\* The label send: a new sequence number when the last one is acknowledged
\* and a feature is out of sync, else the frame with the old one if asked for.
\* somethingChangedLocal() asks LLDP to transmit.
Send(s, again) ==
    IF s.ctl.seq = s.ctl.myack /\ ~FeaturesSynched(s)
    THEN [update_feature_syncd(s) EXCEPT !.ctl.seq = @ + 1, !.tx = TRUE]
    ELSE [s EXCEPT !.tx = @ \/ again]

\* The neighbour has aged out: the numbers start over.
Expired(n, s) ==
    LET r == [s EXCEPT !.ctl.seq = 0, !.ctl.ack = 0, !.ctl.myack = 0,
                       !.ctl.ver = MaxVersion[n], !.peer.rx = "RESET"]
    IN  IF subtype = 2 THEN r ELSE Apply(LAMBDA u : Send(u, TRUE), r)

\* MyAckNo and AckNo after a frame of the neighbour.
Acknowledge(s) ==
    LET new == s.ctl.ack # s.peer.seq \/ s.peer.ack = 0
        r == [s EXCEPT !.ctl.myack = s.peer.ack]
        ack == new /\ ~s.peer.many
    IN  Apply(LAMBDA u : Send(u, ack),
              [r EXCEPT !.ctl.ack = IF ack THEN s.peer.seq ELSE @])

run_control_protocol(n, ev, s) ==
    LET c == IF s.ctl.state = "LISTEN" THEN s
             ELSE [s EXCEPT !.ctl.state = "LISTEN", !.ctl.ver = MaxVersion[n]]
        ver == MinV(c.peer.max, MaxVersion[n])
        send(again) == Apply(LAMBDA u : Send(u, again),
                             [c EXCEPT !.ctl.ver = IF again THEN ver ELSE @])
    IN  IF ev = "local" THEN send(FALSE)
        ELSE IF c.peer.rx = "EXPIRED" THEN Expired(n, c)
        ELSE IF c.peer.dup THEN send(FALSE)
        ELSE IF c.ctl.ver # ver THEN send(TRUE)
        ELSE IF c.peer.ver # ver THEN send(FALSE)
        ELSE Acknowledge(c)

\* run_dcb_protocol: PFC before PG, then the others, until one finds the
\* control versions not agreed; then the control machine.  For a local change
\* of LLINK it looks the feature up under the number of APP subtypes and finds
\* no store.
Order == <<"PFC", "PG", "APP", "LLINK">>
RunFeature(n, f, ev, fs, s) ==
    IF f \notin fs \/ (f = "LLINK" /\ ev = "local") THEN s
    ELSE Apply(LAMBDA u : IF u.bad THEN u ELSE run_feature_protocol(n, f, ev, u),
               s)
run_dcb_protocol(n, fs, ev, s) ==
    IF ~s.active THEN s
    ELSE LET t == RunFeature(n, Order[4], ev, fs,
                  RunFeature(n, Order[3], ev, fs,
                  RunFeature(n, Order[2], ev, fs,
                  RunFeature(n, Order[1], ev, fs, s))))
         IN  Apply(LAMBDA u : run_control_protocol(n, ev, u),
                   [t EXCEPT !.bad = FALSE])

-----------------------------------------------------------------------------
(* Commands of clients                                                       *)

\* _set_persistent and the copy into the local store: what get_persistent()
\* finds is what the store holds.
Set(l, x) == [l EXCEPT !.prev = l.adv, !.adv = x.adv, !.en = x.en,
                       !.will = x.will, !.cfg = x.cfg, !.sent = FALSE]
SetOf(l) == [adv |-> l.adv, en |-> l.en, will |-> l.will, cfg |-> l.cfg]
get_persistent(s) == [f \in Features |-> SetOf(s.feat[f])]

\* The changes of a client: nothing when nothing changes, else the machines
\* run.  PG must pass dcb_check_config().
put_pfc(n, f, x, s) ==
    IF x = SetOf(s.feat[f]) THEN s
    ELSE run_dcb_protocol(n, {f}, "local",
                          [s EXCEPT !.feat[f] = Set(s.feat[f], x)])
put_pg(n, x, s) == IF <<n, x.cfg>> \in Refused THEN s ELSE put_pfc(n, "PG", x, s)
put_llink(n, x, s) == put_pfc(n, "LLINK", x, s)
put_app(n, x, s) == put_pfc(n, "APP", x, s)
Put(n, f, x, s) ==
    CASE f = "PG" -> put_pg(n, x, s)
      [] f = "PFC" -> put_pfc(n, f, x, s)
      [] f = "APP" -> put_app(n, x, s)
      [] f = "LLINK" -> put_llink(n, x, s)

\* dont_advertise_dcbx_all: PG, PFC, APP and LLINK one after the other.
Advertise(n, f, ad, s) ==
    IF f \notin Features THEN s
    ELSE Apply(LAMBDA u : Put(n, f, [SetOf(u.feat[f]) EXCEPT !.adv = ad], u), s)
dont_advertise_dcbx_all(n, ad, s) ==
    Advertise(n, "LLINK", ad, Advertise(n, "APP", ad,
    Advertise(n, "PFC", ad, Advertise(n, "PG", ad, s))))

\* tlv_enabletx and somethingChangedLocal when advertisement is turned on.
TurnsOn(l, x, s) ==
    IF x.adv /\ ~l.adv THEN [s EXCEPT !.txon = TRUE, !.tx = TRUE] ELSE s

\* CMD_SET_CONFIG for PG, PFC and LLINK.
set_protocol_data(n, f, x, s) == Put(n, f, x, TurnsOn(s.feat[f], x, s))

\* CMD_SET_CONFIG for APP: one change for the configuration and Advertise, a
\* second one for Enable and Willing.
set_app_protocol_data(n, x, s) ==
    LET l == s.feat["APP"]
        first == [x EXCEPT !.en = l.en, !.will = l.will]
        t == Apply(LAMBDA u : put_app(n, x, u),
                   TurnsOn(l, x, put_app(n, first, s)))
    IN  [t EXCEPT !.tx = TRUE]

dcbx_clif_cmd(n, f, x) ==
    /\ puts < MaxPuts
    /\ x # SetOf(node[n].feat[f])
    /\ node' = [node EXCEPT ![n] = IF f = "APP" THEN set_app_protocol_data(n, x, @)
                                   ELSE set_protocol_data(n, f, x, @)]
    /\ puts' = puts + 1
    /\ UNCHANGED <<subtype, wire, faults>>

\* The TLV is turned on or off as a whole.
set_arg_tlvtxenable(n) ==
    /\ puts < MaxPuts
    /\ \E on \in {~node[n].txon} :
         node' = [node EXCEPT ![n] =
                    [dont_advertise_dcbx_all(n, on, [@ EXCEPT !.txon = on])
                     EXCEPT !.tx = TRUE]]
    /\ puts' = puts + 1
    /\ UNCHANGED <<subtype, wire, faults>>

-----------------------------------------------------------------------------
(* Frames                                                                    *)

\* The TLV of a feature: none when it is not advertised.
bld_dcbx_feature_tlv(n, l) ==
    IF ~l.adv THEN None
    ELSE [en |-> l.en, will |-> l.will, err |-> l.err, ver |-> l.ver,
          max |-> MaxVersion[n], cfg |-> l.cfg]
bld_dcbx_ctrl_tlv(n, s, tlv) ==
    [from |-> n, seq |-> s.ctl.seq, ack |-> s.ctl.ack, ver |-> s.ctl.ver,
     max |-> MaxVersion[n], dup |-> FALSE, tlv |-> tlv]
bld_dcbx1_tlv(n, s) ==
    bld_dcbx_ctrl_tlv(n, s,
        [f \in Features |-> bld_dcbx_feature_tlv(n, s.feat[f])])
\* CEE has no LLINK TLV.
bld_dcbx2_tlv(n, s) ==
    bld_dcbx_ctrl_tlv(n, s,
        [f \in Features |-> IF f = "LLINK" THEN None
                            ELSE bld_dcbx_feature_tlv(n, s.feat[f])])
dcbx_bld_tlv(n, s) ==
    IF subtype = 1 THEN bld_dcbx1_tlv(n, s) ELSE bld_dcbx2_tlv(n, s)

\* dcbx_gettlv when LLDP assembles a frame.  A port that is not active or
\* may not transmit the TLV sends a frame without it.
Transmit(n) ==
    LET s == node[n]
        with == s.active /\ s.txon
        mark_sent == [f \in Features |-> [s.feat[f] EXCEPT !.sent = TRUE]]
    IN  /\ wire[Other(n)] = None
        /\ IF with
           THEN /\ node' = [node EXCEPT ![n].tx = FALSE, ![n].feat = mark_sent]
                /\ wire' = [wire EXCEPT ![Other(n)] = dcbx_bld_tlv(n, s)]
           ELSE /\ node' = [node EXCEPT ![n].tx = FALSE]
                /\ wire' = [wire EXCEPT ![Other(n)] = [from |-> n]]
        /\ UNCHANGED <<subtype, puts, faults>>

\* process_dcbx_ctrl_tlv and put_peer_control: with a duplicate or a second
\* neighbour only the error is stored.
process_dcbx_ctrl_tlv(s, fr) ==
    IF fr.dup \/ s.many
    THEN [s.peer EXCEPT !.dup = fr.dup, !.many = s.many]
    ELSE [seq |-> fr.seq, ack |-> fr.ack, ver |-> fr.ver, max |-> fr.max,
          rx |-> "PRESENT", many |-> FALSE, dup |-> FALSE]

\* process_dcbx_pg_tlv and its like, for a TLV t that the frame has.
process_dcbx_pg_tlv(t, dup) ==
    [present |-> TRUE, en |-> t.en, will |-> t.will, err |-> t.err,
     ver |-> t.ver, max |-> t.max, cfg |-> t.cfg, dup |-> dup]
check_feature_not_present(f, p) ==
    IF f = "APP" THEN init_peer_pg ELSE [p EXCEPT !.present = FALSE]

mibUpdateObjects(n, s, fr) ==
    LET new(f) == IF fr.tlv[f] = None
                  THEN check_feature_not_present(f, s.pf[f])
                  ELSE process_dcbx_pg_tlv(fr.tlv[f], fr.dup)
    IN  run_dcb_protocol(n, Features, "remote",
            [s EXCEPT !.peer = process_dcbx_ctrl_tlv(s, fr),
                      !.pf = [f \in Features |-> new(f)]])

\* dcbx_rchange at the end of the frame: the port becomes active with the
\* first DCBX TLV, and the TLV is processed.
dcbx_rchange(n, s, fr) ==
    IF "seq" \notin DOMAIN fr THEN s
    ELSE mibUpdateObjects(n, [s EXCEPT !.active = TRUE,
                                       !.tx = @ \/ ~s.active], fr)

\* rxReceiveFrame: a frame equal to the last one is not processed.  A frame of
\* another neighbour than the one held sets tooManyNghbrs.
Heard(n, fr) ==
    LET new == node[n].msap = None
        s == [node[n] EXCEPT !.last = fr,
                             !.msap = IF new THEN fr.from ELSE @,
                             !.many = @ \/ (~new /\ node[n].msap # fr.from)]
    IN  IF fr = node[n].last THEN node[n] ELSE dcbx_rchange(n, s, fr)

Receive(n) ==
    /\ wire[n] # None
    /\ \E s \in {Heard(n, wire[n])} : node' = [node EXCEPT ![n] = s]
    /\ wire' = [wire EXCEPT ![n] = None]
    /\ UNCHANGED <<subtype, puts, faults>>

Lose(n) ==
    /\ wire[n] # None
    /\ wire' = [wire EXCEPT ![n] = None]
    /\ UNCHANGED <<subtype, node, puts, faults>>

-----------------------------------------------------------------------------
(* Faults                                                                    *)

Fault == faults < MaxFaults /\ faults' = faults + 1

\* A neighbour that repeats a TLV in its frame.
Repeat(n) ==
    /\ Fault
    /\ wire[n] # None /\ "seq" \in DOMAIN wire[n]
    /\ wire' = [wire EXCEPT ![n].dup = TRUE]
    /\ UNCHANGED <<subtype, node, puts>>

\* A second neighbour on the link speaks DCBX too.
Stranger(n) ==
    /\ Fault
    /\ node[n].last # None
    /\ \E fr \in {[dcbx_bld_tlv(n, dcbx_add_adapter(n,
                        [f \in Features |-> Start[n]],
                        [f \in Features |-> Default], 0, 0, TRUE))
                   EXCEPT !.from = Stray]} :
         node' = [node EXCEPT ![n] = Heard(n, fr)]
    /\ UNCHANGED <<subtype, wire, puts>>

\* tooManyNghbrsTimer expires.
StrangerGone(n) ==
    /\ node[n].many
    /\ node' = [node EXCEPT ![n].many = FALSE]
    /\ UNCHANGED <<subtype, wire, puts, faults>>

\* dcbx_mibDeleteObjects: the neighbour's TTL expires or it says good-bye.
\* put_peer_control() drops the new state while an error flag is stored.
dcbx_mibDeleteObjects(n, s) ==
    LET fs == {f \in Features : s.pf[f].present}
        err == s.peer.many \/ s.peer.dup
        t == [s EXCEPT !.pf = [f \in Features |->
                                 [s.pf[f] EXCEPT !.present = FALSE]],
                       !.peer.rx = IF err THEN @ ELSE "EXPIRED"]
    IN  IF fs = {} THEN t ELSE run_dcb_protocol(n, fs, "remote", t)

Expire(n) ==
    /\ Fault
    /\ node[n].last # None
    /\ node' = [node EXCEPT ![n] =
                  dcbx_mibDeleteObjects(n, [@ EXCEPT !.last = None,
                                    !.msap = None, !.many = FALSE])]
    /\ UNCHANGED <<subtype, wire, puts>>

\* The daemon restarts.  dcbx_remove_all() saves SeqNo and AckNo in shared
\* memory when it terminates and clears the APP entries of the kernel; a crash
\* does neither.  The driver keeps the rest of what it was told, and shared
\* memory remembers that the port used CEE or CIN.
save_dcbx_state(s, saved) ==
    IF saved THEN [seq |-> s.ctl.seq, ack |-> s.ctl.ack]
    ELSE [seq |-> 0, ack |-> 0]
dcbx_free_app_config(s, saved) ==
    [f \in Features |-> IF saved /\ f = "APP" THEN Default ELSE s.feat[f].hw]

Restart(n, saved) ==
    LET s == node[n]
        st == save_dcbx_state(s, saved)
    IN  /\ Fault
        /\ node' = [node EXCEPT ![n] =
             dcbx_add_adapter(n, get_persistent(s), dcbx_free_app_config(s, saved),
                              st.seq, st.ack, s.active \/ n \in Forced)]
        /\ wire' = [wire EXCEPT ![n] = None]
        /\ UNCHANGED <<subtype, puts>>

\* The interface is removed and comes back: dcbx_ifdown, whose
\* dcbx_remove_adapter() also forgets that the port used DCBX, and dcbx_ifup.
Replug(n) ==
    LET s == node[n]
    IN  /\ Fault
        /\ node' = [node EXCEPT ![n] =
             dcbx_add_adapter(n, get_persistent(s), [f \in Features |-> Default],
                              0, 0, n \in Forced)]
        /\ wire' = [wire EXCEPT ![n] = None]
        /\ UNCHANGED <<subtype, puts>>

Next ==
    \E n \in Node :
        \/ \E f \in Features, x \in Settings : dcbx_clif_cmd(n, f, x)
        \/ set_arg_tlvtxenable(n)
        \/ Transmit(n) \/ Receive(n) \/ Lose(n)
        \/ Repeat(n) \/ Stranger(n) \/ StrangerGone(n) \/ Expire(n)
        \/ Replug(n) \/ \E saved \in BOOLEAN : Restart(n, saved)

Spec == Init /\ [][Next]_vars

\* LLDP transmits periodically whether a module asked for it or not; a frame
\* sent again and again gets through; tooManyNghbrsTimer runs out.
Fairness ==
    \A n \in Node : /\ WF_vars(Transmit(n)) /\ SF_vars(Receive(n))
                    /\ WF_vars(StrangerGone(n))

FairSpec == Spec /\ Fairness

-----------------------------------------------------------------------------
(* Properties                                                                *)

\* Between ends of one version, a synchronised feature that is advertised is
\* operational only while the peer advertises and enables it too, whatever
\* order changes, losses, expiries and restarts come in.  A feature that has
\* seen a duplicate counts as synchronised as soon as it is sent, and nothing
\* runs while the versions of the two ends differ.  LLINK is not promised this: its machine does not
\* run for a local change, so an LLINK that is advertised again keeps the mode
\* it had on its own until the peer's next change.
OperatesWithPeer ==
    \A n \in Node, f \in Features \ {"LLINK"} :
        LET l == node[n].feat[f]
            working == /\ l.state = "LISTEN" /\ l.adv /\ l.syncd /\ l.mode
                       /\ ~l.force /\ CtrlVersionOK(n, node[n])
                       /\ l.ver = node[n].pf[f].ver
        IN  working => node[n].pf[f].present /\ node[n].pf[f].en

\* A machine takes the next sequence number only when the peer has
\* acknowledged the one before: a change of the settings is in flight alone,
\* however commands, losses, expiries and restarts interleave.
OneInFlight ==
    [][\A n \in Node :
        node'[n].ctl.seq > node[n].ctl.seq
            => /\ node[n].ctl.seq = node'[n].ctl.myack
               /\ node'[n].ctl.seq = node[n].ctl.seq + 1]_vars

\* What the settings a and b of the two ends make of feature f at a's end.
Outcome(f, a, b) ==
    LET l == [cfg |-> a.cfg]
        p == [cfg |-> b.cfg]
        off == [mode |-> FALSE, oper |-> a.cfg]
    IN  IF ~a.adv THEN [mode |-> a.en, oper |-> a.cfg]
        ELSE IF ~b.adv \/ (f = "LLINK" /\ subtype = 2) THEN off
        ELSE IF ~a.en \/ ~b.en THEN off
        ELSE IF a.will /\ ~b.will THEN [mode |-> TRUE, oper |-> b.cfg]
        ELSE IF a.will # b.will \/ LocalPeerCompatible(f, l, p)
        THEN [mode |-> TRUE, oper |-> a.cfg]
        ELSE off

\* Both ends use what the settings they have now call for.
Agreed ==
    \A n \in Node, f \in Features :
        [mode |-> node[n].feat[f].mode, oper |-> node[n].feat[f].oper]
            = Outcome(f, SetOf(node[n].feat[f]), SetOf(node[Other(n)].feat[f]))

\* Once changes and faults end, the two ends agree for good, unless one of
\* them stops sending the TLV or has heard a second neighbour.
Converges ==
    (\A n \in Node : [](node[n].txon /\ ~node[n].many)) => <>[]Agreed

=============================================================================
