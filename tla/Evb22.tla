------------------------------- MODULE Evb22 --------------------------------
(* The EVB TLV of IEEE 802.1Qbg as ratified (lldp_evb22.c and its commands  *)
(* in lldp_evb22_cmds.c) on the two ends of one link.  Both ends offer       *)
(* their parameters in the EVB TLV of their LLDPDUs, answer with the larger  *)
(* value, and hand what they chose to the ECP and the VDP module of the same *)
(* interface (modules_notify).  The exponent rte stands for the retries too, *)
(* and rwd for rka: common_tlv() treats the members of each pair alike.      *)
EXTENDS Integers

CONSTANTS
    IntBits,        \* bits of an int; the TLV's exponents are 0..IntBits-1
    Exponents,      \* exponents an administrator configures
    DefaultRte,     \* ecp22_create(): max_rte before EVB speaks
    InitConfigs,    \* configuration files an end may start with
    MaxChanges      \* bound on link failures, lost neighbours and commands

ASSUME IntBitsAssumption == IntBits \in Nat \ {0}
\* Facts of arithmetic, for the provers, to which ^ is any operator.
ASSUME PowersAssumption == /\ \A n \in 0..IntBits : 2^n \in Nat \ {0}
                           /\ 2^IntBits = 2 * 2^(IntBits - 1)
ASSUME ExponentsAssumption == Exponents \subseteq 0..(IntBits - 1)
ASSUME InitConfigsAssumption ==
    InitConfigs \subseteq
      [tx : BOOLEAN, mode : {"station", "bridge"}, rte : Exponents,
       rwd : Exponents, gid : BOOLEAN, rrreq : BOOLEAN, rrcap : BOOLEAN]
ASSUME DefaultRteAssumption == DefaultRte \in 0..(IntBits - 1)
ASSUME MaxChangesAssumption == MaxChanges \in Nat

VARIABLES
    cfg,        \* the TLV's section of lldpad.conf, per end
    ed,         \* struct evb22_data per end, NoData when there is none
    heard,      \* rx.framein: the last LLDPDU an end took, NoData if none
    link,       \* the LLDPDU on its way from an end, NoData if none
    ecp,        \* struct ecp22: its max_rte, NoData when ECP is stopped
    vdp,        \* struct vdp22, NoData until vdp22_start() created it
    changes,    \* link failures, lost neighbours and commands so far
    asked       \* history: the exponents that some policy has asked for

endVars == <<cfg, ed, heard, link, ecp, vdp, changes, asked>>

Ends == {"x", "y"}
Peer(e) == CHOOSE p \in Ends : p # e

NoData == [none |-> TRUE]
Modes == {"station", "bridge"}
RrStats == {"yes", "no", "dont"}
Exps == 0..(IntBits - 1)

TLVs == [oui : BOOLEAN, mode : Modes \cup {"none"},
         rte : Exps, rwd : Exps, rol : BOOLEAN,
         sgid : BOOLEAN, rrreq : BOOLEAN, rrstat : RrStats,
         bgid : BOOLEAN, rrcap : BOOLEAN, rrctr : BOOLEAN]

\* memset(0): no OUI, so nothing was received.  On the link and in heard, an
\* LLDPDU without the EVB TLV; its other TLVs are taken not to change.
Zero == [oui |-> FALSE, mode |-> "none", rte |-> 0, rwd |-> 0, rol |-> FALSE,
         sgid |-> FALSE, rrreq |-> FALSE, rrstat |-> "no",
         bgid |-> FALSE, rrcap |-> FALSE, rrctr |-> FALSE]

Configs == [tx : BOOLEAN, mode : Modes, rte : Exponents, rwd : Exponents,
            gid : BOOLEAN, rrreq : BOOLEAN, rrcap : BOOLEAN]

Datas == [tx : BOOLEAN, policy : {t \in TLVs : t.mode \in Modes},
          last : TLVs, out : TLVs, started : BOOLEAN]

Vdps == [role : Modes, rte : Exps, rwd : Exps, gpid : BOOLEAN,
         evbon : BOOLEAN]

\* The invariant of types: what struct evb22_data, the ECP and VDP data of
\* the interface and the TLV on the link hold.
EvbTypeOK ==
    /\ cfg \in [Ends -> Configs]
    /\ ed \in [Ends -> Datas \cup {NoData}]
    /\ heard \in [Ends -> TLVs \cup {NoData}]
    /\ link \in [Ends -> TLVs \cup {NoData}]
    /\ ecp \in [Ends -> [rte : Exps] \cup {NoData}]
    /\ vdp \in [Ends -> Vdps \cup {NoData}]
    /\ changes \in 0..MaxChanges
    /\ asked \subseteq Exponents

Up(e) == ed[e] # NoData

\* lldpad starts with a configuration file for each role and without data.
EvbInit ==
    /\ cfg \in [Ends -> InitConfigs]
    /\ cfg["x"].mode = "station" /\ cfg["y"].mode = "bridge"
    /\ ed = [e \in Ends |-> NoData]
    /\ heard = [e \in Ends |-> NoData]
    /\ link = [e \in Ends |-> NoData]
    /\ ecp = [e \in Ends |-> NoData]
    /\ vdp = [e \in Ends |-> NoData]
    /\ changes = 0
    /\ asked = {cfg[e].rte : e \in Ends}

-----------------------------------------------------------------------------
(* The wait times computed from the exponents                               *)

\* A value wrapped to an int, as the builds without trapping overflow do.
Wrap(n) == ((n + 2^(IntBits - 1)) % 2^IntBits) - 2^(IntBits - 1)

\* rtevalue(), and likewise the keep-alive and resource wait of the VDP
\* machines: (1 << exp) * 10 in an int.
rtevalue(exp) == Wrap(Wrap(2^exp) * 10)

\* vdp22_timeout(): the response wait of a station, in units of half a step.
vdp22_timeout(retries, rte, exp) ==
    LET towait == Wrap(Wrap((1 + 2 * retries) * Wrap(2^rte)) * 10)
                      + rtevalue(exp)
    IN  towait + towait \div 2

-----------------------------------------------------------------------------
(* The policy and the TLV                                                   *)

Max2(a, b) == IF a > b THEN a ELSE b

\* evb22_init_tlv(): the policy from the configuration file.
evb22_init_tlv(c) ==
    [tx |-> c.tx, last |-> Zero, out |-> [Zero EXCEPT !.oui = TRUE],
     started |-> FALSE,
     policy |-> [Zero EXCEPT !.oui = TRUE, !.mode = c.mode,
                   !.rte = c.rte, !.rwd = c.rwd,
                   !.rrstat = IF c.mode = "station" THEN "dont" ELSE "no",
                   !.sgid = (c.mode = "station") /\ c.gid,
                   !.rrreq = (c.mode = "station") /\ c.rrreq,
                   !.bgid = (c.mode = "bridge") /\ c.gid,
                   !.rrcap = (c.mode = "bridge") /\ c.rrcap]]

\* Mutant: the exponents of the peer are not looked at.
OwnValues(mine, recv, out) ==
    [out EXCEPT !.mode = mine.mode, !.rte = mine.rte, !.rwd = mine.rwd,
                !.rol = TRUE]

\* Mutant: the exponents add up.
AddsUp(mine, recv, out) ==
    [out EXCEPT !.mode = mine.mode, !.rte = mine.rte + recv.rte,
                !.rwd = mine.rwd + recv.rwd, !.rol = TRUE]

\* common_tlv(): the larger of what was received and what is configured.
common_tlv(mine, recv, out) ==
    [out EXCEPT !.mode = mine.mode,
                !.rte = Max2(mine.rte, recv.rte),
                !.rwd = Max2(mine.rwd, recv.rwd),
                !.rol = ~(mine.rwd > recv.rwd)]

\* bridge_tlv(): the sender is a bridge.
bridge_tlv(mine, recv, out) ==
    common_tlv(mine, recv,
        [out EXCEPT !.sgid = recv.sgid, !.rrreq = recv.rrreq,
                    !.rrstat = recv.rrstat,
                    !.bgid = mine.bgid, !.rrcap = mine.rrcap,
                    !.rrctr = mine.rrctr \/ (recv.rrreq /\ mine.rrcap)])

\* station_tlv(): the sender is a station.
station_tlv(mine, recv, out) ==
    common_tlv(mine, recv,
        [out EXCEPT !.bgid = recv.bgid, !.rrcap = recv.rrcap,
                    !.rrctr = recv.rrctr,
                    !.sgid = mine.sgid, !.rrreq = mine.rrreq,
                    !.rrstat = IF ~recv.oui THEN "dont"
                               ELSE IF recv.rrctr THEN "yes" ELSE "no"])

\* The TLV evb22_update_tlv() composes from the data d of one end.
NewOut(d) == IF d.policy.mode = "station"
             THEN station_tlv(d.policy, d.last, d.out)
             ELSE bridge_tlv(d.policy, d.last, d.out)

\* evb22_update_tlv(): end e, whose data is d, chooses its parameters and
\* tells ECP and VDP of the interface, where they run.
evb22_update_tlv(e, d) ==
    LET out == NewOut(d)
    IN  /\ ed' = [ed EXCEPT ![e] = [d EXCEPT !.out = out]]
        /\ ecp' = [ecp EXCEPT ![e] =
                     IF @ = NoData THEN @ ELSE [rte |-> out.rte]]
        /\ vdp' = [vdp EXCEPT ![e] =
                     IF @ = NoData THEN @
                     ELSE [@ EXCEPT !.rte = out.rte, !.rwd = out.rwd,
                                    !.gpid = out.bgid /\ out.sgid,
                                    !.evbon = d.tx]]

-----------------------------------------------------------------------------
(* The operations of the module                                             *)

\* One more link failure, lost neighbour or command.  A command that switches
\* the TLV on or off has half the weight of the others in the bound.
Disturbed(w) == changes + w <= MaxChanges /\ changes' = changes + w

\* evb22_ifup()
evb22_ifup(e) ==
    /\ ~Up(e)
    /\ ed' = [ed EXCEPT ![e] = evb22_init_tlv(cfg[e])]
    /\ UNCHANGED <<cfg, heard, link, ecp, vdp, changes, asked>>

\* Mutant: ECP is not stopped.
LeavesEcp(e) ==
    /\ Up(e) /\ Disturbed(2)
    /\ ed' = [ed EXCEPT ![e] = NoData]
    /\ heard' = [heard EXCEPT ![e] = NoData]
    /\ UNCHANGED <<cfg, link, ecp, vdp, asked>>

\* evb22_ifdown(): stops ECP and VDP when they were started; ecp22_stop()
\* frees its data, vdp22_stop() keeps it.  The receive machine of a port that
\* is down frees its frame (rxInitializeLLDP()).
evb22_ifdown(e) ==
    /\ Up(e) /\ Disturbed(2)
    /\ ed' = [ed EXCEPT ![e] = NoData]
    /\ heard' = [heard EXCEPT ![e] = NoData]
    /\ ecp' = [ecp EXCEPT ![e] = IF ed[e].started THEN NoData ELSE @]
    /\ UNCHANGED <<cfg, link, vdp, asked>>

\* evb22_timer(): the once-a-second handler starts ECP and VDP.
evb22_timer(e) ==
    /\ Up(e) /\ ~ed[e].started
    /\ ed' = [ed EXCEPT ![e].started = TRUE]
    /\ ecp' = [ecp EXCEPT ![e] = IF @ = NoData THEN [rte |-> DefaultRte]
                                 ELSE @]
    /\ vdp' = [vdp EXCEPT ![e] =
                 IF @ = NoData
                 THEN [role |-> ed[e].policy.mode, rte |-> 0, rwd |-> 0,
                       gpid |-> FALSE, evbon |-> FALSE]
                 ELSE @]
    /\ UNCHANGED <<cfg, heard, link, changes, asked>>

\* evb22_gettlv() and evb22_build_tlv(): an LLDPDU is sent, with the TLV if it
\* is enabled; a later one of the same end replaces it on the link.
evb22_gettlv(e) ==
    /\ Up(e)
    /\ IF ed[e].tx
       THEN /\ evb22_update_tlv(e, ed[e])
            /\ link' = [link EXCEPT ![e] = NewOut(ed[e])]
       ELSE /\ link' = [link EXCEPT ![e] = Zero]
            /\ UNCHANGED <<ed, ecp, vdp>>
    /\ UNCHANGED <<cfg, heard, changes, asked>>

\* rxReceiveFrame() and evb22_rchange(): end e receives the LLDPDU of its peer.
\* One equal to the last is dropped before a module sees it; the TLV of any
\* other is taken, unless the end does not transmit the TLV itself.
evb22_rchange(e) ==
    LET frame == link[Peer(e)]
    IN  /\ frame # NoData
        /\ link' = [link EXCEPT ![Peer(e)] = NoData]
        /\ heard' = [heard EXCEPT ![e] = IF Up(e) THEN frame ELSE @]
        /\ IF Up(e) /\ frame # heard[e] /\ frame.oui /\ ed[e].tx
           THEN evb22_update_tlv(e, [ed[e] EXCEPT !.last = frame])
           ELSE UNCHANGED <<ed, ecp, vdp>>
        /\ UNCHANGED <<cfg, changes, asked>>

\* An LLDPDU is lost.
lost(e) ==
    /\ link[e] # NoData
    /\ link' = [link EXCEPT ![e] = NoData]
    /\ UNCHANGED <<cfg, ed, heard, ecp, vdp, changes, asked>>

\* evb22_mibdelete(): LLDP deletes the neighbour, whose time to live is over
\* or who sent a shutdown LLDPDU, and frees its frame (process_delete_info(),
\* rxInitializeLLDP()).
evb22_mibdelete(e) ==
    /\ Up(e) /\ heard[e] # NoData /\ Disturbed(2)
    /\ ed' = [ed EXCEPT ![e].last = Zero]
    /\ heard' = [heard EXCEPT ![e] = NoData]
    /\ UNCHANGED <<cfg, link, ecp, vdp, asked>>

-----------------------------------------------------------------------------
(* Commands: each is saved in the configuration file and put in the policy  *)

Command(e, c, d) ==
    /\ Up(e)
    /\ Disturbed(IF c.tx = cfg[e].tx THEN 2 ELSE 1)
    /\ cfg' = [cfg EXCEPT ![e] = c]
    /\ ed' = [ed EXCEPT ![e] = d]
    /\ asked' = asked \cup {c.rte}
    /\ UNCHANGED <<heard, link, ecp, vdp>>

\* set2_arg_evbmode(): the TLV's mode; VDP keeps the role it was created with.
set_arg_evbmode(e, m) ==
    Command(e, [cfg[e] EXCEPT !.mode = m], [ed[e] EXCEPT !.policy.mode = m])

\* scan_31bit() with set_rte() (and set_retries()).
set_rte(e, n) ==
    Command(e, [cfg[e] EXCEPT !.rte = n], [ed[e] EXCEPT !.policy.rte = n])

\* scan_31bit() with set_rwd() (and set_rka()).
set_rwd(e, n) ==
    Command(e, [cfg[e] EXCEPT !.rwd = n], [ed[e] EXCEPT !.policy.rwd = n])

\* scan_bool() with set_txmit().
set_txmit(e, b) ==
    Command(e, [cfg[e] EXCEPT !.tx = b], [ed[e] EXCEPT !.tx = b])

\* scan_bool() with set_gpid(): which of the two flags depends on the mode.
set_gpid(e, b) ==
    Command(e, [cfg[e] EXCEPT !.gid = b],
            IF ed[e].policy.mode = "station"
            THEN [ed[e] EXCEPT !.policy.sgid = b]
            ELSE [ed[e] EXCEPT !.policy.bgid = b])

\* scan_bool() with set_rrreq() and with set_rrcap().
set_rrreq(e, b) ==
    Command(e, [cfg[e] EXCEPT !.rrreq = b], [ed[e] EXCEPT !.policy.rrreq = b])

set_rrcap(e, b) ==
    Command(e, [cfg[e] EXCEPT !.rrcap = b], [ed[e] EXCEPT !.policy.rrcap = b])

Commands(e) ==
    \/ \E m \in Modes : set_arg_evbmode(e, m)
    \/ \E n \in Exponents : set_rte(e, n) \/ set_rwd(e, n)
    \/ \E b \in BOOLEAN : \/ set_txmit(e, b) \/ set_gpid(e, b)
                          \/ set_rrreq(e, b) \/ set_rrcap(e, b)

EvbNext ==
    \E e \in Ends :
        \/ evb22_ifup(e) \/ evb22_ifdown(e) \/ evb22_timer(e)
        \/ evb22_gettlv(e) \/ evb22_rchange(e) \/ lost(e)
        \/ evb22_mibdelete(e)
        \/ Commands(e)

EvbSpec == EvbInit /\ [][EvbNext]_endVars

-----------------------------------------------------------------------------
(* Scheduling: the event loop runs every timeout (eloop_run()), LLDP sends   *)
(* an LLDPDU every msgTxInterval, and the link does not lose all of them.    *)

EvbFairness ==
    \A e \in Ends : /\ WF_endVars(evb22_timer(e))
                    /\ WF_endVars(evb22_gettlv(e))
                    /\ SF_endVars(evb22_rchange(e))

EvbFairSpec == EvbSpec /\ EvbFairness

-----------------------------------------------------------------------------
(* Properties                                                               *)

\* ECP runs on an interface exactly while EVB holds data that started it:
\* evb22_timer(), evb22_ifdown() and what ecp22_start() and ecp22_stop() do.
EcpRunsWithEvb ==
    \A e \in Ends : (ecp[e] # NoData) <=> (Up(e) /\ ed[e].started)

\* Both ends are up and transmit the TLV, one as station and one as bridge.
Paired ==
    /\ \A e \in Ends : Up(e) /\ ed[e].tx
    /\ \E e \in Ends : /\ ed[e].policy.mode = "station"
                       /\ ed[Peer(e)].policy.mode = "bridge"

\* ECP and VDP of both ends use the same parameters, and the station knows
\* whether the bridge reflects its frames.
Agreed ==
    /\ \A e \in Ends :
         /\ Up(e) /\ Up(Peer(e))
         /\ ecp[e] # NoData /\ vdp[e] # NoData /\ vdp["x"] # NoData
         /\ ecp[e].rte = vdp["x"].rte
         /\ vdp[e].rte = vdp["x"].rte
         /\ vdp[e].rwd = vdp["x"].rwd
         /\ vdp[e].gpid = vdp["x"].gpid
         /\ vdp[e].evbon
         /\ vdp[e].rte >= ed[e].policy.rte
         /\ ed[e].policy.mode = "station" =>
              (ed[e].out.rrstat = "yes"
                 <=> ed[e].policy.rrreq /\ ed[Peer(e)].policy.rrcap)

\* No TLV that is stored or on its way carries a larger exponent than both
\* policies do: nobody lowered one whose echo still travels.
NoEcho ==
    LET Larger(a, b, c) == a > b /\ a > c
    IN  \A e \in Ends : \A t \in {link[e], ed[e].last} \ {NoData} :
          /\ ~Larger(t.rte, ed[e].policy.rte, ed[Peer(e)].policy.rte)
          /\ ~Larger(t.rwd, ed[e].policy.rwd, ed[Peer(e)].policy.rwd)

\* The last LLDPDU of the peer came while end e did not transmit the TLV: it
\* was ignored, and the equal ones that follow it are dropped, so e goes on
\* without the peer's parameters until the peer has something new to say.
Deaf(e) == heard[e] # NoData /\ heard[e].oui /\ ed[e].last # heard[e]

\* Whatever was configured, lost, torn down or aged out before: once both
\* ends stay up as a pair, neither is deaf and no lowered exponent echoes
\* between them, they agree for good on the ECP and VDP parameters, which are
\* no smaller than either policy, and on reflective relay.
Converges ==
    <>[](Paired /\ NoEcho /\ \A e \in Ends : ~Deaf(e)) => <>[]Agreed

\* The wait of exponent exp fits in an int: in the code, up to exponent 27.
Fits(exp) == 10 * 2^exp < 2^(IntBits - 1)

\* lldptool-evb22.8 documents ecprte 0 to 31 and a wait of 10*2^ecprte
\* microseconds; from 28 on rtevalue() overflows, and the wait is another.
\* The exchange never makes such a wait up: whatever the two ends exchange,
\* lower, raise and lose, the exponent of ECP is one that a policy asked for
\* at some time, or the default, so the wait differs from the documented one
\* exactly when an administrator chose an exponent that overflows.
WrongWaitsWereAskedFor ==
    \A e \in Ends : ecp[e] # NoData =>
        /\ ecp[e].rte \in asked \cup {DefaultRte}
        /\ rtevalue(ecp[e].rte) = 10 * 2^ecp[e].rte <=> Fits(ecp[e].rte)
=============================================================================
