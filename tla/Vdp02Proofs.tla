----------------------------- MODULE Vdp02Proofs -----------------------------
(***************************************************************************)
(* VDP and ECP of draft 0.2 at a station, for any VSIs, requests, answers  *)
(* of the switch, losses and bounds: a request under way and an            *)
(* association have a timeout to come, ECP moves on, and a client is not   *)
(* left without a word.                                                    *)
(*                                                                         *)
(* What is known of a profile between two handlers (AtRest) is enough for  *)
(* each handler to start the machine (Ready), a run leads from there to    *)
(* Done, and Done is AtRest again once the run's record is put back.       *)
(***************************************************************************)
EXTENDS Vdp02, TLAPS

Associated == {"ASSOCIATED", "PREASSOCIATED"}

ProfileFields ==
    {"mode", "response", "no_nlmsg", "pid", "ackTimer", "ackReceived", "ka",
     "state", "seqnr", "localChange", "remoteChange", "txmit", "ackTo", "kaTo",
     "lcTo", "ecp", "sent", "gone"}

Typed(p) ==
    /\ DOMAIN p = ProfileFields
    /\ p.state \in VsiStates
    /\ p.ackTimer \in {0, 1}
    /\ p.ackTo \in Nat /\ p.kaTo \in Nat /\ p.lcTo \in Nat

\* The state is the one the mode asks for.
Matches(p) ==
    /\ p.state = "ASSOC_PROCESSING" => p.mode \in {"ASSOC", "PRE_RR"}
    /\ p.state = "PREASSOC_PROCESSING" => p.mode \in {"PRE", "PRE_RR"}
    /\ p.state = "DEASSOC_PROCESSING" => p.mode = "DEASSOC"

\* The handler of a local change is about to run the machine.
Waits(p) == p.lcTo > 0 /\ p.localChange

\* A profile between two handlers.  c: its mode changed while a request was
\* under way; up: VDP is started.
AtRest(p, c, up) ==
    /\ Typed(p)
    /\ ~c => p.mode \in Modes
    /\ ~p.ackReceived /\ ~p.sent /\ ~p.gone
    /\ p.state \in Processing \cup Associated => p.ackTimer = 1
    /\ p.state \in Associated =>
         /\ p.ackTo > 0 \/ Successor(p) # p.state => Waits(p)
         /\ up => (p.kaTo > 0 /\ p.ka = 1) \/ Waits(p)
    /\ p.state \in Processing =>
         /\ p.response = "none"
         /\ ~c => p.localChange /\ Matches(p)
         /\ ~c /\ up => p.ackTo > 0 \/ p.lcTo > 0

VdFields ==
    {"vdpbit_on", "tx", "ackTimer", "ackTo", "retries", "localChange", "lcTo",
     "last", "out", "list", "p"}

\* ECP between two handlers.
EcpRest(d, up) ==
    /\ d.tx \in TxStates
    /\ d.tx = "WAIT_FOR_ACK" => d.ackTo \/ d.ackTimer = Stopped
    /\ up /\ d.localChange => d.lcTo \/ d.tx = "WAIT_FOR_ACK"

\* The profiles of vd; C: those whose mode changed.
Profile(d, v, C, up) == d.p[v] = None \/ AtRest(d.p[v], v \in C, up)

Rests(d, C, up) ==
    /\ DOMAIN d = VdFields
    /\ DOMAIN d.p = VSIs
    /\ \A v \in VSIs : Profile(d, v, C, up)

DataInv(d, C, up) == Rests(d, C, up) /\ EcpRest(d, up)

TimerInv ==
    /\ started \in BOOLEAN
    /\ vd = None => ~started
    /\ vd # None => DataInv(vd, crossed, started)

\* A profile whose machine is about to run.
ByModeOnly(p) ==
    \/ p.state = "ASSOCIATED" /\ p.mode \in {"PRE", "DEASSOC"}
    \/ p.state = "PREASSOCIATED" /\ p.mode \in {"ASSOC", "DEASSOC"}

Ready(p, c) ==
    /\ Typed(p)
    /\ ~p.sent /\ ~p.gone
    /\ p.state \in Associated => p.ackTimer = 1
    /\ p.state \in Processing => p.ackTimer = 1 \/ ~p.ackReceived
    /\ ~c => /\ p.mode \in Modes
             /\ p.state \in Processing => p.localChange /\ Matches(p)
             /\ ByModeOnly(p) => p.localChange

\* A profile of which the run that began with p has finished a round.
Round(q, p, c) ==
    /\ Typed(q)
    /\ q.mode = p.mode
    /\ q.state # "UNASSOCIATED"
    /\ q.state \in Processing \cup Associated => q.ackTimer = 1
    /\ q.state \in Associated =>
         /\ q.ackTo = 0 /\ q.kaTo > 0 /\ q.ka = 1
         /\ ~c => Successor(q) = q.state
    /\ q.state \in Processing =>
         /\ q.response = "none"
         /\ ~c => q.localChange /\ Matches(q) /\ q.ackTo > 0
    /\ ~p.ackReceived => ~q.ackReceived
    /\ q.gone => q.state = "EXIT"
    /\ q.gone /\ ~q.sent =>
         /\ p.no_nlmsg /\ p.ackTimer = 0 /\ ~p.ackReceived
         /\ p.state \in Processing \cup {"EXIT"}

\* A profile of which the run is over.
Done(q, p, c) ==
    Round(q, p, c) /\ (q.state \in Associated => Successor(q) = q.state)

-----------------------------------------------------------------------------
(* The machine of a profile                                                 *)

\* The only element of a set is the one that CHOOSE takes.
LEMMA ChooseOnly ==
    ASSUME NEW x
    PROVE  (CHOOSE e \in {x} : TRUE) = x
OBVIOUS

\* Evaluating the argument first makes no difference.
LEMMA Once ==
    ASSUME NEW v
    PROVE  /\ Apply(Enter, v) = Enter(v)
           /\ Apply(Begin, v) = Begin(v)
           /\ Apply(Continue, v) = Continue(v)
<1>1. /\ {Enter(u) : u \in {v}} = {Enter(v)}
      /\ {Begin(u) : u \in {v}} = {Begin(v)}
      /\ {Continue(u) : u \in {v}} = {Continue(v)}
    OBVIOUS
<1> QED
    BY <1>1, ChooseOnly DEF Apply

\* Registering a timeout leaves at least one.
LEMMA OneMore ==
    ASSUME NEW n \in Nat
    PROVE  One(n) \in Nat /\ One(n) > 0
BY BoundsAssumption DEF One

\* The machine never returns to UNASSOCIATED.
LEMMA Successors ==
    ASSUME NEW p, p.state \in VsiStates
    PROVE  /\ Successor(p) \in VsiStates \ {"UNASSOCIATED"}
           /\ p.state = "UNASSOCIATED" => Successor(p) = ByMode(p)
           /\ Successor(p) \in Associated =>
                \/ Successor(p) = p.state
                \/ /\ p.state \in Processing /\ p.ackReceived
                   /\ p.response = "ok"
                   /\ p.state = "ASSOC_PROCESSING" =>
                        Successor(p) = "ASSOCIATED"
                   /\ p.state # "ASSOC_PROCESSING" =>
                        Successor(p) = "PREASSOCIATED"
                        /\ p.state = "PREASSOC_PROCESSING"
           /\ Successor(p) \in Processing /\ Successor(p) # p.state =>
                p.state \in Associated \cup {"UNASSOCIATED"}
           /\ Successor(p) \in Processing /\ Successor(p) = p.state =>
                ~p.ackReceived /\ p.ackTimer # 0
           /\ p.state = "EXIT" => Successor(p) = "EXIT"
<1> USE DEF Successor, ByMode, VsiStates, Processing, Associated
<1>1. CASE p.state = "UNASSOCIATED"
    BY <1>1
<1>2. CASE p.state = "ASSOCIATED"
    BY <1>2
<1>3. CASE p.state = "PREASSOCIATED"
    BY <1>3
<1>4. CASE p.state = "EXIT"
    BY <1>4
<1>5. CASE p.state = "DEASSOC_PROCESSING"
    BY <1>5
<1>6. CASE p.state = "ASSOC_PROCESSING"
    BY <1>6
<1>7. CASE p.state = "PREASSOC_PROCESSING"
    BY <1>7
<1> QED
    BY <1>1, <1>2, <1>3, <1>4, <1>5, <1>6, <1>7

\* An association that moves on does so because the mode asks for it or
\* because it is renewed.
LEMMA Leaves ==
    ASSUME NEW p, p.state \in Associated, Successor(p) \in Processing
    PROVE  \/ ByModeOnly(p) /\ Successor(p) = ByMode(p)
           \/ /\ ~ByModeOnly(p) /\ p.ka = 0
              /\ p.state = "ASSOCIATED" => Successor(p) = "ASSOC_PROCESSING"
              /\ p.state = "PREASSOCIATED" =>
                   Successor(p) = "PREASSOC_PROCESSING"
BY DEF Successor, ByMode, ByModeOnly, Associated, Processing

\* A move changes the state, and for a new request the local change.
LEMMA Moved ==
    ASSUME NEW p, Typed(p), NEW u, u = vdp_vsi_set_station_state(p)
    PROVE  /\ Typed(u)
           /\ u.state = Successor(p)
           /\ u.mode = p.mode /\ u.response = p.response
           /\ u.no_nlmsg = p.no_nlmsg /\ u.pid = p.pid
           /\ u.ackTimer = p.ackTimer /\ u.ackReceived = p.ackReceived
           /\ u.remoteChange = p.remoteChange
           /\ u.ackTo = p.ackTo /\ u.sent = p.sent /\ u.gone = p.gone
           /\ p.localChange => u.localChange
           /\ p.state = "UNASSOCIATED" => u.localChange
           /\ p.state \in Associated /\ Successor(p) \in Processing =>
                u.localChange \/ ByModeOnly(p)
<1> DEFINE q == [p EXCEPT !.state = Successor(p)]
           w == vdp_stop_keepaliveTimer(q)
<1> USE DEF Typed, ProfileFields
<1>1. Successor(p) \in VsiStates
    BY Successors
<1>2. /\ DOMAIN q = DOMAIN p
      /\ q.state = Successor(p)
      /\ q.mode = p.mode /\ q.response = p.response
      /\ q.no_nlmsg = p.no_nlmsg /\ q.pid = p.pid
      /\ q.ackTimer = p.ackTimer /\ q.ackReceived = p.ackReceived
      /\ q.remoteChange = p.remoteChange
      /\ q.ackTo = p.ackTo /\ q.sent = p.sent /\ q.gone = p.gone
      /\ q.kaTo = p.kaTo /\ q.lcTo = p.lcTo
      /\ q.localChange = p.localChange
    OBVIOUS
<1> HIDE DEF q
<1>3. /\ DOMAIN w = DOMAIN p
      /\ w.state = Successor(p)
      /\ w.mode = p.mode /\ w.response = p.response
      /\ w.no_nlmsg = p.no_nlmsg /\ w.pid = p.pid
      /\ w.ackTimer = p.ackTimer /\ w.ackReceived = p.ackReceived
      /\ w.remoteChange = p.remoteChange
      /\ w.ackTo = p.ackTo /\ w.sent = p.sent /\ w.gone = p.gone
      /\ w.kaTo = 0 /\ w.lcTo = p.lcTo
      /\ w.localChange = p.localChange
    BY <1>2 DEF vdp_stop_keepaliveTimer
<1> HIDE DEF w
<1>4. ASSUME NEW z, z \in {q, w}
      PROVE  LET r == vdp_somethingChangedLocal(z, TRUE)
             IN /\ DOMAIN r = DOMAIN p
                /\ r.state = Successor(p)
                /\ r.mode = p.mode /\ r.response = p.response
                /\ r.no_nlmsg = p.no_nlmsg /\ r.pid = p.pid
                /\ r.ackTimer = p.ackTimer /\ r.ackReceived = p.ackReceived
                /\ r.remoteChange = p.remoteChange
                /\ r.ackTo = p.ackTo /\ r.sent = p.sent /\ r.gone = p.gone
                /\ r.kaTo \in Nat /\ r.lcTo \in Nat
                /\ r.localChange
    <2>1. z.lcTo = p.lcTo /\ One(p.lcTo) \in Nat
        BY <1>2, <1>3, <1>4, OneMore
    <2> QED
        BY <1>2, <1>3, <1>4, <2>1 DEF vdp_somethingChangedLocal
<1>5. CASE p.state = "UNASSOCIATED"
    <2>1. u = vdp_somethingChangedLocal(q, TRUE)
        BY <1>5 DEF vdp_vsi_set_station_state, q
    <2>2. /\ DOMAIN u = DOMAIN p
          /\ u.state = Successor(p)
          /\ u.mode = p.mode /\ u.response = p.response
          /\ u.no_nlmsg = p.no_nlmsg /\ u.pid = p.pid
          /\ u.ackTimer = p.ackTimer /\ u.ackReceived = p.ackReceived
          /\ u.remoteChange = p.remoteChange
          /\ u.ackTo = p.ackTo /\ u.sent = p.sent /\ u.gone = p.gone
          /\ u.kaTo \in Nat /\ u.lcTo \in Nat
          /\ u.localChange
        BY <1>4, <2>1
    <2>3. Typed(u)
        BY <1>1, <2>2
    <2> QED
        BY <2>2, <2>3
<1>6. CASE /\ p.state \in Associated /\ p.ka = 0
           /\ \/ p.state = "ASSOCIATED" /\ Successor(p) = "ASSOC_PROCESSING"
              \/ /\ p.state = "PREASSOCIATED"
                 /\ Successor(p) = "PREASSOC_PROCESSING"
    <2>1. u = vdp_somethingChangedLocal(w, TRUE)
        BY <1>6 DEF vdp_vsi_set_station_state, q, w, Associated
    <2>2. /\ DOMAIN u = DOMAIN p
          /\ u.state = Successor(p)
          /\ u.mode = p.mode /\ u.response = p.response
          /\ u.no_nlmsg = p.no_nlmsg /\ u.pid = p.pid
          /\ u.ackTimer = p.ackTimer /\ u.ackReceived = p.ackReceived
          /\ u.remoteChange = p.remoteChange
          /\ u.ackTo = p.ackTo /\ u.sent = p.sent /\ u.gone = p.gone
          /\ u.kaTo \in Nat /\ u.lcTo \in Nat
          /\ u.localChange
        BY <1>4, <2>1
    <2>3. Typed(u)
        BY <1>1, <2>2
    <2> QED
        BY <2>2, <2>3
<1>7. CASE /\ p.state # "UNASSOCIATED"
           /\ ~(/\ p.state \in Associated /\ p.ka = 0
                /\ \/ /\ p.state = "ASSOCIATED"
                      /\ Successor(p) = "ASSOC_PROCESSING"
                   \/ /\ p.state = "PREASSOCIATED"
                      /\ Successor(p) = "PREASSOC_PROCESSING")
    <2>1. u = q
        BY <1>7 DEF vdp_vsi_set_station_state, q, Associated
    <2>2. p.state \in Associated /\ Successor(p) \in Processing =>
            ByModeOnly(p)
        BY <1>7, Leaves DEF Associated
    <2> QED
        BY <1>1, <1>2, <1>7, <2>1, <2>2
<1> QED
    BY <1>5, <1>6, <1>7

\* The work of a PROCESSING state.
LEMMA InProcessing ==
    ASSUME NEW p, Typed(p), NEW q, q = EnterProcessing(p)
    PROVE  /\ Typed(q)
           /\ q.state = p.state /\ q.mode = p.mode
           /\ q.response = "none"
           /\ q.localChange = p.localChange
           /\ q.sent = p.sent /\ q.gone = p.gone
           /\ p.localChange => q.ackTo > 0 /\ q.ackTimer = 1
           /\ ~p.localChange => q.ackTimer = p.ackTimer
           /\ ~p.ackReceived => ~q.ackReceived
<1> DEFINE w == vdp_stop_keepaliveTimer(p)
           x == [w EXCEPT !.response = "none", !.ecp = TRUE,
                          !.ackReceived = FALSE]
           y == [w EXCEPT !.response = "none",
                          !.ackReceived = @ /\ p.state # "DEASSOC_PROCESSING"]
<1> USE DEF Typed, ProfileFields
<1>1. /\ DOMAIN w = DOMAIN p
      /\ w.state = p.state /\ w.mode = p.mode
      /\ w.ackTimer = p.ackTimer /\ w.ackReceived = p.ackReceived
      /\ w.ackTo = p.ackTo /\ w.sent = p.sent /\ w.gone = p.gone
      /\ w.kaTo = 0 /\ w.lcTo = p.lcTo
      /\ w.localChange = p.localChange
    BY DEF vdp_stop_keepaliveTimer
<1> HIDE DEF w
<1>2. CASE p.localChange
    <2>1. /\ DOMAIN x = DOMAIN p
          /\ x.state = p.state /\ x.mode = p.mode /\ x.response = "none"
          /\ x.ackTimer = p.ackTimer /\ x.ackReceived = FALSE
          /\ x.ackTo = p.ackTo /\ x.sent = p.sent /\ x.gone = p.gone
          /\ x.kaTo = 0 /\ x.lcTo = p.lcTo
          /\ x.localChange = p.localChange
        BY <1>1
    <2> HIDE DEF x
    <2>2. q = [x EXCEPT !.ackTimer = 1, !.ackTo = One(x.ackTo)]
        BY <1>2 DEF EnterProcessing, vdp_start_ackTimer, x, w
    <2>3. One(p.ackTo) \in Nat /\ One(p.ackTo) > 0
        BY OneMore
    <2>4. /\ DOMAIN q = DOMAIN p
          /\ q.state = p.state /\ q.mode = p.mode /\ q.response = "none"
          /\ q.ackTimer = 1 /\ q.ackReceived = FALSE
          /\ q.ackTo = One(p.ackTo) /\ q.sent = p.sent /\ q.gone = p.gone
          /\ q.kaTo = 0 /\ q.lcTo = p.lcTo
          /\ q.localChange = p.localChange
        BY <2>1, <2>2
    <2> QED
        BY <1>2, <2>3, <2>4
<1>3. CASE ~p.localChange
    <2>1. q = y
        BY <1>3 DEF EnterProcessing, y, w
    <2>2. /\ DOMAIN y = DOMAIN p
          /\ y.state = p.state /\ y.mode = p.mode /\ y.response = "none"
          /\ y.ackTimer = p.ackTimer
          /\ ~w.ackReceived => ~y.ackReceived
          /\ y.ackTo = p.ackTo /\ y.sent = p.sent /\ y.gone = p.gone
          /\ y.kaTo = 0 /\ y.lcTo = p.lcTo
          /\ y.localChange = p.localChange
        BY <1>1
    <2> HIDE DEF y
    <2> QED
        BY <1>1, <1>3, <2>1, <2>2
<1> QED
    BY <1>2, <1>3

\* The work of ASSOCIATED and PREASSOCIATED.
LEMMA InAssociated ==
    ASSUME NEW p, Typed(p), NEW q, q = EnterAssociated(p)
    PROVE  /\ Typed(q)
           /\ q.state = p.state /\ q.mode = p.mode /\ q.response = p.response
           /\ q.ackTimer = p.ackTimer
           /\ q.ackTo = 0 /\ q.kaTo > 0 /\ q.ka = 1
           /\ q.sent = p.sent /\ q.gone = p.gone
           /\ ~q.ackReceived
<1> DEFINE w == [p EXCEPT !.ackReceived = FALSE, !.localChange = FALSE]
           x == [w EXCEPT !.ackTo = 0]
<1> USE DEF Typed, ProfileFields
<1>1. /\ DOMAIN w = DOMAIN p
      /\ w.state = p.state /\ w.mode = p.mode /\ w.response = p.response
      /\ w.ackTimer = p.ackTimer /\ w.ackReceived = FALSE
      /\ w.sent = p.sent /\ w.gone = p.gone
      /\ w.kaTo = p.kaTo /\ w.lcTo = p.lcTo
    OBVIOUS
<1> HIDE DEF w
<1>2. /\ DOMAIN x = DOMAIN p
      /\ x.state = p.state /\ x.mode = p.mode /\ x.response = p.response
      /\ x.ackTimer = p.ackTimer /\ x.ackReceived = FALSE
      /\ x.ackTo = 0 /\ x.sent = p.sent /\ x.gone = p.gone
      /\ x.kaTo = p.kaTo /\ x.lcTo = p.lcTo
    BY <1>1
<1> HIDE DEF x
<1>3. q = [x EXCEPT !.ka = 1, !.kaTo = One(x.kaTo)]
    BY DEF EnterAssociated, vdp_start_keepaliveTimer, vdp_stop_ackTimer, x, w
<1>4. One(p.kaTo) \in Nat /\ One(p.kaTo) > 0
    BY OneMore
<1>5. /\ DOMAIN q = DOMAIN p
      /\ q.state = p.state /\ q.mode = p.mode /\ q.response = p.response
      /\ q.ackTimer = p.ackTimer /\ q.ackReceived = FALSE
      /\ q.ackTo = 0 /\ q.sent = p.sent /\ q.gone = p.gone
      /\ q.kaTo = One(p.kaTo) /\ q.lcTo = p.lcTo /\ q.ka = 1
    BY <1>2, <1>3
<1> QED
    BY <1>4, <1>5

\* The work of EXIT: the profile is given up in silence only when its request
\* went unanswered.
LEMMA InExit ==
    ASSUME NEW p, Typed(p), NEW q, q = EnterExit(p)
    PROVE  /\ Typed(q)
           /\ q.state = p.state /\ q.mode = p.mode
           /\ ~p.ackReceived => ~q.ackReceived
           /\ q.gone /\ ~q.sent /\ ~p.gone =>
                p.no_nlmsg /\ ~p.ackReceived /\ p.ackTimer = 0
<1> DEFINE w == vdp_stop_ackTimer(p)
           x == vdp_stop_keepaliveTimer(w)
           y == [x EXCEPT !.lcTo = 0]
           g == [y EXCEPT !.gone = TRUE]
           z == [vdpnl_send(y) EXCEPT !.gone = TRUE]
<1> USE DEF Typed, ProfileFields
<1>1. /\ DOMAIN w = DOMAIN p
      /\ w.state = p.state /\ w.mode = p.mode /\ w.response = p.response
      /\ w.ackTimer = p.ackTimer /\ w.ackReceived = p.ackReceived
      /\ w.ackTo = 0 /\ w.sent = p.sent /\ w.gone = p.gone
      /\ w.kaTo = p.kaTo /\ w.lcTo = p.lcTo
    BY DEF vdp_stop_ackTimer
<1> HIDE DEF w
<1>2. /\ DOMAIN x = DOMAIN p
      /\ x.state = p.state /\ x.mode = p.mode /\ x.response = p.response
      /\ x.ackTimer = p.ackTimer /\ x.ackReceived = p.ackReceived
      /\ x.ackTo = 0 /\ x.sent = p.sent /\ x.gone = p.gone
      /\ x.kaTo = 0 /\ x.lcTo = p.lcTo
    BY <1>1 DEF vdp_stop_keepaliveTimer
<1> HIDE DEF x
<1>3. /\ DOMAIN y = DOMAIN p
      /\ y.state = p.state /\ y.mode = p.mode /\ y.response = p.response
      /\ y.ackTimer = p.ackTimer /\ y.ackReceived = p.ackReceived
      /\ y.ackTo = 0 /\ y.sent = p.sent /\ y.gone = p.gone
      /\ y.kaTo = 0 /\ y.lcTo = 0
    BY <1>2
<1> HIDE DEF y
<1>4. /\ DOMAIN g = DOMAIN p
      /\ g.state = p.state /\ g.mode = p.mode /\ g.response = p.response
      /\ g.ackTimer = p.ackTimer /\ g.ackReceived = p.ackReceived
      /\ g.ackTo = 0 /\ g.kaTo = 0 /\ g.lcTo = 0
    BY <1>3
<1>5. /\ DOMAIN z = DOMAIN p
      /\ z.state = p.state /\ z.mode = p.mode /\ z.response = p.response
      /\ z.ackTimer = p.ackTimer /\ z.ackReceived = p.ackReceived
      /\ z.ackTo = 0 /\ z.kaTo = 0 /\ z.lcTo = 0
      /\ z.sent = TRUE
    BY <1>3 DEF vdpnl_send
<1>6. q = IF p.no_nlmsg /\ ~p.ackReceived /\ p.ackTimer = 0 THEN g
          ELSE IF y.no_nlmsg \/ ~y.pid THEN y ELSE z
    BY DEF EnterExit, vdp_trigger, y, x, w
<1> HIDE DEF g, z
<1>7. CASE p.no_nlmsg /\ ~p.ackReceived /\ p.ackTimer = 0
    <2>1. q = g
        BY <1>6, <1>7
    <2> QED
        BY <1>4, <1>7, <2>1
<1>8. CASE ~(p.no_nlmsg /\ ~p.ackReceived /\ p.ackTimer = 0)
    <2>1. q = y \/ q = z
        BY <1>6, <1>8
    <2> QED
        BY <1>3, <1>5, <2>1
<1> QED
    BY <1>7, <1>8

-----------------------------------------------------------------------------
(* Rounds of a run                                                          *)

\* An associated profile that stays: the work of its state does not change
\* what its next move looks at.
LEMMA Stays ==
    ASSUME NEW p, NEW q, q.state \in Associated, q.ka = 1,
           q.mode = p.mode, q.response = p.response, q.state = p.state,
           ~ByModeOnly(p), p.state = "ASSOCIATED" => p.response # "bad"
    PROVE  Successor(q) = q.state
BY DEF Successor, ByMode, ByModeOnly, Associated, vdp_vsi_negative_response

\* What a state does, by the class of the state.
LEMMA Entered ==
    ASSUME NEW u, u.state \in VsiStates
    PROVE  /\ u.state \in Processing => Enter(u) = EnterProcessing(u)
           /\ u.state \in Associated => Enter(u) = EnterAssociated(u)
           /\ u.state = "EXIT" => Enter(u) = EnterExit(u)
BY DEF Enter, Processing, Associated

LEMMA Begins ==
    ASSUME NEW p, NEW c, Ready(p, c)
    PROVE  Round(Begin(p), p, c)
<1> DEFINE u == IF Successor(p) = p.state THEN p
                ELSE vdp_vsi_set_station_state(p)
           q == Enter(u)
<1>1. Begin(p) = q
    BY Once DEF Begin
<1>2. Typed(p) /\ ~p.sent /\ ~p.gone /\ p.state \in VsiStates
    BY DEF Ready, Typed
<1>3. /\ Typed(u)
      /\ u.state = Successor(p)
      /\ u.mode = p.mode /\ u.response = p.response
      /\ u.no_nlmsg = p.no_nlmsg
      /\ u.ackTimer = p.ackTimer /\ u.ackReceived = p.ackReceived
      /\ u.ackTo = p.ackTo /\ u.sent = p.sent /\ u.gone = p.gone
      /\ p.localChange => u.localChange
      /\ p.state = "UNASSOCIATED" => u.localChange
      /\ p.state \in Associated /\ Successor(p) \in Processing =>
           u.localChange \/ ByModeOnly(p)
    <2>1. CASE Successor(p) = p.state
        BY <1>2, <2>1, Successors DEF Associated, Processing
    <2>2. CASE Successor(p) # p.state
        BY <1>2, <2>2, Moved
    <2> QED
        BY <2>1, <2>2
<1> HIDE DEF u
<1>4. u.state \in VsiStates \ {"UNASSOCIATED"}
    BY <1>2, <1>3, Successors
<1>5. CASE u.state \in Processing
    <2>1. q = EnterProcessing(u)
        BY <1>4, <1>5, Entered
    <2> HIDE DEF q
    <2>2. /\ Typed(q)
          /\ q.state = u.state /\ q.mode = u.mode
          /\ q.response = "none"
          /\ q.localChange = u.localChange
          /\ q.sent = u.sent /\ q.gone = u.gone
          /\ u.localChange => q.ackTo > 0 /\ q.ackTimer = 1
          /\ ~u.localChange => q.ackTimer = u.ackTimer
          /\ ~u.ackReceived => ~q.ackReceived
        BY <1>3, <2>1, InProcessing
    <2>3. q.ackTimer = 1
        <3>1. CASE u.localChange
            BY <2>2, <3>1
        <3>2. CASE ~u.localChange
            <4>1. p.state # "UNASSOCIATED"
                BY <1>3, <3>2
            <4>2. CASE p.state = u.state
                <5>1. p.ackTimer # 0
                    BY <1>2, <1>3, <1>5, <4>2, Successors
                <5> QED
                    BY <1>2, <1>3, <2>2, <3>2, <5>1 DEF Typed
            <4>3. CASE p.state # u.state
                <5>1. p.state \in Associated
                    BY <1>2, <1>3, <1>5, <4>1, <4>3, Successors
                <5> QED
                    BY <1>3, <2>2, <3>2, <5>1 DEF Ready
            <4> QED
                BY <4>2, <4>3
        <3> QED
            BY <3>1, <3>2
    <2>4. ~c => u.localChange /\ Matches(u)
        <3> SUFFICES ASSUME ~c
                     PROVE  u.localChange /\ Matches(u)
            OBVIOUS
        <3>1. CASE p.state = "UNASSOCIATED"
            <4>1. u.state = ByMode(u)
                BY <1>2, <1>3, <3>1, Successors DEF ByMode
            <4> QED
                BY <1>2, <1>3, <3>1, <4>1 DEF Matches, ByMode, Ready, Modes
        <3>2. CASE p.state = u.state
            BY <1>3, <1>5, <3>2 DEF Ready, Matches
        <3>3. CASE p.state # u.state /\ p.state # "UNASSOCIATED"
            <4>1. p.state \in Associated
                BY <1>2, <1>3, <1>5, <3>3, Successors
            <4>2. CASE ByModeOnly(p) /\ u.state = ByMode(p)
                BY <1>2, <1>3, <4>2
                DEF Ready, Matches, ByMode, ByModeOnly, Modes
            <4>3. CASE /\ ~ByModeOnly(p)
                       /\ p.state = "ASSOCIATED" =>
                            u.state = "ASSOC_PROCESSING"
                       /\ p.state = "PREASSOCIATED" =>
                            u.state = "PREASSOC_PROCESSING"
                BY <1>2, <1>3, <1>5, <4>1, <4>3
                DEF Ready, Matches, ByModeOnly, Modes, Associated
            <4> QED
                BY <1>3, <1>5, <4>1, <4>2, <4>3, Leaves
        <3> QED
            BY <3>1, <3>2, <3>3
    <2>5. Matches(u) => Matches(q)
        BY <2>2 DEF Matches
    <2> QED
        BY <1>1, <1>2, <1>3, <1>5, <2>2, <2>3, <2>4, <2>5
        DEF Round, Processing, Associated
<1>6. CASE u.state \in Associated
    <2>1. q = EnterAssociated(u)
        BY <1>4, <1>6, Entered
    <2> HIDE DEF q
    <2>2. /\ Typed(q)
          /\ q.state = u.state /\ q.mode = u.mode /\ q.response = u.response
          /\ q.ackTimer = u.ackTimer
          /\ q.ackTo = 0 /\ q.kaTo > 0 /\ q.ka = 1
          /\ q.sent = u.sent /\ q.gone = u.gone
          /\ ~q.ackReceived
        BY <1>3, <2>1, InAssociated
    <2>3. CASE p.state = u.state
        <3>1. ~ByModeOnly(p) /\ (p.state = "ASSOCIATED" => p.response # "bad")
            BY <1>3, <1>6, <2>3 DEF ByModeOnly, Successor, ByMode, Associated,
                Processing, vdp_vsi_negative_response
        <3>2. Successor(q) = q.state
            BY <1>3, <1>6, <2>2, <2>3, <3>1, Stays
        <3>3. q.ackTimer = 1
            BY <1>3, <1>6, <2>2, <2>3 DEF Ready
        <3> QED
            BY <1>1, <1>2, <1>3, <1>6, <2>2, <3>2, <3>3
            DEF Round, Processing, Associated
    <2>4. CASE p.state # u.state
        <3>1. /\ p.state \in Processing /\ p.ackReceived
              /\ p.response = "ok"
              /\ p.state = "ASSOC_PROCESSING" => u.state = "ASSOCIATED"
              /\ p.state # "ASSOC_PROCESSING" =>
                   u.state = "PREASSOCIATED" /\ p.state = "PREASSOC_PROCESSING"
            BY <1>2, <1>3, <1>6, <2>4, Successors
        <3>2. q.ackTimer = 1
            BY <1>3, <2>2, <3>1 DEF Ready
        <3>3. ~c => Successor(q) = q.state
            <4>1. ~c => ~ByModeOnly(q)
                BY <1>3, <2>2, <3>1 DEF Ready, Matches, ByModeOnly, Processing
            <4> QED
                BY <1>3, <1>6, <2>2, <3>1, <4>1, Stays
        <3> QED
            BY <1>1, <1>2, <1>3, <1>6, <2>2, <3>2, <3>3
            DEF Round, Processing, Associated
    <2> QED
        BY <2>3, <2>4
<1>7. CASE u.state = "EXIT"
    <2>1. q = EnterExit(u)
        BY <1>4, <1>7, Entered
    <2> HIDE DEF q
    <2>2. /\ Typed(q)
          /\ q.state = u.state /\ q.mode = u.mode
          /\ ~u.ackReceived => ~q.ackReceived
          /\ q.gone /\ ~q.sent /\ ~u.gone =>
               u.no_nlmsg /\ ~u.ackReceived /\ u.ackTimer = 0
        BY <1>3, <2>1, InExit
    <2>3. p.ackTimer = 0 => p.state \in Processing \cup {"EXIT"}
        <3>1. p.state # "UNASSOCIATED"
            BY <1>2, <1>3, <1>7, Successors DEF ByMode
        <3> QED
            BY <1>2, <3>1 DEF Ready, Associated, Processing, VsiStates
    <2> QED
        BY <1>1, <1>2, <1>3, <1>7, <2>2, <2>3
        DEF Round, Processing, Associated
<1> QED
    BY <1>4, <1>5, <1>6, <1>7 DEF VsiStates, Associated

\* A further round leaves PROCESSING for EXIT, and ASSOCIATED only when the
\* mode had changed.
LEMMA Continues ==
    ASSUME NEW p, NEW q, NEW c, Round(q, p, c)
    PROVE  /\ Done(Continue(q), p, c)
           /\ Done(q, p, c) =>
                \/ Continue(q).gone
                \/ Successor(Continue(q)) = Continue(q).state
<1> DEFINE u == vdp_vsi_set_station_state(q)
           e == Enter(u)
<1>1. Typed(q) /\ q.state \in VsiStates /\ q.state # "UNASSOCIATED"
    BY DEF Round, Typed
<1>2. CASE q.gone \/ Successor(q) = q.state
    <2>1. Continue(q) = q
        BY <1>2 DEF Continue
    <2> QED
        BY <1>2, <2>1 DEF Done, Round, Associated
<1>3. CASE ~q.gone /\ Successor(q) # q.state
    <2>1. Continue(q) = e
        BY <1>3, Once DEF Continue
    <2>2. /\ Typed(u)
          /\ u.state = Successor(q)
          /\ u.mode = q.mode /\ u.response = q.response
          /\ u.no_nlmsg = q.no_nlmsg
          /\ u.ackTimer = q.ackTimer /\ u.ackReceived = q.ackReceived
          /\ u.ackTo = q.ackTo /\ u.sent = q.sent /\ u.gone = q.gone
        BY <1>1, Moved
    <2> HIDE DEF u
    <2>3. q.state \in Processing \cup Associated
        BY <1>1, <1>3, Successors DEF VsiStates, Processing, Associated
    <2>4. q.ackTimer = 1
        BY <2>3 DEF Round
    <2>5. \/ u.state = "EXIT"
          \/ u.state \in Processing /\ q.state \in Associated /\ c
        <3>1. CASE q.state \in Processing
            <4>1. q.response = "none"
                BY <3>1 DEF Round
            <4> QED
                BY <1>3, <2>2, <3>1, <4>1 DEF Successor, Processing
        <3>2. CASE q.state \in Associated
            <4>1. c
                BY <1>3, <3>2 DEF Round
            <4> QED
                BY <1>3, <2>2, <3>2, <4>1
                DEF Successor, ByMode, Associated, Processing
        <3> QED
            BY <2>3, <3>1, <3>2
    <2>6. CASE u.state = "EXIT"
        <3>1. e = EnterExit(u)
            BY <2>6, Entered DEF VsiStates
        <3> HIDE DEF e
        <3>2. /\ Typed(e)
              /\ e.state = u.state /\ e.mode = u.mode
              /\ ~u.ackReceived => ~e.ackReceived
              /\ e.gone /\ ~e.sent /\ ~u.gone => u.ackTimer = 0
            BY <2>2, <3>1, InExit
        <3>3. Done(e, p, c)
            BY <1>3, <2>2, <2>4, <2>6, <3>2
            DEF Done, Round, Processing, Associated
        <3>4. Successor(e) = e.state
            BY <2>6, <3>2 DEF Successor
        <3> QED
            BY <2>1, <3>3, <3>4
    <2>7. CASE u.state \in Processing /\ q.state \in Associated /\ c
        <3>1. e = EnterProcessing(u)
            BY <2>7, Entered DEF VsiStates
        <3> HIDE DEF e
        <3>2. /\ Typed(e)
              /\ e.state = u.state /\ e.mode = u.mode
              /\ e.response = "none"
              /\ e.sent = u.sent /\ e.gone = u.gone
              /\ u.localChange => e.ackTimer = 1
              /\ ~u.localChange => e.ackTimer = u.ackTimer
              /\ ~u.ackReceived => ~e.ackReceived
            BY <2>2, <3>1, InProcessing
        <3>3. Done(e, p, c)
            BY <1>3, <2>2, <2>4, <2>7, <3>2
            DEF Done, Round, Processing, Associated
        <3>4. ~Done(q, p, c)
            BY <1>3, <2>7 DEF Done
        <3> QED
            BY <2>1, <3>3, <3>4
    <2> QED
        BY <2>5, <2>6, <2>7
<1> QED
    BY <1>2, <1>3

\* A run, which is over after three rounds.
LEMMA RunsEnd ==
    ASSUME NEW p, NEW c, Ready(p, c)
    PROVE  LET q == vdp_vsi_sm_station(p)
           IN Done(q, p, c) /\ (q.gone \/ Successor(q) = q.state)
<1> DEFINE a == Begin(p)
           b == Continue(a)
<1>1. vdp_vsi_sm_station(p) = Continue(b)
    <2>1. Apply(Begin, p) = a
        BY Once
    <2>2. Apply(Continue, a) = b
        BY Once
    <2>3. Apply(Continue, b) = Continue(b)
        BY Once
    <2> QED
        BY <2>1, <2>2, <2>3 DEF vdp_vsi_sm_station
<1>2. Round(a, p, c)
    BY Begins
<1> HIDE DEF a
<1>3. Done(b, p, c)
    BY <1>2, Continues
<1> HIDE DEF b
<1>4. Round(b, p, c)
    BY <1>3 DEF Done
<1> QED
    BY <1>1, <1>3, <1>4, Continues

-----------------------------------------------------------------------------
(* Profiles between two handlers                                            *)

\* What the next move of an associated profile looks at.
LEMMA SameNext ==
    ASSUME NEW p, NEW r, p.state \in Associated, r.state = p.state,
           r.mode = p.mode, r.response = p.response,
           (r.ka = 0) <=> (p.ka = 0)
    PROVE  Successor(r) = Successor(p)
BY DEF Successor, ByMode, Associated, Processing, vdp_vsi_negative_response

LEMMA ModeMoves ==
    ASSUME NEW p, ByModeOnly(p)
    PROVE  p.state \in Associated /\ Successor(p) # p.state
BY DEF ByModeOnly, Successor, ByMode, Associated

\* The fields that AtRest does not mention make no difference.
LEMMA SameRest ==
    ASSUME NEW p, NEW r, NEW c, NEW up, AtRest(p, c, up),
           DOMAIN r = DOMAIN p,
           r.mode = p.mode, r.response = p.response, r.ackTimer = p.ackTimer,
           r.ka = p.ka, r.state = p.state, r.localChange = p.localChange,
           r.ackTo = p.ackTo, r.kaTo = p.kaTo, r.lcTo = p.lcTo,
           ~r.ackReceived, ~r.sent, ~r.gone
    PROVE  AtRest(r, c, up)
<1>1. p.state \in Associated => Successor(r) = Successor(p)
    BY SameNext
<1>2. Waits(p) => Waits(r)
    BY DEF Waits
<1>3. Matches(p) => Matches(r)
    BY DEF Matches
<1>4. Typed(r)
    BY DEF AtRest, Typed
<1> QED
    BY <1>1, <1>2, <1>3, <1>4 DEF AtRest

\* The outcome of a run, without what it handed on.
LEMMA RunRests ==
    ASSUME NEW p, NEW q, NEW r, NEW c, NEW up, Done(q, p, c),
           DOMAIN r = DOMAIN q,
           r.mode = q.mode, r.response = q.response, r.ackTimer = q.ackTimer,
           r.ka = q.ka, r.state = q.state, r.localChange = q.localChange,
           r.ackTo = q.ackTo, r.kaTo = q.kaTo, r.lcTo = q.lcTo,
           ~r.ackReceived, ~r.sent, ~r.gone,
           ~c => p.mode \in Modes
    PROVE  AtRest(r, c, up)
<1>1. q.state \in Associated => Successor(r) = r.state
    BY SameNext DEF Done
<1>2. Matches(q) => Matches(r)
    BY DEF Matches
<1>3. Typed(r)
    BY DEF Done, Round, Typed
<1>4. r.mode = p.mode
    BY DEF Done, Round
<1>5. CASE r.state \in Associated
    BY <1>1, <1>3, <1>4, <1>5 DEF AtRest, Done, Round, Associated, Processing
<1>6. CASE r.state \in Processing
    BY <1>2, <1>3, <1>4, <1>6 DEF AtRest, Done, Round, Associated, Processing
<1>7. CASE r.state \notin Associated \cup Processing
    BY <1>3, <1>4, <1>7 DEF AtRest
<1> QED
    BY <1>5, <1>6, <1>7

\* vdp_localchange_handler() starts the machine, or has nothing to do.
LEMMA ChangeHandled ==
    ASSUME NEW p, NEW c, NEW up, AtRest(p, c, up), p.lcTo > 0,
           NEW q, q = [p EXCEPT !.lcTo = p.lcTo - 1]
    PROVE  /\ q.localChange => Ready(q, c)
           /\ ~q.localChange => AtRest(q, c, up)
           /\ ~q.ackReceived /\ q.no_nlmsg = p.no_nlmsg
           /\ q.state = p.state /\ q.ackTimer = p.ackTimer
<1>1. /\ DOMAIN q = DOMAIN p
      /\ q.mode = p.mode /\ q.response = p.response
      /\ q.ackTimer = p.ackTimer /\ q.ka = p.ka /\ q.state = p.state
      /\ q.localChange = p.localChange
      /\ q.ackTo = p.ackTo /\ q.kaTo = p.kaTo /\ q.lcTo = p.lcTo - 1
      /\ q.ackReceived = p.ackReceived /\ q.sent = p.sent /\ q.gone = p.gone
      /\ q.no_nlmsg = p.no_nlmsg
    BY DEF AtRest, Typed, ProfileFields
<1>2. Typed(q)
    BY <1>1 DEF AtRest, Typed
<1>3. p.state \in Associated => Successor(q) = Successor(p)
    BY <1>1, SameNext
<1>4. Matches(p) => Matches(q)
    BY <1>1 DEF Matches
<1>5. q.localChange => Ready(q, c)
    BY <1>1, <1>2, <1>4 DEF AtRest, Ready
<1>6. ~q.localChange => AtRest(q, c, up)
    BY <1>1, <1>2, <1>3, <1>4 DEF AtRest, Waits
<1> QED
    BY <1>1, <1>5, <1>6 DEF AtRest

\* vdp_ack_timeout_handler() finds a request under way, or one that is over.
LEMMA AckTimeoutHandled ==
    ASSUME NEW p, NEW c, NEW up, AtRest(p, c, up), p.lcTo = 0, p.ackTo > 0,
           NEW q, q = [p EXCEPT !.ackTo = p.ackTo - 1, !.ackTimer = 0]
    PROVE  /\ Ready(q, c)
           /\ ~q.ackReceived /\ q.no_nlmsg = p.no_nlmsg
           /\ q.state = p.state
<1>1. /\ DOMAIN q = DOMAIN p
      /\ q.mode = p.mode /\ q.response = p.response
      /\ q.ackTimer = 0 /\ q.ka = p.ka /\ q.state = p.state
      /\ q.localChange = p.localChange
      /\ q.ackTo = p.ackTo - 1 /\ q.kaTo = p.kaTo /\ q.lcTo = p.lcTo
      /\ q.ackReceived = p.ackReceived /\ q.sent = p.sent /\ q.gone = p.gone
      /\ q.no_nlmsg = p.no_nlmsg
    BY DEF AtRest, Typed, ProfileFields
<1>2. Typed(q)
    BY <1>1 DEF AtRest, Typed
<1>3. p.state \notin Associated
    BY DEF AtRest, Waits
<1>4. Matches(p) => Matches(q)
    BY <1>1 DEF Matches
<1>5. ~ByModeOnly(q)
    BY <1>1, <1>3 DEF ByModeOnly, Associated
<1> QED
    BY <1>1, <1>2, <1>3, <1>4, <1>5 DEF AtRest, Ready

\* vdp_keepalive_timeout_handler() starts the machine when the interval
\* ended; otherwise the association does not depend on the timeout.
LEMMA KeepaliveHandled ==
    ASSUME NEW p, NEW c, NEW up, AtRest(p, c, up), p.lcTo = 0, p.kaTo > 0,
           NEW q, q = [p EXCEPT !.kaTo = p.kaTo - 1,
                                !.ka = IF p.ka > 0 THEN 0 ELSE p.ka]
    PROVE  /\ q.ka = 0 => Ready(q, c)
           /\ q.ka # 0 => AtRest(q, c, up)
           /\ ~q.ackReceived /\ q.no_nlmsg = p.no_nlmsg
           /\ q.state = p.state /\ q.ackTimer = p.ackTimer
<1>1. /\ DOMAIN q = DOMAIN p
      /\ q.mode = p.mode /\ q.response = p.response
      /\ q.ackTimer = p.ackTimer /\ q.state = p.state
      /\ q.ka = IF p.ka > 0 THEN 0 ELSE p.ka
      /\ q.localChange = p.localChange
      /\ q.ackTo = p.ackTo /\ q.kaTo = p.kaTo - 1 /\ q.lcTo = p.lcTo
      /\ q.ackReceived = p.ackReceived /\ q.sent = p.sent /\ q.gone = p.gone
      /\ q.no_nlmsg = p.no_nlmsg
    BY DEF AtRest, Typed, ProfileFields
<1>2. Typed(q)
    BY <1>1 DEF AtRest, Typed
<1>3. ~Waits(p)
    BY DEF Waits
<1>4. Matches(p) => Matches(q)
    BY <1>1 DEF Matches
<1>5. ByModeOnly(q) => ByModeOnly(p)
    BY <1>1 DEF ByModeOnly
<1>6. ~ByModeOnly(q)
    BY <1>3, <1>5, ModeMoves DEF AtRest
<1>7. Ready(q, c)
    BY <1>1, <1>2, <1>4, <1>6 DEF AtRest, Ready
<1>8. ASSUME q.ka # 0
      PROVE  AtRest(q, c, up)
    <2>1. q.ka = p.ka /\ p.ka # 1 /\ ((q.ka = 0) <=> (p.ka = 0))
        BY <1>1, <1>8
    <2>2. p.state \in Associated => Successor(q) = Successor(p)
        BY <1>1, <2>1, SameNext
    <2> QED
        BY <1>1, <1>2, <1>3, <1>4, <2>1, <2>2 DEF AtRest
<1> QED
    BY <1>1, <1>7, <1>8 DEF AtRest

\* An answer is either ignored or starts the machine.
LEMMA Indicated ==
    ASSUME NEW p, NEW c, NEW up, AtRest(p, c, up), NEW f,
           NEW i, i = vdp_indicate(p, f)
    PROVE  \/ i = p
           \/ /\ Ready(i, c \/ i.mode # p.mode)
              /\ i.ackReceived
<1>1. CASE i = p
    BY <1>1
<1>2. CASE i # p
    <2> DEFINE m == IF f.response = "bad" THEN "DEASSOC" ELSE f.mode
    <2>1. i = [p EXCEPT
            !.ackReceived = TRUE,
            !.ka = 1,
            !.remoteChange = f.mode # p.mode,
            !.no_nlmsg = p.no_nlmsg /\ ~(f.mode # p.mode /\ f.mode = "DEASSOC"),
            !.response = f.response,
            !.mode = m]
        BY <1>2 DEF vdp_indicate
    <2> HIDE DEF m
    <2>2. /\ DOMAIN i = DOMAIN p
          /\ i.mode = m
          /\ i.ackTimer = p.ackTimer /\ i.state = p.state
          /\ i.localChange = p.localChange
          /\ i.ackTo = p.ackTo /\ i.kaTo = p.kaTo /\ i.lcTo = p.lcTo
          /\ i.ackReceived = TRUE /\ i.sent = p.sent /\ i.gone = p.gone
        BY <2>1 DEF AtRest, Typed, ProfileFields
    <2>3. Typed(i)
        BY <2>2 DEF AtRest, Typed
    <2>4. ASSUME ~(c \/ i.mode # p.mode)
          PROVE  /\ i.mode \in Modes
                 /\ i.state \in Processing => i.localChange /\ Matches(i)
                 /\ ByModeOnly(i) => i.localChange
        <3>1. i.mode = p.mode /\ ~c
            BY <2>4
        <3>2. Matches(p) => Matches(i)
            BY <2>2, <3>1 DEF Matches
        <3>3. ByModeOnly(i) => ByModeOnly(p)
            BY <2>2, <3>1 DEF ByModeOnly
        <3>4. ByModeOnly(i) => i.localChange
            BY <2>2, <3>3, ModeMoves DEF AtRest, Waits
        <3> QED
            BY <2>2, <3>1, <3>2, <3>4 DEF AtRest
    <2> QED
        BY <2>2, <2>3, <2>4 DEF AtRest, Ready
<1> QED
    BY <1>1, <1>2

\* What is known of a profile without its timeouts.
Calm(p, c) ==
    /\ Typed(p)
    /\ ~c => p.mode \in Modes
    /\ ~p.ackReceived /\ ~p.sent /\ ~p.gone
    /\ p.state \in Processing \cup Associated => p.ackTimer = 1
    /\ p.state \in Processing =>
         /\ p.response = "none"
         /\ ~c => p.localChange /\ Matches(p)

LEMMA RestIsCalm ==
    ASSUME NEW p, NEW c, NEW up, AtRest(p, c, up)
    PROVE  Calm(p, c)
BY DEF AtRest, Calm

\* A local change makes up for any timeout.
LEMMA Raised ==
    ASSUME NEW p, NEW c, NEW up, Calm(p, c),
           NEW q, q = vdp_somethingChangedLocal(p, TRUE)
    PROVE  AtRest(q, c, up) /\ Waits(q)
<1>1. One(p.lcTo) \in Nat /\ One(p.lcTo) > 0
    BY OneMore DEF Calm, Typed
<1>2. /\ DOMAIN q = DOMAIN p
      /\ q.mode = p.mode /\ q.response = p.response
      /\ q.ackTimer = p.ackTimer /\ q.ka = p.ka /\ q.state = p.state
      /\ q.localChange = TRUE
      /\ q.ackTo = p.ackTo /\ q.kaTo = p.kaTo /\ q.lcTo = One(p.lcTo)
      /\ q.ackReceived = p.ackReceived /\ q.sent = p.sent /\ q.gone = p.gone
    BY DEF Calm, Typed, ProfileFields, vdp_somethingChangedLocal
<1>3. Typed(q)
    BY <1>1, <1>2 DEF Calm, Typed
<1>4. Waits(q)
    BY <1>1, <1>2 DEF Waits
<1>5. Matches(p) => Matches(q)
    BY <1>2 DEF Matches
<1> QED
    BY <1>1, <1>2, <1>3, <1>4, <1>5 DEF AtRest, Calm

\* A timeout more does no harm to a profile that waits for its handler.
LEMMA AckStarted ==
    ASSUME NEW p, NEW c, NEW up, AtRest(p, c, up), Waits(p),
           NEW q, q = vdp_start_ackTimer(p)
    PROVE  AtRest(q, c, up)
<1>1. One(p.ackTo) \in Nat /\ One(p.ackTo) > 0
    BY OneMore DEF AtRest, Typed
<1>2. /\ DOMAIN q = DOMAIN p
      /\ q.mode = p.mode /\ q.response = p.response
      /\ q.ackTimer = 1 /\ q.ka = p.ka /\ q.state = p.state
      /\ q.localChange = p.localChange
      /\ q.ackTo = One(p.ackTo) /\ q.kaTo = p.kaTo /\ q.lcTo = p.lcTo
      /\ q.ackReceived = p.ackReceived /\ q.sent = p.sent /\ q.gone = p.gone
    BY DEF AtRest, Typed, ProfileFields, vdp_start_ackTimer
<1>3. Typed(q)
    BY <1>1, <1>2 DEF AtRest, Typed
<1>4. Waits(q)
    BY <1>2 DEF Waits
<1>5. Matches(p) => Matches(q)
    BY <1>2 DEF Matches
<1> QED
    BY <1>1, <1>2, <1>3, <1>4, <1>5 DEF AtRest

LEMMA KeepaliveStarted ==
    ASSUME NEW p, NEW c, NEW up, AtRest(p, c, up), p.ka > 0,
           NEW q, q = vdp_start_keepaliveTimer(p)
    PROVE  AtRest(q, c, up)
<1>1. One(p.kaTo) \in Nat /\ One(p.kaTo) > 0
    BY OneMore DEF AtRest, Typed
<1>2. /\ DOMAIN q = DOMAIN p
      /\ q.mode = p.mode /\ q.response = p.response
      /\ q.ackTimer = p.ackTimer /\ q.ka = 1 /\ q.state = p.state
      /\ q.localChange = p.localChange
      /\ q.ackTo = p.ackTo /\ q.kaTo = One(p.kaTo) /\ q.lcTo = p.lcTo
      /\ q.ackReceived = p.ackReceived /\ q.sent = p.sent /\ q.gone = p.gone
    BY DEF AtRest, Typed, ProfileFields, vdp_start_keepaliveTimer
<1>3. Typed(q)
    BY <1>1, <1>2 DEF AtRest, Typed
<1>4. Waits(p) => Waits(q)
    BY <1>2 DEF Waits
<1>5. Matches(p) => Matches(q)
    BY <1>2 DEF Matches
<1>6. p.ka # 0 /\ q.ka # 0
    BY <1>2
<1>7. p.state \in Associated => Successor(q) = Successor(p)
    BY <1>2, <1>6, SameNext
<1> QED
    BY <1>1, <1>2, <1>3, <1>4, <1>5, <1>7 DEF AtRest

\* vdp_ifdown() stops the timers while VDP is stopped.
LEMMA AckStopped ==
    ASSUME NEW p, NEW c, NEW up, AtRest(p, c, up),
           NEW q, q = vdp_stop_ackTimer(p)
    PROVE  AtRest(q, c, FALSE)
<1>1. /\ DOMAIN q = DOMAIN p
      /\ q.mode = p.mode /\ q.response = p.response
      /\ q.ackTimer = p.ackTimer /\ q.ka = p.ka /\ q.state = p.state
      /\ q.localChange = p.localChange
      /\ q.ackTo = 0 /\ q.kaTo = p.kaTo /\ q.lcTo = p.lcTo
      /\ q.ackReceived = p.ackReceived /\ q.sent = p.sent /\ q.gone = p.gone
    BY DEF AtRest, Typed, ProfileFields, vdp_stop_ackTimer
<1>2. Typed(q)
    BY <1>1 DEF AtRest, Typed
<1>3. Waits(p) => Waits(q)
    BY <1>1 DEF Waits
<1>4. Matches(p) => Matches(q)
    BY <1>1 DEF Matches
<1>5. p.state \in Associated => Successor(q) = Successor(p)
    BY <1>1, SameNext
<1> QED
    BY <1>1, <1>2, <1>3, <1>4, <1>5 DEF AtRest

LEMMA KeepaliveStopped ==
    ASSUME NEW p, NEW c, NEW up, AtRest(p, c, up), p.ka > 0,
           NEW q, q = vdp_stop_keepaliveTimer(p)
    PROVE  AtRest(q, c, FALSE)
<1>1. /\ DOMAIN q = DOMAIN p
      /\ q.mode = p.mode /\ q.response = p.response
      /\ q.ackTimer = p.ackTimer /\ q.ka = -1 /\ q.state = p.state
      /\ q.localChange = p.localChange
      /\ q.ackTo = p.ackTo /\ q.kaTo = 0 /\ q.lcTo = p.lcTo
      /\ q.ackReceived = p.ackReceived /\ q.sent = p.sent /\ q.gone = p.gone
    BY DEF AtRest, Typed, ProfileFields, vdp_stop_keepaliveTimer, Stopped
<1>2. Typed(q)
    BY <1>1 DEF AtRest, Typed
<1>3. Waits(p) => Waits(q)
    BY <1>1 DEF Waits
<1>4. Matches(p) => Matches(q)
    BY <1>1 DEF Matches
<1>5. p.ka # 0 /\ q.ka # 0
    BY <1>1
<1>6. p.state \in Associated => Successor(q) = Successor(p)
    BY <1>1, <1>5, SameNext
<1> QED
    BY <1>1, <1>2, <1>3, <1>4, <1>6 DEF AtRest

LEMMA RestsDown ==
    ASSUME NEW p, NEW c, NEW up, AtRest(p, c, up)
    PROVE  AtRest(p, c, FALSE)
BY DEF AtRest

\* A request for an existing profile.  While another is under way the
\* profile counts as one whose mode changed.
LEMMA Requested ==
    ASSUME NEW p, NEW c, NEW up, AtRest(p, c, up), NEW m \in Modes, NEW pid,
           NEW r, r = IF p.mode # m
                      THEN [p EXCEPT !.mode = m, !.response = "none",
                                     !.pid = pid]
                      ELSE [p EXCEPT !.pid = pid],
           NEW q, q = IF r.response = "ok" THEN r
                      ELSE vdp_somethingChangedLocal(r, TRUE)
    PROVE  AtRest(q, p.state \in Processing, up)
<1> DEFINE k == p.state \in Processing
           a == [p EXCEPT !.mode = m, !.response = "none", !.pid = pid]
           b == [p EXCEPT !.pid = pid]
<1>1. /\ DOMAIN a = DOMAIN p
      /\ a.mode = m /\ a.response = "none"
      /\ a.ackTimer = p.ackTimer /\ a.ka = p.ka /\ a.state = p.state
      /\ a.localChange = p.localChange
      /\ a.ackTo = p.ackTo /\ a.kaTo = p.kaTo /\ a.lcTo = p.lcTo
      /\ a.ackReceived = p.ackReceived /\ a.sent = p.sent /\ a.gone = p.gone
    BY DEF AtRest, Typed, ProfileFields
<1>2. /\ DOMAIN b = DOMAIN p
      /\ b.mode = p.mode /\ b.response = p.response
      /\ b.ackTimer = p.ackTimer /\ b.ka = p.ka /\ b.state = p.state
      /\ b.localChange = p.localChange
      /\ b.ackTo = p.ackTo /\ b.kaTo = p.kaTo /\ b.lcTo = p.lcTo
      /\ b.ackReceived = p.ackReceived /\ b.sent = p.sent /\ b.gone = p.gone
    BY DEF AtRest, Typed, ProfileFields
<1>3. r = IF p.mode # m THEN a ELSE b
    OBVIOUS
<1> HIDE DEF a, b
<1>4. /\ Typed(r)
      /\ r.mode \in Modes
      /\ r.state = p.state
      /\ r.ackTimer = p.ackTimer
      /\ ~r.ackReceived /\ ~r.sent /\ ~r.gone
      /\ r.state \in Processing => r.response = "none"
    BY <1>1, <1>2, <1>3 DEF AtRest, Typed
<1>5. Calm(r, k)
    BY <1>4 DEF Calm, AtRest
<1>6. CASE r.response # "ok"
    BY <1>5, <1>6, Raised
<1>7. CASE r.response = "ok"
    <2>1. r = b /\ p.mode = m
        BY <1>1, <1>3, <1>7
    <2>2. ~b.ackReceived /\ ~b.sent /\ ~b.gone
        BY <1>2 DEF AtRest
    <2>3. AtRest(b, c, up)
        BY <1>2, <2>2, SameRest
    <2>4. q = b
        BY <1>7, <2>1
    <2> QED
        BY <1>2, <2>1, <2>3, <2>4 DEF AtRest
<1> QED
    BY <1>6, <1>7

\* A request for a new profile.
LEMMA Created ==
    ASSUME NEW c, NEW up, NEW m \in Modes, NEW pid,
           NEW r, r = [NewProfile(m, pid) EXCEPT
                         !.response = IF m = "DEASSOC" THEN "ok" ELSE "none"],
           NEW q, q = IF r.response = "ok" THEN r
                      ELSE vdp_somethingChangedLocal(r, TRUE)
    PROVE  AtRest(q, c, up)
<1>1. /\ DOMAIN r = ProfileFields
      /\ r.mode = m /\ r.state = "UNASSOCIATED" /\ r.ackTimer = 0
      /\ r.ackTo = 0 /\ r.kaTo = 0 /\ r.lcTo = 0
      /\ ~r.ackReceived /\ ~r.sent /\ ~r.gone
    BY DEF NewProfile, ProfileFields
<1>2. AtRest(r, c, up)
    BY <1>1 DEF AtRest, Typed, VsiStates, Processing, Associated
<1>3. AtRest(vdp_somethingChangedLocal(r, TRUE), c, up)
    BY <1>2, RestIsCalm, Raised
<1> QED
    BY <1>2, <1>3

-----------------------------------------------------------------------------
(* ECP                                                                      *)

\* No profile is lost between d and e.
Keeps(d, e) == \A v \in VSIs : d.p[v] # None => e.p[v] # None

LEMMA RestIsSome ==
    ASSUME NEW p, NEW c, NEW up, AtRest(p, c, up)
    PROVE  p # None
BY DEF AtRest, Typed, ProfileFields, None

\* Only the profiles matter to Rests.
LEMMA SameProfiles ==
    ASSUME NEW d, NEW e, NEW C, NEW up, Rests(d, C, up),
           DOMAIN e = DOMAIN d, e.p = d.p
    PROVE  Rests(e, C, up) /\ Keeps(d, e)
BY DEF Rests, Profile, Keeps

\* A frame notes its number in the profiles.
LEMMA Built ==
    ASSUME NEW d, NEW C, NEW up, Rests(d, C, up),
           NEW e, e = ecp_build_ECPDU(d)
    PROVE  /\ Rests(e, C, up) /\ Keeps(d, e)
           /\ e.tx = d.tx
<1> DEFINE s == (d.last + 1) % SeqMod
           ch == Changed(d)
           n == IF Len(ch) < FrameRoom THEN Len(ch) ELSE FrameRoom
           in == {ch[i] : i \in 1..n}
           o == [seq |-> s, tlvs |-> [v \in in |-> vdp_bld_vsi_tlv(d.p[v])]]
           New(v) == IF d.p[v] = None THEN None
                     ELSE IF v \in in THEN [d.p[v] EXCEPT !.seqnr = s]
                     ELSE IF d.p[v].seqnr = s
                     THEN [d.p[v] EXCEPT !.seqnr = Stopped] ELSE d.p[v]
           g == [v \in VSIs |-> New(v)]
<1>1. e = [d EXCEPT !.last = s, !.p = g, !.out = o]
    BY DEF ecp_build_ECPDU
<1> HIDE DEF s, in, o
<1>2. ASSUME NEW v \in VSIs
      PROVE  /\ New(v) = None \/ AtRest(New(v), v \in C, up)
             /\ d.p[v] # None => New(v) # None
    <2>1. CASE d.p[v] = None
        BY <2>1
    <2>2. CASE d.p[v] # None
        <3>1. AtRest(d.p[v], v \in C, up)
            BY <2>2 DEF Rests, Profile
        <3>2. ASSUME NEW z, NEW r, r = [d.p[v] EXCEPT !.seqnr = z]
              PROVE  AtRest(r, v \in C, up)
            <4> DEFINE p == d.p[v]
            <4>1. /\ DOMAIN r = DOMAIN p
                  /\ r.mode = p.mode /\ r.response = p.response
                  /\ r.ackTimer = p.ackTimer /\ r.ka = p.ka
                  /\ r.state = p.state /\ r.localChange = p.localChange
                  /\ r.ackTo = p.ackTo /\ r.kaTo = p.kaTo /\ r.lcTo = p.lcTo
                  /\ ~r.ackReceived /\ ~r.sent /\ ~r.gone
                BY <3>1, <3>2 DEF AtRest, Typed, ProfileFields
            <4> HIDE DEF p
            <4>2. AtRest(p, v \in C, up)
                BY <3>1 DEF p
            <4> QED
                BY <4>1, <4>2, SameRest
        <3>3. \/ New(v) = [d.p[v] EXCEPT !.seqnr = s]
              \/ New(v) = [d.p[v] EXCEPT !.seqnr = Stopped]
              \/ New(v) = d.p[v]
            BY <2>2
        <3>4. AtRest(New(v), v \in C, up)
            BY <3>1, <3>2, <3>3
        <3> QED
            BY <3>4, RestIsSome
    <2> QED
        BY <2>1, <2>2
<1>3. DOMAIN g = VSIs /\ \A v \in VSIs : g[v] = New(v)
    OBVIOUS
<1> HIDE DEF g, New
<1>4. DOMAIN e = VdFields /\ e.p = g /\ e.tx = d.tx
    BY <1>1 DEF Rests, VdFields
<1> QED
    BY <1>2, <1>3, <1>4 DEF Rests, Profile, Keeps

\* A frame on the wire has its timer.
LEMMA FrameCreated ==
    ASSUME NEW d, NEW C, NEW up, Rests(d, C, up),
           NEW e, e = ecp_tx_create_frame(d)
    PROVE  DataInv(e, C, up) /\ Keeps(d, e)
<1> DEFINE b == IF d.localChange THEN ecp_build_ECPDU(d) ELSE d
           f == ecp_somethingChangedLocal(b, FALSE)
<1>1. Rests(b, C, up) /\ Keeps(d, b)
    BY Built DEF Keeps
<1>2. e = [f EXCEPT !.ackTimer = 1, !.ackTo = TRUE, !.tx = "WAIT_FOR_ACK"]
    BY DEF ecp_tx_create_frame
<1> HIDE DEF b
<1>3. DOMAIN f = VdFields /\ f.p = b.p
    BY <1>1 DEF Rests, VdFields, ecp_somethingChangedLocal
<1> HIDE DEF f
<1>4. DOMAIN e = VdFields /\ e.p = b.p /\ e.ackTo = TRUE
      /\ e.tx = "WAIT_FOR_ACK"
    BY <1>2, <1>3 DEF VdFields
<1>5. Rests(e, C, up) /\ Keeps(b, e)
    BY <1>1, <1>4, SameProfiles DEF Rests
<1> QED
    BY <1>1, <1>4, <1>5 DEF DataInv, EcpRest, Keeps, TxStates

LEMMA PduRequested ==
    ASSUME NEW d, NEW C, NEW up, Rests(d, C, up),
           NEW e, e = RequestPdu(d)
    PROVE  DataInv(e, C, up) /\ Keeps(d, e)
<1> DEFINE r == [d EXCEPT !.tx = "REQUEST_PDU", !.retries = 0]
<1>1. e = IF r.localChange THEN ecp_tx_create_frame(r) ELSE r
    BY DEF RequestPdu
<1>2. DOMAIN r = DOMAIN d /\ r.p = d.p /\ r.tx = "REQUEST_PDU"
    BY DEF Rests, VdFields
<1> HIDE DEF r
<1>3. Rests(r, C, up) /\ Keeps(d, r)
    BY <1>2, SameProfiles
<1>4. CASE r.localChange
    BY <1>1, <1>3, <1>4, FrameCreated DEF Keeps
<1>5. CASE ~r.localChange
    BY <1>1, <1>2, <1>3, <1>5 DEF DataInv, EcpRest, TxStates
<1> QED
    BY <1>4, <1>5

LEMMA EcpRuns ==
    ASSUME NEW d, NEW C, NEW up, Rests(d, C, up), d.tx \in TxStates,
           d.tx = "WAIT_FOR_ACK" =>
             d.ackTimer = 0 \/ d.ackTo \/ d.ackTimer = Stopped,
           NEW e, e = ecp_tx_run_sm(d)
    PROVE  DataInv(e, C, up) /\ Keeps(d, e)
<1>1. CASE d.tx = "INIT_TRANSMIT"
    <2> DEFINE l == ecp_somethingChangedLocal(d, TRUE)
               i == ecp_tx_Initialize(d)
    <2>1. DOMAIN l = DOMAIN d /\ l.p = d.p /\ l.tx = d.tx /\ l.lcTo = TRUE
        BY DEF Rests, VdFields, ecp_somethingChangedLocal
    <2>2. i = [l EXCEPT !.last = 0, !.ackTimer = Stopped, !.retries = 0]
        BY DEF ecp_tx_Initialize
    <2> HIDE DEF l, i
    <2>3. DOMAIN i = DOMAIN d /\ i.p = d.p /\ i.tx = d.tx /\ i.lcTo = TRUE
        BY <2>1, <2>2 DEF Rests, VdFields
    <2>4. Rests(i, C, up) /\ Keeps(d, i)
        BY <2>3, SameProfiles
    <2>5. e = IF portEnabled THEN ecp_tx_create_frame(i) ELSE i
        BY <1>1 DEF ecp_tx_run_sm, i
    <2>6. DataInv(i, C, up)
        BY <1>1, <2>3, <2>4 DEF DataInv, EcpRest, TxStates
    <2>7. CASE portEnabled
        BY <2>4, <2>5, <2>7, FrameCreated DEF Keeps
    <2>8. CASE ~portEnabled
        BY <2>4, <2>5, <2>6, <2>8
    <2> QED
        BY <2>7, <2>8
<1>2. CASE d.tx = "WAIT_FOR_ACK" /\ d.ackTimer # 0
    <2>1. e = d
        BY <1>2 DEF ecp_tx_run_sm
    <2> QED
        BY <1>2, <2>1 DEF DataInv, EcpRest, Keeps
<1>3. CASE d.tx = "WAIT_FOR_ACK" /\ d.ackTimer = 0
    <2>1. e = AckTimedOut(d)
        BY <1>3 DEF ecp_tx_run_sm
    <2>2. CASE d.retries + 1 < ECP_MAX_RETRIES
        <3> DEFINE l == ecp_somethingChangedLocal(d, TRUE)
                   r == [l EXCEPT !.retries = l.retries + 1]
        <3>1. DOMAIN l = DOMAIN d /\ l.p = d.p
            BY DEF Rests, VdFields, ecp_somethingChangedLocal
        <3>2. e = ecp_tx_create_frame(r)
            BY <2>1, <2>2 DEF AckTimedOut
        <3> HIDE DEF l
        <3>3. DOMAIN r = DOMAIN d /\ r.p = d.p
            BY <3>1 DEF Rests, VdFields
        <3> HIDE DEF r
        <3>4. Rests(r, C, up) /\ Keeps(d, r)
            BY <3>3, SameProfiles
        <3> QED
            BY <3>2, <3>4, FrameCreated DEF Keeps
    <2>3. CASE ~(d.retries + 1 < ECP_MAX_RETRIES)
        <3> DEFINE r == ecp_tx_stop_ackTimer(d)
        <3>1. e = RequestPdu(r)
            BY <2>1, <2>3 DEF AckTimedOut
        <3>2. DOMAIN r = DOMAIN d /\ r.p = d.p
            BY DEF Rests, VdFields, ecp_tx_stop_ackTimer
        <3> HIDE DEF r
        <3>3. Rests(r, C, up) /\ Keeps(d, r)
            BY <3>2, SameProfiles
        <3> QED
            BY <3>1, <3>3, PduRequested DEF Keeps
    <2> QED
        BY <2>2, <2>3
<1>4. CASE d.tx = "REQUEST_PDU"
    <2>1. e = RequestPdu(d)
        BY <1>4 DEF ecp_tx_run_sm
    <2> QED
        BY <2>1, PduRequested
<1> QED
    BY <1>1, <1>2, <1>3, <1>4 DEF TxStates

\* An acknowledgement is noted in the profiles that were in its frame.
LEMMA ProfilesAcked ==
    ASSUME NEW d, NEW C, NEW up, DataInv(d, C, up), NEW seq,
           NEW e, e = vdp_ack_profiles(d, seq)
    PROVE  DataInv(e, C, up) /\ Keeps(d, e)
<1> DEFINE New(v) == IF d.p[v] # None /\ d.p[v].seqnr = seq
                     THEN [d.p[v] EXCEPT !.ackReceived = FALSE, !.txmit = TRUE]
                     ELSE d.p[v]
           g == [v \in VSIs |-> New(v)]
<1>1. e = [d EXCEPT !.p = g]
    BY DEF vdp_ack_profiles
<1>2. ASSUME NEW v \in VSIs
      PROVE  /\ New(v) = None \/ AtRest(New(v), v \in C, up)
             /\ d.p[v] # None => New(v) # None
    <2>1. CASE d.p[v] = None
        BY <2>1
    <2>2. CASE d.p[v] # None
        <3> DEFINE p == d.p[v]
                   r == [p EXCEPT !.ackReceived = FALSE, !.txmit = TRUE]
        <3>1. AtRest(p, v \in C, up)
            BY <2>2 DEF DataInv, Rests, Profile
        <3>2. New(v) \in {p, r}
            OBVIOUS
        <3> HIDE DEF p, New
        <3>3. /\ DOMAIN r = DOMAIN p
              /\ r.mode = p.mode /\ r.response = p.response
              /\ r.ackTimer = p.ackTimer /\ r.ka = p.ka
              /\ r.state = p.state /\ r.localChange = p.localChange
              /\ r.ackTo = p.ackTo /\ r.kaTo = p.kaTo /\ r.lcTo = p.lcTo
              /\ ~r.ackReceived /\ ~r.sent /\ ~r.gone
            BY <3>1 DEF AtRest, Typed, ProfileFields
        <3> HIDE DEF r
        <3>4. AtRest(r, v \in C, up)
            BY <3>1, <3>3, SameRest
        <3> QED
            BY <3>1, <3>2, <3>4, RestIsSome
    <2> QED
        BY <2>1, <2>2
<1>3. DOMAIN g = VSIs /\ \A v \in VSIs : g[v] = New(v)
    OBVIOUS
<1> HIDE DEF g, New
<1>4. /\ DOMAIN e = VdFields /\ e.p = g
      /\ e.tx = d.tx /\ e.ackTo = d.ackTo /\ e.ackTimer = d.ackTimer
      /\ e.localChange = d.localChange /\ e.lcTo = d.lcTo
    BY <1>1 DEF DataInv, Rests, VdFields
<1> QED
    BY <1>2, <1>3, <1>4 DEF DataInv, Rests, Profile, Keeps, EcpRest

LEMMA AckTaken ==
    ASSUME NEW d, NEW C, NEW up, DataInv(d, C, up), NEW seq,
           NEW e, e = AckReceived(d, seq)
    PROVE  DataInv(e, C, up) /\ Keeps(d, e)
<1>1. CASE d.tx # "WAIT_FOR_ACK"
    <2>1. e = ecp_tx_run_sm(d)
        BY <1>1 DEF AckReceived
    <2> QED
        BY <1>1, <2>1, EcpRuns DEF DataInv, EcpRest
<1>2. CASE d.tx = "WAIT_FOR_ACK"
    <2> DEFINE l == ecp_somethingChangedLocal(d, FALSE)
               b == ecp_tx_stop_ackTimer(l)
               t == ecp_somethingChangedLocal(b, TRUE)
    <2>1. DOMAIN l = DOMAIN d /\ l.p = d.p /\ l.tx = d.tx
        BY DEF DataInv, Rests, VdFields, ecp_somethingChangedLocal
    <2> HIDE DEF l
    <2>2. DOMAIN b = DOMAIN d /\ b.p = d.p /\ b.tx = d.tx
            /\ b.ackTimer = Stopped
        BY <2>1 DEF DataInv, Rests, VdFields, ecp_tx_stop_ackTimer
    <2>3. e = IF seq # d.last THEN b
              ELSE RequestPdu(IF vdp_vsis_pending(b) THEN t ELSE b)
        BY <1>2 DEF AckReceived, l
    <2> HIDE DEF b
    <2>4. DOMAIN t = DOMAIN d /\ t.p = d.p
        BY <2>2 DEF DataInv, Rests, VdFields, ecp_somethingChangedLocal
    <2> HIDE DEF t
    <2>5. Rests(b, C, up) /\ Keeps(d, b) /\ Rests(t, C, up) /\ Keeps(d, t)
        BY <2>2, <2>4, SameProfiles DEF DataInv
    <2>6. CASE seq # d.last
        BY <1>2, <2>2, <2>3, <2>5, <2>6 DEF DataInv, EcpRest
    <2>7. CASE seq = d.last /\ vdp_vsis_pending(b)
        <3>1. e = RequestPdu(t)
            BY <2>3, <2>7
        <3> QED
            BY <2>5, <3>1, PduRequested DEF Keeps
    <2>8. CASE seq = d.last /\ ~vdp_vsis_pending(b)
        <3>1. e = RequestPdu(b)
            BY <2>3, <2>8
        <3> QED
            BY <2>5, <3>1, PduRequested DEF Keeps
    <2> QED
        BY <2>6, <2>7, <2>8
<1> QED
    BY <1>1, <1>2

-----------------------------------------------------------------------------
(* The handlers                                                             *)

\* The record of a run as it is put back into vd.
Put(q) == [q EXCEPT !.ecp = FALSE, !.sent = FALSE, !.gone = FALSE]

LEMMA RunPut ==
    ASSUME NEW p, NEW q, NEW c, NEW up, Ready(p, c), Done(q, p, c),
           ~q.ackReceived
    PROVE  AtRest(Put(q), c, up)
<1> DEFINE r == Put(q)
<1>1. DOMAIN q = ProfileFields
    BY DEF Done, Round, Typed
<1>2. /\ DOMAIN r = DOMAIN q
      /\ r.mode = q.mode /\ r.response = q.response
      /\ r.ackTimer = q.ackTimer /\ r.ka = q.ka
      /\ r.state = q.state /\ r.localChange = q.localChange
      /\ r.ackTo = q.ackTo /\ r.kaTo = q.kaTo /\ r.lcTo = q.lcTo
      /\ ~r.ackReceived /\ ~r.sent /\ ~r.gone
    BY <1>1 DEF Put, ProfileFields
<1> HIDE DEF r
<1>3. ~c => p.mode \in Modes
    BY DEF Ready
<1>4. AtRest(r, c, up)
    BY <1>2, <1>3, RunRests
<1> QED
    BY <1>4 DEF r

LEMMA RestPut ==
    ASSUME NEW q, NEW c, NEW up, AtRest(q, c, up)
    PROVE  AtRest(Put(q), c, up)
<1> DEFINE r == Put(q)
<1>1. /\ DOMAIN r = DOMAIN q
      /\ r.mode = q.mode /\ r.response = q.response
      /\ r.ackTimer = q.ackTimer /\ r.ka = q.ka
      /\ r.state = q.state /\ r.localChange = q.localChange
      /\ r.ackTo = q.ackTo /\ r.kaTo = q.kaTo /\ r.lcTo = q.lcTo
      /\ ~r.ackReceived /\ ~r.sent /\ ~r.gone
    BY DEF Put, AtRest, Typed, ProfileFields
<1> HIDE DEF r
<1>2. AtRest(r, c, up)
    BY <1>1, SameRest
<1> QED
    BY <1>2 DEF r

\* Profile v is put back, the others are left alone.
LEMMA ProfileRan ==
    ASSUME NEW d, NEW C, NEW up, DataInv(d, C, up), NEW v \in VSIs,
           NEW q, NEW D,
           \A w \in VSIs \ {v} : (w \in D) <=> (w \in C),
           ~q.gone => AtRest(Put(q), v \in D, up),
           NEW e, e = Ran(d, v, q)
    PROVE  /\ DataInv(e, D, up)
           /\ \A w \in VSIs : d.p[w] # None /\ e.p[w] = None =>
                w = v /\ q.gone
<1> DEFINE x == IF q.gone THEN None ELSE Put(q)
           g == [d.p EXCEPT ![v] = x]
           l == IF q.gone THEN Removed(d.list, v) ELSE d.list
<1>1. e = [d EXCEPT !.localChange = d.localChange \/ q.ecp,
                    !.lcTo = d.lcTo \/ q.ecp, !.p = g, !.list = l]
    BY DEF Ran, Put
<1>2. x = None \/ AtRest(x, v \in D, up)
    OBVIOUS
<1>3. x = None => q.gone
    BY <1>2, RestIsSome
<1> HIDE DEF x, l
<1>4. /\ DOMAIN g = VSIs /\ g[v] = x
      /\ \A w \in VSIs \ {v} : g[w] = d.p[w]
    BY DEF DataInv, Rests
<1> HIDE DEF g
<1>5. /\ DOMAIN e = VdFields /\ e.p = g /\ e.tx = d.tx
      /\ e.ackTo = d.ackTo /\ e.ackTimer = d.ackTimer
      /\ e.localChange <=> d.localChange \/ q.ecp
      /\ e.lcTo <=> d.lcTo \/ q.ecp
    BY <1>1 DEF DataInv, Rests, VdFields
<1>6. EcpRest(e, up)
    BY <1>5 DEF DataInv, EcpRest
<1>7. ASSUME NEW w \in VSIs
      PROVE  Profile(e, w, D, up)
    <2>1. CASE w = v
        BY <1>2, <1>4, <1>5, <2>1 DEF Profile
    <2>2. CASE w # v
        <3>1. e.p[w] = d.p[w] /\ ((w \in D) <=> (w \in C))
            BY <1>4, <1>5, <2>2
        <3>2. Profile(d, w, C, up)
            BY DEF DataInv, Rests
        <3> QED
            BY <3>1, <3>2 DEF Profile, AtRest
    <2> QED
        BY <2>1, <2>2
<1>8. \A w \in VSIs : d.p[w] # None /\ e.p[w] = None => w = v /\ q.gone
    BY <1>3, <1>4, <1>5
<1> QED
    BY <1>4, <1>5, <1>6, <1>7, <1>8 DEF DataInv, Rests

\* ecp_txFrame() changes vd in nothing that matters here.
LEMMA Sent ==
    ASSUME NEW d, NEW t, NEW queue, NEW C, NEW up, DataInv(d, C, up),
           Send(d, t, queue)
    PROVE  /\ DataInv(vd', C, up)
           /\ vd' # None
           /\ vd'.p = d.p
           /\ told' = told \cup t
<1>1. vd' = [d EXCEPT !.out = None] /\ told' = told \cup t
    BY DEF Send
<1>2. /\ DOMAIN vd' = VdFields /\ vd'.p = d.p /\ vd'.tx = d.tx
      /\ vd'.ackTo = d.ackTo /\ vd'.ackTimer = d.ackTimer
      /\ vd'.localChange = d.localChange /\ vd'.lcTo = d.lcTo
    BY <1>1 DEF DataInv, Rests, VdFields
<1>3. vd' # None
    BY <1>2 DEF VdFields, None
<1> QED
    BY <1>1, <1>2, <1>3 DEF DataInv, Rests, Profile, EcpRest

\* The client of profile v may be left without a message.
Reported(v) ==
    \/ vdp_status(vd.p[v])
    \/ vd.p[v].response = "none" /\ vd.p[v].no_nlmsg

NoneSilent ==
    \A v \in VSIs : Live(v) /\ ~(Live(v))' /\ v \notin told' => Reported(v)

\* A step that keeps every profile leaves none without a message.
LEMMA AllKept ==
    ASSUME vd # None, vd' # None, Keeps(vd, vd')
    PROVE  NoneSilent
BY DEF NoneSilent, Live, Keeps

\* The machine of profile v ran to q.
LEMMA MachineRan ==
    ASSUME TimerInv, NEW v \in VSIs, Live(v), NEW q, NEW queue,
           started' = started,
           \A w \in VSIs \ {v} : (w \in crossed') <=> (w \in crossed),
           ~q.gone => AtRest(Put(q), v \in crossed', started),
           q.gone /\ ~q.sent => Reported(v),
           Send(Ran(vd, v, q), IF q.sent THEN {v} ELSE {}, queue)
    PROVE  TimerInv' /\ NoneSilent
<1> DEFINE e == Ran(vd, v, q)
           D == crossed'
<1>1. vd # None /\ DataInv(vd, crossed, started) /\ started \in BOOLEAN
    BY DEF TimerInv, Live
<1>2. /\ DataInv(e, D, started)
      /\ \A w \in VSIs : vd.p[w] # None /\ e.p[w] = None => w = v /\ q.gone
    BY <1>1, ProfileRan
<1> HIDE DEF e
<1>3. Send(e, IF q.sent THEN {v} ELSE {}, queue)
    BY DEF e
<1>4. /\ DataInv(vd', D, started)
      /\ vd' # None
      /\ vd'.p = e.p
      /\ told' = told \cup (IF q.sent THEN {v} ELSE {})
    BY <1>2, <1>3, Sent
<1>5. TimerInv'
    BY <1>1, <1>4 DEF TimerInv
<1>6. NoneSilent
    BY <1>1, <1>2, <1>4 DEF NoneSilent, Live
<1> QED
    BY <1>5, <1>6

LEMMA TimerSteps ==
    ASSUME TimerInv, NEW v \in VSIs,
           \/ vdp_localchange_handler(v)
           \/ vdp_ack_timeout_handler(v)
           \/ vdp_keepalive_timeout_handler(v)
    PROVE  TimerInv' /\ NoneSilent
<1> DEFINE p == vd.p[v]
           c == v \in crossed
<1>1. Live(v) /\ vd # None /\ DataInv(vd, crossed, started)
    BY DEF TimerInv, Live, vdp_localchange_handler, vdp_ack_timeout_handler,
           vdp_keepalive_timeout_handler
<1>2. AtRest(p, c, started)
    BY <1>1 DEF Live, DataInv, Rests, Profile
<1>3. ASSUME NEW i, NEW q, Ready(i, c), ~i.ackReceived,
             i.no_nlmsg = p.no_nlmsg, i.state = p.state,
             p.state \in Processing => i.ackTimer = 1 \/ p.response = "none",
             q = vdp_vsi_sm_station(i), RanAlone(v, q)
      PROVE  TimerInv' /\ NoneSilent
    <2>1. Done(q, i, c)
        BY <1>3, RunsEnd
    <2>2. ~q.ackReceived
        BY <1>3, <2>1 DEF Done, Round
    <2>3. AtRest(Put(q), c, started)
        BY <1>3, <2>1, <2>2, RunPut
    <2>4. /\ Send(Ran(vd, v, q), IF q.sent THEN {v} ELSE {}, toStation)
          /\ started' = started /\ crossed' = crossed
        BY <1>3 DEF RanAlone
    <2>5. q.gone /\ ~q.sent => Reported(v)
        <3>1. q.gone /\ ~q.sent =>
                /\ i.no_nlmsg /\ i.ackTimer = 0
                /\ i.state \in Processing \cup {"EXIT"}
            BY <2>1 DEF Done, Round
        <3> QED
            BY <1>3, <3>1 DEF Reported, vdp_status
    <2> QED
        BY <1>1, <2>3, <2>4, <2>5, MachineRan
<1>4. ASSUME NEW q, AtRest(q, c, started), RanAlone(v, q)
      PROVE  TimerInv' /\ NoneSilent
    <2>1. AtRest(Put(q), c, started) /\ ~q.gone
        BY <1>4, RestPut DEF AtRest
    <2>2. /\ Send(Ran(vd, v, q), IF q.sent THEN {v} ELSE {}, toStation)
          /\ started' = started /\ crossed' = crossed
        BY <1>4 DEF RanAlone
    <2> QED
        BY <1>1, <2>1, <2>2, MachineRan
<1>5. CASE vdp_localchange_handler(v)
    <2> DEFINE i == [p EXCEPT !.lcTo = p.lcTo - 1]
    <2>1. /\ p.lcTo > 0
          /\ RanAlone(v, IF i.localChange THEN vdp_vsi_sm_station(i) ELSE i)
        BY <1>5 DEF vdp_localchange_handler
    <2> HIDE DEF p
    <2>2. /\ i.localChange => Ready(i, c)
          /\ ~i.localChange => AtRest(i, c, started)
          /\ ~i.ackReceived /\ i.no_nlmsg = p.no_nlmsg
          /\ i.state = p.state /\ i.ackTimer = p.ackTimer
        BY <1>2, <2>1, ChangeHandled
    <2> HIDE DEF i, c
    <2>3. p.state \in Processing => i.ackTimer = 1
        BY <1>2, <2>2 DEF AtRest
    <2>4. CASE i.localChange
        <3>1. RanAlone(v, vdp_vsi_sm_station(i)) /\ Ready(i, c)
            BY <2>1, <2>2, <2>4
        <3> QED
            BY <1>3, <2>2, <2>3, <3>1
    <2>5. CASE ~i.localChange
        <3>1. RanAlone(v, i) /\ AtRest(i, c, started)
            BY <2>1, <2>2, <2>5
        <3> QED
            BY <1>4, <3>1
    <2> QED
        BY <2>4, <2>5
<1>6. CASE vdp_ack_timeout_handler(v)
    <2> DEFINE i == [p EXCEPT !.ackTo = p.ackTo - 1, !.ackTimer = 0]
    <2>1. p.ackTo > 0 /\ p.lcTo = 0 /\ RanAlone(v, vdp_vsi_sm_station(i))
        BY <1>6 DEF vdp_ack_timeout_handler, Settled
    <2> HIDE DEF p
    <2>2. /\ Ready(i, c)
          /\ ~i.ackReceived /\ i.no_nlmsg = p.no_nlmsg
          /\ i.state = p.state
        BY <1>2, <2>1, AckTimeoutHandled
    <2> HIDE DEF i, c
    <2>3. p.state \in Processing => p.response = "none"
        BY <1>2 DEF AtRest
    <2> QED
        BY <1>3, <2>1, <2>2, <2>3
<1>7. CASE vdp_keepalive_timeout_handler(v)
    <2> DEFINE i == [p EXCEPT !.kaTo = p.kaTo - 1,
                              !.ka = IF p.ka > 0 THEN 0 ELSE p.ka]
    <2>1. /\ p.kaTo > 0 /\ p.lcTo = 0
          /\ RanAlone(v, IF i.ka = 0 THEN vdp_vsi_sm_station(i) ELSE i)
        BY <1>7 DEF vdp_keepalive_timeout_handler, Settled
    <2> HIDE DEF p
    <2>2. /\ i.ka = 0 => Ready(i, c)
          /\ i.ka # 0 => AtRest(i, c, started)
          /\ ~i.ackReceived /\ i.no_nlmsg = p.no_nlmsg
          /\ i.state = p.state /\ i.ackTimer = p.ackTimer
        BY <1>2, <2>1, KeepaliveHandled
    <2> HIDE DEF i, c
    <2>3. p.state \in Processing => i.ackTimer = 1
        BY <1>2, <2>2 DEF AtRest
    <2>4. CASE i.ka = 0
        <3>1. RanAlone(v, vdp_vsi_sm_station(i)) /\ Ready(i, c)
            BY <2>1, <2>2, <2>4
        <3> QED
            BY <1>3, <2>2, <2>3, <3>1
    <2>5. CASE i.ka # 0
        <3>1. RanAlone(v, i) /\ AtRest(i, c, started)
            BY <2>1, <2>2, <2>5
        <3> QED
            BY <1>4, <3>1
    <2> QED
        BY <2>4, <2>5
<1> QED
    BY <1>5, <1>6, <1>7

\* ECP ran to d.
LEMMA EcpDone ==
    ASSUME TimerInv, vd # None, NEW d, NEW queue,
           DataInv(d, crossed, started), Keeps(vd, d),
           Send(d, {}, queue), started' = started, crossed' = crossed
    PROVE  TimerInv' /\ NoneSilent
<1>1. /\ DataInv(vd', crossed, started)
      /\ vd' # None /\ vd'.p = d.p
    BY Sent
<1>2. Keeps(vd, vd')
    BY <1>1 DEF Keeps
<1>3. TimerInv'
    BY <1>1 DEF TimerInv
<1> QED
    BY <1>1, <1>2, <1>3, AllKept

LEMMA EcpSteps ==
    ASSUME TimerInv, ecp_localchange_handler \/ ecp_ack_timeout_handler
    PROVE  TimerInv' /\ NoneSilent
<1>1. vd # None /\ DataInv(vd, crossed, started)
    BY DEF TimerInv, ecp_localchange_handler, ecp_ack_timeout_handler, Settled
<1>2. ASSUME NEW d, EcpRan(d), DataInv(d, crossed, started), Keeps(vd, d)
      PROVE  TimerInv' /\ NoneSilent
    BY <1>1, <1>2, EcpDone DEF EcpRan
<1>3. CASE ecp_localchange_handler
    <2> DEFINE d == [vd EXCEPT !.lcTo = FALSE]
    <2>1. EcpRan(IF d.localChange THEN ecp_tx_run_sm(d) ELSE d)
        BY <1>3 DEF ecp_localchange_handler
    <2>2. /\ DOMAIN d = DOMAIN vd /\ d.p = vd.p /\ d.tx = vd.tx
          /\ d.ackTo = vd.ackTo /\ d.ackTimer = vd.ackTimer
        BY <1>1 DEF DataInv, Rests, VdFields
    <2> HIDE DEF d
    <2>3. Rests(d, crossed, started) /\ Keeps(vd, d)
        BY <1>1, <2>2, SameProfiles DEF DataInv
    <2>4. /\ d.tx \in TxStates
          /\ d.tx = "WAIT_FOR_ACK" => d.ackTo \/ d.ackTimer = Stopped
        BY <1>1, <2>2 DEF DataInv, EcpRest
    <2>5. CASE d.localChange
        <3>1. EcpRan(ecp_tx_run_sm(d))
            BY <2>1, <2>5
        <3>2. /\ DataInv(ecp_tx_run_sm(d), crossed, started)
              /\ Keeps(d, ecp_tx_run_sm(d))
            BY <2>3, <2>4, EcpRuns
        <3>3. Keeps(vd, ecp_tx_run_sm(d))
            BY <2>3, <3>2 DEF Keeps
        <3> QED
            BY <1>2, <3>1, <3>2, <3>3
    <2>6. CASE ~d.localChange
        <3>1. EcpRan(d)
            BY <2>1, <2>6
        <3>2. DataInv(d, crossed, started)
            BY <2>3, <2>4, <2>6 DEF DataInv, EcpRest
        <3> QED
            BY <1>2, <2>3, <3>1, <3>2
    <2> QED
        BY <2>5, <2>6
<1>4. CASE ecp_ack_timeout_handler
    <2> DEFINE d == [vd EXCEPT !.ackTo = FALSE, !.ackTimer = 0]
    <2>1. EcpRan(ecp_tx_run_sm(d))
        BY <1>4 DEF ecp_ack_timeout_handler
    <2>2. /\ DOMAIN d = DOMAIN vd /\ d.p = vd.p /\ d.tx = vd.tx
          /\ d.ackTimer = 0
        BY <1>1 DEF DataInv, Rests, VdFields
    <2> HIDE DEF d
    <2>3. Rests(d, crossed, started) /\ Keeps(vd, d)
        BY <1>1, <2>2, SameProfiles DEF DataInv
    <2>4. d.tx \in TxStates
        BY <1>1, <2>2 DEF DataInv, EcpRest
    <2>5. /\ DataInv(ecp_tx_run_sm(d), crossed, started)
          /\ Keeps(d, ecp_tx_run_sm(d))
        BY <2>2, <2>3, <2>4, EcpRuns
    <2>6. Keeps(vd, ecp_tx_run_sm(d))
        BY <2>3, <2>5 DEF Keeps
    <2> QED
        BY <1>2, <2>1, <2>5, <2>6
<1> QED
    BY <1>3, <1>4

\* An answer for profile v, of which it keeps the mode or which then counts
\* as one whose mode changed.
LEMMA AnswerTaken ==
    ASSUME TimerInv, NEW v \in VSIs, Live(v), NEW f,
           NEW q, q = vdp_advance_sm(vdp_indicate(vd.p[v], f))
    PROVE  LET c == v \in crossed \/ q.mode # vd.p[v].mode
           IN /\ ~q.gone => AtRest(Put(q), c, started)
              /\ q.gone => q.sent
<1> DEFINE p == vd.p[v]
           i == vdp_indicate(p, f)
           r == vdp_vsi_sm_station(i)
           k == v \in crossed
<1>1. AtRest(p, k, started)
    BY DEF TimerInv, Live, DataInv, Rests, Profile
<1>2. q = IF i.ackReceived THEN [r EXCEPT !.ackReceived = FALSE] ELSE i
    BY DEF vdp_advance_sm
<1>3. \/ i = p
      \/ Ready(i, k \/ i.mode # p.mode) /\ i.ackReceived
    BY <1>1, Indicated
<1> HIDE DEF p, i, k
<1>4. CASE i = p
    <2>1. q = p
        BY <1>1, <1>2, <1>4 DEF AtRest
    <2>2. AtRest(Put(q), k, started) /\ ~q.gone
        BY <1>1, <2>1, RestPut DEF AtRest
    <2>3. q.mode = p.mode
        BY <2>1
    <2> QED
        BY <2>2, <2>3 DEF AtRest, p, k
<1>5. CASE Ready(i, k \/ i.mode # p.mode) /\ i.ackReceived
    <2> DEFINE c == k \/ i.mode # p.mode
    <2>1. Done(r, i, c)
        BY <1>5, RunsEnd
    <2>2. q = [r EXCEPT !.ackReceived = FALSE]
        BY <1>2, <1>5
    <2> HIDE DEF r
    <2>3. DOMAIN r = ProfileFields
        BY <2>1 DEF Done, Round, Typed
    <2>4. /\ DOMAIN q = DOMAIN r
          /\ q.mode = r.mode /\ q.response = r.response
          /\ q.ackTimer = r.ackTimer /\ q.ka = r.ka
          /\ q.state = r.state /\ q.localChange = r.localChange
          /\ q.ackTo = r.ackTo /\ q.kaTo = r.kaTo /\ q.lcTo = r.lcTo
          /\ ~q.ackReceived /\ q.sent = r.sent /\ q.gone = r.gone
        BY <2>2, <2>3 DEF ProfileFields
    <2>5. q.mode = i.mode
        BY <2>1, <2>4 DEF Done, Round
    <2>6. q.gone => q.sent
        BY <1>5, <2>1, <2>4 DEF Done, Round
    <2> DEFINE z == Put(q)
    <2>7. /\ DOMAIN z = DOMAIN r
          /\ z.mode = r.mode /\ z.response = r.response
          /\ z.ackTimer = r.ackTimer /\ z.ka = r.ka
          /\ z.state = r.state /\ z.localChange = r.localChange
          /\ z.ackTo = r.ackTo /\ z.kaTo = r.kaTo /\ z.lcTo = r.lcTo
          /\ ~z.ackReceived /\ ~z.sent /\ ~z.gone
        BY <2>3, <2>4 DEF ProfileFields, Put
    <2>8. ~c => i.mode \in Modes
        BY <1>5 DEF Ready
    <2> HIDE DEF z
    <2>9. AtRest(z, c, started)
        BY <2>1, <2>7, <2>8, RunRests
    <2>10. AtRest(z, k \/ q.mode # p.mode, started)
        BY <2>5, <2>9
    <2> QED
        BY <2>6, <2>10 DEF z, p, k
<1> QED
    BY <1>3, <1>4, <1>5

LEMMA ReceiveStep ==
    ASSUME TimerInv, ecp_rx_ReceiveFrame
    PROVE  TimerInv' /\ NoneSilent
<1> DEFINE f == Head(toStation)
<1>1. vd # None /\ DataInv(vd, crossed, started) /\ started' = started
    BY DEF TimerInv, ecp_rx_ReceiveFrame
<1>2. \/ ecp_rx_ProcessFrame(vd, f)
      \/ /\ Send(AckReceived(vdp_ack_profiles(vd, f.seq), f.seq), {},
                 Tail(toStation))
         /\ crossed' = crossed
    BY DEF ecp_rx_ReceiveFrame
<1> HIDE DEF f
<1>3. CASE /\ Send(AckReceived(vdp_ack_profiles(vd, f.seq), f.seq), {},
                   Tail(toStation))
           /\ crossed' = crossed
    <2> DEFINE a == vdp_ack_profiles(vd, f.seq)
               e == AckReceived(a, f.seq)
    <2>1. DataInv(a, crossed, started) /\ Keeps(vd, a)
        BY <1>1, ProfilesAcked
    <2>2. Send(e, {}, Tail(toStation))
        BY <1>3
    <2> HIDE DEF a
    <2>3. DataInv(e, crossed, started) /\ Keeps(a, e)
        BY <2>1, AckTaken
    <2> HIDE DEF e
    <2>4. Keeps(vd, e)
        BY <2>1, <2>3 DEF Keeps
    <2> QED
        BY <1>1, <1>3, <2>2, <2>3, <2>4, EcpDone
<1>4. CASE ecp_rx_ProcessFrame(vd, f)
    <2> DEFINE v == f.vsi
               q == vdp_advance_sm(vdp_indicate(vd.p[v], f))
    <2>1. CASE vd.p[v] = None
        <3>1. Send(vd, {}, Tail(toStation)) /\ crossed' = crossed
            BY <1>4, <2>1 DEF ecp_rx_ProcessFrame
        <3>2. Keeps(vd, vd)
            BY DEF Keeps
        <3> QED
            BY <1>1, <3>1, <3>2, EcpDone
    <2>2. CASE vd.p[v] # None
        <3>1. /\ Send(Ran(vd, v, q), IF q.sent THEN {v} ELSE {},
                      Tail(toStation))
              /\ crossed' = IF q.mode = vd.p[v].mode THEN crossed
                            ELSE crossed \cup {v}
            BY <1>4, <2>2 DEF ecp_rx_ProcessFrame
        <3>2. CASE v \in VSIs
            <4>1. Live(v)
                BY <1>1, <2>2 DEF Live
            <4>2. LET c == v \in crossed \/ q.mode # vd.p[v].mode
                  IN /\ ~q.gone => AtRest(Put(q), c, started)
                     /\ q.gone => q.sent
                BY <3>2, <4>1, AnswerTaken
            <4> HIDE DEF v, q
            <4>3. (v \in crossed') <=>
                    (v \in crossed \/ q.mode # vd.p[v].mode)
                BY <3>1
            <4>4. ~q.gone => AtRest(Put(q), v \in crossed', started)
                BY <4>2, <4>3 DEF AtRest
            <4>5. \A w \in VSIs \ {v} : (w \in crossed') <=> (w \in crossed)
                BY <3>1
            <4> QED
                BY <1>1, <3>1, <3>2, <4>1, <4>2, <4>4, <4>5, MachineRan
        <3>3. CASE v \notin VSIs
            <4> DEFINE e == Ran(vd, v, q)
                       l == IF q.gone THEN Removed(vd.list, v) ELSE vd.list
                       x == IF q.gone THEN None ELSE Put(q)
            <4> HIDE DEF v, q
            <4>1. e = [vd EXCEPT !.localChange = vd.localChange \/ q.ecp,
                                 !.lcTo = vd.lcTo \/ q.ecp,
                                 !.p = [vd.p EXCEPT ![v] = x], !.list = l]
                BY DEF Ran, Put
            <4> HIDE DEF x, l
            <4> DEFINE g == [vd.p EXCEPT ![v] = x]
            <4>2. DOMAIN g = VSIs /\ \A w \in VSIs : g[w] = vd.p[w]
                BY <1>1, <3>3 DEF DataInv, Rests
            <4> HIDE DEF g
            <4>3. /\ DOMAIN e = DOMAIN vd /\ e.p = g /\ e.tx = vd.tx
                  /\ e.ackTo = vd.ackTo /\ e.ackTimer = vd.ackTimer
                  /\ e.localChange <=> vd.localChange \/ q.ecp
                  /\ e.lcTo <=> vd.lcTo \/ q.ecp
                BY <1>1, <4>1 DEF DataInv, Rests, VdFields, g
            <4>4. Send(e, IF q.sent THEN {v} ELSE {}, Tail(toStation))
                BY <3>1
            <4> HIDE DEF e
            <4>5. Rests(e, crossed, started) /\ Keeps(vd, e)
                BY <1>1, <4>2, <4>3 DEF DataInv, Rests, Profile, Keeps
            <4>6. DataInv(e, crossed, started)
                BY <1>1, <4>3, <4>5 DEF DataInv, EcpRest
            <4>7. /\ DataInv(vd', crossed, started)
                  /\ vd' # None /\ vd'.p = e.p
                BY <4>4, <4>6, Sent
            <4>8. \A w \in VSIs : (w \in crossed') <=> (w \in crossed)
                BY <3>1, <3>3
            <4>9. DataInv(vd', crossed', started)
                BY <4>7, <4>8 DEF DataInv, Rests, Profile, AtRest
            <4>10. Keeps(vd, vd')
                BY <4>5, <4>7 DEF Keeps
            <4>11. TimerInv'
                BY <1>1, <4>7, <4>9 DEF TimerInv
            <4> QED
                BY <1>1, <4>7, <4>10, <4>11, AllKept
        <3> QED
            BY <3>2, <3>3
    <2> QED
        BY <2>1, <2>2
<1> QED
    BY <1>2, <1>3, <1>4

\* A request notes the change of mode in the history.
LEMMA ProfileAdded ==
    ASSUME TimerInv, vd # None, NEW v \in VSIs, NEW m \in Modes, NEW pid,
           NEW D,
           D = IF Live(v) /\ vd.p[v].state \in Processing
               THEN crossed \cup {v} ELSE crossed \ {v},
           NEW e, e = vdp_add_profile(vd, v, m, pid)
    PROVE  DataInv(e, D, started) /\ Keeps(vd, e) /\ e.p[v] # None
<1> DEFINE p == vd.p[v]
           r == IF p # None
                THEN IF p.mode # m
                     THEN [p EXCEPT !.mode = m, !.response = "none",
                                    !.pid = pid]
                     ELSE [p EXCEPT !.pid = pid]
                ELSE [NewProfile(m, pid) EXCEPT
                        !.response = IF m = "DEASSOC" THEN "ok" ELSE "none"]
           q == IF r.response = "ok" THEN r
                ELSE vdp_somethingChangedLocal(r, TRUE)
           g == [vd.p EXCEPT ![v] = q]
           l == IF p # None THEN vd.list ELSE <<v>> \o vd.list
<1>1. DataInv(vd, crossed, started)
    BY DEF TimerInv
<1>2. e = [vd EXCEPT !.list = l, !.p = g]
    BY DEF vdp_add_profile
<1>3. AtRest(q, v \in D, started)
    <2>1. CASE p # None
        <3>1. AtRest(p, v \in crossed, started)
            BY <1>1, <2>1 DEF DataInv, Rests, Profile
        <3>2. (v \in D) <=> (p.state \in Processing)
            BY <2>1 DEF Live
        <3>3. r = IF p.mode # m
                  THEN [p EXCEPT !.mode = m, !.response = "none", !.pid = pid]
                  ELSE [p EXCEPT !.pid = pid]
            BY <2>1
        <3> HIDE DEF p, r
        <3>4. AtRest(q, p.state \in Processing, started)
            BY <3>1, <3>3, Requested
        <3> QED
            BY <3>2, <3>4 DEF AtRest
    <2>2. CASE p = None
        <3>1. r = [NewProfile(m, pid) EXCEPT
                     !.response = IF m = "DEASSOC" THEN "ok" ELSE "none"]
            BY <2>2
        <3> HIDE DEF r
        <3> QED
            BY <3>1, Created
    <2> QED
        BY <2>1, <2>2
<1> HIDE DEF q, l
<1>4. /\ DOMAIN g = VSIs /\ g[v] = q
      /\ \A w \in VSIs \ {v} : g[w] = vd.p[w]
    BY <1>1 DEF DataInv, Rests
<1> HIDE DEF g
<1>5. /\ DOMAIN e = VdFields /\ e.p = g /\ e.tx = vd.tx
      /\ e.ackTo = vd.ackTo /\ e.ackTimer = vd.ackTimer
      /\ e.localChange = vd.localChange /\ e.lcTo = vd.lcTo
    BY <1>1, <1>2 DEF DataInv, Rests, VdFields
<1>6. ASSUME NEW w \in VSIs
      PROVE  Profile(e, w, D, started)
    <2>1. CASE w = v
        BY <1>3, <1>4, <1>5, <2>1 DEF Profile
    <2>2. CASE w # v
        <3>1. e.p[w] = vd.p[w] /\ ((w \in D) <=> (w \in crossed))
            BY <1>4, <1>5, <2>2
        <3>2. Profile(vd, w, crossed, started)
            BY <1>1 DEF DataInv, Rests
        <3> QED
            BY <3>1, <3>2 DEF Profile, AtRest
    <2> QED
        BY <2>1, <2>2
<1>7. q # None
    BY <1>3, RestIsSome
<1>8. Keeps(vd, e) /\ e.p[v] # None
    BY <1>4, <1>5, <1>7 DEF Keeps
<1>9. EcpRest(e, started)
    BY <1>1, <1>5 DEF DataInv, EcpRest
<1> QED
    BY <1>4, <1>5, <1>6, <1>8, <1>9 DEF DataInv, Rests

\* vdp_request() goes on to mark the profile.
LEMMA Marked ==
    ASSUME NEW d, NEW D, NEW up, DataInv(d, D, up), NEW v \in VSIs,
           d.p[v] # None,
           NEW e, e = [d EXCEPT !.p[v].no_nlmsg = TRUE, !.p[v].txmit = FALSE]
    PROVE  DataInv(e, D, up) /\ Keeps(d, e)
<1> DEFINE p == d.p[v]
           a == [p EXCEPT !.no_nlmsg = TRUE]
           h == [d.p EXCEPT ![v] = a]
           x == [d EXCEPT !.p = h]
           b == [x.p[v] EXCEPT !.txmit = FALSE]
           g == [x.p EXCEPT ![v] = b]
<1>1. e = [x EXCEPT !.p = g]
    OBVIOUS
<1>2. AtRest(p, v \in D, up)
    BY DEF DataInv, Rests, Profile
<1>3. /\ DOMAIN h = VSIs /\ h[v] = a
      /\ \A w \in VSIs \ {v} : h[w] = d.p[w]
    BY DEF DataInv, Rests
<1> HIDE DEF h
<1>4. /\ DOMAIN x = VdFields /\ x.p = h /\ x.tx = d.tx
      /\ x.ackTo = d.ackTo /\ x.ackTimer = d.ackTimer
      /\ x.localChange = d.localChange /\ x.lcTo = d.lcTo
    BY DEF DataInv, Rests, VdFields
<1> HIDE DEF x
<1>5. b = [a EXCEPT !.txmit = FALSE]
    BY <1>3, <1>4
<1> HIDE DEF b
<1>6. /\ DOMAIN g = VSIs /\ g[v] = b
      /\ \A w \in VSIs \ {v} : g[w] = d.p[w]
    BY <1>3, <1>4
<1> HIDE DEF g
<1>7. /\ DOMAIN e = VdFields /\ e.p = g /\ e.tx = d.tx
      /\ e.ackTo = d.ackTo /\ e.ackTimer = d.ackTimer
      /\ e.localChange = d.localChange /\ e.lcTo = d.lcTo
    BY <1>1, <1>4 DEF VdFields
<1> HIDE DEF p
<1>8. /\ DOMAIN b = DOMAIN p
      /\ b.mode = p.mode /\ b.response = p.response
      /\ b.ackTimer = p.ackTimer /\ b.ka = p.ka
      /\ b.state = p.state /\ b.localChange = p.localChange
      /\ b.ackTo = p.ackTo /\ b.kaTo = p.kaTo /\ b.lcTo = p.lcTo
      /\ ~b.ackReceived /\ ~b.sent /\ ~b.gone
    BY <1>2, <1>5 DEF AtRest, Typed, ProfileFields
<1>9. AtRest(b, v \in D, up) /\ b # None
    BY <1>2, <1>8, SameRest, RestIsSome
<1>10. \A w \in VSIs : Profile(e, w, D, up)
    BY <1>6, <1>7, <1>9 DEF DataInv, Rests, Profile
<1>11. EcpRest(e, up)
    BY <1>7 DEF DataInv, EcpRest
<1>12. Keeps(d, e)
    BY <1>6, <1>7, <1>9 DEF Keeps
<1> QED
    BY <1>6, <1>7, <1>10, <1>11, <1>12 DEF DataInv, Rests

LEMMA SomeData ==
    ASSUME NEW d, NEW C, NEW up, DataInv(d, C, up)
    PROVE  d # None
BY DEF DataInv, Rests, VdFields, None

LEMMA RequestSteps ==
    ASSUME TimerInv, NEW v \in VSIs, NEW m \in Modes,
           vdpnl_setlink(v, m) \/ set_arg_mode(v, m)
    PROVE  TimerInv' /\ NoneSilent
<1>1. /\ vd # None /\ started' = started
      /\ crossed' = IF Live(v) /\ vd.p[v].state \in Processing
                    THEN crossed \cup {v} ELSE crossed \ {v}
    BY DEF vdpnl_setlink, set_arg_mode, vdp_request, Asks
<1>2. ASSUME DataInv(vd', crossed', started), Keeps(vd, vd')
      PROVE  TimerInv' /\ NoneSilent
    <2>1. vd' # None
        BY <1>2, SomeData
    <2> QED
        BY <1>1, <1>2, <2>1, AllKept DEF TimerInv
<1>3. CASE vdpnl_setlink(v, m)
    <2> DEFINE d == vdp_add_profile(vd, v, m, TRUE)
    <2>1. vd' = [d EXCEPT !.p[v].no_nlmsg = TRUE, !.p[v].txmit = FALSE]
        BY <1>3 DEF vdpnl_setlink, vdp_request
    <2>2. DataInv(d, crossed', started) /\ Keeps(vd, d) /\ d.p[v] # None
        BY <1>1, ProfileAdded
    <2> HIDE DEF d
    <2>3. DataInv(vd', crossed', started) /\ Keeps(d, vd')
        BY <2>1, <2>2, Marked
    <2>4. Keeps(vd, vd')
        BY <2>2, <2>3 DEF Keeps
    <2> QED
        BY <1>2, <2>3, <2>4
<1>4. CASE set_arg_mode(v, m)
    <2>1. vd' = vdp_add_profile(vd, v, m, FALSE)
        BY <1>4 DEF set_arg_mode
    <2>2. DataInv(vd', crossed', started) /\ Keeps(vd, vd')
        BY <1>1, <2>1, ProfileAdded
    <2> QED
        BY <1>2, <2>2
<1> QED
    BY <1>3, <1>4

\* vdpnl_getlink() forgets only what it reported.
LEMMA StatusStep ==
    ASSUME TimerInv, vdpnl_getlink
    PROVE  TimerInv' /\ NoneSilent
<1>1. /\ vd # None /\ DataInv(vd, crossed, started)
      /\ started' = started /\ crossed' = crossed
    BY DEF TimerInv, vdpnl_getlink
<1>2. PICK l : vd' = Forgets(vd, l)
    BY DEF vdpnl_getlink
<1> DEFINE New(v) == IF /\ vd.p[v] # None /\ vdp_status(vd.p[v])
                        /\ \A i \in DOMAIN l : l[i] # v
                     THEN None ELSE vd.p[v]
           g == [v \in VSIs |-> New(v)]
<1>3. vd' = [vd EXCEPT !.list = l, !.p = g]
    BY <1>2 DEF Forgets
<1>4. DOMAIN g = VSIs /\ \A v \in VSIs : g[v] = New(v)
    OBVIOUS
<1> HIDE DEF g
<1>5. /\ DOMAIN vd' = VdFields /\ vd'.p = g /\ vd'.tx = vd.tx
      /\ vd'.ackTo = vd.ackTo /\ vd'.ackTimer = vd.ackTimer
      /\ vd'.localChange = vd.localChange /\ vd'.lcTo = vd.lcTo
    BY <1>1, <1>3 DEF DataInv, Rests, VdFields
<1>6. \A v \in VSIs : Profile(vd', v, crossed, started)
    BY <1>1, <1>4, <1>5 DEF DataInv, Rests, Profile
<1>7. DataInv(vd', crossed, started)
    BY <1>1, <1>4, <1>5, <1>6 DEF DataInv, Rests, EcpRest
<1>8. vd' # None
    BY <1>7, SomeData
<1>9. NoneSilent
    BY <1>1, <1>4, <1>5, <1>8 DEF NoneSilent, Live, Reported
<1> QED
    BY <1>1, <1>7, <1>8, <1>9 DEF TimerInv

\* What vdp_ifup() makes of a profile.
LEMMA Restarted ==
    ASSUME NEW p, NEW c, NEW up, AtRest(p, c, FALSE),
           NEW a, a = IF p.ackTimer > 0
                      THEN vdp_start_ackTimer(vdp_somethingChangedLocal(p, TRUE))
                      ELSE p,
           NEW k, k = IF a.ka > 0 THEN vdp_start_keepaliveTimer(a) ELSE a
    PROVE  AtRest(k, c, up)
<1>1. AtRest(a, c, up)
    <2>1. CASE p.ackTimer > 0
        <3> DEFINE l == vdp_somethingChangedLocal(p, TRUE)
        <3>1. Calm(p, c)
            BY RestIsCalm
        <3>2. AtRest(l, c, up) /\ Waits(l)
            BY <3>1, Raised
        <3>3. a = vdp_start_ackTimer(l)
            BY <2>1
        <3> HIDE DEF l
        <3> QED
            BY <3>2, <3>3, AckStarted
    <2>2. CASE ~(p.ackTimer > 0)
        <3>1. p.ackTimer \in Nat
            BY DEF AtRest, Typed
        <3>2. p.ackTimer = 0
            BY <2>2, <3>1
        <3>3. a = p
            BY <2>2
        <3> QED
            BY <3>2, <3>3 DEF AtRest
    <2> QED
        BY <2>1, <2>2
<1> QED
    BY <1>1, KeepaliveStarted

\* What vdp_ifdown() makes of it.
LEMMA Halted ==
    ASSUME NEW p, NEW c, NEW up, AtRest(p, c, up),
           NEW a, a = IF p.ackTimer > 0 THEN vdp_stop_ackTimer(p) ELSE p,
           NEW k, k = IF a.ka > 0 THEN vdp_stop_keepaliveTimer(a) ELSE a
    PROVE  AtRest(k, c, FALSE)
<1>1. AtRest(a, c, FALSE)
    BY AckStopped, RestsDown
<1> QED
    BY <1>1, KeepaliveStopped

LEMMA NewRests ==
    ASSUME NEW C, NEW up
    PROVE  Rests(NewVd, C, up) /\ NewVd.tx = "INIT_TRANSMIT"
<1> DEFINE g == [v \in VSIs |-> None]
<1>1. DOMAIN g = VSIs /\ \A v \in VSIs : g[v] = None
    OBVIOUS
<1>2. DOMAIN NewVd = VdFields /\ NewVd.p = g /\ NewVd.tx = "INIT_TRANSMIT"
    BY DEF NewVd, VdFields
<1> QED
    BY <1>1, <1>2 DEF Rests, Profile

LEMMA StartStep ==
    ASSUME TimerInv, evb_start_modules
    PROVE  TimerInv' /\ NoneSilent
<1> DEFINE d == IF vd = None THEN NewVd ELSE vd
           e == ecp_init(d)
           Again(p) == IF p.ackTimer > 0
                       THEN vdp_start_ackTimer(
                              vdp_somethingChangedLocal(p, TRUE))
                       ELSE p
           Kept(p) == IF p.ka > 0 THEN vdp_start_keepaliveTimer(p) ELSE p
           New(v) == IF e.p[v] = None THEN None ELSE Kept(Again(e.p[v]))
           g == [v \in VSIs |-> New(v)]
<1>1. /\ ~started /\ started' = TRUE /\ crossed' = crossed
      /\ vd' = vdp_ifup(vd)
    BY DEF evb_start_modules
<1>2. vd' = [e EXCEPT !.p = g]
    BY <1>1 DEF vdp_ifup
<1>3. /\ Rests(d, crossed, FALSE) /\ d.tx \in TxStates
      /\ d.tx = "WAIT_FOR_ACK" => d.ackTo \/ d.ackTimer = Stopped
      /\ vd # None => d = vd
    <2>1. CASE vd = None
        BY <2>1, NewRests DEF TxStates
    <2>2. CASE vd # None
        <3>1. DataInv(vd, crossed, started) /\ started = FALSE
            BY <1>1, <2>2 DEF TimerInv
        <3> QED
            BY <2>2, <3>1 DEF DataInv, EcpRest
    <2> QED
        BY <2>1, <2>2
<1> HIDE DEF d
<1>4. /\ DOMAIN e = VdFields /\ e.p = d.p /\ e.tx = d.tx
      /\ e.ackTo = d.ackTo /\ e.ackTimer = d.ackTimer
      /\ e.lcTo = TRUE
    BY <1>3 DEF Rests, VdFields, ecp_init, ecp_somethingChangedLocal
<1> HIDE DEF e
<1>5. ASSUME NEW v \in VSIs
      PROVE  /\ New(v) = None \/ AtRest(New(v), v \in crossed, started')
             /\ e.p[v] # None => New(v) # None
    <2>1. CASE e.p[v] = None
        BY <2>1
    <2>2. CASE e.p[v] # None
        <3>1. AtRest(e.p[v], v \in crossed, FALSE)
            BY <1>3, <1>4, <2>2 DEF Rests, Profile
        <3>2. New(v) = Kept(Again(e.p[v]))
            BY <2>2
        <3>3. AtRest(New(v), v \in crossed, started')
            BY <3>1, <3>2, Restarted
        <3> QED
            BY <3>3, RestIsSome
    <2> QED
        BY <2>1, <2>2
<1>6. DOMAIN g = VSIs /\ \A v \in VSIs : g[v] = New(v)
    OBVIOUS
<1> HIDE DEF g, New
<1>7. /\ DOMAIN vd' = VdFields /\ vd'.p = g /\ vd'.tx = e.tx
      /\ vd'.ackTo = e.ackTo /\ vd'.ackTimer = e.ackTimer
      /\ vd'.lcTo = TRUE
    BY <1>2, <1>4 DEF VdFields
<1>8. \A v \in VSIs : Profile(vd', v, crossed, started')
    BY <1>5, <1>6, <1>7 DEF Profile
<1>9. EcpRest(vd', started')
    BY <1>3, <1>4, <1>7 DEF EcpRest
<1>10. DataInv(vd', crossed, started')
    BY <1>6, <1>7, <1>8, <1>9 DEF DataInv, Rests
<1>11. vd' # None
    BY <1>10, SomeData
<1>12. NoneSilent
    BY <1>3, <1>4, <1>5, <1>6, <1>7, <1>11 DEF NoneSilent, Live
<1> QED
    BY <1>1, <1>10, <1>11, <1>12 DEF TimerInv

LEMMA StopStep ==
    ASSUME TimerInv, evb_stop_modules
    PROVE  TimerInv' /\ NoneSilent
<1>1. /\ started' = FALSE /\ crossed' = crossed
      /\ vd' = IF started THEN vdp_ifdown(vd) ELSE vd
    BY DEF evb_stop_modules
<1>2. CASE ~started
    <2>1. vd' = vd /\ started = FALSE
        BY <1>1, <1>2 DEF TimerInv
    <2>2. TimerInv'
        BY <1>1, <2>1 DEF TimerInv
    <2>3. NoneSilent
        BY <2>1 DEF NoneSilent, Live
    <2> QED
        BY <2>2, <2>3
<1>3. CASE started
    <2> DEFINE r == ecp_tx_stop_ackTimer(vd)
               e == ecp_deinit(vd)
               Down(p) == IF p.ackTimer > 0 THEN vdp_stop_ackTimer(p) ELSE p
               Idle(p) == IF p.ka > 0 THEN vdp_stop_keepaliveTimer(p) ELSE p
               New(v) == IF vd.p[v] = None THEN None
                         ELSE Idle(Down(vd.p[v]))
               g == [v \in VSIs |-> New(v)]
    <2>1. vd # None /\ DataInv(vd, crossed, started)
        BY <1>3 DEF TimerInv
    <2>2. vd' = [e EXCEPT !.p = g]
        BY <1>1, <1>3 DEF vdp_ifdown
    <2>3. e = [r EXCEPT !.lcTo = FALSE]
        BY DEF ecp_deinit
    <2>4. DOMAIN r = VdFields /\ r.tx = vd.tx /\ r.ackTimer = Stopped
        BY <2>1 DEF DataInv, Rests, VdFields, ecp_tx_stop_ackTimer
    <2> HIDE DEF r, e
    <2>5. DOMAIN e = VdFields /\ e.tx = vd.tx /\ e.ackTimer = Stopped
        BY <2>3, <2>4 DEF VdFields
    <2>6. ASSUME NEW v \in VSIs
          PROVE  /\ New(v) = None \/ AtRest(New(v), v \in crossed, FALSE)
                 /\ vd.p[v] # None => New(v) # None
        <3>1. CASE vd.p[v] = None
            BY <3>1
        <3>2. CASE vd.p[v] # None
            <4>1. AtRest(vd.p[v], v \in crossed, started)
                BY <2>1, <3>2 DEF DataInv, Rests, Profile
            <4>2. New(v) = Idle(Down(vd.p[v]))
                BY <3>2
            <4>3. AtRest(New(v), v \in crossed, FALSE)
                BY <4>1, <4>2, Halted
            <4> QED
                BY <4>3, RestIsSome
        <3> QED
            BY <3>1, <3>2
    <2>7. DOMAIN g = VSIs /\ \A v \in VSIs : g[v] = New(v)
        OBVIOUS
    <2> HIDE DEF g, New
    <2>8. /\ DOMAIN vd' = VdFields /\ vd'.p = g /\ vd'.tx = vd.tx
          /\ vd'.ackTimer = Stopped
        BY <2>2, <2>5 DEF VdFields
    <2>9. \A v \in VSIs : Profile(vd', v, crossed, FALSE)
        BY <2>6, <2>7, <2>8 DEF Profile
    <2>10. EcpRest(vd', FALSE)
        BY <2>1, <2>8 DEF DataInv, EcpRest
    <2>11. DataInv(vd', crossed, FALSE)
        BY <2>7, <2>8, <2>9, <2>10 DEF DataInv, Rests
    <2>12. vd' # None
        BY <2>11, SomeData
    <2>13. NoneSilent
        BY <2>6, <2>7, <2>8, <2>12 DEF NoneSilent, Live
    <2> QED
        BY <1>1, <2>11, <2>12, <2>13 DEF TimerInv
<1> QED
    BY <1>2, <1>3 DEF TimerInv

\* EVB's flag is not looked at by the machines.
LEMMA UpdateStep ==
    ASSUME TimerInv, NEW bit, vdp_update(bit)
    PROVE  TimerInv' /\ NoneSilent
<1>1. /\ vd # None /\ vd' = [vd EXCEPT !.vdpbit_on = bit]
      /\ started' = started /\ crossed' = crossed
    BY DEF vdp_update
<1>2. DataInv(vd, crossed, started) /\ started \in BOOLEAN
    BY <1>1 DEF TimerInv
<1>3. /\ DOMAIN vd' = DOMAIN vd /\ vd'.p = vd.p /\ vd'.tx = vd.tx
      /\ vd'.ackTo = vd.ackTo /\ vd'.ackTimer = vd.ackTimer
      /\ vd'.localChange = vd.localChange /\ vd'.lcTo = vd.lcTo
    BY <1>1, <1>2 DEF DataInv, Rests, VdFields
<1>4. Rests(vd', crossed, started) /\ Keeps(vd, vd')
    BY <1>2, <1>3, SameProfiles DEF DataInv
<1>5. DataInv(vd', crossed, started)
    BY <1>2, <1>3, <1>4 DEF DataInv, EcpRest
<1>6. vd' # None
    BY <1>5, SomeData
<1> QED
    BY <1>1, <1>2, <1>4, <1>5, <1>6, AllKept DEF TimerInv

LEMMA StationUnchanged ==
    ASSUME TimerInv, vd' = vd, started' = started, crossed' = crossed
    PROVE  TimerInv' /\ NoneSilent
BY DEF TimerInv, NoneSilent, Live

-----------------------------------------------------------------------------
(* The theorems                                                             *)

LEMMA InitTimers ==
    Init => TimerInv
BY DEF Init, TimerInv

LEMMA NextTimers ==
    TimerInv /\ [Next]_vars => TimerInv' /\ NoneSilent
<1> SUFFICES ASSUME TimerInv, [Next]_vars
             PROVE  TimerInv' /\ NoneSilent
    OBVIOUS
<1>1. CASE Timers
    BY <1>1, EcpSteps, TimerSteps DEF Timers
<1>2. CASE ecp_rx_ReceiveFrame
    BY <1>2, ReceiveStep
<1>3. CASE \E v \in VSIs, m \in NlModes : vdpnl_setlink(v, m)
    BY <1>3, ModesAssumption, RequestSteps
<1>4. CASE \E v \in VSIs, m \in CmdModes : set_arg_mode(v, m)
    BY <1>4, ModesAssumption, RequestSteps
<1>5. CASE vdpnl_getlink
    BY <1>5, StatusStep
<1>6. CASE \E b \in BOOLEAN : vdp_update(b)
    BY <1>6, UpdateStep
<1>7. CASE evb_start_modules
    BY <1>7, StartStep
<1>8. CASE evb_stop_modules
    BY <1>8, StopStep
<1>9. CASE \/ LinkUp \/ SwitchAnswers \/ SwitchDeassociates \/ Lose
           \/ UNCHANGED vars
    <2>1. vd' = vd /\ started' = started /\ crossed' = crossed
        BY <1>9 DEF LinkUp, SwitchAnswers, SwitchDeassociates, Lose, Others,
                    vars
    <2> QED
        BY <2>1, StationUnchanged
<1> QED
    BY <1>1, <1>2, <1>3, <1>4, <1>5, <1>6, <1>7, <1>8, <1>9 DEF Next

LEMMA TimersAlways ==
    Spec => []TimerInv
<1>1. TimerInv /\ [Next]_vars => TimerInv'
    BY NextTimers
<1> QED
    BY InitTimers, <1>1, PTL DEF Spec

\* A profile with a request under way has a timeout to come that ends the
\* wait of vdp_vsi_set_station_state(), unless its mode changed meanwhile.
THEOREM WaitsAreTimed ==
    Spec => []WaitHasTimer
<1>1. TimerInv => WaitHasTimer
    BY DEF TimerInv, WaitHasTimer, Live, DataInv, Rests, Profile, AtRest,
           Typed
<1> QED
    BY TimersAlways, <1>1, PTL

\* An associated profile is renewed: its keep-alive timeout or a run of its
\* machine is to come, also after the link was lost (vdp_ifdown(), vdp_ifup()).
THEOREM RenewalIsDue ==
    Spec => []RenewalDue
<1>1. TimerInv => RenewalDue
    BY DEF TimerInv, RenewalDue, Live, DataInv, Rests, Profile, AtRest, Typed,
           Waits, Associated
<1> QED
    BY TimersAlways, <1>1, PTL

\* A change that ECP was told of is on its way (ecp_tx_run_sm()).
THEOREM EcpAlwaysMovesOn ==
    Spec => []EcpMovesOn
<1>1. TimerInv => EcpMovesOn
    BY DEF TimerInv, EcpMovesOn, DataInv, EcpRest
<1> QED
    BY TimersAlways, <1>1, PTL

\* A profile leaves the list without a message to its client only when its
\* outcome was reported or its own request went unanswered (vdp_trigger(),
\* the EXIT state of vdp_vsi_sm_station(), vdp_status()).
THEOREM NoneIsForgottenSilently ==
    Spec => SilentOnlyIfUnanswered
<1> DEFINE Quiet == \A v \in VSIs :
                      (Live(v) /\ ~(Live(v))' /\ v \notin told')
                        => \/ vdp_status(vd.p[v])
                           \/ vd.p[v].response = "none" /\ vd.p[v].no_nlmsg
<1>1. TimerInv /\ [Next]_vars => [Quiet]_vars
    BY NextTimers DEF NoneSilent, Reported
<1>2. Spec => [][Quiet]_vars
    BY TimersAlways, <1>1, PTL DEF Spec
<1> QED
    BY <1>2 DEF SilentOnlyIfUnanswered
=============================================================================
