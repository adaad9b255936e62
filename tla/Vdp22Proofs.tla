----------------------------- MODULE Vdp22Proofs -----------------------------
(***************************************************************************)
(* What the station of VDP takes for confirmed was granted by the bridge,  *)
(* for any VSIs, filters, clients, requests, outcomes at the bridge and    *)
(* bounds.                                                                 *)
(*                                                                         *)
(* A machine moves on until it stops, within one handler.  Moves are       *)
(* therefore shown to keep what is known of the machine's record; the runs *)
(* and the handlers follow.                                                *)
(***************************************************************************)
EXTENDS Vdp22, TLAPS

\* The only element of a set is the one that CHOOSE takes.
LEMMA ChooseOnly ==
    ASSUME NEW x
    PROVE  (CHOOSE e \in {x} : TRUE) = x
OBVIOUS

\* Evaluating the argument first makes no difference.
LEMMA StOnce ==
    ASSUME NEW v
    PROVE  /\ Apply(StStep, v) = StStep(v)
           /\ Apply(StTwice, v) = StTwice(v)
           /\ Apply(StEnded, v) = StEnded(v)
           /\ Apply(StEnter, v) = StEnter(v)
           /\ Apply(vdp22_clntback, v) = vdp22_clntback(v)
<1>1. /\ {StStep(u) : u \in {v}} = {StStep(v)}
      /\ {StTwice(u) : u \in {v}} = {StTwice(v)}
      /\ {StEnded(u) : u \in {v}} = {StEnded(v)}
      /\ {StEnter(u) : u \in {v}} = {StEnter(v)}
      /\ {vdp22_clntback(u) : u \in {v}} = {vdp22_clntback(v)}
    OBVIOUS
<1> QED
    BY <1>1, ChooseOnly DEF Apply

-----------------------------------------------------------------------------
(* What is known of the record of a station machine                         *)

StFields ==
    {"vsi", "st", "mode", "cc", "resp", "status", "busy", "del", "notify",
     "nlcmd", "nl", "vid", "kato", "ackreceived", "acktimeout", "localchg",
     "deassoc", "resp_ok", "txmit_error", "ka", "ackt", "lc", "tx", "ev",
     "gone", "up"}

StStates ==
    {"BEGIN", "INIT", "STATION_PROC", "STATION_PROCWAIT",
     "STATION_PROCWAIT_2", "ASSOC_NEW", "ASSOC_COMPL", "PREASSOC_NEW",
     "WAIT_SYSCMD", "WAIT_SYSCMD_2", "TXMIT_KA", "TXMIT_KAWAIT",
     "TXMIT_KAWAIT_2", "TXMIT_DEASSOC", "TXMIT_DEAWAIT", "TXMIT_DEAWAIT_2",
     "END"}

\* A response to an association is one of the modes G that were granted.
RespIn(v, G) == v.resp # DEASSOC => v.resp \in G
Answered(v, G) == v.status = "ok" /\ v.resp_ok => RespIn(v, G)

\* The parts that do not depend on the state the machine is in.
StRec(v, k, G) ==
    /\ DOMAIN v = StFields
    /\ v.st \in StStates
    /\ v.vsi = k
    /\ v.mode \in Modes
    /\ v.vid \in Vids
    /\ v.status \in Statuses
    /\ v.tx = None \/ (v.tx \in Msgs /\ v.tx.vsi = k)
    /\ v.cc # DEASSOC => v.cc \in G

\* A machine that waits for a response has none, or one that answers it.
Awaiting(v, G) == ~v.ackreceived \/ v.txmit_error \/ Answered(v, G)

\* The machine of VSI k between two moves, when G was granted.
StMachine(v, k, G) ==
    /\ StRec(v, k, G)
    /\ v.st \in {"STATION_PROC", "STATION_PROCWAIT"} => Awaiting(v, G)
    /\ v.st = "STATION_PROCWAIT_2" => Answered(v, G)

\* The machine on entering a state.
StEntering(v, k, G) ==
    /\ StRec(v, k, G)
    /\ v.st = "STATION_PROCWAIT" => Awaiting(v, G)
    /\ v.st = "STATION_PROCWAIT_2" => Answered(v, G)
    /\ v.st \in {"ASSOC_NEW", "PREASSOC_NEW"} => RespIn(v, G)

\* The states a move leads to.
LEMMA StMoves ==
    ASSUME NEW v, NEW k, NEW G, StMachine(v, k, G)
    PROVE  /\ vdp22st_move_state(v) \in StStates
           /\ vdp22st_move_state(v) = "STATION_PROCWAIT" => Awaiting(v, G)
           /\ vdp22st_move_state(v) = "STATION_PROCWAIT_2" => Answered(v, G)
           /\ vdp22st_move_state(v) \in {"ASSOC_NEW", "PREASSOC_NEW"} =>
                RespIn(v, G)
<1> DEFINE s == vdp22st_move_state(v)
<1> SUFFICES /\ s \in StStates
             /\ s = "STATION_PROCWAIT" => Awaiting(v, G)
             /\ s = "STATION_PROCWAIT_2" => Answered(v, G)
             /\ s \in {"ASSOC_NEW", "PREASSOC_NEW"} => RespIn(v, G)
    OBVIOUS
<1>1. v.st \in StStates
    BY DEF StMachine, StRec
<1>2. CASE v.st \in {"BEGIN", "INIT", "ASSOC_NEW", "ASSOC_COMPL",
                     "PREASSOC_NEW", "WAIT_SYSCMD", "WAIT_SYSCMD_2",
                     "TXMIT_KA", "TXMIT_DEASSOC", "TXMIT_DEAWAIT_2", "END"}
    BY <1>2 DEF vdp22st_move_state, StStates
<1>3. CASE v.st \in {"TXMIT_KAWAIT", "TXMIT_DEAWAIT"}
    BY <1>3 DEF vdp22st_move_state, StAwaits, StStates
<1>4. CASE v.st = "TXMIT_KAWAIT_2"
    BY <1>4 DEF vdp22st_move_state, StStates
<1>5. CASE v.st = "STATION_PROC"
    <2>1. s = "STATION_PROCWAIT"
        BY <1>5 DEF vdp22st_move_state
    <2> QED
        BY <1>5, <2>1 DEF StMachine, StStates
<1>6. CASE v.st = "STATION_PROCWAIT"
    <2>1. Awaiting(v, G)
        BY <1>6 DEF StMachine
    <2>2. /\ s = IF v.txmit_error \/ v.acktimeout THEN "END"
                 ELSE IF v.ackreceived THEN "STATION_PROCWAIT_2"
                 ELSE "STATION_PROCWAIT"
        BY <1>6 DEF vdp22st_move_state, StAwaits
    <2> QED
        BY <2>1, <2>2 DEF Awaiting, StStates
<1>7. CASE v.st = "STATION_PROCWAIT_2"
    <2>1. Answered(v, G) /\ v.status \in Statuses
        BY <1>7 DEF StMachine, StRec
    <2>2. /\ s \in {"END", "ASSOC_COMPL", "PREASSOC_NEW", "ASSOC_NEW"}
          /\ s \in {"PREASSOC_NEW", "ASSOC_NEW"} =>
                v.resp_ok /\ v.status = "ok"
        BY <1>7, <2>1 DEF vdp22st_move_state, Statuses
    <2> QED
        BY <2>1, <2>2 DEF Answered, StStates
<1> QED
    BY <1>1, <1>2, <1>3, <1>4, <1>5, <1>6, <1>7 DEF StStates

\* vdp22st_process() keeps the record, and leaves no response to be read: it
\* is not sent, or the flags of the response are cleared.
LEMMA StProcess ==
    ASSUME NEW v, NEW k \in VSIs, NEW G, StRec(v, k, G)
    PROVE  /\ StRec(vdp22st_process(v), k, G)
           /\ vdp22st_process(v).st = v.st
           /\ Awaiting(vdp22st_process(v), G)
<1> USE DEF StRec, StFields
<1>1. CASE v.up
    <2> DEFINE t == VsiTlv(v, FALSE, "ok")
               u == [v EXCEPT !.tx = t, !.ka = 0]
               w == vdp22st_start_acktimer(u)
    <2>1. t \in Msgs /\ t.vsi = k
        BY DEF VsiTlv, Msgs
    <2> HIDE DEF t
    <2>2. /\ DOMAIN u = DOMAIN v
          /\ u.tx = t /\ u.st = v.st /\ u.vsi = v.vsi /\ u.mode = v.mode
          /\ u.vid = v.vid /\ u.status = v.status /\ u.cc = v.cc
        OBVIOUS
    <2> HIDE DEF u
    <2>3. /\ DOMAIN w = DOMAIN u
          /\ w.tx = u.tx /\ w.st = u.st /\ w.vsi = u.vsi /\ w.mode = u.mode
          /\ w.vid = u.vid /\ w.status = u.status /\ w.cc = u.cc
          /\ w.ackreceived = FALSE
        BY <2>2 DEF vdp22st_start_acktimer
    <2>4. vdp22st_process(v) = w
        BY <1>1 DEF vdp22st_process, u, t
    <2> HIDE DEF w
    <2> QED
        BY <2>1, <2>2, <2>3, <2>4 DEF Awaiting
<1>2. CASE ~v.up
    <2> DEFINE w == [v EXCEPT !.txmit_error = TRUE]
    <2>1. /\ DOMAIN w = DOMAIN v
          /\ w.tx = v.tx /\ w.st = v.st /\ w.vsi = v.vsi /\ w.mode = v.mode
          /\ w.vid = v.vid /\ w.status = v.status /\ w.cc = v.cc
          /\ w.txmit_error = TRUE
        OBVIOUS
    <2>2. vdp22st_process(v) = w
        BY <1>2 DEF vdp22st_process
    <2> HIDE DEF w
    <2> QED
        BY <2>1, <2>2 DEF Awaiting
<1> QED
    BY <1>1, <1>2

\* Reports to a client change none of the parts known.
LEMMA StReports ==
    ASSUME NEW v, NEW k, NEW G, StRec(v, k, G)
    PROVE  /\ StRec(vdp22_clntback(v), k, G) /\ vdp22_clntback(v).st = v.st
           /\ StRec(vdp22_nlback(v), k, G) /\ vdp22_nlback(v).st = v.st
<1>1. ASSUME NEW w, DOMAIN w = DOMAIN v,
             w.tx = v.tx /\ w.st = v.st /\ w.vsi = v.vsi /\ w.mode = v.mode
               /\ w.vid = v.vid /\ w.status = v.status /\ w.cc = v.cc
      PROVE  StRec(w, k, G) /\ w.st = v.st
    BY <1>1 DEF StRec
<1>2. StRec(vdp22_clntback(v), k, G) /\ vdp22_clntback(v).st = v.st
    <2> DEFINE w == [v EXCEPT !.ev = TRUE, !.gone = v.del]
    <2>1. DOMAIN w = DOMAIN v
        OBVIOUS
    <2>2. w.tx = v.tx /\ w.st = v.st /\ w.vsi = v.vsi /\ w.mode = v.mode
            /\ w.vid = v.vid /\ w.status = v.status /\ w.cc = v.cc
        BY DEF StRec, StFields
    <2> HIDE DEF w
    <2>3. StRec(w, k, G) /\ w.st = v.st
        BY <1>1, <2>1, <2>2
    <2>4. vdp22_clntback(v) \in {v, w}
        BY DEF vdp22_clntback, w
    <2> QED
        BY <2>3, <2>4
<1>3. StRec(vdp22_nlback(v), k, G) /\ vdp22_nlback(v).st = v.st
    <2> DEFINE w == [v EXCEPT !.gone = v.del]
    <2>1. DOMAIN w = DOMAIN v
        OBVIOUS
    <2>2. w.tx = v.tx /\ w.st = v.st /\ w.vsi = v.vsi /\ w.mode = v.mode
            /\ w.vid = v.vid /\ w.status = v.status /\ w.cc = v.cc
        BY DEF StRec, StFields
    <2> HIDE DEF w
    <2>3. StRec(w, k, G) /\ w.st = v.st
        BY <1>1, <2>1, <2>2
    <2>4. vdp22_nlback(v) \in {v, w}
        BY DEF vdp22_nlback, w
    <2> QED
        BY <2>3, <2>4
<1> QED
    BY <1>2, <1>3

\* A state's work leaves the machine as it is between two moves.
LEMMA StEnters ==
    ASSUME NEW v, NEW k \in VSIs, NEW G, StEntering(v, k, G)
    PROVE  StMachine(StEnter(v), k, G)
<1> DEFINE e == StEnter(v)
<1>1. StRec(v, k, G)
    BY DEF StEntering
<1>2. CASE v.st = "INIT"
    <2> DEFINE w == [v EXCEPT !.status = "none"]
    <2>1. /\ DOMAIN w = DOMAIN v
          /\ w.tx = v.tx /\ w.st = v.st /\ w.vsi = v.vsi /\ w.mode = v.mode
          /\ w.vid = v.vid /\ w.status = "none" /\ w.cc = v.cc
        BY <1>1 DEF StRec, StFields
    <2>2. e = w
        BY <1>2 DEF StEnter
    <2> HIDE DEF w
    <2> QED
        BY <1>1, <1>2, <2>1, <2>2 DEF StRec, StMachine, Statuses
<1>3. CASE v.st \in {"STATION_PROC", "TXMIT_KA"}
    <2>1. e = vdp22st_process(v)
        BY <1>3 DEF StEnter
    <2> QED
        BY <1>1, <1>3, <2>1, StProcess DEF StMachine
<1>4. CASE v.st \in {"ASSOC_NEW", "PREASSOC_NEW"}
    <2> DEFINE w == vdp22st_assoc_new(v)
    <2>1. /\ DOMAIN w = DOMAIN v
          /\ w.tx = v.tx /\ w.st = v.st /\ w.vsi = v.vsi /\ w.mode = v.mode
          /\ w.vid = v.vid /\ w.status = v.status /\ w.cc = v.resp
        BY <1>1 DEF StRec, StFields, vdp22st_assoc_new, vdp22st_assoc_compl
    <2>2. e = vdp22_clntback(w)
        BY <1>4 DEF StEnter
    <2> HIDE DEF w
    <2>3. StRec(w, k, G)
        BY <1>1, <1>4, <2>1 DEF StRec, StEntering, RespIn
    <2> QED
        BY <1>4, <2>1, <2>2, <2>3, StReports DEF StMachine
<1>5. CASE v.st \in {"ASSOC_COMPL", "TXMIT_DEAWAIT_2"}
    <2> DEFINE w == vdp22st_assoc_compl(v)
    <2>1. /\ DOMAIN w = DOMAIN v
          /\ w.tx = v.tx /\ w.st = v.st /\ w.vsi = v.vsi /\ w.mode = v.mode
          /\ w.vid = v.vid /\ w.status = v.status /\ w.cc = v.cc
        BY <1>1 DEF StRec, StFields, vdp22st_assoc_compl
    <2>2. e = w
        BY <1>5 DEF StEnter
    <2> HIDE DEF w
    <2> QED
        BY <1>1, <1>5, <2>1, <2>2 DEF StRec, StMachine
<1>6. CASE v.st = "WAIT_SYSCMD"
    <2> DEFINE w == vdp22st_start_katimer(v)
    <2>1. /\ DOMAIN w = DOMAIN v
          /\ w.tx = v.tx /\ w.st = v.st /\ w.vsi = v.vsi /\ w.mode = v.mode
          /\ w.vid = v.vid /\ w.status = v.status /\ w.cc = v.cc
        BY <1>1 DEF StRec, StFields, vdp22st_start_katimer
    <2>2. e = w
        BY <1>6 DEF StEnter
    <2> HIDE DEF w
    <2> QED
        BY <1>1, <1>6, <2>1, <2>2 DEF StRec, StMachine
<1>7. CASE v.st = "TXMIT_DEASSOC"
    <2> DEFINE w == [v EXCEPT !.mode = DEASSOC, !.busy = TRUE]
    <2>1. /\ DOMAIN w = DOMAIN v
          /\ w.tx = v.tx /\ w.st = v.st /\ w.vsi = v.vsi /\ w.mode = DEASSOC
          /\ w.vid = v.vid /\ w.status = v.status /\ w.cc = v.cc
        BY <1>1 DEF StRec, StFields
    <2>2. e = vdp22st_process(w)
        BY <1>7 DEF StEnter, vdp22st_txdea
    <2> HIDE DEF w
    <2>3. StRec(w, k, G)
        BY <1>1, <2>1 DEF StRec, Modes
    <2> QED
        BY <1>7, <2>1, <2>2, <2>3, StProcess DEF StMachine
<1>8. CASE v.st \in {"BEGIN", "STATION_PROCWAIT", "STATION_PROCWAIT_2",
                     "WAIT_SYSCMD_2", "TXMIT_KAWAIT", "TXMIT_KAWAIT_2",
                     "TXMIT_DEAWAIT", "END"}
    <2>1. e = v
        BY <1>8 DEF StEnter
    <2> QED
        BY <1>8, <2>1 DEF StEntering, StMachine
<1> QED
    BY <1>1, <1>2, <1>3, <1>4, <1>5, <1>6, <1>7, <1>8 DEF StRec, StStates

\* One move.
LEMMA StSteps ==
    ASSUME NEW v, NEW k \in VSIs, NEW G, StMachine(v, k, G)
    PROVE  StMachine(StStep(v), k, G)
<1> DEFINE s == vdp22st_move_state(v)
           u == [v EXCEPT !.st = s]
<1>1. CASE s = v.st
    BY <1>1 DEF StStep
<1>2. CASE s # v.st
    <2>1. StStep(v) = StEnter(u)
        BY <1>2, StOnce DEF StStep
    <2>2. /\ s \in StStates
          /\ s = "STATION_PROCWAIT" => Awaiting(v, G)
          /\ s = "STATION_PROCWAIT_2" => Answered(v, G)
          /\ s \in {"ASSOC_NEW", "PREASSOC_NEW"} => RespIn(v, G)
        BY StMoves
    <2> HIDE DEF s
    <2>3. /\ DOMAIN u = DOMAIN v
          /\ u.tx = v.tx /\ u.st = s /\ u.vsi = v.vsi /\ u.mode = v.mode
          /\ u.vid = v.vid /\ u.status = v.status /\ u.cc = v.cc
          /\ u.resp = v.resp /\ u.resp_ok = v.resp_ok
          /\ u.ackreceived = v.ackreceived
          /\ u.txmit_error = v.txmit_error
        BY DEF StMachine, StRec, StFields
    <2> HIDE DEF u
    <2>4. StEntering(u, k, G)
        BY <2>2, <2>3
        DEF StEntering, StMachine, StRec, Awaiting, Answered, RespIn
    <2> QED
        BY <2>1, <2>4, StEnters
<1> QED
    BY <1>1, <1>2

\* vdp22st_end()
LEMMA StEnds ==
    ASSUME NEW v, NEW k \in VSIs, NEW G, StMachine(v, k, G)
    PROVE  StMachine(StEnded(v), k, G)
<1>1. CASE v.st # "END"
    BY <1>1 DEF StEnded
<1>2. CASE v.st = "END"
    <2> DEFINE e == [v EXCEPT !.ackt = 0, !.ka = 0, !.mode = DEASSOC,
                              !.cc = DEASSOC, !.del = TRUE, !.busy = FALSE]
               n == IF v.notify THEN vdp22_nlback(e) ELSE e
    <2>1. StEnded(v) = vdp22_clntback(n)
        BY <1>2, StOnce DEF StEnded, vdp22st_end
    <2>2. /\ DOMAIN e = DOMAIN v
          /\ e.tx = v.tx /\ e.st = v.st /\ e.vsi = v.vsi /\ e.mode = DEASSOC
          /\ e.vid = v.vid /\ e.status = v.status /\ e.cc = DEASSOC
        BY DEF StMachine, StRec, StFields
    <2> HIDE DEF e
    <2>3. StRec(e, k, G) /\ e.st = "END"
        BY <1>2, <2>2 DEF StMachine, StRec, Modes
    <2>4. StRec(n, k, G) /\ n.st = "END"
        BY <2>3, StReports
    <2> HIDE DEF n
    <2> QED
        BY <2>1, <2>4, StReports DEF StMachine
<1> QED
    BY <1>1, <1>2

\* A run of the machine.
LEMMA StRuns ==
    ASSUME NEW v, NEW k \in VSIs, NEW G, StMachine(v, k, G)
    PROVE  StMachine(vdp22st_run(v), k, G)
<1>1. ASSUME NEW u, StMachine(u, k, G)
      PROVE  StMachine(StTwice(u), k, G)
    <2>1. StMachine(StStep(StStep(u)), k, G)
        BY <1>1, StSteps
    <2>2. /\ Apply(StStep, u) = StStep(u)
          /\ Apply(StStep, StStep(u)) = StStep(StStep(u))
        BY StOnce
    <2>3. StTwice(u) = StStep(StStep(u))
        BY <2>2 DEF StTwice
    <2> QED
        BY <2>1, <2>3
<1>2. vdp22st_run(v) =
        StEnded(StTwice(StTwice(StTwice(StTwice(v)))))
    <2>1. /\ Apply(StTwice, v) = StTwice(v)
          /\ Apply(StTwice, StTwice(v)) = StTwice(StTwice(v))
          /\ Apply(StTwice, StTwice(StTwice(v))) =
                StTwice(StTwice(StTwice(v)))
          /\ Apply(StTwice, StTwice(StTwice(StTwice(v)))) =
                StTwice(StTwice(StTwice(StTwice(v))))
          /\ Apply(StEnded, StTwice(StTwice(StTwice(StTwice(v))))) =
                StEnded(StTwice(StTwice(StTwice(StTwice(v)))))
        BY StOnce
    <2> QED
        BY <2>1 DEF vdp22st_run
<1>3. StMachine(StTwice(StTwice(StTwice(StTwice(v)))), k, G)
    BY <1>1
<1> QED
    BY <1>2, <1>3, StEnds

-----------------------------------------------------------------------------
(* What is known of the record of a bridge machine                          *)

BrFields ==
    {"vsi", "st", "mode", "cc", "resp", "ack", "status", "busy", "localchg",
     "kato", "resp_ok", "vid", "ka", "res", "tx", "ev", "gone", "up"}

\* The machine of VSI k at the bridge, between two moves or within one.
BrMachine(v, k) ==
    /\ DOMAIN v = BrFields
    /\ v.vsi = k
    /\ v.mode \in Modes
    /\ v.vid \in Vids
    /\ v.ack \in BOOLEAN
    /\ v.status \in {"ok", "bad", "keep"}
    /\ v.tx = None \/ (v.tx \in Msgs /\ v.tx.vsi = k)

\* The two records agree on what BrMachine says, but for the mode.
LEMMA BrAlike ==
    ASSUME NEW v, NEW k, BrMachine(v, k),
           NEW w, DOMAIN w = DOMAIN v,
           w.vsi = v.vsi /\ w.vid = v.vid /\ w.tx = v.tx,
           w.mode \in Modes, w.ack \in BOOLEAN,
           w.status \in {"ok", "bad", "keep"}
    PROVE  BrMachine(w, k)
BY DEF BrMachine

\* vdp22br_process()
LEMMA BrProcess ==
    ASSUME NEW v, NEW k \in VSIs, NEW o \in Outcomes \cup {"success"},
           BrMachine(v, k)
    PROVE  BrMachine(vdp22br_process(v, o), k)
<1> DEFINE c == change_fid(v, o)
           i == CHOOSE i \in Vids : i # 0
           d == [v EXCEPT !.vid = i]
<1>1. BrMachine(c, k)
    <2>1. CASE c = v
        BY <2>1
    <2>2. CASE c # v
        <3>1. c = d /\ o = "change"
            BY <2>2 DEF change_fid
        <3>2. i \in Vids
            BY <3>1, VidsAssumption
        <3> HIDE DEF i
        <3>3. /\ DOMAIN d = DOMAIN v
              /\ d.vsi = v.vsi /\ d.vid = i /\ d.tx = v.tx
              /\ d.mode = v.mode /\ d.ack = v.ack /\ d.status = v.status
            BY DEF BrMachine, BrFields
        <3> HIDE DEF d, c
        <3>4. BrMachine(d, k)
            BY <3>2, <3>3 DEF BrMachine
        <3> QED
            BY <3>1, <3>4
    <2> QED
        BY <2>1, <2>2
<1> DEFINE rc == vdp22br_resources(c, o)
           st == CASE rc = "keep" -> "keep"
                   [] rc = "deassoc" /\ c.mode # DEASSOC -> "bad"
                   [] OTHER -> "ok"
           a == [c EXCEPT !.resp_ok = FALSE, !.resp = rc, !.status = "ok",
                          !.ack = FALSE, !.res = 1]
           b == [c EXCEPT !.resp_ok = TRUE, !.resp = rc, !.status = st,
                          !.ack = TRUE, !.res = 0]
<1>2. vdp22br_process(v, o) \in {a, b}
    BY DEF vdp22br_process
<1>3. st \in {"ok", "bad", "keep"}
    OBVIOUS
<1> HIDE DEF c, rc, st
<1>4. BrMachine(a, k)
    <2>1. /\ DOMAIN a = DOMAIN c
          /\ a.vsi = c.vsi /\ a.vid = c.vid /\ a.tx = c.tx
          /\ a.mode = c.mode /\ a.ack = FALSE /\ a.status = "ok"
        BY <1>1 DEF BrMachine, BrFields
    <2> HIDE DEF a
    <2>2. a.mode \in Modes
        BY <1>1, <2>1 DEF BrMachine
    <2> QED
        BY <1>1, <2>1, <2>2, BrAlike
<1>5. BrMachine(b, k)
    <2>1. /\ DOMAIN b = DOMAIN c
          /\ b.vsi = c.vsi /\ b.vid = c.vid /\ b.tx = c.tx
          /\ b.mode = c.mode /\ b.ack = TRUE /\ b.status = st
        BY <1>1 DEF BrMachine, BrFields
    <2> HIDE DEF b
    <2>2. b.mode \in Modes
        BY <1>1, <2>1 DEF BrMachine
    <2> QED
        BY <1>1, <1>3, <2>1, <2>2, BrAlike
<1> HIDE DEF a, b
<1> QED
    BY <1>2, <1>4, <1>5

\* vdp22br_reply(): the TLV is one of this VSI.
LEMMA BrReply ==
    ASSUME NEW v, NEW k \in VSIs, BrMachine(v, k)
    PROVE  BrMachine(vdp22br_reply(v), k)
<1> DEFINE t == VsiTlv(v, v.ack, v.status)
           w == [v EXCEPT !.tx = t, !.busy = FALSE, !.localchg = FALSE]
<1>1. t \in Msgs /\ t.vsi = k
    BY DEF VsiTlv, Msgs, BrMachine
<1>2. vdp22br_reply(v) = w
    BY DEF vdp22br_reply
<1> HIDE DEF t
<1>3. /\ DOMAIN w = DOMAIN v
      /\ w.vsi = v.vsi /\ w.vid = v.vid /\ w.tx = t
      /\ w.mode = v.mode /\ w.ack = v.ack /\ w.status = v.status
    BY DEF BrMachine, BrFields
<1> HIDE DEF w
<1> QED
    BY <1>1, <1>2, <1>3 DEF BrMachine

\* vdp22br_sendack() and vdp22br_deassoc()
LEMMA BrSends ==
    ASSUME NEW v, NEW k \in VSIs, BrMachine(v, k),
           NEW ack \in BOOLEAN, NEW st \in {"ok", "bad", "keep"}
    PROVE  /\ BrMachine(vdp22br_sendack(v, ack, st), k)
           /\ BrMachine(vdp22br_deassoc(v, ack, st), k)
<1>1. ASSUME NEW u, BrMachine(u, k)
      PROVE  BrMachine(vdp22br_sendack(u, ack, st), k)
    <2> DEFINE w == [u EXCEPT !.ack = ack, !.status = st]
    <2>1. /\ DOMAIN w = DOMAIN u
          /\ w.vsi = u.vsi /\ w.vid = u.vid /\ w.tx = u.tx
          /\ w.mode = u.mode /\ w.ack = ack /\ w.status = st
        BY <1>1 DEF BrMachine, BrFields
    <2>2. vdp22br_sendack(u, ack, st) = vdp22br_reply(w)
        BY DEF vdp22br_sendack
    <2> HIDE DEF w
    <2>3. BrMachine(w, k)
        BY <1>1, <2>1 DEF BrMachine
    <2> QED
        BY <2>2, <2>3, BrReply
<1> DEFINE d == [v EXCEPT !.mode = DEASSOC]
<1>2. vdp22br_deassoc(v, ack, st) = vdp22br_sendack(d, ack, st)
    BY DEF vdp22br_deassoc
<1>3. /\ DOMAIN d = DOMAIN v
      /\ d.vsi = v.vsi /\ d.vid = v.vid /\ d.tx = v.tx
      /\ d.mode = DEASSOC /\ d.ack = v.ack /\ d.status = v.status
    BY DEF BrMachine, BrFields
<1> HIDE DEF d
<1>4. BrMachine(d, k)
    BY <1>3 DEF BrMachine, Modes
<1> QED
    BY <1>1, <1>2, <1>4

\* A state's work, in whichever state.
LEMMA BrEnters ==
    ASSUME NEW v, NEW k \in VSIs, NEW o \in Outcomes \cup {"success"},
           BrMachine(v, k)
    PROVE  BrMachine(BrEnter(v, o), k)
<1>1. v.ack \in BOOLEAN /\ v.status \in {"ok", "bad", "keep"}
    BY DEF BrMachine
<1>2. CASE v.st = "BR_PROCESS"
    BY <1>2, BrProcess DEF BrEnter
<1>3. CASE v.st \in {"BR_SEND", "BR_KEEP", "BR_DEASSOC", "BR_ALIVE",
                     "BR_DEASSOCIATED"}
    <2>1. \/ BrEnter(v, o) = vdp22br_reply(v)
          \/ BrEnter(v, o) = vdp22br_sendack(v, v.ack, v.status)
          \/ BrEnter(v, o) = vdp22br_deassoc(v, v.ack, v.status)
          \/ BrEnter(v, o) = vdp22br_sendack(v, TRUE, "ok")
          \/ BrEnter(v, o) = vdp22br_deassoc(v, FALSE, "ok")
        BY <1>3 DEF BrEnter
    <2>2. /\ BrMachine(vdp22br_sendack(v, v.ack, v.status), k)
          /\ BrMachine(vdp22br_deassoc(v, v.ack, v.status), k)
        BY <1>1, BrSends, Zenon
    <2>3. /\ BrMachine(vdp22br_sendack(v, TRUE, "ok"), k)
          /\ BrMachine(vdp22br_deassoc(v, FALSE, "ok"), k)
        BY BrSends
    <2> QED
        BY <2>1, <2>2, <2>3, BrReply
<1>4. CASE v.st = "BR_INIT"
    <2> DEFINE w == vdp22br_init(v)
    <2>1. BrEnter(v, o) = w
        BY <1>4 DEF BrEnter
    <2>2. /\ DOMAIN w = DOMAIN v
          /\ w.vsi = v.vsi /\ w.vid = v.vid /\ w.tx = v.tx
          /\ w.mode = v.mode /\ w.ack = v.ack /\ w.status = v.status
        BY DEF BrMachine, BrFields, vdp22br_init
    <2> HIDE DEF w
    <2> QED
        BY <2>1, <2>2 DEF BrMachine
<1>5. CASE v.st = "BR_WAITCMD"
    <2> DEFINE w == vdp22br_start_katimer(v)
    <2>1. BrEnter(v, o) = w
        BY <1>5 DEF BrEnter
    <2>2. /\ DOMAIN w = DOMAIN v
          /\ w.vsi = v.vsi /\ w.vid = v.vid /\ w.tx = v.tx
          /\ w.mode = v.mode /\ w.ack = v.ack /\ w.status = v.status
        BY DEF BrMachine, BrFields, vdp22br_start_katimer
    <2> HIDE DEF w
    <2> QED
        BY <2>1, <2>2 DEF BrMachine
<1>6. CASE v.st = "BR_END"
    <2> DEFINE w == [v EXCEPT !.gone = TRUE]
    <2>1. BrEnter(v, o) = w
        BY <1>6 DEF BrEnter
    <2>2. /\ DOMAIN w = DOMAIN v
          /\ w.vsi = v.vsi /\ w.vid = v.vid /\ w.tx = v.tx
          /\ w.mode = v.mode /\ w.ack = v.ack /\ w.status = v.status
        BY DEF BrMachine, BrFields
    <2> HIDE DEF w
    <2> QED
        BY <2>1, <2>2 DEF BrMachine
<1>7. CASE v.st \notin {"BR_INIT", "BR_PROCESS", "BR_SEND", "BR_KEEP",
                        "BR_DEASSOC", "BR_WAITCMD", "BR_ALIVE",
                        "BR_DEASSOCIATED", "BR_END"}
    <2>1. BrEnter(v, o) = v
        BY <1>7 DEF BrEnter
    <2> QED
        BY <2>1
<1> QED
    BY <1>2, <1>3, <1>4, <1>5, <1>6, <1>7

\* A run of the machine.
LEMMA BrRuns ==
    ASSUME NEW v, NEW k \in VSIs, NEW o \in Outcomes \cup {"success"},
           BrMachine(v, k)
    PROVE  BrMachine(vdp22br_run(v, o), k)
<1>1. ASSUME NEW u, NEW s, BrMachine(u, k)
      PROVE  BrMachine(BrEnter([u EXCEPT !.st = s], o), k)
    <2> DEFINE w == [u EXCEPT !.st = s]
    <2>1. /\ DOMAIN w = DOMAIN u
          /\ w.vsi = u.vsi /\ w.vid = u.vid /\ w.tx = u.tx
          /\ w.mode = u.mode /\ w.ack = u.ack /\ w.status = u.status
        BY <1>1 DEF BrMachine, BrFields
    <2> HIDE DEF w
    <2>2. BrMachine(w, k)
        BY <1>1, <2>1 DEF BrMachine
    <2>3. BrMachine(BrEnter(w, o), k)
        BY <2>2, BrEnters
    <2> QED
        BY <2>3 DEF w
<1> DEFINE Enter(u) == BrEnter(u, o)
           Step(u) == BrStep(u, o)
           First(u) == BrEnter([u EXCEPT !.st = vdp22br_move_state(u)], o)
           Twice(u) == BrTwice(u, o)
<1>2. ASSUME NEW u
      PROVE  /\ Apply(Enter, u) = BrEnter(u, o)
             /\ Apply(Step, u) = BrStep(u, o)
             /\ Apply(Twice, u) = BrTwice(u, o)
             /\ Apply(First, u) =
                  BrEnter([u EXCEPT !.st = vdp22br_move_state(u)], o)
    <2>1. /\ {Enter(x) : x \in {u}} = {Enter(u)}
          /\ {Step(x) : x \in {u}} = {Step(u)}
          /\ {Twice(x) : x \in {u}} = {Twice(u)}
        OBVIOUS
    <2>2. {First(x) : x \in {u}} = {First(u)}
        OBVIOUS
    <2> QED
        BY <2>1, <2>2, ChooseOnly DEF Apply
<1>3. ASSUME NEW u, BrMachine(u, k)
      PROVE  BrMachine(BrStep(u, o), k)
    <2> DEFINE w == [u EXCEPT !.st = vdp22br_move_state(u)]
    <2>1. Apply(Enter, w) = BrEnter(w, o)
        BY <1>2
    <2>2. BrStep(u, o) \in {u, BrEnter(w, o)}
        BY <2>1 DEF BrStep
    <2>3. BrMachine(BrEnter(w, o), k)
        BY <1>1, <1>3
    <2> QED
        BY <1>3, <2>2, <2>3
<1>4. ASSUME NEW u, BrMachine(u, k)
      PROVE  BrMachine(BrTwice(u, o), k)
    <2>1. BrMachine(BrStep(BrStep(u, o), o), k)
        BY <1>3, <1>4
    <2>2. /\ Apply(Step, u) = BrStep(u, o)
          /\ Apply(Step, BrStep(u, o)) = BrStep(BrStep(u, o), o)
        BY <1>2
    <2>3. BrTwice(u, o) = BrStep(BrStep(u, o), o)
        BY <2>2 DEF BrTwice
    <2> QED
        BY <2>1, <2>3
<1> DEFINE f == BrEnter([v EXCEPT !.st = vdp22br_move_state(v)], o)
<1>5. BrMachine(f, k)
    BY <1>1
<1>6. Apply(First, v) = f
    BY <1>2
<1> HIDE DEF f
<1>7. /\ Apply(Twice, f) = BrTwice(f, o)
      /\ Apply(Twice, BrTwice(f, o)) = BrTwice(BrTwice(f, o), o)
      /\ Apply(Twice, BrTwice(BrTwice(f, o), o)) =
            BrTwice(BrTwice(BrTwice(f, o), o), o)
    BY <1>2
<1>8. vdp22br_run(v, o) = BrTwice(BrTwice(BrTwice(f, o), o), o)
    BY <1>6, <1>7 DEF vdp22br_run
<1>9. BrMachine(BrTwice(BrTwice(BrTwice(f, o), o), o), k)
    BY <1>4, <1>5
<1> QED
    BY <1>8, <1>9

-----------------------------------------------------------------------------
(* The invariant: what was answered was granted                             *)

\* The bridge has granted what the TLV says, when the grants are g.
MsgGranted(m, g) == m.ack /\ m.st = "ok" => m.mode \in g[m.vsi]

MachineInv ==
    /\ DOMAIN sque = VSIs /\ DOMAIN bque = VSIs /\ DOMAIN granted = VSIs
    /\ \A k \in VSIs : sque[k] # None => StMachine(sque[k], k, granted[k])
    /\ \A k \in VSIs : bque[k] # None => BrMachine(bque[k], k)

WireInv ==
    /\ toBridge \in Seq(Msgs) /\ toStation \in Seq(Msgs)
    /\ \A j \in 1..Len(toStation) : MsgGranted(toStation[j], granted)

InputInv ==
    /\ input \in [Ends -> [buf : Msgs \cup {None}, n : Nat]]
    /\ \A e \in Ends : input[e].n > 0 => input[e].buf \in Msgs
    /\ input["station"].n > 0 => MsgGranted(input["station"].buf, granted)

GrantInv == MachineInv /\ WireInv /\ InputInv

\* Records that agree on what StMachine says.
LEMMA StAlike ==
    ASSUME NEW v, NEW k, NEW G, StMachine(v, k, G),
           NEW w, DOMAIN w = DOMAIN v,
           w.st = v.st /\ w.vsi = v.vsi /\ w.mode \in Modes /\ w.vid = v.vid
             /\ w.status = v.status /\ w.cc = v.cc /\ w.resp = v.resp,
           w.resp_ok = v.resp_ok /\ w.ackreceived = v.ackreceived
             /\ w.txmit_error = v.txmit_error,
           w.tx \in {None, v.tx}
    PROVE  StMachine(w, k, G)
BY DEF StMachine, StRec, Awaiting, Answered, RespIn

\* More was granted.
LEMMA StGrows ==
    ASSUME NEW v, NEW k, NEW G, NEW H, G \subseteq H, StMachine(v, k, G)
    PROVE  StMachine(v, k, H)
BY DEF StMachine, StRec, Awaiting, Answered, RespIn

\* A machine about to run, and one that has.
LEMMA StPoised ==
    ASSUME NEW v, NEW k, NEW G, StMachine(v, k, G), NEW up
    PROVE  StMachine(Work(v, up), k, G) /\ StMachine(Rest(v), k, G)
<1>1. v.mode \in Modes
    BY DEF StMachine, StRec
<1>2. StMachine(Work(v, up), k, G)
    <2> DEFINE w == Work(v, up)
    <2>1. /\ DOMAIN w = DOMAIN v
          /\ w.st = v.st /\ w.vsi = v.vsi /\ w.mode = v.mode
          /\ w.vid = v.vid /\ w.status = v.status /\ w.cc = v.cc
          /\ w.resp = v.resp /\ w.resp_ok = v.resp_ok
          /\ w.ackreceived = v.ackreceived
          /\ w.txmit_error = v.txmit_error /\ w.tx = v.tx
        BY DEF StMachine, StRec, StFields, Work
    <2> HIDE DEF w
    <2>2. StMachine(w, k, G)
        BY <1>1, <2>1, StAlike
    <2> QED
        BY <2>2 DEF w
<1>3. StMachine(Rest(v), k, G)
    <2> DEFINE w == Rest(v)
    <2>1. /\ DOMAIN w = DOMAIN v
          /\ w.st = v.st /\ w.vsi = v.vsi /\ w.mode = v.mode
          /\ w.vid = v.vid /\ w.status = v.status /\ w.cc = v.cc
          /\ w.resp = v.resp /\ w.resp_ok = v.resp_ok
          /\ w.ackreceived = v.ackreceived
          /\ w.txmit_error = v.txmit_error /\ w.tx = None
        BY DEF StMachine, StRec, StFields, Rest
    <2> HIDE DEF w
    <2>2. StMachine(w, k, G)
        BY <1>1, <2>1, StAlike
    <2> QED
        BY <2>2 DEF w
<1> QED
    BY <1>2, <1>3

LEMMA BrPoised ==
    ASSUME NEW v, NEW k, BrMachine(v, k), NEW up
    PROVE  BrMachine(Work(v, up), k) /\ BrMachine(Rest(v), k)
<1>1. BrMachine(Work(v, up), k)
    <2> DEFINE w == Work(v, up)
    <2>1. /\ DOMAIN w = DOMAIN v
          /\ w.vsi = v.vsi /\ w.vid = v.vid /\ w.tx = v.tx
          /\ w.mode = v.mode /\ w.ack = v.ack /\ w.status = v.status
        BY DEF BrMachine, BrFields, Work
    <2> HIDE DEF w
    <2>2. BrMachine(w, k)
        BY <2>1 DEF BrMachine
    <2> QED
        BY <2>2 DEF w
<1>2. BrMachine(Rest(v), k)
    <2> DEFINE w == Rest(v)
    <2>1. /\ DOMAIN w = DOMAIN v
          /\ w.vsi = v.vsi /\ w.vid = v.vid /\ w.tx = None
          /\ w.mode = v.mode /\ w.ack = v.ack /\ w.status = v.status
        BY DEF BrMachine, BrFields, Rest
    <2> HIDE DEF w
    <2>2. BrMachine(w, k)
        BY <2>1 DEF BrMachine
    <2> QED
        BY <2>2 DEF w
<1> QED
    BY <1>1, <1>2

\* What a run at the station leaves.
LEMMA StRanKeeps ==
    ASSUME MachineInv, WireInv, NEW k \in VSIs, NEW w,
           StMachine(w, k, granted[k]), StRan(k, w), UNCHANGED brVars
    PROVE  MachineInv' /\ WireInv'
<1>1. StMachine(Rest(w), k, granted[k])
    BY StPoised
<1>2. UNCHANGED <<bque, toStation, granted>>
    BY DEF brVars
<1>3. MachineInv'
    <2>1. /\ DOMAIN sque' = VSIs
          /\ sque'[k] \in {None, Rest(w)}
          /\ \A j \in VSIs \ {k} : sque'[j] = sque[j]
        BY DEF StRan, MachineInv
    <2>2. \A j \in VSIs : sque'[j] # None => StMachine(sque'[j], j, granted[j])
        BY <1>1, <2>1 DEF MachineInv
    <2> QED
        BY <1>2, <2>1, <2>2 DEF MachineInv
<1>4. WireInv'
    <2>1. w.tx = None \/ w.tx \in Msgs
        BY DEF StMachine, StRec
    <2>2. toBridge' \in Seq(Msgs)
        BY <2>1 DEF StRan, WireInv
    <2> QED
        BY <1>2, <2>2 DEF WireInv
<1> QED
    BY <1>3, <1>4

\* What a run at the bridge leaves, and that grants are never withdrawn.
LEMMA BrRanKeeps ==
    ASSUME MachineInv, WireInv, NEW k \in VSIs, NEW w,
           w.gone \/ BrMachine(w, k),
           w.tx = None \/ (w.tx \in Msgs /\ w.tx.vsi = k),
           BrRan(k, w), UNCHANGED <<sque, toBridge>>
    PROVE  /\ MachineInv' /\ WireInv'
           /\ \A j \in VSIs : granted[j] \subseteq granted'[j]
<1>1. /\ DOMAIN granted' = VSIs
      /\ \A j \in VSIs : granted[j] \subseteq granted'[j]
      /\ w.tx # None /\ w.tx.ack /\ w.tx.st = "ok" =>
            w.tx.mode \in granted'[k]
    BY DEF BrRan, MachineInv
<1>2. MachineInv'
    <2>1. /\ DOMAIN bque' = VSIs
          /\ bque'[k] = IF w.gone THEN None ELSE Rest(w)
          /\ \A j \in VSIs \ {k} : bque'[j] = bque[j]
        BY DEF BrRan, MachineInv
    <2>2. ~w.gone => BrMachine(Rest(w), k)
        BY BrPoised
    <2>3. \A j \in VSIs : bque'[j] # None => BrMachine(bque'[j], j)
        BY <2>1, <2>2 DEF MachineInv
    <2>4. \A j \in VSIs : sque'[j] # None =>
                            StMachine(sque'[j], j, granted'[j])
        BY <1>1, StGrows DEF MachineInv
    <2> QED
        BY <1>1, <2>1, <2>3, <2>4 DEF MachineInv
<1>3. WireInv'
    <2>1. \A m \in Msgs : MsgGranted(m, granted) => MsgGranted(m, granted')
        BY <1>1 DEF MsgGranted, Msgs
    <2>2. \/ toStation' = toStation
          \/ w.tx \in Msgs /\ toStation' = Append(toStation, w.tx)
        BY DEF BrRan
    <2>3. CASE toStation' = toStation
        BY <2>1, <2>3 DEF WireInv
    <2>4. CASE w.tx \in Msgs /\ toStation' = Append(toStation, w.tx)
        <3> DEFINE q == toStation
        <3>1. q \in Seq(Msgs)
            BY DEF WireInv
        <3>2. w.tx # None
            <4>1. \A m \in Msgs : "vsi" \in DOMAIN m
                BY DEF Msgs
            <4>2. "vsi" \notin DOMAIN None
                BY DEF None
            <4> QED
                BY <2>4, <4>1, <4>2
        <3>3. MsgGranted(w.tx, granted')
            BY <1>1, <3>2 DEF MsgGranted
        <3>4. /\ toStation' \in Seq(Msgs)
              /\ Len(toStation') = Len(q) + 1
              /\ toStation'[Len(q) + 1] = w.tx
              /\ \A j \in 1..Len(q) : toStation'[j] = q[j]
            BY <2>4, <3>1
        <3>5. \A j \in 1..Len(q) : q[j] \in Msgs /\ MsgGranted(q[j], granted)
            BY <3>1 DEF WireInv
        <3>6. \A j \in 1..Len(toStation') : MsgGranted(toStation'[j], granted')
            BY <2>1, <3>1, <3>3, <3>4, <3>5
        <3> QED
            BY <3>4, <3>6 DEF WireInv
    <2> QED
        BY <2>2, <2>3, <2>4
<1> QED
    BY <1>1, <1>2, <1>3

\* The input buffers keep what they hold.
LEMMA InputKeeps ==
    ASSUME InputInv, \A j \in VSIs : granted[j] \subseteq granted'[j],
           UNCHANGED input \/ (\E e \in Ends : Processed(e))
    PROVE  InputInv'
<1>1. \A m \in Msgs : MsgGranted(m, granted) => MsgGranted(m, granted')
    BY DEF MsgGranted, Msgs
<1>2. CASE UNCHANGED input
    BY <1>1, <1>2 DEF InputInv, Ends
<1>3. ASSUME NEW e \in Ends, Processed(e)
      PROVE  InputInv'
    <2> DEFINE b == input[e]
               c == IF b.n = 1 THEN [buf |-> None, n |-> 0]
                    ELSE [buf |-> b.buf, n |-> b.n - 1]
    <2>1. b \in [buf : Msgs \cup {None}, n : Nat] /\ b.n > 0
        BY <1>3 DEF InputInv, Processed
    <2>2. input' = [input EXCEPT ![e] = c]
        BY <1>3 DEF Processed
    <2>3. /\ c \in [buf : Msgs \cup {None}, n : Nat]
          /\ c.n > 0 => c.buf = b.buf
        BY <2>1
    <2> HIDE DEF b, c
    <2>4. /\ input' \in [Ends -> [buf : Msgs \cup {None}, n : Nat]]
          /\ \A f \in Ends \ {e} : input'[f] = input[f]
          /\ input'[e] = c
        BY <2>1, <2>2, <2>3 DEF InputInv
    <2>5. \A f \in Ends : input'[f].n > 0 =>
                input[f].n > 0 /\ input'[f].buf = input[f].buf
        BY <2>1, <2>3, <2>4 DEF b
    <2> QED
        BY <1>1, <2>4, <2>5 DEF InputInv, Ends
<1> QED
    BY <1>2, <1>3

-----------------------------------------------------------------------------
(* The operations                                                           *)

\* The machine queued for VSI k runs after a change of its record that is of
\* no account here.
LEMMA StChanged ==
    ASSUME NEW v, NEW k \in VSIs, NEW G, StMachine(v, k, G),
           NEW w, DOMAIN w = DOMAIN v,
           w.st = v.st /\ w.vsi = v.vsi /\ w.mode \in Modes /\ w.vid = v.vid
             /\ w.status = v.status /\ w.cc = v.cc /\ w.resp = v.resp,
           w.resp_ok = v.resp_ok /\ w.ackreceived = v.ackreceived
             /\ w.txmit_error = v.txmit_error /\ w.tx = v.tx,
           NEW up
    PROVE  /\ StMachine(w, k, G)
           /\ StMachine(Work(w, up), k, G)
           /\ StMachine(vdp22st_run(Work(w, up)), k, G)
BY StAlike, StPoised, StRuns

LEMMA RequestKeeps ==
    ASSUME GrantInv, NEW k \in VSIs, NEW m \in ReqModes, NEW i \in Vids,
           NEW c \in Clients, vdp22_request(k, m, i, c)
    PROVE  GrantInv'
<1> DEFINE v == sque[k]
           u == IF v = None THEN NewVsi(k, m, i, c) ELSE vdp22_modvsi(v, m)
           w == vdp22st_run(Work(u, running))
<1>1. m \in Modes
    BY ModesAssumption
<1>2. StRan(k, w) /\ UNCHANGED <<brVars, input>>
    BY DEF vdp22_request
<1>3. StMachine(w, k, granted[k])
    <2>1. CASE v = None
        <3> DEFINE n == NewVsi(k, m, i, c)
        <3>1. DOMAIN n = StFields
            BY DEF NewVsi, StFields
        <3>2. n.st = "BEGIN" /\ n.vsi = k /\ n.mode = m /\ n.vid = i
                /\ n.status = "none" /\ n.tx = None /\ n.cc = DEASSOC
            BY DEF NewVsi
        <3>3. u = n
            BY <2>1
        <3> HIDE DEF n
        <3>4. StMachine(n, k, granted[k])
            BY <1>1, <3>1, <3>2
            DEF StMachine, StRec, StStates, Statuses
        <3> QED
            BY <3>3, <3>4, StPoised, StRuns
    <2>2. CASE v # None
        <3> DEFINE n == vdp22_modvsi(v, m)
        <3>1. StMachine(v, k, granted[k])
            BY <2>2 DEF GrantInv, MachineInv
        <3>2. u = n
            BY <2>2
        <3> HIDE DEF v
        <3>3. /\ DOMAIN n = DOMAIN v
              /\ n.st = v.st /\ n.vsi = v.vsi /\ n.mode = m
              /\ n.vid = v.vid /\ n.status = v.status /\ n.cc = v.cc
              /\ n.resp = v.resp /\ n.resp_ok = v.resp_ok
              /\ n.ackreceived = v.ackreceived
              /\ n.txmit_error = v.txmit_error /\ n.tx = v.tx
            BY <3>1 DEF StMachine, StRec, StFields, vdp22_modvsi
        <3> HIDE DEF n
        <3> QED
            BY <1>1, <3>1, <3>2, <3>3, StChanged
    <2> QED
        BY <2>1, <2>2
<1> HIDE DEF w
<1>4. MachineInv' /\ WireInv'
    BY <1>2, <1>3, StRanKeeps DEF GrantInv
<1>5. InputInv'
    BY <1>2, InputKeeps DEF GrantInv, brVars
<1> QED
    BY <1>4, <1>5 DEF GrantInv

\* filter_mismatch() and vdp22_status() change one machine without a run.
LEMMA PollsKeep ==
    ASSUME GrantInv, NEW k \in VSIs,
           vdp22_status(k) \/ (\E i \in Vids : filter_mismatch(k, i))
    PROVE  GrantInv'
<1> DEFINE v == sque[k]
           s == [v EXCEPT !.status = "bad"]
           n == [v EXCEPT !.nlcmd = FALSE]
<1>1. /\ v # None
      /\ \E w \in {None, s, n} : sque' = [sque EXCEPT ![k] = w]
    BY DEF vdp22_status, filter_mismatch
<1>2. UNCHANGED <<brVars, toBridge, input>>
    BY DEF vdp22_status, filter_mismatch
<1>3. StMachine(v, k, granted[k])
    BY <1>1 DEF GrantInv, MachineInv
<1>4. StMachine(s, k, granted[k])
    <2>1. /\ DOMAIN s = DOMAIN v
          /\ s.st = v.st /\ s.vsi = v.vsi /\ s.mode = v.mode
          /\ s.vid = v.vid /\ s.status = "bad" /\ s.cc = v.cc
          /\ s.tx = v.tx
        BY <1>3 DEF StMachine, StRec, StFields
    <2> HIDE DEF s, v
    <2> QED
        BY <1>3, <2>1
        DEF StMachine, StRec, Awaiting, Answered, Statuses
<1>5. StMachine(n, k, granted[k])
    <2>1. /\ DOMAIN n = DOMAIN v
          /\ n.st = v.st /\ n.vsi = v.vsi /\ n.mode = v.mode
          /\ n.vid = v.vid /\ n.status = v.status /\ n.cc = v.cc
          /\ n.resp = v.resp /\ n.resp_ok = v.resp_ok
          /\ n.ackreceived = v.ackreceived
          /\ n.txmit_error = v.txmit_error /\ n.tx = v.tx
          /\ v.mode \in Modes
        BY <1>3 DEF StMachine, StRec, StFields
    <2> HIDE DEF n, v
    <2> QED
        BY <1>3, <2>1, StAlike
<1> HIDE DEF s, n
<1>6. MachineInv'
    <2>1. PICK w \in {None, s, n} : sque' = [sque EXCEPT ![k] = w]
        BY <1>1
    <2>2. /\ DOMAIN sque' = VSIs
          /\ sque'[k] = w
          /\ \A j \in VSIs \ {k} : sque'[j] = sque[j]
        BY <2>1 DEF GrantInv, MachineInv
    <2>3. \A j \in VSIs : sque'[j] # None => StMachine(sque'[j], j, granted[j])
        BY <1>4, <1>5, <2>1, <2>2 DEF GrantInv, MachineInv
    <2> QED
        BY <1>2, <2>2, <2>3 DEF GrantInv, MachineInv, brVars
<1>7. WireInv' /\ InputInv'
    BY <1>2 DEF GrantInv, WireInv, InputInv, brVars
<1> QED
    BY <1>6, <1>7 DEF GrantInv

\* The timeouts of the station.
LEMMA StTimeoutsKeep ==
    ASSUME GrantInv, NEW k \in VSIs,
           \/ vdp22st_handle_kato(k) \/ vdp22st_handle_ackto(k)
           \/ vdp22_localchange_handler(k)
    PROVE  GrantInv'
<1> DEFINE v == sque[k]
           a == [v EXCEPT !.ka = @ - 1, !.kato = TRUE]
           b == [v EXCEPT !.ackt = @ - 1]
           c == [b EXCEPT !.acktimeout = TRUE]
           d == [v EXCEPT !.lc = FALSE]
<1>1. v # None /\ UNCHANGED <<brVars, input>>
    BY DEF vdp22st_handle_kato, vdp22st_handle_ackto,
           vdp22_localchange_handler
<1>2. \/ StRan(k, vdp22st_run(Work(a, running)))
      \/ StRan(k, Work(b, running))
      \/ StRan(k, vdp22st_run(Work(c, running)))
      \/ StRan(k, vdp22st_run(Work(d, running)))
      \/ StRan(k, Work(d, running))
    <2>1. CASE vdp22st_handle_kato(k)
        BY <2>1 DEF vdp22st_handle_kato
    <2>2. CASE vdp22st_handle_ackto(k)
        BY <2>2 DEF vdp22st_handle_ackto
    <2>3. CASE vdp22_localchange_handler(k)
        BY <2>3 DEF vdp22_localchange_handler
    <2> QED
        BY <2>1, <2>2, <2>3
<1>3. StMachine(v, k, granted[k])
    BY <1>1 DEF GrantInv, MachineInv
<1>4. v.mode \in Modes
    BY <1>3 DEF StMachine, StRec
<1> HIDE DEF v
<1>5. /\ DOMAIN a = DOMAIN v
      /\ a.st = v.st /\ a.vsi = v.vsi /\ a.mode = v.mode
      /\ a.vid = v.vid /\ a.status = v.status /\ a.cc = v.cc
      /\ a.resp = v.resp /\ a.resp_ok = v.resp_ok
      /\ a.ackreceived = v.ackreceived
      /\ a.txmit_error = v.txmit_error /\ a.tx = v.tx
    BY <1>3 DEF StMachine, StRec, StFields
<1>6. /\ DOMAIN b = DOMAIN v
      /\ b.st = v.st /\ b.vsi = v.vsi /\ b.mode = v.mode
      /\ b.vid = v.vid /\ b.status = v.status /\ b.cc = v.cc
      /\ b.resp = v.resp /\ b.resp_ok = v.resp_ok
      /\ b.ackreceived = v.ackreceived
      /\ b.txmit_error = v.txmit_error /\ b.tx = v.tx
    BY <1>3 DEF StMachine, StRec, StFields
<1> HIDE DEF b
<1>7. /\ DOMAIN c = DOMAIN v
      /\ c.st = v.st /\ c.vsi = v.vsi /\ c.mode = v.mode
      /\ c.vid = v.vid /\ c.status = v.status /\ c.cc = v.cc
      /\ c.resp = v.resp /\ c.resp_ok = v.resp_ok
      /\ c.ackreceived = v.ackreceived
      /\ c.txmit_error = v.txmit_error /\ c.tx = v.tx
    BY <1>3, <1>6 DEF StMachine, StRec, StFields
<1>8. /\ DOMAIN d = DOMAIN v
      /\ d.st = v.st /\ d.vsi = v.vsi /\ d.mode = v.mode
      /\ d.vid = v.vid /\ d.status = v.status /\ d.cc = v.cc
      /\ d.resp = v.resp /\ d.resp_ok = v.resp_ok
      /\ d.ackreceived = v.ackreceived
      /\ d.txmit_error = v.txmit_error /\ d.tx = v.tx
    BY <1>3 DEF StMachine, StRec, StFields
<1> HIDE DEF a, c, d
<1>9. \E w : StMachine(w, k, granted[k]) /\ StRan(k, w)
    <2>1. StMachine(vdp22st_run(Work(a, running)), k, granted[k])
        BY <1>3, <1>4, <1>5, StChanged
    <2>2. StMachine(Work(b, running), k, granted[k])
        BY <1>3, <1>4, <1>6, StChanged
    <2>3. StMachine(vdp22st_run(Work(c, running)), k, granted[k])
        BY <1>3, <1>4, <1>7, StChanged
    <2>4. /\ StMachine(vdp22st_run(Work(d, running)), k, granted[k])
          /\ StMachine(Work(d, running), k, granted[k])
        BY <1>3, <1>4, <1>8, StChanged
    <2> QED
        BY <1>2, <2>1, <2>2, <2>3, <2>4
<1>10. MachineInv' /\ WireInv'
    BY <1>1, <1>9, StRanKeeps DEF GrantInv
<1>11. InputInv'
    BY <1>1, InputKeeps DEF GrantInv, brVars
<1> QED
    BY <1>10, <1>11 DEF GrantInv

\* EVB starts and stops VDP.
LEMMA EvbKeeps ==
    ASSUME GrantInv, vdp22_start \/ data_from_evb \/ vdp22_stop
    PROVE  GrantInv'
<1>1. CASE data_from_evb
    BY <1>1 DEF data_from_evb, brVars, GrantInv, MachineInv, WireInv, InputInv
<1>2. CASE vdp22_start \/ vdp22_stop
    <2> DEFINE a(k) == [sque[k] EXCEPT !.localchg = TRUE, !.lc = TRUE]
               b(k) == [sque[k] EXCEPT !.ka = 0, !.ackt = 0]
    <2>1. /\ DOMAIN sque' = VSIs
          /\ \A k \in VSIs : /\ sque[k] = None => sque'[k] = None
                             /\ sque[k] # None => sque'[k] \in {a(k), b(k)}
        BY <1>2, ZenonT(40) DEF vdp22_start, vdp22_stop
    <2>2. /\ UNCHANGED <<bque, granted, input>>
          /\ toBridge' \in {toBridge, <<>>} /\ toStation' \in {toStation, <<>>}
        BY <1>2 DEF vdp22_start, vdp22_stop, brVars
    <2>3. ASSUME NEW k \in VSIs, sque'[k] # None
          PROVE  StMachine(sque'[k], k, granted[k])
        <3> DEFINE v == sque[k]
                   w == sque'[k]
        <3>1. StMachine(v, k, granted[k]) /\ w \in {a(k), b(k)}
            BY <2>1, <2>3 DEF GrantInv, MachineInv
        <3>2. /\ DOMAIN w = DOMAIN v
              /\ w.st = v.st /\ w.vsi = v.vsi /\ w.mode = v.mode
              /\ w.vid = v.vid /\ w.status = v.status /\ w.cc = v.cc
              /\ w.resp = v.resp /\ w.resp_ok = v.resp_ok
              /\ w.ackreceived = v.ackreceived
              /\ w.txmit_error = v.txmit_error /\ w.tx = v.tx
              /\ v.mode \in Modes
            BY <3>1, ZenonT(40) DEF StMachine, StRec, StFields
        <3> HIDE DEF v, w
        <3>3. StMachine(w, k, granted[k])
            BY <3>1, <3>2, StAlike
        <3> QED
            BY <3>3 DEF w
    <2>4. MachineInv'
        BY <2>1, <2>2, <2>3 DEF GrantInv, MachineInv
    <2>5. WireInv'
        <3>1. toBridge' \in Seq(Msgs) /\ toStation' \in Seq(Msgs)
            <4>1. <<>> \in Seq(Msgs)
                OBVIOUS
            <4>2. toBridge \in Seq(Msgs) /\ toStation \in Seq(Msgs)
                BY DEF GrantInv, WireInv
            <4> QED
                BY <2>2, <4>1, <4>2
        <3>2. CASE toStation' = toStation
            BY <2>2, <3>1, <3>2 DEF GrantInv, WireInv
        <3>3. CASE toStation' = <<>>
            <4>1. Len(toStation') = 0
                BY <3>3
            <4> QED
                BY <3>1, <4>1 DEF WireInv
        <3> QED
            BY <2>2, <3>2, <3>3
    <2>6. InputInv'
        BY <2>2 DEF GrantInv, InputInv
    <2> QED
        BY <2>4, <2>5, <2>6, Zenon DEF GrantInv
<1> QED
    BY <1>1, <1>2

\* ECP delivers a TLV or gives it up.
LEMMA EcpKeeps ==
    ASSUME GrantInv, NEW end \in Ends,
           data_from_ecp(end) \/ ecp_gives_up(end)
    PROVE  GrantInv'
<1>1. UNCHANGED <<sque, bque, granted>>
    BY DEF data_from_ecp, ecp_gives_up
<1>2. MachineInv'
    BY <1>1 DEF GrantInv, MachineInv
<1>3. \/ toStation # <<>> /\ toStation' = Tail(toStation) /\ toBridge' = toBridge
      \/ toBridge # <<>> /\ toBridge' = Tail(toBridge) /\ toStation' = toStation
    BY DEF data_from_ecp, ecp_gives_up
<1>4. WireInv'
    <2>1. CASE /\ toStation # <<>> /\ toStation' = Tail(toStation)
               /\ toBridge' = toBridge
        <3>1. /\ toStation' \in Seq(Msgs)
              /\ Len(toStation') = Len(toStation) - 1
              /\ Len(toStation) \in Nat
              /\ \A j \in 1..Len(toStation') : toStation'[j] = toStation[j + 1]
            BY <2>1 DEF GrantInv, WireInv
        <3>2. \A j \in 1..Len(toStation') : j + 1 \in 1..Len(toStation)
            BY <3>1
        <3> QED
            BY <1>1, <2>1, <3>1, <3>2 DEF GrantInv, WireInv
    <2>2. CASE /\ toBridge # <<>> /\ toBridge' = Tail(toBridge)
               /\ toStation' = toStation
        BY <1>1, <2>2 DEF GrantInv, WireInv
    <2> QED
        BY <1>3, <2>1, <2>2
<1>5. InputInv'
    <2>1. CASE ecp_gives_up(end)
        BY <1>1, <2>1 DEF ecp_gives_up, GrantInv, InputInv
    <2>2. CASE data_from_ecp(end)
        <3> DEFINE q == IF end = "station" THEN toStation ELSE toBridge
                   h == Head(q)
                   c == [buf |-> h, n |-> input[end].n + 1]
        <3>1. q # <<>> /\ input' = [input EXCEPT ![end] = c]
            BY <2>2 DEF data_from_ecp, Deliver
        <3>2. q \in Seq(Msgs)
            BY DEF GrantInv, WireInv
        <3>3. h \in Msgs /\ (end = "station" => MsgGranted(h, granted))
            <4>1. h = q[1] /\ 1 \in 1..Len(q) /\ h \in Msgs
                BY <3>1, <3>2
            <4> QED
                BY <4>1 DEF GrantInv, WireInv
        <3> HIDE DEF h
        <3>4. /\ input' \in [Ends -> [buf : Msgs \cup {None}, n : Nat]]
              /\ \A f \in Ends \ {end} : input'[f] = input[f]
              /\ input'[end].buf = h
            BY <3>1, <3>3 DEF GrantInv, InputInv
        <3> QED
            BY <1>1, <3>3, <3>4 DEF GrantInv, InputInv, Ends
    <2> QED
        BY <2>1, <2>2
<1> QED
    BY <1>2, <1>4, <1>5 DEF GrantInv

\* The station takes an answer: one that is positive was granted.
LEMMA AnswerTaken ==
    ASSUME NEW v, NEW k \in VSIs, NEW g, StMachine(v, k, g[k]),
           NEW m \in Msgs, m.vsi = k, MsgGranted(m, g), response_ok(m)
    PROVE  StMachine(TakeAnswer(v, m), k, g[k])
<1> DEFINE un == ~m.ack /\ m.mode = DEASSOC
           st == IF un THEN "ok" ELSE m.st
           a == [v EXCEPT !.ackreceived = TRUE, !.acktimeout = FALSE,
                          !.ackt = 0, !.deassoc = un, !.status = st]
           no == a.notify \/ (/\ v.cc # DEASSOC /\ ~v.nlcmd
                              /\ m.mode = DEASSOC \/ a.status = "bad")
           b == [a EXCEPT !.resp_ok = TRUE, !.resp = m.mode, !.vid = m.vid,
                          !.notify = no]
           c == [a EXCEPT !.status = "bad"]
<1>1. TakeAnswer(v, m) \in {b, c}
    BY DEF TakeAnswer
<1>2. m.mode \in Modes /\ m.vid \in Vids /\ m.st \in {"ok", "bad", "keep"}
    BY DEF Msgs
<1>3. st \in Statuses /\ (st = "ok" /\ m.mode # DEASSOC => m.mode \in g[k])
    BY <1>2 DEF Statuses, MsgGranted, response_ok
<1> HIDE DEF un, st
<1>4. /\ DOMAIN a = DOMAIN v
      /\ a.st = v.st /\ a.vsi = v.vsi /\ a.mode = v.mode
      /\ a.vid = v.vid /\ a.status = st /\ a.cc = v.cc /\ a.tx = v.tx
    BY DEF StMachine, StRec, StFields
<1>5. DOMAIN v = StFields
    BY DEF StMachine, StRec
<1> HIDE DEF a, no
<1>6. /\ DOMAIN b = DOMAIN a
      /\ b.st = a.st /\ b.vsi = a.vsi /\ b.mode = a.mode
      /\ b.vid = m.vid /\ b.status = a.status /\ b.cc = a.cc /\ b.tx = a.tx
      /\ b.resp = m.mode
    BY <1>4, <1>5 DEF StFields
<1>7. /\ DOMAIN c = DOMAIN a
      /\ c.st = a.st /\ c.vsi = a.vsi /\ c.mode = a.mode
      /\ c.vid = a.vid /\ c.status = "bad" /\ c.cc = a.cc /\ c.tx = a.tx
    BY <1>4, <1>5 DEF StFields
<1> HIDE DEF b, c
<1>8. StMachine(b, k, g[k])
    BY <1>2, <1>3, <1>4, <1>6
    DEF StMachine, StRec, Awaiting, Answered, RespIn
<1>9. StMachine(c, k, g[k])
    BY <1>4, <1>7
    DEF StMachine, StRec, Awaiting, Answered, RespIn, Statuses
<1> QED
    BY <1>1, <1>8, <1>9

LEMMA BridgeInfoKeeps ==
    ASSUME GrantInv, vdp22_bridge_info
    PROVE  GrantInv'
<1> DEFINE m == input["station"].buf
           k == m.vsi
           w == vdp22st_run(Work(TakeAnswer(sque[k], m), running))
<1>1. Processed("station") /\ UNCHANGED brVars
    BY DEF vdp22_bridge_info
<1>2. m \in Msgs /\ MsgGranted(m, granted) /\ k \in VSIs
    <2>1. input["station"].n > 0
        BY <1>1 DEF Processed
    <2>2. m \in Msgs /\ MsgGranted(m, granted)
        BY <2>1 DEF GrantInv, InputInv, Ends
    <2> QED
        BY <2>2 DEF Msgs
<1>3. MachineInv' /\ WireInv'
    <2>1. CASE response_ok(m) /\ sque[k] # None
        <3>1. StRan(k, w)
            BY <2>1 DEF vdp22_bridge_info
        <3>2. StMachine(sque[k], k, granted[k])
            BY <1>2, <2>1 DEF GrantInv, MachineInv
        <3>3. StMachine(TakeAnswer(sque[k], m), k, granted[k])
            BY <1>2, <2>1, <3>2, AnswerTaken
        <3>4. StMachine(w, k, granted[k])
            BY <1>2, <3>3, StPoised, StRuns
        <3> HIDE DEF w
        <3> QED
            BY <1>1, <1>2, <3>1, <3>4, StRanKeeps DEF GrantInv
    <2>2. CASE ~(response_ok(m) /\ sque[k] # None)
        <3>1. UNCHANGED <<sque, toBridge>>
            BY <2>2 DEF vdp22_bridge_info
        <3> QED
            BY <1>1, <3>1 DEF GrantInv, MachineInv, WireInv, brVars
    <2> QED
        BY <2>1, <2>2
<1>4. InputInv'
    BY <1>1, InputKeeps DEF GrantInv, brVars, Ends
<1> QED
    BY <1>3, <1>4 DEF GrantInv

\* The bridge takes a TLV of the station.
LEMMA StationInfoKeeps ==
    ASSUME GrantInv, NEW o \in Outcomes, vdp22_station_info(o)
    PROVE  GrantInv'
<1> DEFINE m == input["bridge"].buf
           k == m.vsi
           v == bque[k]
           s == [v EXCEPT !.ka = 0]
           r == [tx |-> [m EXCEPT !.ack = TRUE, !.st = "ok"], gone |-> TRUE]
           x == [s EXCEPT !.status = "bad"]
           y == [s EXCEPT !.localchg = TRUE, !.mode = m.mode]
<1>1. Processed("bridge") /\ UNCHANGED <<sque, toBridge>>
    BY DEF vdp22_station_info
<1>2. m \in Msgs /\ k \in VSIs
    <2>1. input["bridge"].n > 0
        BY <1>1 DEF Processed
    <2>2. m \in Msgs
        BY <2>1 DEF GrantInv, InputInv, Ends
    <2> QED
        BY <2>2 DEF Msgs
<1>3. \/ BrRan(k, r)
      \/ v = None /\ BrRan(k, vdp22br_run(Work(BrNew(m), TRUE), o))
      \/ UNCHANGED brVars
      \/ v # None /\ bque' = [bque EXCEPT ![k] = x]
           /\ UNCHANGED <<toStation, granted>>
      \/ v # None /\ BrRan(k, vdp22br_run(Work(y, TRUE), o))
    BY DEF vdp22_station_info
<1> DEFINE Goal == /\ MachineInv' /\ WireInv'
                   /\ \A j \in VSIs : granted[j] \subseteq granted'[j]
<1>4. ASSUME NEW w, BrMachine(w, k), BrRan(k, w)
      PROVE  Goal
    <2>1. w.tx = None \/ (w.tx \in Msgs /\ w.tx.vsi = k)
        BY <1>4 DEF BrMachine
    <2> QED
        BY <1>1, <1>2, <1>4, <2>1, BrRanKeeps DEF GrantInv
<1>5. ASSUME v # None
      PROVE  /\ BrMachine(v, k) /\ BrMachine(x, k) /\ BrMachine(y, k)
    <2>1. BrMachine(v, k)
        BY <1>2, <1>5 DEF GrantInv, MachineInv
    <2>2. m.mode \in Modes
        BY <1>2 DEF Msgs
    <2> HIDE DEF v, m, k
    <2>3. /\ DOMAIN s = DOMAIN v
          /\ s.vsi = v.vsi /\ s.vid = v.vid /\ s.tx = v.tx
          /\ s.mode = v.mode /\ s.ack = v.ack /\ s.status = v.status
        BY <2>1 DEF BrMachine, BrFields
    <2> HIDE DEF s
    <2>4. BrMachine(s, k)
        BY <2>1, <2>3 DEF BrMachine
    <2>5. /\ DOMAIN x = DOMAIN s
          /\ x.vsi = s.vsi /\ x.vid = s.vid /\ x.tx = s.tx
          /\ x.mode = s.mode /\ x.ack = s.ack /\ x.status = "bad"
        BY <2>4 DEF BrMachine, BrFields
    <2>6. /\ DOMAIN y = DOMAIN s
          /\ y.vsi = s.vsi /\ y.vid = s.vid /\ y.tx = s.tx
          /\ y.mode = m.mode /\ y.ack = s.ack /\ y.status = s.status
        BY <2>4 DEF BrMachine, BrFields
    <2> HIDE DEF x, y
    <2> QED
        BY <2>1, <2>2, <2>4, <2>5, <2>6 DEF BrMachine
<1>6. ASSUME BrRan(k, r)
      PROVE  Goal
    <2>1. r.tx \in Msgs /\ r.tx.vsi = k /\ r.gone
        BY <1>2 DEF Msgs
    <2> HIDE DEF r, k, m
    <2> QED
        BY <1>1, <1>2, <1>6, <2>1, BrRanKeeps DEF GrantInv
<1>7. ASSUME BrRan(k, vdp22br_run(Work(BrNew(m), TRUE), o))
      PROVE  Goal
    <2> DEFINE n == BrNew(m)
    <2>1. DOMAIN n = BrFields
        BY DEF BrNew, BrFields
    <2>2. n.vsi = k /\ n.mode = m.mode /\ n.vid = m.vid /\ n.ack = FALSE
            /\ n.status = "ok" /\ n.tx = None
        BY DEF BrNew
    <2>3. m.mode \in Modes /\ m.vid \in Vids
        BY <1>2 DEF Msgs
    <2> HIDE DEF n, k, m
    <2>4. BrMachine(n, k)
        BY <2>1, <2>2, <2>3 DEF BrMachine
    <2>5. BrMachine(vdp22br_run(Work(n, TRUE), o), k)
        BY <1>2, <2>4, BrPoised, BrRuns
    <2> QED
        BY <1>4, <1>7, <2>5 DEF n
<1>8. ASSUME UNCHANGED brVars
      PROVE  Goal
    BY <1>1, <1>8 DEF brVars, GrantInv, MachineInv, WireInv
<1>9. ASSUME v # None /\ bque' = [bque EXCEPT ![k] = x]
                 /\ UNCHANGED <<toStation, granted>>
      PROVE  Goal
    <2>1. BrMachine(x, k)
        BY <1>5, <1>9
    <2> HIDE DEF x, v, k, m
    <2>2. /\ DOMAIN bque' = VSIs /\ bque'[k] = x
          /\ \A j \in VSIs \ {k} : bque'[j] = bque[j]
        BY <1>2, <1>9 DEF GrantInv, MachineInv
    <2>3. MachineInv'
        BY <1>1, <1>9, <2>1, <2>2 DEF GrantInv, MachineInv
    <2>4. WireInv'
        BY <1>1, <1>9 DEF GrantInv, WireInv
    <2> QED
        BY <1>9, <2>3, <2>4
<1>10. ASSUME v # None /\ BrRan(k, vdp22br_run(Work(y, TRUE), o))
       PROVE  Goal
    <2>1. BrMachine(y, k)
        BY <1>5, <1>10
    <2> HIDE DEF y, v, k, m
    <2>2. BrMachine(vdp22br_run(Work(y, TRUE), o), k)
        BY <1>2, <2>1, BrPoised, BrRuns
    <2> QED
        BY <1>4, <1>10, <2>2
<1>11. Goal
    BY <1>3, <1>6, <1>7, <1>8, <1>9, <1>10
<1>12. InputInv'
    BY <1>1, <1>11, InputKeeps DEF GrantInv, Ends
<1> QED
    BY <1>11, <1>12 DEF GrantInv

\* The timeouts of the bridge.
LEMMA BrTimeoutsKeep ==
    ASSUME GrantInv, NEW k \in VSIs,
           vdp22br_handle_kato(k) \/ vdp22br_handle_resto(k)
    PROVE  GrantInv'
<1> DEFINE v == bque[k]
           a == [v EXCEPT !.ka = @ - 1, !.kato = TRUE]
           b == [v EXCEPT !.res = @ - 1, !.resp_ok = TRUE]
<1>1. /\ v # None /\ UNCHANGED <<sque, toBridge, input>>
      /\ \/ BrRan(k, vdp22br_run(Work(a, TRUE), "success"))
         \/ BrRan(k, vdp22br_run(Work(b, TRUE), "success"))
    BY DEF vdp22br_handle_kato, vdp22br_handle_resto
<1>2. BrMachine(v, k)
    BY <1>1 DEF GrantInv, MachineInv
<1> HIDE DEF v
<1>3. /\ DOMAIN a = DOMAIN v
      /\ a.vsi = v.vsi /\ a.vid = v.vid /\ a.tx = v.tx
      /\ a.mode = v.mode /\ a.ack = v.ack /\ a.status = v.status
    BY <1>2 DEF BrMachine, BrFields
<1>4. /\ DOMAIN b = DOMAIN v
      /\ b.vsi = v.vsi /\ b.vid = v.vid /\ b.tx = v.tx
      /\ b.mode = v.mode /\ b.ack = v.ack /\ b.status = v.status
    BY <1>2 DEF BrMachine, BrFields
<1> HIDE DEF a, b
<1>5. BrMachine(a, k) /\ BrMachine(b, k)
    BY <1>2, <1>3, <1>4 DEF BrMachine
<1>6. /\ BrMachine(vdp22br_run(Work(a, TRUE), "success"), k)
      /\ BrMachine(vdp22br_run(Work(b, TRUE), "success"), k)
    BY <1>5, BrPoised, BrRuns
<1>7. PICK w : BrMachine(w, k) /\ BrRan(k, w)
    BY <1>1, <1>6
<1>8. w.tx = None \/ (w.tx \in Msgs /\ w.tx.vsi = k)
    BY <1>7 DEF BrMachine
<1>9. /\ MachineInv' /\ WireInv'
      /\ \A j \in VSIs : granted[j] \subseteq granted'[j]
    BY <1>1, <1>7, <1>8, BrRanKeeps DEF GrantInv
<1>10. InputInv'
    BY <1>1, <1>9, InputKeeps DEF GrantInv
<1> QED
    BY <1>9, <1>10 DEF GrantInv

\* The invariant.
LEMMA GrantAlways == Spec => []GrantInv
<1>1. Init => GrantInv
    <2> SUFFICES ASSUME Init
                 PROVE  GrantInv
        OBVIOUS
    <2>1. MachineInv
        BY DEF Init, MachineInv
    <2>2. WireInv
        BY DEF Init, WireInv
    <2>3. InputInv
        BY DEF Init, InputInv, Ends
    <2> QED
        BY <2>1, <2>2, <2>3 DEF GrantInv
<1>2. GrantInv /\ [Next]_vars => GrantInv'
    <2> SUFFICES ASSUME GrantInv, [Next]_vars
                 PROVE  GrantInv'
        OBVIOUS
    <2>1. CASE \E k \in VSIs, m \in ReqModes, i \in Vids, c \in Clients :
                 vdp22_request(k, m, i, c)
        BY <2>1, RequestKeeps
    <2>2. CASE \E k \in VSIs : vdp22_status(k)
                                 \/ \E i \in Vids : filter_mismatch(k, i)
        BY <2>2, PollsKeep
    <2>3. CASE \E k \in VSIs : \/ vdp22st_handle_kato(k)
                               \/ vdp22st_handle_ackto(k)
                               \/ vdp22_localchange_handler(k)
        BY <2>3, StTimeoutsKeep
    <2>4. CASE \E k \in VSIs : vdp22br_handle_kato(k) \/ vdp22br_handle_resto(k)
        BY <2>4, BrTimeoutsKeep
    <2>5. CASE vdp22_start \/ data_from_evb \/ vdp22_stop
        BY <2>5, EvbKeeps
    <2>6. CASE \E end \in Ends : data_from_ecp(end) \/ ecp_gives_up(end)
        BY <2>6, EcpKeeps
    <2>7. CASE vdp22_bridge_info
        BY <2>7, BridgeInfoKeeps
    <2>8. CASE \E o \in Outcomes : vdp22_station_info(o)
        BY <2>8, StationInfoKeeps
    <2>9. CASE UNCHANGED vars
        BY <2>9 DEF vars, GrantInv, MachineInv, WireInv, InputInv
    <2> QED
        BY <2>1, <2>2, <2>3, <2>4, <2>5, <2>6, <2>7, <2>8, <2>9 DEF Next
<1> QED
    BY <1>1, <1>2, PTL DEF Spec

\* What the station takes for confirmed was granted by the bridge, however
\* late or often vdp22_bridge_info() gets answers, whatever ECP loses, and
\* although a machine takes any answer for the one to its last request.
THEOREM ConfirmedGranted == Spec => []ConfirmedWasGranted
<1>1. GrantInv => ConfirmedWasGranted
    BY DEF GrantInv, MachineInv, StMachine, StRec, ConfirmedWasGranted
<1> QED
    BY <1>1, GrantAlways, PTL

-----------------------------------------------------------------------------
(* Attached clients: what a run tells them                                  *)

\* The machine of an attached client leaves the queue only with an event,
\* and a response that was taken says something.
Sound(v) ==
    /\ DOMAIN v = StFields
    /\ v.st \in StStates
    /\ v.status \in Statuses
    /\ v.resp_ok => v.status # "none"
    /\ v.st \in {"BEGIN", "INIT"} => ~v.resp_ok
    /\ ~v.nl => ~v.del /\ ~v.gone
    /\ ~v.nl /\ v.st = "ASSOC_NEW" => v.ev

Started(v) == v.st \notin {"BEGIN", "INIT"}

\* The event is out, or still to come, or the answer had the KEEP bit.
Owed(v) ==
    \/ v.nl \/ v.ev \/ v.busy \/ v.status = "keep"
    \/ v.st \in {"TXMIT_DEAWAIT_2", "END"}

\* No response is there for the TLV sent last.
Unanswered(v) == ~v.ackreceived \/ v.txmit_error

QuietInv ==
    /\ DOMAIN sque = VSIs /\ waiting \subseteq VSIs
    /\ \A k \in VSIs : sque[k] # None =>
          Sound(sque[k]) /\ Started(sque[k]) /\ ~sque[k].ev
    /\ \A k \in waiting : sque[k] # None /\ ~sque[k].nl

\* What the work of a state does to the fields that matter here.
LEMMA EnterFields ==
    ASSUME NEW v, DOMAIN v = StFields, v.st \in StStates
    PROVE  LET e == StEnter(v)
               new == {"ASSOC_NEW", "PREASSOC_NEW"}
               sends == {"STATION_PROC", "TXMIT_KA", "TXMIT_DEASSOC"}
           IN  /\ DOMAIN e = StFields
               /\ e.st = v.st /\ e.nl = v.nl /\ e.del = v.del
               /\ e.status = IF v.st = "INIT" THEN "none" ELSE v.status
               /\ e.resp_ok => v.resp_ok
               /\ ~v.nl /\ (v.ev \/ v.st \in new) => e.ev
               /\ ~v.nl /\ ~v.del /\ ~v.gone => ~e.gone
               /\ v.busy /\ v.st \notin new \cup
                    {"ASSOC_COMPL", "TXMIT_DEAWAIT_2"} => e.busy
               /\ v.st \in sends => Unanswered(e)
               /\ v.st \notin sends => /\ e.ackreceived = v.ackreceived
                                       /\ e.txmit_error = v.txmit_error
<1> USE DEF StFields
<1>1. ASSUME NEW u, DOMAIN u = StFields
      PROVE  LET w == vdp22st_process(u)
             IN  /\ DOMAIN w = StFields
                 /\ w.st = u.st /\ w.nl = u.nl /\ w.del = u.del
                 /\ w.status = u.status /\ w.ev = u.ev /\ w.gone = u.gone
                 /\ w.busy = u.busy
                 /\ w.resp_ok => u.resp_ok
                 /\ Unanswered(w)
    <2> DEFINE t == VsiTlv(u, FALSE, "ok")
               x == [u EXCEPT !.tx = t, !.ka = 0]
               y == vdp22st_start_acktimer(x)
               z == [u EXCEPT !.txmit_error = TRUE]
    <2>1. vdp22st_process(u) = IF u.up THEN y ELSE z
        BY DEF vdp22st_process
    <2> HIDE DEF t
    <2>2. /\ DOMAIN x = StFields
          /\ x.st = u.st /\ x.nl = u.nl /\ x.del = u.del
          /\ x.status = u.status /\ x.ev = u.ev /\ x.gone = u.gone
          /\ x.busy = u.busy
        BY <1>1
    <2> HIDE DEF x
    <2>3. /\ DOMAIN y = StFields
          /\ y.st = x.st /\ y.nl = x.nl /\ y.del = x.del
          /\ y.status = x.status /\ y.ev = x.ev /\ y.gone = x.gone
          /\ y.busy = x.busy /\ y.resp_ok = FALSE /\ y.ackreceived = FALSE
        BY <2>2 DEF vdp22st_start_acktimer
    <2>4. /\ DOMAIN z = StFields
          /\ z.st = u.st /\ z.nl = u.nl /\ z.del = u.del
          /\ z.status = u.status /\ z.ev = u.ev /\ z.gone = u.gone
          /\ z.busy = u.busy /\ z.resp_ok = u.resp_ok /\ z.txmit_error = TRUE
        BY <1>1
    <2> HIDE DEF y, z
    <2> QED
        BY <2>1, <2>2, <2>3, <2>4 DEF Unanswered
<1> DEFINE e == StEnter(v)
<1>2. CASE v.st = "INIT"
    <2> DEFINE w == [v EXCEPT !.status = "none"]
    <2>1. e = w
        BY <1>2 DEF StEnter
    <2>2. /\ DOMAIN w = StFields
          /\ w.st = v.st /\ w.nl = v.nl /\ w.del = v.del
          /\ w.status = "none" /\ w.resp_ok = v.resp_ok /\ w.ev = v.ev
          /\ w.gone = v.gone /\ w.busy = v.busy
          /\ w.ackreceived = v.ackreceived
          /\ w.txmit_error = v.txmit_error
        OBVIOUS
    <2> HIDE DEF w
    <2> QED
        BY <1>2, <2>1, <2>2
<1>3. CASE v.st \in {"STATION_PROC", "TXMIT_KA"}
    <2>1. e = vdp22st_process(v)
        BY <1>3 DEF StEnter
    <2> QED
        BY <1>1, <1>3, <2>1
<1>4. CASE v.st = "TXMIT_DEASSOC"
    <2> DEFINE w == [v EXCEPT !.mode = DEASSOC, !.busy = TRUE]
    <2>1. e = vdp22st_process(w)
        BY <1>4 DEF StEnter, vdp22st_txdea
    <2>2. /\ DOMAIN w = StFields
          /\ w.st = v.st /\ w.nl = v.nl /\ w.del = v.del
          /\ w.status = v.status /\ w.resp_ok = v.resp_ok /\ w.ev = v.ev
          /\ w.gone = v.gone /\ w.busy = TRUE
        OBVIOUS
    <2> HIDE DEF w
    <2> QED
        BY <1>1, <1>4, <2>1, <2>2
<1>5. CASE v.st \in {"ASSOC_NEW", "PREASSOC_NEW"}
    <2> DEFINE w == vdp22st_assoc_new(v)
               x == [w EXCEPT !.ev = TRUE, !.gone = w.del]
    <2>1. e = IF w.nl THEN w ELSE x
        BY <1>5 DEF StEnter, vdp22_clntback
    <2>2. /\ DOMAIN w = StFields
          /\ w.st = v.st /\ w.nl = v.nl /\ w.del = v.del
          /\ w.status = v.status /\ w.resp_ok = v.resp_ok
          /\ w.ackreceived = v.ackreceived
          /\ w.txmit_error = v.txmit_error
        BY DEF vdp22st_assoc_new, vdp22st_assoc_compl
    <2> HIDE DEF w
    <2>3. /\ DOMAIN x = StFields
          /\ x.st = w.st /\ x.nl = w.nl /\ x.del = w.del
          /\ x.status = w.status /\ x.resp_ok = w.resp_ok
          /\ x.ackreceived = w.ackreceived
          /\ x.txmit_error = w.txmit_error
          /\ x.ev = TRUE /\ x.gone = w.del
        BY <2>2
    <2> HIDE DEF x
    <2> QED
        BY <1>5, <2>1, <2>2, <2>3
<1>6. CASE v.st \in {"ASSOC_COMPL", "TXMIT_DEAWAIT_2"}
    <2> DEFINE w == vdp22st_assoc_compl(v)
    <2>1. e = w
        BY <1>6 DEF StEnter
    <2>2. /\ DOMAIN w = StFields
          /\ w.st = v.st /\ w.nl = v.nl /\ w.del = v.del
          /\ w.status = v.status /\ w.resp_ok = v.resp_ok /\ w.ev = v.ev
          /\ w.gone = v.gone /\ w.ackreceived = v.ackreceived
          /\ w.txmit_error = v.txmit_error
        BY DEF vdp22st_assoc_compl
    <2> HIDE DEF w
    <2> QED
        BY <1>6, <2>1, <2>2
<1>7. CASE v.st = "WAIT_SYSCMD"
    <2> DEFINE w == vdp22st_start_katimer(v)
    <2>1. e = w
        BY <1>7 DEF StEnter
    <2>2. /\ DOMAIN w = StFields
          /\ w.st = v.st /\ w.nl = v.nl /\ w.del = v.del
          /\ w.status = v.status /\ w.resp_ok = v.resp_ok /\ w.ev = v.ev
          /\ w.gone = v.gone /\ w.busy = v.busy
          /\ w.ackreceived = v.ackreceived
          /\ w.txmit_error = v.txmit_error
        BY DEF vdp22st_start_katimer
    <2> HIDE DEF w
    <2> QED
        BY <1>7, <2>1, <2>2
<1>8. CASE v.st \in {"BEGIN", "STATION_PROCWAIT", "STATION_PROCWAIT_2",
                     "WAIT_SYSCMD_2", "TXMIT_KAWAIT", "TXMIT_KAWAIT_2",
                     "TXMIT_DEAWAIT", "END"}
    <2>1. e = v
        BY <1>8 DEF StEnter
    <2> QED
        BY <1>8, <2>1
<1> QED
    BY <1>2, <1>3, <1>4, <1>5, <1>6, <1>7, <1>8 DEF StStates

\* Where moves lead, and from where.
LEMMA MoveFields ==
    ASSUME NEW v, v.st \in StStates
    PROVE  LET s == vdp22st_move_state(v)
           IN  /\ s \in StStates \ {"BEGIN"}
               /\ s = "INIT" => v.st = "BEGIN"
               /\ s = "ASSOC_COMPL" =>
                    \/ v.st = "ASSOC_NEW"
                    \/ v.resp_ok /\ v.status \in {"keep", "none"}
               /\ s = "STATION_PROCWAIT" =>
                    v.st = "STATION_PROC" \/ (v.st = s /\ ~v.ackreceived)
               /\ s = "TXMIT_DEAWAIT" =>
                    v.st = "TXMIT_DEASSOC" \/ (v.st = s /\ ~v.ackreceived)
               /\ s = "STATION_PROCWAIT_2" =>
                    v.st = "STATION_PROCWAIT" /\ ~Unanswered(v)
               /\ s = "TXMIT_DEAWAIT_2" =>
                    v.st = "TXMIT_DEAWAIT" /\ ~Unanswered(v)
               /\ s = "ASSOC_NEW" => v.st = "STATION_PROCWAIT_2"
               /\ v.st \in {"TXMIT_DEAWAIT_2", "END"} => s = "END"
               /\ s = v.st => s \in {"STATION_PROCWAIT", "WAIT_SYSCMD_2",
                                     "TXMIT_KAWAIT", "TXMIT_DEAWAIT", "END"}
<1> DEFINE s == vdp22st_move_state(v)
<1>1. CASE v.st \in {"BEGIN", "INIT", "STATION_PROC", "ASSOC_NEW",
                     "ASSOC_COMPL", "PREASSOC_NEW", "WAIT_SYSCMD",
                     "TXMIT_KA", "TXMIT_DEASSOC", "TXMIT_DEAWAIT_2", "END"}
    BY <1>1 DEF vdp22st_move_state, StStates
<1>2. CASE v.st = "TXMIT_KAWAIT"
    BY <1>2 DEF vdp22st_move_state, StAwaits, StStates
<1>3. CASE v.st \in {"STATION_PROCWAIT", "TXMIT_DEAWAIT"}
    BY <1>3 DEF vdp22st_move_state, StAwaits, StStates, Unanswered
<1>4. CASE v.st \in {"WAIT_SYSCMD_2", "TXMIT_KAWAIT_2"}
    BY <1>4 DEF vdp22st_move_state, StStates
<1>5. CASE v.st = "STATION_PROCWAIT_2"
    BY <1>5 DEF vdp22st_move_state, StStates
<1> QED
    BY <1>1, <1>2, <1>3, <1>4, <1>5 DEF StStates

\* The machine is past the states that a run only passes through, once it
\* has made n moves: a response was there for the first ones only.
Settled(v, n) ==
    /\ n >= 1 => /\ v.st # "BEGIN"
                 /\ v.st \in {"STATION_PROC", "TXMIT_DEASSOC"} => Unanswered(v)
    /\ n >= 2 => /\ v.st # "INIT"
                 /\ v.st \in {"STATION_PROCWAIT", "TXMIT_DEAWAIT"} =>
                      Unanswered(v)
    /\ n >= 3 => v.st \notin {"STATION_PROCWAIT_2", "TXMIT_DEAWAIT_2"}
    /\ n >= 4 => v.st # "ASSOC_NEW"

\* One move.
LEMMA StepQuiet ==
    ASSUME NEW v, Sound(v), NEW n \in Nat, Settled(v, n)
    PROVE  /\ Sound(StStep(v)) /\ Settled(StStep(v), n + 1)
           /\ Started(v) => Started(StStep(v))
           /\ Started(v) /\ Owed(v) => Owed(StStep(v))
           /\ StStep(v).nl = v.nl
<1> DEFINE s == vdp22st_move_state(v)
           u == [v EXCEPT !.st = s]
<1>1. /\ s \in StStates \ {"BEGIN"}
      /\ s = "INIT" => v.st = "BEGIN"
      /\ s = "ASSOC_COMPL" =>
           \/ v.st = "ASSOC_NEW"
           \/ v.resp_ok /\ v.status \in {"keep", "none"}
      /\ s = "STATION_PROCWAIT" =>
           v.st = "STATION_PROC" \/ (v.st = s /\ ~v.ackreceived)
      /\ s = "TXMIT_DEAWAIT" =>
           v.st = "TXMIT_DEASSOC" \/ (v.st = s /\ ~v.ackreceived)
      /\ s = "STATION_PROCWAIT_2" =>
           v.st = "STATION_PROCWAIT" /\ ~Unanswered(v)
      /\ s = "TXMIT_DEAWAIT_2" =>
           v.st = "TXMIT_DEAWAIT" /\ ~Unanswered(v)
      /\ s = "ASSOC_NEW" => v.st = "STATION_PROCWAIT_2"
      /\ v.st \in {"TXMIT_DEAWAIT_2", "END"} => s = "END"
      /\ s = v.st => s \in {"STATION_PROCWAIT", "WAIT_SYSCMD_2",
                            "TXMIT_KAWAIT", "TXMIT_DEAWAIT", "END"}
    BY MoveFields DEF Sound
<1> HIDE DEF s
<1>2. CASE s = v.st
    <2>1. StStep(v) = v
        BY <1>2 DEF StStep, s
    <2>2. Settled(v, n + 1)
        BY <1>1, <1>2 DEF Settled, Unanswered
    <2> QED
        BY <2>1, <2>2
<1>3. CASE s # v.st
    <2> DEFINE e == StEnter(u)
    <2>1. StStep(v) = e
        BY <1>3, StOnce DEF StStep, s
    <2>2. /\ DOMAIN u = StFields
          /\ u.st = s /\ u.nl = v.nl /\ u.del = v.del
          /\ u.status = v.status /\ u.resp_ok = v.resp_ok /\ u.ev = v.ev
          /\ u.gone = v.gone /\ u.busy = v.busy
          /\ u.ackreceived = v.ackreceived
          /\ u.txmit_error = v.txmit_error
        BY DEF Sound, StFields
    <2> HIDE DEF u
    <2> DEFINE new == {"ASSOC_NEW", "PREASSOC_NEW"}
               sends == {"STATION_PROC", "TXMIT_KA", "TXMIT_DEASSOC"}
    <2>3. /\ DOMAIN e = StFields
          /\ e.st = u.st /\ e.nl = u.nl /\ e.del = u.del
          /\ e.status = IF u.st = "INIT" THEN "none" ELSE u.status
          /\ e.resp_ok => u.resp_ok
          /\ ~u.nl /\ (u.ev \/ u.st \in new) => e.ev
          /\ ~u.nl /\ ~u.del /\ ~u.gone => ~e.gone
          /\ u.busy /\ u.st \notin new \cup
               {"ASSOC_COMPL", "TXMIT_DEAWAIT_2"} => e.busy
          /\ u.st \in sends => Unanswered(e)
          /\ u.st \notin sends => /\ e.ackreceived = u.ackreceived
                                  /\ e.txmit_error = u.txmit_error
        BY <1>1, <2>2, EnterFields
    <2> HIDE DEF e
    <2>4. Sound(e)
        BY <1>1, <2>2, <2>3 DEF Sound, StStates, Statuses
    <2>5. Settled(e, n + 1)
        BY <1>1, <2>2, <2>3 DEF Settled, Unanswered
    <2>6. Started(v) => Started(e)
        BY <1>1, <2>2, <2>3 DEF Started
    <2>7. Started(v) /\ Owed(v) => Owed(e)
        <3> SUFFICES ASSUME Started(v), Owed(v), ~v.nl
                     PROVE  Owed(e)
            BY <2>2, <2>3 DEF Owed
        <3>1. s # "INIT"
            BY <1>1 DEF Started
        <3>2. CASE v.ev
            BY <2>2, <2>3, <3>2 DEF Owed
        <3>3. CASE v.status = "keep"
            BY <2>2, <2>3, <3>1, <3>3 DEF Owed
        <3>4. CASE v.st \in {"TXMIT_DEAWAIT_2", "END"}
            BY <1>1, <2>2, <2>3, <3>4 DEF Owed
        <3>5. CASE v.busy
            <4>1. CASE s \in new
                BY <2>2, <2>3, <4>1 DEF Owed
            <4>2. CASE s = "TXMIT_DEAWAIT_2"
                BY <2>2, <2>3, <4>2 DEF Owed
            <4>3. CASE s = "ASSOC_COMPL"
                <5>1. v.ev \/ v.status = "keep"
                    BY <1>1, <4>3 DEF Sound
                <5> QED
                    BY <5>1, <3>2, <3>3
            <4> QED
                BY <2>2, <2>3, <3>5, <4>1, <4>2, <4>3 DEF Owed
        <3> QED
            BY <3>2, <3>3, <3>4, <3>5 DEF Owed
    <2> QED
        BY <2>1, <2>2, <2>3, <2>4, <2>5, <2>6, <2>7
<1> QED
    BY <1>2, <1>3

\* A run tells an attached client before its VSI leaves the queue.
LEMMA RunQuiet ==
    ASSUME NEW v, Sound(v)
    PROVE  LET w == vdp22st_run(v)
           IN  /\ w.nl = v.nl
               /\ ~w.nl /\ w.gone => w.ev
               /\ w.gone \/ (Sound(Rest(w)) /\ Started(Rest(w)))
               /\ Started(v) /\ Owed(v) =>
                    w.nl \/ w.ev \/ w.busy \/ w.status = "keep"
<1> DEFINE Good(u, n) == /\ Sound(u) /\ Settled(u, n) /\ u.nl = v.nl
                         /\ Started(v) => Started(u)
                         /\ Started(v) /\ Owed(v) => Owed(u)
<1>1. ASSUME NEW u, NEW n \in Nat, Good(u, n)
      PROVE  Good(StStep(u), n + 1)
    BY <1>1, StepQuiet
<1>2. ASSUME NEW u, NEW n \in Nat, Good(u, n)
      PROVE  Good(StTwice(u), n + 2)
    <2>1. /\ Apply(StStep, u) = StStep(u)
          /\ Apply(StStep, StStep(u)) = StStep(StStep(u))
        BY StOnce
    <2>2. StTwice(u) = StStep(StStep(u))
        BY <2>1 DEF StTwice
    <2> HIDE DEF Good
    <2>3. n + 1 \in Nat /\ (n + 1) + 1 = n + 2
        OBVIOUS
    <2>4. Good(StStep(StStep(u)), n + 2)
        BY <1>1, <1>2, <2>3
    <2> QED
        BY <2>2, <2>4
<1> DEFINE x == StTwice(StTwice(StTwice(StTwice(v))))
<1>3. Good(x, 8)
    <2>1. Good(v, 0)
        BY DEF Settled
    <2> HIDE DEF Good
    <2>2. Good(StTwice(v), 2)
        BY <1>2, <2>1
    <2>3. Good(StTwice(StTwice(v)), 4)
        BY <1>2, <2>2
    <2>4. Good(StTwice(StTwice(StTwice(v))), 6)
        BY <1>2, <2>3
    <2> QED
        BY <1>2, <2>4
<1>4. vdp22st_run(v) = StEnded(x)
    <2>1. /\ Apply(StTwice, v) = StTwice(v)
          /\ Apply(StTwice, StTwice(v)) = StTwice(StTwice(v))
          /\ Apply(StTwice, StTwice(StTwice(v))) =
                StTwice(StTwice(StTwice(v)))
          /\ Apply(StTwice, StTwice(StTwice(StTwice(v)))) =
                StTwice(StTwice(StTwice(StTwice(v))))
          /\ Apply(StEnded, StTwice(StTwice(StTwice(StTwice(v))))) =
                StEnded(StTwice(StTwice(StTwice(StTwice(v)))))
        BY StOnce
    <2> QED
        BY <2>1 DEF vdp22st_run
<1> HIDE DEF x
<1>5. ASSUME NEW w, DOMAIN w = StFields, w.st \in StStates,
             w.status \in Statuses, w.resp_ok => w.status # "none",
             w.st \notin {"BEGIN", "INIT", "ASSOC_NEW"},
             ~w.nl => ~w.del
      PROVE  Sound(Rest(w)) /\ Started(Rest(w))
    <2> DEFINE r == Rest(w)
    <2>1. /\ DOMAIN r = StFields
          /\ r.st = w.st /\ r.nl = w.nl /\ r.del = w.del
          /\ r.status = w.status /\ r.resp_ok = w.resp_ok
          /\ r.gone = FALSE
        BY <1>5 DEF Rest, StFields
    <2> HIDE DEF r
    <2>2. Sound(r) /\ Started(r)
        BY <1>5, <2>1 DEF Sound, Started
    <2> QED
        BY <2>2 DEF r
<1>6. /\ Sound(x) /\ x.nl = v.nl
      /\ Started(v) /\ Owed(v) => Owed(x)
      /\ x.st \notin {"BEGIN", "INIT", "ASSOC_NEW", "TXMIT_DEAWAIT_2"}
    BY <1>3 DEF Settled
<1>7. CASE x.st # "END"
    <2>1. vdp22st_run(v) = x
        BY <1>4, <1>7 DEF StEnded
    <2>2. Sound(Rest(x)) /\ Started(Rest(x))
        BY <1>3, <1>5, <1>6 DEF Sound
    <2> QED
        BY <1>3, <1>6, <1>7, <2>1, <2>2 DEF Sound, Owed
<1>8. CASE x.st = "END"
    <2> DEFINE e == [x EXCEPT !.ackt = 0, !.ka = 0, !.mode = DEASSOC,
                              !.cc = DEASSOC, !.del = TRUE, !.busy = FALSE]
               n == IF x.notify THEN vdp22_nlback(e) ELSE e
               w == vdp22_clntback(n)
    <2>1. vdp22st_run(v) = w
        BY <1>4, <1>8, StOnce DEF StEnded, vdp22st_end
    <2>2. DOMAIN x = StFields /\ x.status \in Statuses
            /\ (x.resp_ok => x.status # "none")
        BY <1>3 DEF Sound
    <2>3. /\ DOMAIN e = StFields /\ e.st = "END" /\ e.nl = x.nl
          /\ e.status = x.status /\ e.resp_ok = x.resp_ok
          /\ e.del = TRUE
        BY <1>8, <2>2 DEF StFields
    <2> HIDE DEF e
    <2>4. /\ DOMAIN n = StFields /\ n.st = "END" /\ n.nl = x.nl
          /\ n.status = x.status /\ n.resp_ok = x.resp_ok
          /\ n.del = TRUE
        BY <2>3 DEF vdp22_nlback, StFields
    <2> HIDE DEF n
    <2>5. /\ DOMAIN w = StFields /\ w.st = "END" /\ w.nl = x.nl
          /\ w.status = x.status /\ w.resp_ok = x.resp_ok
          /\ w.del = TRUE
          /\ ~w.nl => w.ev = TRUE /\ w.gone = TRUE
        BY <2>4 DEF vdp22_clntback, StFields
    <2> HIDE DEF w
    <2>6. w.nl => Sound(Rest(w)) /\ Started(Rest(w))
        BY <1>5, <2>2, <2>5 DEF StStates
    <2> QED
        BY <1>3, <2>1, <2>5, <2>6
<1> QED
    BY <1>7, <1>8

\* What SilentOnlyIfKept says of a step.
SilentStep ==
    \A k \in waiting \cap waiting' :
        sque[k] # None /\ sque[k].busy =>
            sque'[k] # None /\ (sque'[k].busy \/ sque'[k].status = "keep")

\* A machine is never taken for a VSI that is not queued.
LEMMA NotNone ==
    ASSUME NEW v, DOMAIN v = StFields
    PROVE  v # None
<1>1. "st" \notin DOMAIN None
    BY DEF None
<1> QED
    BY <1>1 DEF StFields

\* What a run at the station leaves to attached clients.
LEMMA RanQuiet ==
    ASSUME QuietInv, NEW k \in VSIs, NEW w, NEW W,
           W = waiting \/ W = waiting \cup {k},
           k \in W => ~w.nl,
           ~w.nl /\ w.gone => w.ev,
           w.gone \/ (Sound(Rest(w)) /\ Started(Rest(w))),
           k \in waiting /\ sque[k] # None /\ sque[k].busy =>
                w.ev \/ w.busy \/ w.status = "keep",
           StRan(k, w), waiting' = Told(k, w, W)
    PROVE  QuietInv' /\ SilentStep
<1> DEFINE r == Rest(w)
<1>1. /\ DOMAIN sque' = VSIs
      /\ sque'[k] = IF w.gone THEN None ELSE r
      /\ \A j \in VSIs \ {k} : sque'[j] = sque[j]
    BY DEF StRan, QuietInv
<1>2. /\ waiting' \subseteq VSIs
      /\ \A j \in VSIs \ {k} : j \in waiting' <=> j \in waiting
      /\ k \in waiting' => k \in W /\ ~w.ev
    BY DEF Told, QuietInv
<1>3. ASSUME ~w.gone
      PROVE  /\ Sound(r) /\ Started(r) /\ r # None /\ r.ev = FALSE
             /\ r.nl = w.nl /\ r.busy = w.busy /\ r.status = w.status
    <2>1. Sound(r) /\ Started(r)
        BY <1>3
    <2>2. DOMAIN r = StFields /\ DOMAIN w = StFields
        <3>1. DOMAIN r = DOMAIN w
            BY DEF Rest
        <3> QED
            BY <2>1, <3>1 DEF Sound
    <2>3. /\ r.ev = FALSE /\ r.nl = w.nl /\ r.busy = w.busy
          /\ r.status = w.status
        BY <2>2 DEF Rest, StFields
    <2> HIDE DEF r
    <2> QED
        BY <2>1, <2>2, <2>3, NotNone
<1> HIDE DEF r
<1>4. QuietInv'
    <2>1. \A j \in VSIs : sque'[j] # None =>
             Sound(sque'[j]) /\ Started(sque'[j]) /\ ~sque'[j].ev
        BY <1>1, <1>3 DEF QuietInv
    <2>2. \A j \in waiting' : sque'[j] # None /\ ~sque'[j].nl
        <3> SUFFICES ASSUME NEW j \in waiting'
                     PROVE  sque'[j] # None /\ ~sque'[j].nl
            OBVIOUS
        <3>1. CASE j = k
            BY <1>1, <1>2, <1>3, <3>1
        <3>2. CASE j # k
            BY <1>1, <1>2, <3>2 DEF QuietInv
        <3> QED
            BY <3>1, <3>2
    <2> QED
        BY <1>1, <1>2, <2>1, <2>2 DEF QuietInv
<1>5. SilentStep
    <2> SUFFICES ASSUME NEW j \in waiting, j \in waiting',
                        sque[j] # None, sque[j].busy
                 PROVE  sque'[j] # None
                          /\ (sque'[j].busy \/ sque'[j].status = "keep")
        BY DEF SilentStep
    <2>1. CASE j = k
        <3>1. ~w.ev /\ ~w.gone
            BY <1>2, <2>1
        <3> QED
            BY <1>1, <1>3, <2>1, <3>1
    <2>2. CASE j # k
        BY <1>1, <2>2 DEF QuietInv
    <2> QED
        BY <2>1, <2>2
<1> QED
    BY <1>4, <1>5

\* The machine of a queued VSI goes on from the record u.
LEMMA ResumeQuiet ==
    ASSUME QuietInv, NEW k \in VSIs, sque[k] # None,
           NEW u, DOMAIN u = StFields,
           u.st = sque[k].st /\ u.nl = sque[k].nl /\ u.del = sque[k].del
             /\ u.gone = sque[k].gone /\ u.ev = sque[k].ev,
           sque[k].busy => u.busy,
           u.status \in Statuses, u.resp_ok => u.status # "none",
           NEW w, w \in {Work(u, running), vdp22st_run(Work(u, running))},
           NEW W, W = waiting \/ (W = waiting \cup {k} /\ ~u.nl),
           StRan(k, w), waiting' = Told(k, w, W)
    PROVE  QuietInv' /\ SilentStep
<1> DEFINE x == Work(u, running)
<1>1. /\ Sound(sque[k]) /\ Started(sque[k]) /\ ~sque[k].ev
      /\ k \in waiting => ~sque[k].nl
    BY DEF QuietInv
<1>2. /\ DOMAIN x = StFields
      /\ x.st = u.st /\ x.nl = u.nl /\ x.del = u.del /\ x.gone = u.gone
      /\ x.ev = u.ev /\ x.busy = u.busy /\ x.status = u.status
      /\ x.resp_ok = u.resp_ok
    BY DEF Work, StFields
<1> HIDE DEF x
<1>3. Sound(x) /\ Started(x)
    BY <1>1, <1>2 DEF Sound, Started
<1>4. CASE w = vdp22st_run(x)
    <2>1. /\ w.nl = x.nl
          /\ ~w.nl /\ w.gone => w.ev
          /\ w.gone \/ (Sound(Rest(w)) /\ Started(Rest(w)))
          /\ Owed(x) => w.nl \/ w.ev \/ w.busy \/ w.status = "keep"
        BY <1>3, <1>4, RunQuiet
    <2>2. sque[k].busy => Owed(x)
        BY <1>2 DEF Owed
    <2>3. k \in W => ~w.nl
        BY <1>1, <1>2, <2>1
    <2> QED
        BY <1>1, <1>2, <2>1, <2>2, <2>3, RanQuiet
<1>5. CASE w = x
    <2> DEFINE r == Rest(x)
    <2>1. /\ DOMAIN r = StFields
          /\ r.st = x.st /\ r.nl = x.nl /\ r.del = x.del
          /\ r.status = x.status /\ r.resp_ok = x.resp_ok
          /\ r.gone = FALSE
        BY <1>2 DEF Rest, StFields
    <2> HIDE DEF r
    <2>2. Sound(r) /\ Started(r)
        BY <1>1, <1>2, <1>3, <2>1 DEF Sound, Started
    <2>3. Sound(Rest(w)) /\ Started(Rest(w))
        BY <1>5, <2>2 DEF r
    <2>4. ~w.nl => ~w.gone
        BY <1>3, <1>5 DEF Sound
    <2>5. k \in W => ~w.nl
        BY <1>1, <1>2, <1>5
    <2>6. sque[k].busy => w.busy
        BY <1>2, <1>5
    <2> QED
        BY <2>3, <2>4, <2>5, <2>6, RanQuiet
<1> QED
    BY <1>4, <1>5 DEF x

LEMMA RequestQuiet ==
    ASSUME QuietInv, NEW k \in VSIs, NEW m \in ReqModes, NEW i \in Vids,
           NEW c \in Clients, vdp22_request(k, m, i, c)
    PROVE  QuietInv' /\ SilentStep
<1> DEFINE v == sque[k]
<1>1. CASE v = None
    <2> DEFINE n == NewVsi(k, m, i, c)
               x == Work(n, running)
               w == vdp22st_run(x)
               W == IF w.nl THEN waiting ELSE waiting \cup {k}
    <2>1. StRan(k, w) /\ waiting' = Told(k, w, W)
        BY <1>1 DEF vdp22_request
    <2>2. DOMAIN n = StFields
        BY DEF NewVsi, StFields
    <2>3. /\ n.st = "BEGIN" /\ n.status = "none" /\ n.resp_ok = FALSE
          /\ n.del = FALSE /\ n.gone = FALSE
        BY DEF NewVsi
    <2> HIDE DEF n
    <2>4. /\ DOMAIN x = StFields
          /\ x.st = n.st /\ x.status = n.status /\ x.resp_ok = n.resp_ok
          /\ x.del = n.del /\ x.gone = n.gone
        BY <2>2 DEF Work, StFields
    <2> HIDE DEF x
    <2>5. Sound(x)
        BY <2>3, <2>4 DEF Sound, StStates, Statuses
    <2>6. /\ ~w.nl /\ w.gone => w.ev
          /\ w.gone \/ (Sound(Rest(w)) /\ Started(Rest(w)))
        BY <2>5, RunQuiet
    <2> HIDE DEF w
    <2>7. k \notin waiting
        BY <1>1 DEF QuietInv
    <2>8. /\ W = waiting \/ W = waiting \cup {k}
          /\ k \in W => ~w.nl
        BY <2>7
    <2> HIDE DEF W
    <2> QED
        BY <1>1, <2>1, <2>6, <2>7, <2>8, RanQuiet
<1>2. CASE v # None
    <2> DEFINE u == vdp22_modvsi(v, m)
               w == vdp22st_run(Work(u, running))
               W == IF w.nl THEN waiting ELSE waiting \cup {k}
    <2>1. StRan(k, w) /\ waiting' = Told(k, w, W)
        BY <1>2 DEF vdp22_request
    <2>2. Sound(v) /\ Started(v)
        BY <1>2 DEF QuietInv
    <2> HIDE DEF v
    <2>3. /\ DOMAIN u = StFields
          /\ u.st = v.st /\ u.nl = v.nl /\ u.del = v.del
          /\ u.gone = v.gone /\ u.ev = v.ev
          /\ u.status = v.status /\ u.resp_ok = v.resp_ok
          /\ u.busy = TRUE
        BY <2>2 DEF Sound, StFields, vdp22_modvsi
    <2> HIDE DEF u
    <2>4. w.nl = u.nl
        <3> DEFINE x == Work(u, running)
        <3>1. /\ DOMAIN x = StFields
              /\ x.st = u.st /\ x.status = u.status
              /\ x.resp_ok = u.resp_ok /\ x.nl = u.nl
              /\ x.del = u.del /\ x.gone = u.gone /\ x.ev = u.ev
            BY <2>3 DEF Work, StFields
        <3> HIDE DEF x
        <3>2. Sound(x)
            BY <2>2, <2>3, <3>1 DEF Sound
        <3>3. vdp22st_run(x).nl = x.nl
            BY <3>2, RunQuiet
        <3> QED
            BY <3>1, <3>3 DEF x
    <2>5. W = waiting \/ (W = waiting \cup {k} /\ ~u.nl)
        BY <2>4
    <2>6. u.status \in Statuses /\ (u.resp_ok => u.status # "none")
        BY <2>2, <2>3 DEF Sound
    <2>7. w \in {Work(u, running), vdp22st_run(Work(u, running))}
        OBVIOUS
    <2> HIDE DEF w, W
    <2> QED
        BY <1>2, <2>1, <2>3, <2>5, <2>6, <2>7, ResumeQuiet DEF v
<1> QED
    BY <1>1, <1>2

LEMMA PollsQuiet ==
    ASSUME QuietInv, NEW k \in VSIs,
           vdp22_status(k) \/ (\E i \in Vids : filter_mismatch(k, i))
    PROVE  QuietInv' /\ SilentStep
<1> DEFINE v == sque[k]
           s == [v EXCEPT !.status = "bad"]
           n == [v EXCEPT !.nlcmd = FALSE]
<1>1. /\ v # None /\ UNCHANGED waiting
      /\ \E w \in {None, s, n} : sque' = [sque EXCEPT ![k] = w]
                                   /\ (w = None => v.del)
    <2>1. CASE vdp22_status(k)
        <3>1. /\ v # None /\ UNCHANGED waiting
              /\ sque' = [sque EXCEPT ![k] =
                           IF v.status # "none" /\ v.del THEN None ELSE n]
            BY <2>1 DEF vdp22_status
        <3>2. DOMAIN v = StFields
            BY <3>1 DEF QuietInv, Sound
        <3>3. n # None
            <4>1. DOMAIN n = StFields
                BY <3>2
            <4> QED
                BY <4>1, NotNone
        <3> HIDE DEF n, s
        <3>4. CASE v.status # "none" /\ v.del
            BY <3>1, <3>4
        <3>5. CASE ~(v.status # "none" /\ v.del)
            BY <3>1, <3>3, <3>5
        <3> QED
            BY <3>4, <3>5
    <2>2. CASE \E i \in Vids : filter_mismatch(k, i)
        <3>1. v # None /\ UNCHANGED waiting /\ sque' = [sque EXCEPT ![k] = s]
            BY <2>2 DEF filter_mismatch
        <3>2. DOMAIN v = StFields
            BY <3>1 DEF QuietInv, Sound
        <3>3. s # None
            <4>1. DOMAIN s = StFields
                BY <3>2
            <4> QED
                BY <4>1, NotNone
        <3> QED
            BY <3>1, <3>3
    <2> QED
        BY <2>1, <2>2
<1>2. /\ Sound(v) /\ Started(v) /\ ~v.ev
      /\ k \in waiting => ~v.nl
    BY <1>1 DEF QuietInv
<1>3. PICK w \in {None, s, n} : sque' = [sque EXCEPT ![k] = w]
                                  /\ (w = None => v.del)
    BY <1>1
<1>4. w # None => /\ Sound(w) /\ Started(w) /\ ~w.ev
                  /\ w.nl = v.nl /\ w.busy = v.busy
    <2> HIDE DEF v
    <2>1. /\ DOMAIN s = StFields
          /\ s.st = v.st /\ s.nl = v.nl /\ s.del = v.del
          /\ s.gone = v.gone /\ s.ev = v.ev /\ s.busy = v.busy
          /\ s.status = "bad"
        BY <1>2 DEF Sound, StFields
    <2>2. /\ DOMAIN n = StFields
          /\ n.st = v.st /\ n.nl = v.nl /\ n.del = v.del
          /\ n.gone = v.gone /\ n.ev = v.ev /\ n.busy = v.busy
          /\ n.status = v.status /\ n.resp_ok = v.resp_ok
        BY <1>2 DEF Sound, StFields
    <2>3. s.resp_ok = v.resp_ok
        BY <1>2 DEF Sound, StFields
    <2> HIDE DEF s, n
    <2> QED
        BY <1>2, <1>3, <2>1, <2>2, <2>3 DEF Sound, Started, Statuses
<1> HIDE DEF s, n
<1>5. /\ DOMAIN sque' = VSIs /\ sque'[k] = w
      /\ \A j \in VSIs \ {k} : sque'[j] = sque[j]
    BY <1>3 DEF QuietInv
<1>6. k \in waiting => w # None
    BY <1>2, <1>3 DEF Sound
<1>7. QuietInv'
    <2>1. \A j \in VSIs : sque'[j] # None =>
             Sound(sque'[j]) /\ Started(sque'[j]) /\ ~sque'[j].ev
        BY <1>4, <1>5 DEF QuietInv
    <2>2. \A j \in waiting : sque'[j] # None /\ ~sque'[j].nl
        BY <1>2, <1>4, <1>5, <1>6 DEF QuietInv
    <2> QED
        BY <1>1, <1>5, <2>1, <2>2 DEF QuietInv
<1>8. SilentStep
    BY <1>1, <1>4, <1>5, <1>6 DEF SilentStep, QuietInv
<1> QED
    BY <1>7, <1>8

LEMMA StTimeoutsQuiet ==
    ASSUME QuietInv, NEW k \in VSIs,
           \/ vdp22st_handle_kato(k) \/ vdp22st_handle_ackto(k)
           \/ vdp22_localchange_handler(k)
    PROVE  QuietInv' /\ SilentStep
<1> DEFINE v == sque[k]
           a == [v EXCEPT !.ka = @ - 1, !.kato = TRUE]
           b == [v EXCEPT !.ackt = @ - 1]
           c == [b EXCEPT !.acktimeout = TRUE]
           d == [v EXCEPT !.lc = FALSE]
<1>1. /\ v # None
      /\ \E u \in {a, b, c, d} :
         \E w \in {Work(u, running), vdp22st_run(Work(u, running))} :
            StRan(k, w) /\ waiting' = Told(k, w, waiting)
    <2>1. CASE vdp22st_handle_kato(k)
        BY <2>1 DEF vdp22st_handle_kato
    <2>2. CASE vdp22st_handle_ackto(k)
        BY <2>2 DEF vdp22st_handle_ackto
    <2>3. CASE vdp22_localchange_handler(k)
        BY <2>3 DEF vdp22_localchange_handler
    <2> QED
        BY <2>1, <2>2, <2>3
<1>2. Sound(v)
    BY <1>1 DEF QuietInv
<1>3. PICK u \in {a, b, c, d} :
      \E w \in {Work(u, running), vdp22st_run(Work(u, running))} :
            StRan(k, w) /\ waiting' = Told(k, w, waiting)
    BY <1>1
<1>4. PICK w \in {Work(u, running), vdp22st_run(Work(u, running))} :
            StRan(k, w) /\ waiting' = Told(k, w, waiting)
    BY <1>3
<1>5. /\ DOMAIN u = StFields
      /\ u.st = v.st /\ u.nl = v.nl /\ u.del = v.del
      /\ u.gone = v.gone /\ u.ev = v.ev /\ u.busy = v.busy
      /\ u.status = v.status /\ u.resp_ok = v.resp_ok
    <2> HIDE DEF v
    <2>1. CASE u = a
        BY <1>2, <2>1 DEF Sound, StFields
    <2>2. CASE u = b
        BY <1>2, <2>2 DEF Sound, StFields
    <2>3. CASE u = c
        <3>1. /\ DOMAIN b = StFields
              /\ b.st = v.st /\ b.nl = v.nl /\ b.del = v.del
              /\ b.gone = v.gone /\ b.ev = v.ev /\ b.busy = v.busy
              /\ b.status = v.status /\ b.resp_ok = v.resp_ok
            BY <1>2 DEF Sound, StFields
        <3> HIDE DEF b
        <3> QED
            BY <2>3, <3>1 DEF StFields
    <2>4. CASE u = d
        BY <1>2, <2>4 DEF Sound, StFields
    <2> QED
        BY <1>3, <2>1, <2>2, <2>3, <2>4
<1>6. u.status \in Statuses /\ (u.resp_ok => u.status # "none")
    BY <1>2, <1>5 DEF Sound
<1> QED
    BY <1>1, <1>4, <1>5, <1>6, ResumeQuiet

LEMMA EvbQuiet ==
    ASSUME QuietInv, vdp22_start \/ vdp22_stop
    PROVE  QuietInv' /\ SilentStep
<1> DEFINE a(k) == [sque[k] EXCEPT !.localchg = TRUE, !.lc = TRUE]
           b(k) == [sque[k] EXCEPT !.ka = 0, !.ackt = 0]
<1>1. /\ DOMAIN sque' = VSIs /\ UNCHANGED waiting
      /\ \A k \in VSIs : /\ sque[k] = None => sque'[k] = None
                         /\ sque[k] # None => sque'[k] \in {a(k), b(k)}
    BY DEF vdp22_start, vdp22_stop
<1>2. ASSUME NEW k \in VSIs, sque[k] # None
      PROVE  /\ sque'[k] # None
             /\ Sound(sque'[k]) /\ Started(sque'[k]) /\ ~sque'[k].ev
             /\ sque'[k].nl = sque[k].nl /\ sque'[k].busy = sque[k].busy
    <2> DEFINE v == sque[k]
               u == sque'[k]
    <2>1. Sound(v) /\ Started(v) /\ ~v.ev /\ u \in {a(k), b(k)}
        BY <1>1, <1>2 DEF QuietInv
    <2>2. /\ DOMAIN u = StFields
          /\ u.st = v.st /\ u.nl = v.nl /\ u.del = v.del
          /\ u.gone = v.gone /\ u.ev = v.ev /\ u.busy = v.busy
          /\ u.status = v.status /\ u.resp_ok = v.resp_ok
        <3>1. DOMAIN v = StFields
            BY <2>1 DEF Sound
        <3>2. \/ u = [v EXCEPT !.localchg = TRUE, !.lc = TRUE]
              \/ u = [v EXCEPT !.ka = 0, !.ackt = 0]
            BY <2>1
        <3> HIDE DEF u, v
        <3>3. CASE u = [v EXCEPT !.localchg = TRUE, !.lc = TRUE]
            BY <3>1, <3>3 DEF StFields
        <3>4. CASE u = [v EXCEPT !.ka = 0, !.ackt = 0]
            BY <3>1, <3>4 DEF StFields
        <3> QED
            BY <3>2, <3>3, <3>4
    <2> HIDE DEF u, v
    <2>3. u # None /\ Sound(u) /\ Started(u) /\ ~u.ev
        BY <2>1, <2>2, NotNone DEF Sound, Started
    <2> QED
        BY <2>2, <2>3 DEF u, v
<1> HIDE DEF a, b
<1>3. QuietInv'
    BY <1>1, <1>2 DEF QuietInv
<1>4. SilentStep
    BY <1>1, <1>2 DEF SilentStep, QuietInv
<1> QED
    BY <1>3, <1>4, Zenon

LEMMA BridgeInfoQuiet ==
    ASSUME QuietInv, GrantInv, vdp22_bridge_info
    PROVE  QuietInv' /\ SilentStep
<1> DEFINE m == input["station"].buf
           k == m.vsi
           v == sque[k]
           u == TakeAnswer(v, m)
           w == vdp22st_run(Work(u, running))
<1>1. m \in Msgs /\ k \in VSIs /\ m.st \in {"ok", "bad", "keep"}
    <2>1. input["station"].n > 0
        BY DEF vdp22_bridge_info, Processed
    <2>2. m \in Msgs
        BY <2>1 DEF GrantInv, InputInv, Ends
    <2> QED
        BY <2>2 DEF Msgs
<1>2. CASE response_ok(m) /\ v # None
    <2>1. StRan(k, w) /\ waiting' = Told(k, w, waiting)
        BY <1>2 DEF vdp22_bridge_info
    <2>2. Sound(v)
        BY <1>1, <1>2 DEF QuietInv
    <2>3. /\ DOMAIN u = StFields
          /\ u.st = v.st /\ u.nl = v.nl /\ u.del = v.del
          /\ u.gone = v.gone /\ u.ev = v.ev /\ u.busy = v.busy
          /\ u.status \in {"ok", "bad", "keep"}
        <3> DEFINE un == ~m.ack /\ m.mode = DEASSOC
                   st == IF un THEN "ok" ELSE m.st
                   a == [v EXCEPT !.ackreceived = TRUE, !.acktimeout = FALSE,
                                  !.ackt = 0, !.deassoc = un, !.status = st]
                   no == a.notify \/ (/\ v.cc # DEASSOC /\ ~v.nlcmd
                                      /\ m.mode = DEASSOC \/ a.status = "bad")
                   b == [a EXCEPT !.resp_ok = TRUE, !.resp = m.mode,
                                  !.vid = m.vid, !.notify = no]
                   c == [a EXCEPT !.status = "bad"]
        <3>1. u \in {b, c}
            BY DEF TakeAnswer
        <3>2. st \in {"ok", "bad", "keep"}
            BY <1>1
        <3> HIDE DEF un, st, v, m, u
        <3>3. /\ DOMAIN a = StFields
              /\ a.st = v.st /\ a.nl = v.nl /\ a.del = v.del
              /\ a.gone = v.gone /\ a.ev = v.ev /\ a.busy = v.busy
              /\ a.status = st
            BY <2>2 DEF Sound, StFields
        <3> HIDE DEF a, no
        <3>4. /\ DOMAIN b = StFields
              /\ b.st = a.st /\ b.nl = a.nl /\ b.del = a.del
              /\ b.gone = a.gone /\ b.ev = a.ev /\ b.busy = a.busy
              /\ b.status = a.status
            BY <3>3 DEF StFields
        <3>5. /\ DOMAIN c = StFields
              /\ c.st = a.st /\ c.nl = a.nl /\ c.del = a.del
              /\ c.gone = a.gone /\ c.ev = a.ev /\ c.busy = a.busy
              /\ c.status = "bad"
            BY <3>3 DEF StFields
        <3> HIDE DEF b, c
        <3> QED
            BY <3>1, <3>2, <3>3, <3>4, <3>5
    <2>4. u.status \in Statuses /\ (u.resp_ok => u.status # "none")
        BY <2>3 DEF Statuses
    <2>5. w \in {Work(u, running), vdp22st_run(Work(u, running))}
        OBVIOUS
    <2> HIDE DEF u, w, k, m
    <2> QED
        BY <1>1, <1>2, <2>1, <2>3, <2>4, <2>5, ResumeQuiet
<1>3. CASE ~(response_ok(m) /\ v # None)
    <2>1. UNCHANGED <<sque, waiting>>
        BY <1>3 DEF vdp22_bridge_info
    <2> QED
        BY <2>1 DEF QuietInv, SilentStep
<1> QED
    BY <1>2, <1>3

\* A step that finishes the request of an attached client tells the client,
\* unless the bridge answered with the KEEP bit (vdp22st_run(), vdp22_back()).
THEOREM ClientsAreTold == Spec => SilentOnlyIfKept
<1>1. Init => QuietInv
    BY DEF Init, QuietInv
<1>2. QuietInv /\ GrantInv /\ [Next]_vars => QuietInv' /\ SilentStep
    <2> SUFFICES ASSUME QuietInv, GrantInv, [Next]_vars
                 PROVE  QuietInv' /\ SilentStep
        OBVIOUS
    <2>1. CASE \E k \in VSIs, m \in ReqModes, i \in Vids, c \in Clients :
                 vdp22_request(k, m, i, c)
        BY <2>1, RequestQuiet
    <2>2. CASE \E k \in VSIs : vdp22_status(k)
                                 \/ \E i \in Vids : filter_mismatch(k, i)
        BY <2>2, PollsQuiet
    <2>3. CASE \E k \in VSIs : \/ vdp22st_handle_kato(k)
                               \/ vdp22st_handle_ackto(k)
                               \/ vdp22_localchange_handler(k)
        BY <2>3, StTimeoutsQuiet
    <2>4. CASE vdp22_start \/ vdp22_stop
        BY <2>4, EvbQuiet
    <2>5. CASE vdp22_bridge_info
        BY <2>5, BridgeInfoQuiet
    <2>6. ASSUME UNCHANGED <<sque, waiting>>
          PROVE  QuietInv' /\ SilentStep
        BY <2>6 DEF QuietInv, SilentStep
    <2>7. CASE \E k \in VSIs : vdp22br_handle_kato(k) \/ vdp22br_handle_resto(k)
        BY <2>6, <2>7 DEF vdp22br_handle_kato, vdp22br_handle_resto
    <2>8. CASE data_from_evb
        BY <2>6, <2>8 DEF data_from_evb
    <2>9. CASE \E end \in Ends : data_from_ecp(end) \/ ecp_gives_up(end)
        BY <2>6, <2>9 DEF data_from_ecp, ecp_gives_up
    <2>10. CASE \E o \in Outcomes : vdp22_station_info(o)
        BY <2>6, <2>10 DEF vdp22_station_info
    <2>11. CASE UNCHANGED vars
        BY <2>6, <2>11 DEF vars
    <2> QED
        BY <2>1, <2>2, <2>3, <2>4, <2>5, <2>7, <2>8, <2>9, <2>10, <2>11
        DEF Next
<1>3. SilentStep => (\A k \in waiting \cap waiting' :
         sque[k] # None /\ sque[k].busy =>
            sque'[k] # None /\ (sque'[k].busy \/ sque'[k].status = "keep"))
    BY DEF SilentStep
<1> QED
    BY <1>1, <1>2, <1>3, GrantAlways, PTL DEF Spec, SilentOnlyIfKept
=============================================================================
