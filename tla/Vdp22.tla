------------------------------- MODULE Vdp22 --------------------------------
(* VDP of IEEE 802.1Qbg as ratified: the station and the bridge machines of  *)
(* qbg/vdp22sm.c, the requests and the queue of VSIs of qbg/vdp22.c, and the *)
(* bridge's resources of qbg/vdp22br.c.  A station associates virtual        *)
(* station interfaces (VSIs) with a bridge; both ends hold one machine per   *)
(* VSI and exchange VSI TLVs through ECP, which keeps their order and may    *)
(* give a TLV up.  A machine runs to completion on every event               *)
(* (vdp22st_run(), vdp22br_run()); the operators below act on the record of  *)
(* one VSI and collect what the run sends and reports.                       *)
EXTENDS Integers, Sequences

CONSTANTS
    VSIs,           \* keys: manager, type, version, identifier, format
    Vids,           \* VLAN ids of filters; 0 is the wildcard
    ReqModes,       \* modes a client asks for
    Outcomes,       \* what vdp22br_resources() returns for an association
    Clients,        \* subset of {"netlink", "attached"}
    Capacity,       \* bound on TLVs with ECP, per direction
    MaxPending,     \* bound on TLVs delivered within the 2 ms of a timeout
    MaxRequests,    \* bound on accepted requests
    MayStop         \* EVB stops VDP, once at most

PREASSOC == 1
PREASSOC_WITH_RR == 2
ASSOC == 3
DEASSOC == 4
Modes == {PREASSOC, PREASSOC_WITH_RR, ASSOC, DEASSOC}

ASSUME VidsAssumption ==
    Vids \subseteq Nat /\ ("change" \in Outcomes => \E i \in Vids : i # 0)
ASSUME ModesAssumption == ReqModes \subseteq Modes
ASSUME OutcomesAssumption ==
    Outcomes \subseteq {"success", "change", "timeout", "keep", "deassoc"}
ASSUME ClientsAssumption == Clients \subseteq {"netlink", "attached"}
ASSUME BoundsAssumption ==
    Capacity \in Nat \ {0} /\ MaxPending \in Nat \ {0} /\ MaxRequests \in Nat

VARIABLES
    sque,       \* the station's queue: VSI -> machine, None when not queued
    bque,       \* the bridge's queue
    toBridge, toStation,    \* TLVs handed to ECP
    input,      \* end -> [buf, n]: struct vdp22's input and its timeouts
    running,    \* EVB started ECP and VDP at the station
    evbon,      \* the station's vdp->evbon
    requests,   \* accepted requests
    waiting,    \* VSIs an attached client waits for
    granted,    \* VSI -> modes the bridge has granted so far
    everStopped \* vdp22_stop() happened

vars == <<sque, bque, toBridge, toStation, input, running, evbon, requests,
          waiting, granted, everStopped>>

None == [none |-> TRUE]

\* The status byte: no response yet, no error, an error, an error with KEEP.
Statuses == {"none", "ok", "bad", "keep"}

\* A VSI TLV; ack is the ACK bit of its status.
Msgs == [vsi : VSIs, mode : Modes, ack : BOOLEAN, st : {"ok", "bad", "keep"},
         vid : Vids]

\* States in which the station machine waits for an event.
StStable == {"STATION_PROCWAIT", "WAIT_SYSCMD_2", "TXMIT_KAWAIT",
             "TXMIT_DEAWAIT", "END"}

\* struct vsi22 and its struct vdp22smi at the station, with the number of
\* registered timeouts of each handler.
StVsi == [vsi : VSIs, st : StStable, mode : Modes, cc : Modes, resp : 0..4,
          status : Statuses, busy : BOOLEAN, del : BOOLEAN, notify : BOOLEAN,
          nlcmd : BOOLEAN, nl : BOOLEAN, vid : Vids,
          kato : BOOLEAN, ackreceived : BOOLEAN, acktimeout : BOOLEAN,
          localchg : BOOLEAN, deassoc : BOOLEAN, resp_ok : BOOLEAN,
          txmit_error : BOOLEAN, ka : 0..1, ackt : 0..1, lc : BOOLEAN,
          tx : {None}, ev : {FALSE}, gone : {FALSE}, up : {FALSE}]

Resps == {"none", "success", "keep", "deassoc", "timeout"}

BrVsi == [vsi : VSIs, st : {"BR_PROCESS", "BR_WAITCMD"}, mode : Modes,
          cc : Modes, resp : Resps, ack : BOOLEAN, status : Statuses,
          busy : BOOLEAN, localchg : BOOLEAN, kato : BOOLEAN,
          resp_ok : BOOLEAN, vid : Vids, ka : 0..1, res : 0..1,
          tx : {None}, ev : {FALSE}, gone : {FALSE}, up : {FALSE}]

Ends == {"station", "bridge"}

TypeOK ==
    /\ sque \in [VSIs -> StVsi \cup {None}]
    /\ bque \in [VSIs -> BrVsi \cup {None}]
    /\ toBridge \in Seq(Msgs) /\ Len(toBridge) <= Capacity
    /\ toStation \in Seq(Msgs) /\ Len(toStation) <= Capacity
    /\ input \in [Ends -> [buf : Msgs \cup {None}, n : 0..MaxPending]]
    /\ running \in BOOLEAN /\ evbon \in BOOLEAN
    /\ requests \in 0..MaxRequests
    /\ waiting \subseteq VSIs
    /\ granted \in [VSIs -> SUBSET Modes]
    /\ everStopped \in BOOLEAN

Init ==
    /\ sque = [k \in VSIs |-> None]
    /\ bque = [k \in VSIs |-> None]
    /\ toBridge = <<>> /\ toStation = <<>>
    /\ input = [e \in Ends |-> [buf |-> None, n |-> 0]]
    /\ running = FALSE /\ evbon = FALSE
    /\ requests = 0
    /\ waiting = {}
    /\ granted = [k \in VSIs |-> {}]
    /\ everStopped = FALSE

-----------------------------------------------------------------------------
(* The station machine.  Only while it runs the record also holds: tx, the   *)
(* TLV handed to ECP; ev, whether an attached client was sent an event; gone, *)
(* whether the VSI was taken off the queue; up, whether ECP takes TLVs.       *)

\* f at the value v, which TLC evaluates once.
Apply(f(_), v) == CHOOSE e \in {f(u) : u \in {v}} : TRUE

\* A machine about to run, and one that has.
Work(v, up) == [v EXCEPT !.up = up]
Rest(v) == [v EXCEPT !.tx = None, !.ev = FALSE, !.gone = FALSE, !.up = FALSE]

\* vdp22_2tlv and the packing helpers: the VSI TLV of a machine.
VsiTlv(v, ack, st) ==
    [vsi |-> v.vsi, mode |-> v.mode, ack |-> ack, st |-> st, vid |-> v.vid]

\* vdp22st_start_acktimer()
vdp22st_start_acktimer(v) ==
    [v EXCEPT !.txmit_error = FALSE, !.ackreceived = FALSE,
              !.acktimeout = FALSE, !.resp_ok = FALSE, !.localchg = FALSE,
              !.ackt = @ + 1]

\* vdp22st_process(): hands the TLV to ECP; only then the keep-alive timer
\* stops and the response wait starts.
vdp22st_process(v) ==
    IF v.up
    THEN vdp22st_start_acktimer(
            [v EXCEPT !.tx = VsiTlv(v, FALSE, "ok"), !.ka = 0])
    ELSE [v EXCEPT !.txmit_error = TRUE]

\* vdp22_back() for an attached client.
vdp22_clntback(v) ==
    IF v.nl THEN v
    ELSE [v EXCEPT !.ev = TRUE, !.gone = v.del]

\* vdp22_back() for a netlink client.
vdp22_nlback(v) == IF v.nl THEN [v EXCEPT !.gone = v.del] ELSE v

\* vdp22st_assoc_compl()
vdp22st_assoc_compl(v) == [v EXCEPT !.busy = FALSE, !.resp = 0]

\* vdp22st_assoc_new()
vdp22st_assoc_new(v) == [vdp22st_assoc_compl(v) EXCEPT !.cc = v.resp]

\* vdp22st_start_katimer()
vdp22st_start_katimer(v) == [v EXCEPT !.kato = FALSE, !.ka = @ + 1]

\* vdp22st_txdea()
vdp22st_txdea(v) == vdp22st_process([v EXCEPT !.mode = DEASSOC, !.busy = TRUE])

\* Mutant: only netlink clients are told of the end.
EndsSilently(v) ==
    LET e == [v EXCEPT !.ackt = 0, !.ka = 0, !.mode = DEASSOC,
                       !.cc = DEASSOC, !.del = TRUE, !.busy = FALSE]
    IN  IF v.notify THEN vdp22_nlback(e) ELSE e

\* vdp22st_end()
vdp22st_end(v) ==
    LET e == [v EXCEPT !.ackt = 0, !.ka = 0, !.mode = DEASSOC,
                       !.cc = DEASSOC, !.del = TRUE, !.busy = FALSE]
    IN  Apply(vdp22_clntback, IF v.notify THEN vdp22_nlback(e) ELSE e)

\* What vdp22st_run() does in the state the machine is in.
StEnter(v) ==
    CASE v.st = "INIT" -> [v EXCEPT !.status = "none"]
      [] v.st \in {"STATION_PROC", "TXMIT_KA"} -> vdp22st_process(v)
      [] v.st \in {"ASSOC_NEW", "PREASSOC_NEW"} ->
            vdp22_clntback(vdp22st_assoc_new(v))
      [] v.st \in {"ASSOC_COMPL", "TXMIT_DEAWAIT_2"} -> vdp22st_assoc_compl(v)
      [] v.st = "WAIT_SYSCMD" -> vdp22st_start_katimer(v)
      [] v.st = "TXMIT_DEASSOC" -> vdp22st_txdea(v)
      [] OTHER -> v

\* Waiting for the response to a TLV: three states of the machine.
StAwaits(v, answered) ==
    IF v.txmit_error \/ v.acktimeout THEN "END"
    ELSE IF v.ackreceived THEN answered
    ELSE v.st

\* vdp22st_move_state(): the next state, the same one when the run stops.
vdp22st_move_state(v) ==
    CASE v.st = "BEGIN" -> "INIT"
      [] v.st = "INIT" -> "STATION_PROC"
      [] v.st = "STATION_PROC" -> "STATION_PROCWAIT"
      [] v.st = "STATION_PROCWAIT" -> StAwaits(v, "STATION_PROCWAIT_2")
      [] v.st = "STATION_PROCWAIT_2" ->
            IF ~v.resp_ok \/ v.status = "bad" THEN "END"
            ELSE IF v.status \in {"keep", "none"}
                 THEN IF v.resp = ASSOC THEN "ASSOC_COMPL" ELSE "END"
            ELSE IF v.resp \in {PREASSOC, PREASSOC_WITH_RR}
                 THEN "PREASSOC_NEW"
            ELSE IF v.resp = DEASSOC THEN "END"
            ELSE "ASSOC_NEW"
      [] v.st = "ASSOC_NEW" -> "ASSOC_COMPL"
      [] v.st \in {"ASSOC_COMPL", "PREASSOC_NEW"} -> "WAIT_SYSCMD"
      [] v.st = "WAIT_SYSCMD" -> "WAIT_SYSCMD_2"
      [] v.st = "WAIT_SYSCMD_2" ->
            IF v.kato THEN "TXMIT_KA"
            ELSE IF v.localchg THEN "STATION_PROC"
            ELSE IF v.deassoc THEN "END"
            ELSE "WAIT_SYSCMD_2"
      [] v.st = "TXMIT_KA" -> "TXMIT_KAWAIT"
      [] v.st = "TXMIT_KAWAIT" -> StAwaits(v, "TXMIT_KAWAIT_2")
      [] v.st = "TXMIT_KAWAIT_2" ->
            IF ~v.resp_ok \/ v.status = "bad" THEN "END"
            ELSE IF v.status \in {"keep", "none"} /\ v.resp = ASSOC
                 THEN "TXMIT_DEASSOC"
            ELSE IF v.resp = DEASSOC THEN "END"
            ELSE "WAIT_SYSCMD"
      [] v.st = "TXMIT_DEASSOC" -> "TXMIT_DEAWAIT"
      [] v.st = "TXMIT_DEAWAIT" -> StAwaits(v, "TXMIT_DEAWAIT_2")
      [] v.st = "TXMIT_DEAWAIT_2" -> "END"
      [] v.st = "END" -> "END"

StStep(v) ==
    LET s == vdp22st_move_state(v)
    IN  IF s = v.st THEN v ELSE Apply(StEnter, [v EXCEPT !.st = s])

\* A run makes at most eight moves before it stops, and then none.
StTwice(v) == Apply(StStep, Apply(StStep, v))

StEnded(v) == IF v.st = "END" THEN vdp22st_end(v) ELSE v

\* vdp22st_run()
vdp22st_run(v) ==
    Apply(StEnded,
        Apply(StTwice, Apply(StTwice, Apply(StTwice, Apply(StTwice, v)))))

-----------------------------------------------------------------------------
(* What the station does with the outcome of a run                          *)

\* The machine of VSI k has run: queue it or delete it, send its TLV, tell
\* its client.
StRan(k, w) ==
    /\ w.tx # None => Len(toBridge) < Capacity
    /\ sque' = [sque EXCEPT ![k] =
                  IF w.gone THEN None ELSE Rest(w)]
    /\ toBridge' = IF w.tx = None THEN toBridge ELSE Append(toBridge, w.tx)

\* The attached client of VSI k got its event.
Told(k, w, W) == IF w.ev THEN W \ {k} ELSE W

\* vdp22_alloc_vsi_int() and vdp22_addvsi(): a machine for a new VSI.
NewVsi(k, m, i, c) ==
    [vsi |-> k, st |-> "BEGIN", mode |-> m, cc |-> DEASSOC, resp |-> 0,
     status |-> "none", busy |-> TRUE, del |-> FALSE, notify |-> FALSE,
     nlcmd |-> TRUE, nl |-> (c = "netlink"), vid |-> i, kato |-> FALSE,
     ackreceived |-> FALSE, acktimeout |-> FALSE, localchg |-> FALSE,
     deassoc |-> FALSE, resp_ok |-> FALSE, txmit_error |-> FALSE,
     ka |-> 0, ackt |-> 0, lc |-> FALSE,
     tx |-> None, ev |-> FALSE, gone |-> FALSE, up |-> FALSE]

\* cmp_fdata1(): the wildcard matches every VLAN id.
cmp_fdata(mine, other) == mine = 0 \/ mine = other

\* vdp22_modvsi(): refuses a dying VSI and a step back.
CanModify(v, m) == ~v.del /\ v.mode <= m
vdp22_modvsi(v, m) ==
    [v EXCEPT !.mode = m, !.localchg = TRUE, !.busy = TRUE, !.nlcmd = TRUE]

stVars == <<running, evbon, everStopped>>
brVars == <<bque, toStation, granted>>

\* vdp22_request() and vdp22_addreq(), accepted: a new VSI, or a change of
\* one that is not busy and has the same filter.
vdp22_request(k, m, i, c) ==
    LET v == sque[k]
        new == v = None
    IN  /\ evbon /\ requests < MaxRequests
        /\ IF new THEN m # DEASSOC
           ELSE ~v.busy /\ cmp_fdata(v.vid, i) /\ CanModify(v, m)
        /\ \E w \in {vdp22st_run(Work(IF new THEN NewVsi(k, m, i, c)
                                      ELSE vdp22_modvsi(v, m), running))} :
             /\ StRan(k, w)
             /\ waiting' = Told(k, w, IF w.nl THEN waiting
                                      ELSE waiting \cup {k})
        /\ requests' = requests + 1
        /\ UNCHANGED <<brVars, input, stVars>>

\* vdp22_addreq() and vdp22_partial_vsi_equal(): a request or a query whose
\* filter does not match changes the status of the VSI that is queued.
filter_mismatch(k, i) ==
    /\ sque[k] # None /\ ~cmp_fdata(sque[k].vid, i)
    /\ sque[k].status # "bad"
    /\ sque' = [sque EXCEPT ![k].status = "bad"]
    /\ UNCHANGED <<brVars, toBridge, input, stVars, requests, waiting>>

\* vdp22_status(): a client polls; a deleted VSI leaves the queue when a
\* response is there to be reported.
vdp22_status(k) ==
    /\ sque[k] # None
    /\ sque[k].nlcmd \/ sque[k].del
    /\ sque' = [sque EXCEPT ![k] =
                  IF @.status # "none" /\ @.del THEN None
                  ELSE [@ EXCEPT !.nlcmd = FALSE]]
    /\ UNCHANGED <<brVars, toBridge, input, stVars, requests, waiting>>

\* A timeout of VSI k runs: vdp22st_handle_kato(), vdp22st_handle_ackto()
\* and vdp22_localchange_handler().
vdp22st_handle_kato(k) ==
    /\ sque[k] # None /\ sque[k].ka > 0
    /\ UNCHANGED <<brVars, input, stVars, requests>>
    /\ \E w \in {vdp22st_run(Work([sque[k] EXCEPT !.ka = @ - 1,
                                                  !.kato = TRUE], running))} :
         StRan(k, w) /\ waiting' = Told(k, w, waiting)

\* Mutant: the timeout is noted and the machine not run.
NotesTimeout(k) ==
    /\ sque[k] # None /\ sque[k].ackt > 0
    /\ sque' = [sque EXCEPT ![k].ackt = @ - 1, ![k].acktimeout = TRUE]
    /\ UNCHANGED <<brVars, toBridge, input, stVars, requests, waiting>>

vdp22st_handle_ackto(k) ==
    /\ sque[k] # None /\ sque[k].ackt > 0
    /\ UNCHANGED <<brVars, input, stVars, requests>>
    /\ \E v \in {[sque[k] EXCEPT !.ackt = @ - 1]} :
       \E w \in {IF v.ackreceived THEN Work(v, running)
                 ELSE vdp22st_run(Work([v EXCEPT !.acktimeout = TRUE],
                                       running))} :
         StRan(k, w) /\ waiting' = Told(k, w, waiting)

vdp22_localchange_handler(k) ==
    /\ sque[k] # None /\ sque[k].lc
    /\ UNCHANGED <<brVars, input, stVars, requests>>
    /\ \E v \in {[sque[k] EXCEPT !.lc = FALSE]} :
       \E w \in {IF v.localchg THEN vdp22st_run(Work(v, running))
                 ELSE Work(v, running)} :
         StRan(k, w) /\ waiting' = Told(k, w, waiting)

-----------------------------------------------------------------------------
(* Start and stop by EVB                                                    *)

\* vdp22_start(), after ecp22_start(): every VSI that is queued is sent again.
vdp22_start ==
    /\ ~running
    /\ running' = TRUE
    /\ sque' = [k \in VSIs |->
                  IF sque[k] = None THEN None
                  ELSE [sque[k] EXCEPT !.localchg = TRUE, !.lc = TRUE]]
    /\ UNCHANGED <<brVars, toBridge, input, evbon, requests, waiting,
                   everStopped>>

\* data_from_evb()
data_from_evb ==
    /\ running /\ ~evbon
    /\ evbon' = TRUE
    /\ UNCHANGED <<sque, brVars, toBridge, input, running, requests, waiting,
                   everStopped>>

\* vdp22_stop(), after ecp22_stop(), which drops the TLVs it still holds.
vdp22_stop ==
    /\ running /\ MayStop /\ ~everStopped
    /\ running' = FALSE
    /\ everStopped' = TRUE
    /\ sque' = [k \in VSIs |-> IF sque[k] = None THEN None
                               ELSE [sque[k] EXCEPT !.ka = 0, !.ackt = 0]]
    /\ toBridge' = <<>> /\ toStation' = <<>>
    /\ UNCHANGED <<bque, input, evbon, requests, waiting, granted>>

-----------------------------------------------------------------------------
(* Delivery by ECP                                                          *)

\* data_from_ecp() and vdp22_from_ecp22(): the TLV replaces the one in the
\* input buffer, and a timeout of 2 ms is registered to process it.
Deliver(end, m) ==
    /\ input[end].n < MaxPending
    /\ input' = [input EXCEPT ![end] = [buf |-> m, n |-> @.n + 1]]

data_from_ecp(end) ==
    LET q == IF end = "station" THEN toStation ELSE toBridge
    IN  /\ q # <<>>
        /\ Deliver(end, Head(q))
        /\ IF end = "station"
           THEN toStation' = Tail(q) /\ UNCHANGED toBridge
           ELSE toBridge' = Tail(q) /\ UNCHANGED toStation
        /\ UNCHANGED <<sque, bque, granted, stVars, requests, waiting>>

\* ECP gives up the TLV it is sending: all retries were lost.
ecp_gives_up(end) ==
    /\ IF end = "station"
       THEN toStation # <<>> /\ toStation' = Tail(toStation)
            /\ UNCHANGED toBridge
       ELSE toBridge # <<>> /\ toBridge' = Tail(toBridge)
            /\ UNCHANGED toStation
    /\ UNCHANGED <<sque, bque, input, granted, stVars, requests, waiting>>

\* vdp22_ecp22in(): one of the registered timeouts processes the buffer.  A
\* buffer no timeout will read is shown empty.
Processed(end) ==
    /\ input[end].n > 0
    /\ input' = [input EXCEPT ![end] =
                   IF @.n = 1 THEN [buf |-> None, n |-> 0]
                   ELSE [buf |-> @.buf, n |-> @.n - 1]]

\* Mutant: the status bits of the answer are not looked at.
IgnoresStatus(v, m) ==
    [v EXCEPT !.ackreceived = TRUE, !.acktimeout = FALSE, !.ackt = 0,
              !.status = "ok", !.resp_ok = TRUE, !.resp = m.mode, !.vid = m.vid]

\* vdp22_cpfid() and the answer's bits, taken by the machine of the VSI.
TakeAnswer(v, m) ==
    LET unsolicited == ~m.ack /\ m.mode = DEASSOC
        a == [v EXCEPT !.ackreceived = TRUE, !.acktimeout = FALSE, !.ackt = 0,
                       !.deassoc = unsolicited,
                       !.status = IF unsolicited THEN "ok" ELSE m.st]
    IN  IF cmp_fdata(v.vid, m.vid)
        THEN [a EXCEPT !.resp_ok = TRUE, !.resp = m.mode, !.vid = m.vid,
                       !.notify = @ \/ (/\ v.cc # DEASSOC /\ ~v.nlcmd
                                        /\ m.mode = DEASSOC \/ a.status = "bad")]
        ELSE [a EXCEPT !.status = "bad"]

\* response_ok(): a TLV of the bridge needs the ACK bit or be a DEASSOC.
response_ok(m) == m.ack \/ m.mode = DEASSOC

\* vdp22_bridge_info(): the station takes a TLV of the bridge.
vdp22_bridge_info ==
    LET m == input["station"].buf
        k == m.vsi
    IN  /\ Processed("station")
        /\ UNCHANGED <<brVars, stVars, requests>>
        /\ IF response_ok(m) /\ sque[k] # None
           THEN \E w \in {vdp22st_run(Work(TakeAnswer(sque[k], m), running))} :
                  StRan(k, w) /\ waiting' = Told(k, w, waiting)
           ELSE UNCHANGED <<sque, toBridge, waiting>>

-----------------------------------------------------------------------------
(* The bridge machine                                                       *)

\* vdp22br_init()
vdp22br_init(v) ==
    [v EXCEPT !.busy = FALSE, !.cc = DEASSOC, !.resp = "none",
              !.localchg = TRUE, !.kato = FALSE, !.resp_ok = FALSE]

\* vdp22br_resources(): a station's DEASSOC frees the resources; the debug
\* build answers an association in one of the ways of Outcomes, and lets a
\* VSI wait once at a time.
vdp22br_resources(v, o) ==
    IF v.mode = DEASSOC THEN "deassoc"
    ELSE IF o = "change" \/ (o = "timeout" /\ v.res > 0) THEN "success"
    ELSE o

\* change_fid(): the debug build replaces the wildcard by a VLAN id.
change_fid(v, o) ==
    IF o = "change" /\ v.vid = 0 /\ v.mode # DEASSOC
    THEN [v EXCEPT !.vid = CHOOSE i \in Vids : i # 0] ELSE v

\* vdp22br_process(), vdp22br_start_restimer(): asks for the resources.
vdp22br_process(w, o) ==
    LET v == change_fid(w, o)
        rc == vdp22br_resources(v, o)
        st == CASE rc = "keep" -> "keep"
                [] rc = "deassoc" /\ v.mode # DEASSOC -> "bad"
                [] OTHER -> "ok"
    IN  IF rc = "timeout"
        THEN [v EXCEPT !.resp_ok = FALSE, !.resp = rc, !.status = "ok",
                       !.ack = FALSE, !.res = 1]
        ELSE [v EXCEPT !.resp_ok = TRUE, !.resp = rc, !.status = st,
                       !.ack = TRUE, !.res = 0]

\* vdp22br_reply()
vdp22br_reply(v) ==
    [v EXCEPT !.tx = VsiTlv(v, v.ack, v.status), !.busy = FALSE,
              !.localchg = FALSE]

\* vdp22br_sendack() with the ACK bit alone, or with the status kept.
vdp22br_sendack(v, ack, st) ==
    vdp22br_reply([v EXCEPT !.ack = ack, !.status = st])

\* vdp22br_deassoc()
vdp22br_deassoc(v, ack, st) ==
    vdp22br_sendack([v EXCEPT !.mode = DEASSOC], ack, st)

\* Mutant: the bridge does not register its keep-alive timer.
NoKaTimer(v) == [v EXCEPT !.kato = FALSE]

\* vdp22br_start_katimer()
vdp22br_start_katimer(v) == [v EXCEPT !.kato = FALSE, !.ka = @ + 1]

\* vdp22br_run(): what a state does.
BrEnter(v, o) ==
    CASE v.st = "BR_INIT" -> vdp22br_init(v)
      [] v.st = "BR_PROCESS" -> vdp22br_process(v, o)
      [] v.st = "BR_SEND" -> vdp22br_reply(v)
      [] v.st = "BR_KEEP" -> vdp22br_sendack(v, v.ack, v.status)
      [] v.st = "BR_DEASSOC" -> vdp22br_deassoc(v, v.ack, v.status)
      [] v.st = "BR_WAITCMD" -> vdp22br_start_katimer(v)
      [] v.st = "BR_ALIVE" -> vdp22br_sendack(v, TRUE, "ok")
      [] v.st = "BR_DEASSOCIATED" -> vdp22br_deassoc(v, FALSE, "ok")
      [] v.st = "BR_END" -> [v EXCEPT !.gone = TRUE]
      [] OTHER -> v

\* vdp22br_move_state(): the next state, the same one when the run stops.
vdp22br_move_state(v) ==
    CASE v.st = "BR_BEGIN" -> "BR_INIT"
      [] v.st = "BR_INIT" -> "BR_PROCESS"
      [] v.st = "BR_PROCESS" ->
            IF ~v.resp_ok THEN "BR_PROCESS"
            ELSE CASE v.resp = "none" -> IF v.cc = ASSOC THEN "BR_KEEP"
                                         ELSE "BR_DEASSOCIATED"
                   [] v.resp = "success" -> "BR_SEND"
                   [] v.resp = "keep" -> "BR_KEEP"
                   [] OTHER -> "BR_DEASSOC"
      [] v.st \in {"BR_SEND", "BR_KEEP", "BR_ALIVE"} -> "BR_WAITCMD"
      [] v.st = "BR_WAITCMD" ->
            IF v.localchg THEN "BR_WAITCMD_2"
            ELSE IF v.kato THEN "BR_DEASSOCIATED" ELSE "BR_WAITCMD"
      [] v.st = "BR_WAITCMD_2" ->
            IF v.cc = v.mode THEN "BR_ALIVE" ELSE "BR_PROCESS"
      [] v.st \in {"BR_DEASSOC", "BR_DEASSOCIATED", "BR_END"} -> "BR_END"

BrStep(v, o) ==
    LET s == vdp22br_move_state(v)
        Enter(u) == BrEnter(u, o)
    IN  IF s = v.st THEN v ELSE Apply(Enter, [v EXCEPT !.st = s])

BrTwice(v, o) ==
    LET Step(u) == BrStep(u, o)
    IN  Apply(Step, Apply(Step, v))

\* vdp22br_run(): the state the machine is in is entered again when the
\* first move does not leave it.
vdp22br_run(v, o) ==
    LET First(u) == BrEnter([u EXCEPT !.st = vdp22br_move_state(u)], o)
        Twice(u) == BrTwice(u, o)
    IN  Apply(Twice, Apply(Twice, Apply(Twice, Apply(First, v))))

\* The machine of VSI k at the bridge has run.
BrRan(k, w) ==
    /\ w.tx # None => Len(toStation) < Capacity
    /\ bque' = [bque EXCEPT ![k] =
                  IF w.gone THEN None ELSE Rest(w)]
    /\ toStation' = IF w.tx = None \/ ~running THEN toStation
                    ELSE Append(toStation, w.tx)
    /\ granted' = [granted EXCEPT ![k] =
                     IF w.tx # None /\ w.tx.ack /\ w.tx.st = "ok"
                     THEN @ \cup {w.tx.mode} ELSE @]

\* vdp22_copy_vsi() and vdp22br_addvsi()
BrNew(m) ==
    [vsi |-> m.vsi, st |-> "BR_BEGIN", mode |-> m.mode, cc |-> DEASSOC,
     resp |-> "none", ack |-> FALSE, status |-> "ok", busy |-> TRUE,
     localchg |-> FALSE, kato |-> FALSE, resp_ok |-> FALSE, vid |-> m.vid,
     ka |-> 0, res |-> 0,
     tx |-> None, ev |-> FALSE, gone |-> FALSE, up |-> FALSE]

\* vdp22_station_info(): the bridge takes a TLV of the station.  The
\* keep-alive timer stops before the filters are compared.
vdp22_station_info(o) ==
    LET m == input["bridge"].buf
        k == m.vsi
        v == bque[k]
        stopped == [v EXCEPT !.ka = 0]
    IN  /\ Processed("bridge")
        /\ UNCHANGED <<sque, toBridge, stVars, requests, waiting>>
        /\ \/ /\ v = None /\ m.mode = DEASSOC
              /\ BrRan(k, [tx |-> [m EXCEPT !.ack = TRUE, !.st = "ok"],
                           gone |-> TRUE])
           \/ /\ v = None /\ m.mode # DEASSOC
              /\ \E w \in {vdp22br_run(Work(BrNew(m), TRUE), o)} : BrRan(k, w)
           \/ /\ v # None /\ v.busy
              /\ UNCHANGED brVars
           \/ /\ v # None /\ ~v.busy /\ ~cmp_fdata(v.vid, m.vid)
              /\ bque' = [bque EXCEPT ![k] = [stopped EXCEPT !.status = "bad"]]
              /\ UNCHANGED <<toStation, granted>>
           \/ /\ v # None /\ ~v.busy /\ cmp_fdata(v.vid, m.vid)
              /\ \E w \in {vdp22br_run(Work([stopped EXCEPT !.localchg = TRUE,
                                               !.mode = m.mode], TRUE), o)} :
                   BrRan(k, w)

\* vdp22br_handle_kato() and vdp22br_handle_resto()
vdp22br_handle_kato(k) ==
    /\ bque[k] # None /\ bque[k].ka > 0
    /\ UNCHANGED <<sque, toBridge, input, stVars, requests, waiting>>
    /\ \E w \in {vdp22br_run(Work([bque[k] EXCEPT !.ka = @ - 1,
                                             !.kato = TRUE], TRUE),
                            "success")} :
         BrRan(k, w)

vdp22br_handle_resto(k) ==
    /\ bque[k] # None /\ bque[k].res > 0
    /\ UNCHANGED <<sque, toBridge, input, stVars, requests, waiting>>
    /\ \E w \in {vdp22br_run(Work([bque[k] EXCEPT !.res = @ - 1,
                                             !.resp_ok = TRUE], TRUE),
                            "success")} :
         BrRan(k, w)

-----------------------------------------------------------------------------
Next ==
    \/ \E k \in VSIs :
         \/ \E m \in ReqModes, i \in Vids, c \in Clients :
              vdp22_request(k, m, i, c)
         \/ \E i \in Vids : filter_mismatch(k, i)
         \/ vdp22_status(k)
         \/ vdp22st_handle_kato(k) \/ vdp22st_handle_ackto(k)
         \/ vdp22_localchange_handler(k)
         \/ vdp22br_handle_kato(k) \/ vdp22br_handle_resto(k)
    \/ vdp22_start \/ data_from_evb \/ vdp22_stop
    \/ \E end \in Ends : data_from_ecp(end) \/ ecp_gives_up(end)
    \/ vdp22_bridge_info
    \/ \E o \in Outcomes : vdp22_station_info(o)

Spec == Init /\ [][Next]_vars

\* Scheduling: the event loop runs every timeout, and ECP delivers a TLV or
\* gives it up.
Fairness ==
    /\ \A k \in VSIs :
         /\ WF_vars(\/ vdp22st_handle_kato(k) \/ vdp22st_handle_ackto(k)
                    \/ vdp22_localchange_handler(k))
         /\ WF_vars(vdp22br_handle_kato(k) \/ vdp22br_handle_resto(k))
    /\ WF_vars(\/ data_from_ecp("station") \/ ecp_gives_up("station")
               \/ vdp22_bridge_info)
    /\ WF_vars(\/ data_from_ecp("bridge") \/ ecp_gives_up("bridge")
               \/ \E o \in Outcomes : vdp22_station_info(o))

FairSpec == Spec /\ Fairness

-----------------------------------------------------------------------------
(* Properties                                                               *)

\* What the station takes for confirmed is something the bridge granted this
\* VSI, however late or often the answers arrive, and whichever request the
\* machine takes them for.
ConfirmedWasGranted ==
    \A k \in VSIs :
        sque[k] # None /\ sque[k].cc # DEASSOC => sque[k].cc \in granted[k]

\* A step that finishes the request of an attached client tells the client,
\* which does not poll; only an answer with the KEEP bit finishes it silently
\* (vdp22st_move_state() skips ASSOC_NEW then).
SilentOnlyIfKept ==
    [][\A k \in waiting \cap waiting' :
         sque[k] # None /\ sque[k].busy =>
            sque'[k] # None /\ (sque'[k].busy \/ sque'[k].status = "keep")]_vars

\* A request does not keep its VSI busy for ever, whatever is lost: the
\* response timer ends it.  A VSI that was busy when EVB stopped VDP is left
\* out, because nothing starts its timer again.
BusyEnds ==
    \A k \in VSIs : (sque[k] # None /\ sque[k].busy)
                        ~> (sque[k] = None \/ ~sque[k].busy \/ everStopped)

\* The bridge holds the VSI without a timer: vdp22_station_info() stopped its
\* keep-alive timer for a request whose filter does not match.
Stranded(k) == /\ bque[k] # None /\ bque[k].status = "bad"
               /\ bque[k].ka = 0 /\ bque[k].res = 0

\* A VSI the station has given up for good is forgotten by the bridge, which
\* answers a DEASSOC as a keep-alive and waits for its own timer; only a
\* VSI that a mismatching filter left without a timer stays.
BridgeForgets ==
    \A k \in VSIs :
        <>[](sque[k] = None) => (<>[](bque[k] = None) \/ <>[]Stranded(k))
=============================================================================
