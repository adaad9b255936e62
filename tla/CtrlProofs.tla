----------------------------- MODULE CtrlProofs -----------------------------
(* What holds of the control interface for any clients and bounds.          *)
EXTENDS Ctrl, FiniteSetTheorems, TLAPS

-----------------------------------------------------------------------------
(* lldpad -k                                                                *)

\* The inductive invariant: once an lldpad -k has come to its end its mark is
\* in shared memory, where no later instance overwrites it, unless it left none
\* or an lldpad -s has removed it.
MarkInv == invoked /\ ~unmarked => shm = "dont" /\ killer # "signalled"

\* After an lldpad -k no later one signals a daemon, however many instances,
\* crashes and calls of lldpad -k and -s follow, but for the two cases of
\* KillsFirstOnly: lldpad_shm_setpid() leaves DONT_KILL_PID alone.
THEOREM FirstKillOnly == Spec => []KillsFirstOnly
<1>1. Init => MarkInv
  BY DEF Init, MarkInv
<1>2. MarkInv /\ [Next]_vars => MarkInv'
  <2> SUFFICES ASSUME MarkInv, [Next]_vars PROVE MarkInv'
    OBVIOUS
  <2>1. ASSUME UNCHANGED kills PROVE MarkInv'
    BY <2>1 DEF MarkInv, kills
  <2>2. CASE UNCHANGED vars
    BY <2>1, <2>2 DEF vars, daemon
  <2>3. CASE ctrl_iface_receive
    BY <2>1, <2>3 DEF ctrl_iface_receive
  <2>4. CASE lldpad_main
    BY <2>4 DEF lldpad_main, lldpad_shm_setpid, lldpad_shm_getpid, MarkInv
  <2>5. CASE ctrl_iface_deinit
    BY <2>5 DEF ctrl_iface_deinit, MarkInv
  <2>6. CASE killme
    <3>1. CASE shm = "own"
      <4>1. UNCHANGED <<shm, invoked, unmarked>>
        BY <2>6, <3>1 DEF killme, lldpad_shm_getpid
      <4>2. ~(invoked /\ ~unmarked)
        BY <3>1 DEF MarkInv
      <4> QED
        BY <4>1, <4>2 DEF MarkInv
    <3>2. CASE shm # "own"
      BY <2>6, <3>2 DEF killme, lldpad_shm_getpid, MarkInv
    <3> QED
      BY <3>1, <3>2
  <2>7. CASE killme_waited
    BY <2>7 DEF killme_waited, MarkInv
  <2>11. CASE mark_lldpad_shm_for_removal
    BY <2>11 DEF mark_lldpad_shm_for_removal, MarkInv
  <2>8. ASSUME NEW m \in {"dcbx", "vdp22"}, ctrl_iface_send(m) PROVE MarkInv'
    BY <2>1, <2>8 DEF ctrl_iface_send
  <2>9. ASSUME NEW c \in Clients, NEW s, Does(c, s) PROVE MarkInv'
    BY <2>1, <2>9 DEF Does, daemon
  <2>10. ASSUME NEW c \in Clients,
               \/ client_main(c) \/ clif_request(c) \/ RequestTimeout(c)
               \/ clif_vsievt_done(c) \/ cli_alarm(c) \/ cli_interactive(c)
               \/ cli_quit(c) \/ cli_terminate(c) \/ Kill(c)
         PROVE  MarkInv'
    <3>1. \E s : Does(c, s)
      BY <2>10 DEF client_main, clif_request, RequestTimeout, clif_vsievt_done,
         cli_alarm, cli_interactive, cli_quit, cli_terminate, Kill
    <3> QED
      BY <2>9, <3>1
  <2> QED
    BY <2>2, <2>3, <2>4, <2>5, <2>6, <2>7, <2>8, <2>10, <2>11 DEF Next
<1>3. MarkInv => KillsFirstOnly
  BY DEF MarkInv, KillsFirstOnly
<1> QED
  BY <1>1, <1>2, <1>3, PTL DEF Spec

-----------------------------------------------------------------------------
(* A request and its answer                                                 *)

Request == [from : Clients, cmd : {"A", "W", "D", "P", "M"}]
Message == [cmd : {"A", "W", "D", "P", "M", "none", "event"}, ok : BOOLEAN]
Entry == [module : {"dcbx", "vdp22", "none"}, errors : Nat]

\* The requests of a client among those queued on the daemon's socket, and the
\* answers among the messages queued on the client's.
Requests(box, c) == {i \in DOMAIN box : box[i].from = c}
Answers(q) == {i \in DOMAIN q : ~IsEvent(q[i])}

\* Nothing is under way between the daemon and client c.
Clean(box, q, c) == Requests(box, c) = {} /\ Answers(q) = {}

\* At most one exchange is: the request cmd is queued, or its answer is.
Single(box, q, c, cmd) ==
  /\ \A i \in Requests(box, c) : box[i].cmd = cmd
  /\ \A i \in Answers(q) : q[i].cmd \in {cmd, "none"}
  /\ \A i, j \in Requests(box, c) : i = j
  /\ \A i, j \in Answers(q) : i = j
  /\ Requests(box, c) = {} \/ Answers(q) = {}

\* The client's part of the inductive invariant: the members it is about, and,
\* as long as the client has given up no request, that what is under way
\* belongs to the request it waits for.
Members == {"pc", "queue", "gaveup", "mixed"}

Basic(r) == /\ Members \subseteq DOMAIN r
            /\ r.queue \in Seq(Message)
            /\ r.mixed => r.gaveup

\* A client that has ended is past answers.
Ended == {"gone", "killed"}

InStep(box, c, r) ==
  ~r.gaveup /\ r.pc \notin Ended =>
    IF r.pc \in Waiting THEN Single(box, r.queue, c, Asked[r.pc])
                        ELSE Clean(box, r.queue, c)

\* The inductive invariant.
AnswerInv ==
  /\ inbox \in Seq(Request)
  /\ DOMAIN cl = Clients
  /\ dst \in [Clients -> Seq(Entry)]
  /\ \A c \in Clients : Basic(cl[c]) /\ InStep(inbox, c, cl[c])

-----------------------------------------------------------------------------
(* The list of monitors                                                     *)

\* An event drops entries, and none of a client it reaches.
LEMMA NotifiedList ==
  ASSUME dst \in [Clients -> Seq(Entry)], NEW c \in Clients, NEW m
  PROVE  /\ NotifiedOf(c, m) \in Seq(Entry)
         /\ Len(NotifiedOf(c, m)) <= Len(dst[c])
         /\ Reaches(c) => Len(NotifiedOf(c, m)) = Len(dst[c])
         /\ Notices(c, m) \in Nat
<1> DEFINE list == Counted(c, m)
           over == {i \in Listening(c, m) : list[i].errors > ErrorLimit}
           k == Cardinality(over)
<1>1. dst[c] \in Seq(Entry) /\ DOMAIN dst[c] = 1..Len(dst[c])
  OBVIOUS
<1>2. IsFiniteSet(Listening(c, m))
  BY <1>1, FS_Interval, FS_Subset DEF Listening
<1>3. list \in Seq(Entry) /\ Len(list) = Len(dst[c])
  <2>1. ASSUME NEW i \in DOMAIN dst[c] PROVE list[i] \in Entry
    <3>1. dst[c][i] \in Entry
      BY <1>1
    <3>2. ASSUME NEW n \in Nat PROVE [dst[c][i] EXCEPT !.errors = n] \in Entry
      BY <3>1 DEF Entry
    <3>3. dst[c][i].errors \in Nat /\ dst[c][i].errors + 1 \in Nat
      BY <3>1 DEF Entry
    <3>4. list[i] \in {dst[c][i], [dst[c][i] EXCEPT !.errors = 0],
                      [dst[c][i] EXCEPT !.errors = dst[c][i].errors + 1]}
      BY DEF Counted
    <3> QED
      BY <3>1, <3>2, <3>3, <3>4
  <2>2. list = [i \in 1..Len(dst[c]) |-> list[i]]
    BY <1>1 DEF Counted
  <2> HIDE DEF list
  <2> QED
    BY <1>1, <2>1, <2>2
<1>4. Reaches(c) => over = {}
  BY <1>1, CtrlAssumption DEF Counted, Listening, Entry
<1>5. k \in Nat /\ (over = {} => k = 0)
  BY <1>2, FS_Subset, FS_CardinalityType, FS_EmptySet
<1>6. NotifiedOf(c, m) = SubSeq(list, k + 1, Len(list))
  BY DEF NotifiedOf
<1>7. Notices(c, m) \in Nat
  BY <1>2, FS_CardinalityType DEF Notices
<1> HIDE DEF list, over, k
<1>8. SubSeq(list, k + 1, Len(list)) \in Seq(Entry)
  BY <1>3, <1>5
<1>9. /\ Len(SubSeq(list, k + 1, Len(list))) <= Len(list)
      /\ k = 0 => Len(SubSeq(list, k + 1, Len(list))) = Len(list)
  BY <1>3, <1>5
<1> QED
  BY <1>3, <1>4, <1>5, <1>6, <1>7, <1>8, <1>9

\* What a request does to the list: an attach adds an entry of its client, a
\* detach takes one away, and nothing else changes anything.
LEMMA AnswerList ==
  ASSUME dst \in [Clients -> Seq(Entry)], NEW req \in Request
  PROVE  LET d == Answer(req)[2] IN
         /\ d \in [Clients -> Seq(Entry)]
         /\ \A c \in Clients : c # req.from => d[c] = dst[c]
         /\ \A c \in Root : c = req.from =>
              /\ req.cmd \in {"A", "W"} => Len(d[c]) = Len(dst[c]) + 1
              /\ req.cmd = "D" => Len(d[c]) = IF Len(dst[c]) = 0 THEN 0
                                              ELSE Len(dst[c]) - 1
              /\ req.cmd \in {"P", "M"} => d[c] = dst[c]
<1> DEFINE f == req.from
           d == Answer(req)[2]
<1>1. f \in Clients /\ dst[f] \in Seq(Entry) /\ req.cmd \in {"A", "W", "D", "P", "M"}
  BY DEF Request
<1>2. d \in {dst, clif_iface_attach(req), detach_clif_monitor(f)}
  BY <1>1 DEF Answer, process_clif_cmd
<1>3. f \in Root => d = CASE req.cmd \in {"A", "W"} -> clif_iface_attach(req)
                          [] req.cmd = "D" -> detach_clif_monitor(f)
                          [] OTHER -> dst
  BY <1>1 DEF Answer, process_clif_cmd
<1> DEFINE e == <<[module |-> attach_str(req), errors |-> 0]>>
<1>0. attach_str(req) \in {"dcbx", "vdp22", "none"}
  BY DEF attach_str
<1>4. e \o dst[f] \in Seq(Entry) /\ Len(e \o dst[f]) = Len(dst[f]) + 1
  BY <1>0, <1>1 DEF Entry
<1> HIDE DEF e
<1>5. /\ clif_iface_attach(req) \in [Clients -> Seq(Entry)]
      /\ Len(clif_iface_attach(req)[f]) = Len(dst[f]) + 1
      /\ \A c \in Clients : c # f => clif_iface_attach(req)[c] = dst[c]
  BY <1>1, <1>4 DEF clif_iface_attach, e
<1> HIDE DEF f, d
<1> DEFINE t == IF dst[f] = <<>> THEN <<>> ELSE Tail(dst[f])
<1>6. t \in Seq(Entry) /\ Len(t) = IF Len(dst[f]) = 0 THEN 0 ELSE Len(dst[f]) - 1
  BY <1>1
<1> HIDE DEF t
<1>7. detach_clif_monitor(f) = [dst EXCEPT ![f] = t]
  BY <1>1 DEF detach_clif_monitor, t
<1>8. /\ detach_clif_monitor(f) \in [Clients -> Seq(Entry)]
      /\ Len(detach_clif_monitor(f)[f]) = IF Len(dst[f]) = 0 THEN 0
                                          ELSE Len(dst[f]) - 1
      /\ \A c \in Clients : c # f => detach_clif_monitor(f)[c] = dst[c]
  BY <1>1, <1>6, <1>7
<1>9. d \in [Clients -> Seq(Entry)] /\ \A c \in Clients : c # f => d[c] = dst[c]
  BY <1>2, <1>5, <1>8
<1>10. f \in Root =>
         /\ req.cmd \in {"A", "W"} => Len(d[f]) = Len(dst[f]) + 1
         /\ req.cmd = "D" => Len(d[f]) = IF Len(dst[f]) = 0 THEN 0
                                         ELSE Len(dst[f]) - 1
         /\ req.cmd \in {"P", "M"} => d[f] = dst[f]
  BY <1>3, <1>5, <1>8
<1> QED
  BY <1>9, <1>10 DEF f, d

-----------------------------------------------------------------------------
(* Requests and answers                                                     *)

\* A request is sent when nothing is under way.
LEMMA SendSingle ==
  ASSUME NEW box \in Seq(Request), NEW q \in Seq(Message), NEW c \in Clients,
         NEW k \in {"A", "W", "D", "P", "M"}, Clean(box, q, c)
  PROVE  Single(box \o <<[from |-> c, cmd |-> k]>>, q, c, k)
<1> DEFINE b == box \o <<[from |-> c, cmd |-> k]>>
<1>1. \A i \in DOMAIN b : b[i].from = c => i = Len(box) + 1 /\ b[i].cmd = k
  BY DEF Clean, Requests, Request
<1> HIDE DEF b
<1> QED
  BY <1>1 DEF Single, Clean, Requests, b

\* The requests of others do not matter, nor their being served.
LEMMA OthersSend ==
  ASSUME NEW box \in Seq(Request), NEW s \in Seq(Request), NEW q, NEW c, NEW k,
         \A i \in DOMAIN s : s[i].from # c
  PROVE  /\ Clean(box, q, c) => Clean(box \o s, q, c)
         /\ Single(box, q, c, k) => Single(box \o s, q, c, k)
<1> DEFINE b == box \o s
<1>1. \A i \in Requests(b, c) : i \in Requests(box, c) /\ b[i] = box[i]
  BY DEF Requests
<1> HIDE DEF b
<1> QED
  BY <1>1 DEF Clean, Single, b

\* A request is taken from the queue.
LEMMA Served ==
  ASSUME NEW box \in Seq(Request), box # <<>>, NEW q, NEW c, NEW k
  PROVE  /\ Clean(box, q, c) => Clean(Tail(box), q, c)
         /\ Single(box, q, c, k) => Single(Tail(box), q, c, k)
<1> DEFINE b == Tail(box)
<1>1. \A i \in Requests(b, c) : i \in Nat /\ i + 1 \in Requests(box, c) /\ b[i] = box[i + 1]
  BY DEF Requests
<1>2. \A i, j \in Requests(b, c) : i + 1 = j + 1 => i = j
  BY <1>1
<1> HIDE DEF b
<1>3. Clean(box, q, c) => Clean(b, q, c)
  BY <1>1 DEF Clean
<1>4. Single(box, q, c, k) => Single(b, q, c, k)
  BY <1>1, <1>2 DEF Single
<1> QED
  BY <1>3, <1>4 DEF b

\* A request is answered.
LEMMA AnsweredSingle ==
  ASSUME NEW box \in Seq(Request), box # <<>>, NEW q \in Seq(Message),
         NEW c, NEW k, NEW a \in Message,
         Head(box).from = c, Single(box, q, c, k), a.cmd \in {Head(box).cmd, "none"}
  PROVE  Single(Tail(box), Append(q, a), c, k)
<1>1. 1 \in Requests(box, c)
  BY DEF Requests
<1>2. Answers(q) = {} /\ Head(box).cmd = k /\ \A i \in Requests(box, c) : i = 1
  BY <1>1 DEF Single
<1>3. Requests(Tail(box), c) = {}
  BY <1>2 DEF Requests
<1> DEFINE p == Append(q, a)
<1>4. \A i \in Answers(p) : i = Len(q) + 1 /\ p[i] = a
  BY <1>2 DEF Answers
<1> HIDE DEF p
<1> QED
  BY <1>2, <1>3, <1>4 DEF Single, p

\* Events do not matter.
LEMMA EventsSent ==
  ASSUME NEW box, NEW q \in Seq(Message), NEW n \in Nat, NEW c, NEW k
  PROVE  /\ q \o Events(n) \in Seq(Message)
         /\ Clean(box, q, c) => Clean(box, q \o Events(n), c)
         /\ Single(box, q, c, k) => Single(box, q \o Events(n), c, k)
<1> DEFINE e == Events(n)
<1>1. /\ e \in Seq(Message) /\ \A i \in DOMAIN e : IsEvent(e[i])
  BY DEF Events, Message, IsEvent
<1> HIDE DEF e
<1> DEFINE p == q \o e
<1>2. p \in Seq(Message)
  BY <1>1
<1>3. \A i \in Answers(p) : i \in Answers(q) /\ p[i] = q[i]
  BY <1>1 DEF Answers
<1> HIDE DEF p
<1> QED
  BY <1>2, <1>3 DEF Clean, Single, p, e

\* A client takes the message at the head of its queue.
LEMMA Taken ==
  ASSUME NEW box, NEW q \in Seq(Message), q # <<>>, NEW c, NEW k
  PROVE  /\ Tail(q) \in Seq(Message)
         /\ Clean(box, q, c) => Clean(box, Tail(q), c)
         /\ Single(box, q, c, k) => Single(box, Tail(q), c, k)
         /\ Single(box, q, c, k) /\ ~IsEvent(Head(q)) =>
              Head(q).cmd \in {k, "none"} /\ Clean(box, Tail(q), c)
<1> DEFINE p == Tail(q)
<1>1. p \in Seq(Message)
  OBVIOUS
<1>2. \A i \in Answers(p) : i \in Nat /\ i + 1 \in Answers(q) /\ p[i] = q[i + 1]
                            /\ i >= 1
  BY DEF Answers
<1>3. ~IsEvent(Head(q)) => 1 \in Answers(q) /\ q[1] = Head(q)
  BY DEF Answers
<1>4. \A i, j \in Answers(p) : i + 1 = j + 1 => i = j
  BY <1>2
<1>5. \A i \in Answers(p) : i + 1 # 1
  BY <1>2
<1> HIDE DEF p
<1>6. Clean(box, q, c) => Clean(box, p, c)
  BY <1>2 DEF Clean
<1>7. Single(box, q, c, k) => Single(box, p, c, k)
  BY <1>2, <1>4 DEF Single
<1>8. Single(box, q, c, k) /\ ~IsEvent(Head(q)) =>
        Head(q).cmd \in {k, "none"} /\ Clean(box, p, c)
  BY <1>2, <1>3, <1>5 DEF Single, Clean
<1> QED
  BY <1>1, <1>6, <1>7, <1>8 DEF p

\* What a client has printed or thrown away is gone.
LEMMA Emptied ==
  ASSUME NEW box, NEW q, NEW c, NEW k
  PROVE  /\ Clean(box, q, c) => Clean(box, <<>>, c)
         /\ Single(box, q, c, k) => Single(box, <<>>, c, k)
         /\ Single(box, <<>>, c, k) /\ Requests(box, c) = {} => Clean(box, <<>>, c)
BY DEF Clean, Single, Answers

-----------------------------------------------------------------------------
(* The steps of a client                                                    *)

\* A record from which any step may be made: what the client had sent is
\* answered, or given up.
Ready(c, r) == Basic(r) /\ (~r.gaveup => Clean(inbox, r.queue, c))

\* A step that leaves the client in step with what it sends.
Sound(c, s) ==
  /\ s.sends \in Seq(Request)
  /\ \A i \in DOMAIN s.sends : s.sends[i].from = c
  /\ Basic(s.client) /\ InStep(inbox \o s.sends, c, s.client)

\* The end of an exchange, and the start of one.
LEMMA StaySound ==
  ASSUME inbox \in Seq(Request), NEW c \in Clients, NEW r, Ready(c, r),
         NEW pc, pc \notin Waiting
  PROVE  Sound(c, Stay(r, pc))
<1> DEFINE t == [r EXCEPT !.pc = pc]
<1>1. /\ Members \subseteq DOMAIN t /\ t.pc = pc /\ t.queue = r.queue
      /\ t.gaveup = r.gaveup /\ t.mixed = r.mixed
  BY DEF Ready, Basic, Members
<1> HIDE DEF t
<1>2. inbox \o <<>> = inbox /\ <<>> \in Seq(Request) /\ DOMAIN <<>> = {}
  OBVIOUS
<1>3. Basic(t) /\ InStep(inbox, c, t)
  BY <1>1 DEF Ready, Basic, InStep
<1>4. Stay(r, pc).client = t /\ Stay(r, pc).sends = <<>>
  BY DEF Stay, t
<1> QED
  BY <1>2, <1>3, <1>4 DEF Sound

LEMMA SendSound ==
  ASSUME inbox \in Seq(Request), NEW c \in Clients, NEW r, Ready(c, r),
         NEW pc \in Waiting
  PROVE  Sound(c, Send(c, r, Asked[pc], pc))
<1> DEFINE t == [r EXCEPT !.pc = pc]
           b == <<[from |-> c, cmd |-> Asked[pc]]>>
<1>1. /\ Members \subseteq DOMAIN t /\ t.pc = pc /\ t.queue = r.queue
      /\ t.gaveup = r.gaveup /\ t.mixed = r.mixed
  BY DEF Ready, Basic, Members
<1> HIDE DEF t
<1>2. Asked[pc] \in {"A", "W", "D", "P", "M"}
  BY DEF Waiting, Asked
<1>3. /\ b \in Seq(Request) /\ \A i \in DOMAIN b : b[i].from = c
  BY <1>2 DEF Request
<1>4. ~r.gaveup => Single(inbox \o b, r.queue, c, Asked[pc])
  BY <1>2, SendSingle DEF Ready, Basic
<1> HIDE DEF b
<1>5. Basic(t) /\ InStep(inbox \o b, c, t)
  BY <1>1, <1>4 DEF Ready, Basic, InStep
<1>6. Send(c, r, Asked[pc], pc).client = t /\ Send(c, r, Asked[pc], pc).sends = b
  BY DEF Send, t, b
<1> QED
  BY <1>3, <1>5, <1>6 DEF Sound

\* A closed socket, and a new one, hold no messages.
LEMMA OpenReady ==
  ASSUME NEW c, NEW r, Ready(c, r)
  PROVE  Ready(c, clif_close(r)) /\ Ready(c, clif_open(r))
<1>1. ASSUME NEW t, /\ Members \subseteq DOMAIN t /\ t.queue = <<>>
                    /\ t.gaveup = r.gaveup /\ t.mixed = r.mixed
      PROVE  Ready(c, t)
  BY <1>1, Emptied DEF Ready, Basic
<1> DEFINE t == clif_close(r)
<1>2. /\ Members \subseteq DOMAIN t /\ t.queue = <<>>
      /\ t.gaveup = r.gaveup /\ t.mixed = r.mixed
  BY DEF clif_close, Ready, Basic, Members
<1> HIDE DEF t
<1> DEFINE u == clif_open(r)
<1>3. /\ Members \subseteq DOMAIN u /\ u.queue = <<>>
      /\ u.gaveup = r.gaveup /\ u.mixed = r.mixed
  BY <1>2 DEF clif_open, t, Members
<1> HIDE DEF u
<1> QED
  BY <1>1, <1>2, <1>3 DEF t, u

LEMMA CloseSound ==
  ASSUME inbox \in Seq(Request), NEW c \in Clients, NEW r, Ready(c, r),
         NEW why \in {"lost", "quit"}
  PROVE  /\ Sound(c, Reconnect(c, r))
         /\ Sound(c, Closed(c, r, why))
         /\ Sound(c, cli_close_connection(c, r, why))
<1>0. /\ "attach" \in Waiting /\ why \in Waiting /\ "idle" \notin Waiting
      /\ "gone" \notin Waiting /\ Asked["attach"] = "A" /\ Asked[why] = "D"
  BY DEF Waiting, Asked
<1>1. Sound(c, Reconnect(c, r))
  BY <1>0, OpenReady, StaySound, SendSound DEF Reconnect
<1>2. Sound(c, Closed(c, r, why))
  BY <1>0, <1>1, OpenReady, StaySound DEF Closed
<1>3. Sound(c, cli_close_connection(c, r, why))
  BY <1>0, <1>2, SendSound DEF cli_close_connection
<1> QED
  BY <1>1, <1>2, <1>3

LEMMA PendingSound ==
  ASSUME inbox \in Seq(Request), NEW c \in Clients, NEW r, Ready(c, r)
  PROVE  Sound(c, cli_recv_pending(c, r))
<1> DEFINE t == [r EXCEPT !.queue = <<>>]
<1>1. /\ Members \subseteq DOMAIN t /\ t.queue = <<>>
      /\ t.gaveup = r.gaveup /\ t.mixed = r.mixed
  BY DEF Ready, Basic, Members
<1> HIDE DEF t
<1>2. Ready(c, t)
  BY <1>1, Emptied DEF Ready, Basic
<1>3. "idle" \notin Waiting
  BY DEF Waiting, Asked
<1> QED
  BY <1>2, <1>3, CloseSound, StaySound DEF cli_recv_pending, t

LEMMA RequestSound ==
  ASSUME inbox \in Seq(Request), NEW c \in Clients, NEW r, Ready(c, r),
         NEW watch \in BOOLEAN
  PROVE  Sound(c, request(c, r, watch))
<1>1. /\ "command" \in Waiting /\ Asked["command"] = "M"
      /\ "watch" \in Waiting /\ Asked["watch"] = "W"
  BY DEF Waiting, Asked
<1>2. Sound(c, Send(c, r, "M", "command")) /\ Sound(c, Send(c, r, "W", "watch"))
  BY <1>1, SendSound
<1> QED
  BY <1>2 DEF request

LEMMA AttachSound ==
  ASSUME inbox \in Seq(Request), NEW c \in Clients, NEW r, Ready(c, r), NEW ok
  PROVE  Sound(c, AfterAttach(c, r, ok))
<1> DEFINE t == [r EXCEPT !.attached = @ \/ ok,
                         !.loose = IF ok /\ ~r.attached THEN @ ELSE @ + 1]
<1>1. /\ Members \subseteq DOMAIN t /\ t.queue = r.queue
      /\ t.gaveup = r.gaveup /\ t.mixed = r.mixed
  BY DEF Ready, Basic, Members
<1>2. AfterAttach(c, r, ok) = IF ok /\ r.pc = "watch" /\ r.conn = "open"
                              THEN Send(c, t, "M", "command") ELSE cli_recv_pending(c, t)
  BY DEF AfterAttach
<1> HIDE DEF t
<1>3. Ready(c, t)
  BY <1>1 DEF Ready, Basic
<1>4. "command" \in Waiting /\ Asked["command"] = "M"
  BY DEF Waiting, Asked
<1>5. Sound(c, Send(c, t, "M", "command"))
  BY <1>3, <1>4, SendSound
<1>6. Sound(c, cli_recv_pending(c, t))
  BY <1>3, PendingSound
<1> QED
  BY <1>2, <1>5, <1>6

LEMMA AnswerSound ==
  ASSUME inbox \in Seq(Request), NEW c \in Clients, NEW r, Ready(c, r),
         r.pc \in Waiting, NEW msg
  PROVE  Sound(c, Answered(c, r, msg)) /\ Sound(c, TimedOut(c, r))
<1>1. r.pc \in {"attach", "watch", "ping", "command", "lost", "quit"}
  BY DEF Waiting, Asked
<1>2. "event" \notin Waiting
  BY DEF Waiting, Asked
<1>3. CASE r.pc \in {"attach", "watch"}
  BY <1>3, AttachSound DEF Answered, TimedOut
<1>4. CASE r.pc = "ping"
  BY <1>2, <1>4, PendingSound, StaySound, CloseSound DEF Answered, TimedOut
<1>5. CASE r.pc = "command"
  BY <1>2, <1>5, PendingSound, StaySound, CloseSound DEF Answered, TimedOut
<1>6. CASE r.pc \in {"lost", "quit"}
  BY <1>6, CloseSound DEF Answered, TimedOut
<1> QED
  BY <1>1, <1>3, <1>4, <1>5, <1>6

-----------------------------------------------------------------------------
(* Every step of the system                                                 *)

\* What a client's step does to the whole: the other clients see only that
\* requests which are not theirs are queued.
LEMMA DoesKeeps ==
  ASSUME AnswerInv, NEW c \in Clients, NEW s, Sound(c, s), Does(c, s)
  PROVE  AnswerInv'
<1>1. cl' = [cl EXCEPT ![c] = s.client] /\ inbox' = inbox \o s.sends
  BY DEF Does
<1>2. /\ inbox' \in Seq(Request) /\ DOMAIN cl' = Clients
      /\ dst' \in [Clients -> Seq(Entry)]
  BY <1>1 DEF AnswerInv, Sound, Does, daemon
<1>3. Basic(cl'[c]) /\ InStep(inbox', c, cl'[c])
  BY <1>1 DEF AnswerInv, Sound
<1>4. ASSUME NEW d \in Clients, d # c
      PROVE  Basic(cl'[d]) /\ InStep(inbox', d, cl'[d])
  <2>1. cl'[d] = cl[d]
    BY <1>1, <1>4 DEF AnswerInv
  <2>2. \A i \in DOMAIN s.sends : s.sends[i].from # d
    BY <1>4 DEF Sound
  <2>3. \A q, k : /\ Clean(inbox, q, d) => Clean(inbox', q, d)
                  /\ Single(inbox, q, d, k) => Single(inbox', q, d, k)
    BY <1>1, <2>2, OthersSend DEF AnswerInv, Sound
  <2> QED
    BY <2>1, <2>3 DEF AnswerInv, InStep
<1> QED
  BY <1>2, <1>3, <1>4 DEF AnswerInv

\* The daemon answers the request at the head of its queue.
LEMMA ReceiveKeeps == AnswerInv /\ ctrl_iface_receive => AnswerInv'
<1> SUFFICES ASSUME AnswerInv, ctrl_iface_receive PROVE AnswerInv'
  OBVIOUS
<1> DEFINE req == Head(inbox)
           a == Answer(req)[1]
           f == req.from
<1>1. inbox # <<>> /\ req \in Request /\ inbox' = Tail(inbox) /\ inbox' \in Seq(Request)
  BY DEF ctrl_iface_receive, AnswerInv
<1>2. a \in Message /\ a.cmd \in {req.cmd, "none"}
  <2>1. req.cmd \in {"A", "W", "D", "P", "M"}
    BY <1>1 DEF Request
  <2> HIDE DEF req
  <2>2. CASE f \notin Root
    BY <2>2 DEF Answer, Message, f
  <2>3. CASE f \in Root
    <3>1. a = process_clif_cmd(req)[1]
      BY <2>3 DEF Answer, f
    <3>2. a \in {[cmd |-> "A", ok |-> TRUE], [cmd |-> "W", ok |-> TRUE], clif_iface_detach(f),
                 clif_iface_ping, clif_iface_module} /\ a.cmd = req.cmd
      <4>1. CASE req.cmd \in {"A", "W"}
        <5>1. a = [cmd |-> req.cmd, ok |-> TRUE]
          <6>1. process_clif_cmd(req) = <<[cmd |-> req.cmd, ok |-> TRUE], clif_iface_attach(req)>>
            BY <4>1 DEF process_clif_cmd
          <6> QED
            BY <3>1, <6>1
        <5> HIDE DEF a
        <5> QED
          BY <4>1, <5>1
      <4>2. CASE req.cmd = "D"
        BY <3>1, <4>2 DEF process_clif_cmd, clif_iface_detach, f
      <4>3. CASE req.cmd \in {"P", "M"}
        BY <3>1, <4>3 DEF process_clif_cmd, clif_iface_ping, clif_iface_module
      <4> QED
        BY <2>1, <4>1, <4>2, <4>3
    <3>3. clif_iface_detach(f) \in Message
      BY Zenon DEF clif_iface_detach, Message
    <3>4. /\ [cmd |-> "A", ok |-> TRUE] \in Message /\ [cmd |-> "W", ok |-> TRUE] \in Message
          /\ clif_iface_ping \in Message /\ clif_iface_module \in Message
      BY DEF clif_iface_ping, clif_iface_module, Message
    <3> QED
      BY <3>2, <3>3, <3>4
  <2> QED
    BY <2>2, <2>3
<1>3. cl' = IF Reaches(f) THEN [cl EXCEPT ![f].queue = Append(@, a)] ELSE cl
  BY DEF ctrl_iface_receive
<1> HIDE DEF a, f
<1>4. f \in Clients /\ req.from = f
  BY <1>1 DEF Request, f
<1> HIDE DEF req
<1>5. DOMAIN cl' = Clients /\ dst' \in [Clients -> Seq(Entry)]
  <2>1. dst' = Answer(req)[2]
    BY DEF ctrl_iface_receive, req
  <2>2. DOMAIN cl' = Clients
    BY <1>3, <1>4 DEF AnswerInv
  <2>3. Answer(req)[2] \in [Clients -> Seq(Entry)]
    BY <1>1, AnswerList DEF AnswerInv
  <2> QED
    BY <2>1, <2>2, <2>3
<1>6. ASSUME NEW d \in Clients, cl'[d] = cl[d]
      PROVE  Basic(cl'[d]) /\ InStep(inbox', d, cl'[d])
  <2>1. \A q, k : /\ Clean(inbox, q, d) => Clean(inbox', q, d)
                  /\ Single(inbox, q, d, k) => Single(inbox', q, d, k)
    BY <1>1, Served DEF AnswerInv
  <2> QED
    BY <1>6, <2>1 DEF AnswerInv, InStep
<1>7. ASSUME cl' = [cl EXCEPT ![f].queue = Append(@, a)]
      PROVE  Basic(cl'[f]) /\ InStep(inbox', f, cl'[f])
  <2> DEFINE r == cl[f]
             t == [r EXCEPT !.queue = Append(@, a)]
  <2>1. cl'[f] = t /\ Basic(r) /\ InStep(inbox, f, r)
    BY <1>4, <1>7 DEF AnswerInv
  <2> HIDE DEF r
  <2>2. /\ Members \subseteq DOMAIN t /\ t.pc = r.pc /\ t.queue = Append(r.queue, a)
        /\ t.gaveup = r.gaveup /\ t.mixed = r.mixed
    BY <2>1 DEF Basic, Members
  <2> HIDE DEF t
  <2>3. Basic(t)
    BY <1>2, <2>1, <2>2 DEF Basic
  <2>4. 1 \in Requests(inbox, f)
    BY <1>1, <1>4 DEF Requests, req, AnswerInv
  <2>5. ~Clean(inbox, r.queue, f)
    BY <2>4 DEF Clean
  <2>6. ASSUME Single(inbox, r.queue, f, Asked[r.pc])
        PROVE  Single(inbox', t.queue, f, Asked[r.pc])
    BY <1>1, <1>2, <1>4, <2>1, <2>2, <2>6, AnsweredSingle DEF AnswerInv, Basic, req
  <2>7. InStep(inbox', f, t)
    BY <2>1, <2>2, <2>5, <2>6 DEF InStep
  <2> QED
    BY <2>1, <2>3, <2>7
<1>8. ASSUME NEW d \in Clients, d # f PROVE cl'[d] = cl[d]
  BY <1>3, <1>4, <1>8 DEF AnswerInv
<1> QED
  BY <1>1, <1>3, <1>4, <1>5, <1>6, <1>7, <1>8 DEF AnswerInv

\* Monitors are sent an event.
LEMMA EventKeeps ==
  ASSUME AnswerInv, NEW m, ctrl_iface_send(m)
  PROVE  AnswerInv'
<1> DEFINE n(c) == Notices(c, m)
<1>1. /\ inbox' = inbox
      /\ cl' = [c \in Clients |-> IF Reaches(c)
                  THEN [cl[c] EXCEPT !.queue = @ \o Events(n(c))] ELSE cl[c]]
  BY DEF ctrl_iface_send
<1>2. ASSUME NEW c \in Clients PROVE Basic(cl'[c]) /\ InStep(inbox, c, cl'[c])
  <2> DEFINE r == cl[c]
             e == Events(n(c))
             t == [r EXCEPT !.queue = @ \o e]
  <2>1. cl'[c] \in {r, t} /\ Basic(r) /\ InStep(inbox, c, r)
    BY <1>1 DEF AnswerInv
  <2>2. /\ r.queue \o e \in Seq(Message)
        /\ Clean(inbox, r.queue, c) => Clean(inbox, r.queue \o e, c)
        /\ \A k : Single(inbox, r.queue, c, k) => Single(inbox, r.queue \o e, c, k)
    <3>1. n(c) \in Nat
      BY NotifiedList DEF AnswerInv
    <3> QED
      BY <2>1, <3>1, EventsSent DEF Basic
  <2> HIDE DEF r, e
  <2>3. /\ Members \subseteq DOMAIN t /\ t.pc = r.pc /\ t.queue = r.queue \o e
        /\ t.gaveup = r.gaveup /\ t.mixed = r.mixed
    BY <2>1 DEF Basic, Members
  <2> HIDE DEF t
  <2>4. Basic(t) /\ InStep(inbox, c, t)
    BY <2>1, <2>2, <2>3 DEF Basic, InStep
  <2> QED
    BY <2>1, <2>4
<1>3. dst' \in [Clients -> Seq(Entry)]
  BY NotifiedList DEF ctrl_iface_send, AnswerInv
<1> QED
  BY <1>1, <1>2, <1>3 DEF AnswerInv

\* The end of the daemon: its queue is lost, or systemd's socket keeps it.
LEMMA DeinitKeeps == AnswerInv /\ ctrl_iface_deinit => AnswerInv'
<1> SUFFICES ASSUME AnswerInv, ctrl_iface_deinit PROVE AnswerInv'
  OBVIOUS
<1>0. dst' \in [Clients -> Seq(Entry)]
  <2>1. <<>> \in Seq(Entry)
    OBVIOUS
  <2> QED
    BY <2>1 DEF ctrl_iface_deinit, NoMonitors
<1>1. CASE systemd
  BY <1>0, <1>1 DEF ctrl_iface_deinit, AnswerInv
<1>2. CASE ~systemd
  <2>1. /\ inbox' = <<>>
        /\ cl' = [c \in Clients |->
                    [cl[c] EXCEPT !.conn = IF Reaches(c) THEN "dead" ELSE @, !.loose = 0]]
    BY <1>2 DEF ctrl_iface_deinit
  <2>2. \A q, c, k : /\ Clean(inbox, q, c) => Clean(<<>>, q, c)
                     /\ Single(inbox, q, c, k) => Single(<<>>, q, c, k)
    BY DEF Clean, Single, Requests
  <2>3. ASSUME NEW c \in Clients PROVE Basic(cl'[c]) /\ InStep(<<>>, c, cl'[c])
    <3> DEFINE r == cl[c]
               t == [r EXCEPT !.conn = IF Reaches(c) THEN "dead" ELSE @, !.loose = 0]
    <3>1. cl'[c] = t /\ Basic(r) /\ InStep(inbox, c, r)
      BY <2>1 DEF AnswerInv
    <3> HIDE DEF r
    <3>2. /\ Members \subseteq DOMAIN t /\ t.pc = r.pc /\ t.queue = r.queue
          /\ t.gaveup = r.gaveup /\ t.mixed = r.mixed
      BY <3>1 DEF Basic, Members
    <3> HIDE DEF t
    <3> QED
      BY <2>2, <3>1, <3>2 DEF Basic, InStep
  <2>4. DOMAIN cl' = Clients
    BY <2>1, Zenon
  <2>5. <<>> \in Seq(Request)
    OBVIOUS
  <2> QED
    BY <1>0, <2>1, <2>3, <2>4, <2>5 DEF AnswerInv
<1> QED
  BY <1>1, <1>2

\* Every step keeps the invariant.
LEMMA StepAnswer == AnswerInv /\ [Next]_vars => AnswerInv'
<1> SUFFICES ASSUME AnswerInv, [Next]_vars PROVE AnswerInv'
  OBVIOUS
<1>1. ASSUME UNCHANGED <<inbox, cl, dst>> PROVE AnswerInv'
  BY <1>1 DEF AnswerInv
<1>2. CASE UNCHANGED vars
  BY <1>1, <1>2 DEF vars, daemon
<1>3. CASE lldpad_main
  BY <1>3 DEF lldpad_main, AnswerInv, NoMonitors
<1>4. CASE killme \/ killme_waited \/ mark_lldpad_shm_for_removal
  BY <1>1, <1>4 DEF killme, killme_waited, mark_lldpad_shm_for_removal
<1>0. inbox \in Seq(Request)
  BY DEF AnswerInv
<1>5. ASSUME NEW c \in Clients, client_main(c) PROVE AnswerInv'
  <2> DEFINE r == cl[c]
  <2>1. Ready(c, r)
    BY <1>5 DEF client_main, AnswerInv, Ready, InStep, Waiting, Asked, Ended
  <2>2. "gone" \notin Waiting
    BY DEF Waiting, Asked
  <2>3. /\ \A watch \in BOOLEAN : Sound(c, request(c, clif_open(r), watch))
        /\ Sound(c, Reconnect(c, r)) /\ Sound(c, Stay(r, "gone"))
    BY <1>0, <2>1, <2>2, OpenReady, RequestSound, StaySound, CloseSound
  <2>4. \E s : Sound(c, s) /\ Does(c, s)
    BY <1>5, <2>3 DEF client_main, Watches
  <2> QED
    BY <2>4, DoesKeeps
<1>6. ASSUME NEW c \in Clients, clif_request(c) PROVE AnswerInv'
  <2> DEFINE q == cl[c].queue
             msg == Head(q)
             r == [cl[c] EXCEPT !.queue = Tail(@)]
             mixed == msg.cmd \notin {Asked[r.pc], "none"}
             t == [r EXCEPT !.mixed = @ \/ mixed]
  <2>1. /\ inbox \in Seq(Request) /\ Basic(cl[c]) /\ InStep(inbox, c, cl[c])
        /\ cl[c].pc \in Waiting /\ q # <<>> /\ q \in Seq(Message)
    BY <1>6 DEF clif_request, AnswerInv, Basic
  <2>2. IF IsEvent(msg) THEN Does(c, Stay(r, r.pc)) ELSE Does(c, Answered(c, t, msg))
    BY <1>6 DEF clif_request
  <2>3. /\ Members \subseteq DOMAIN r /\ r.pc = cl[c].pc /\ r.queue = Tail(q)
        /\ r.gaveup = cl[c].gaveup /\ r.mixed = cl[c].mixed
    BY <2>1 DEF Basic, Members
  <2>4. r.pc \notin Ended
    BY <2>1, <2>3 DEF Waiting, Asked, Ended
  <2> HIDE DEF r
  <2>5. ~r.gaveup => Single(inbox, q, c, Asked[r.pc])
    BY <2>1, <2>3, <2>4 DEF InStep
  <2>6. CASE IsEvent(msg)
    <3> DEFINE u == [r EXCEPT !.pc = r.pc]
    <3>1. /\ Members \subseteq DOMAIN u /\ u.pc = r.pc /\ u.queue = r.queue
          /\ u.gaveup = r.gaveup /\ u.mixed = r.mixed
      BY <2>3 DEF Members
    <3>2. Stay(r, r.pc) = [client |-> u, sends |-> <<>>]
      BY DEF Stay
    <3> HIDE DEF u
    <3>3. Basic(u) /\ InStep(inbox, c, u)
      BY <2>1, <2>3, <2>5, <3>1, Taken DEF Basic, InStep
    <3>4. Sound(c, Stay(r, r.pc))
      BY <2>1, <3>2, <3>3 DEF Sound
    <3> QED
      BY <2>2, <2>6, <3>4, DoesKeeps
  <2>7. CASE ~IsEvent(msg)
    <3>1. ~r.gaveup => ~mixed /\ Clean(inbox, r.queue, c)
      BY <2>1, <2>3, <2>5, <2>7, Taken
    <3>2. r.queue \in Seq(Message)
      BY <2>1, <2>3
    <3> HIDE DEF mixed
    <3>3. /\ Members \subseteq DOMAIN t /\ t.pc = r.pc /\ t.queue = r.queue
          /\ t.gaveup = r.gaveup /\ (t.mixed => r.mixed \/ mixed)
      BY <2>3 DEF Members
    <3> HIDE DEF t
    <3>4. t.mixed => t.gaveup
      BY <2>1, <2>3, <3>1, <3>3 DEF Basic
    <3>5. Ready(c, t)
      BY <3>1, <3>2, <3>3, <3>4 DEF Ready, Basic
    <3>6. Sound(c, Answered(c, t, msg))
      BY <2>1, <2>3, <3>3, <3>5, AnswerSound
    <3> QED
      BY <2>2, <2>7, <3>6, DoesKeeps
  <2> QED
    BY <2>6, <2>7
<1>7. ASSUME NEW c \in Clients, RequestTimeout(c) PROVE AnswerInv'
  <2> DEFINE r == cl[c]
             t == [r EXCEPT !.gaveup = TRUE]
  <2>1. /\ inbox \in Seq(Request) /\ Basic(r) /\ InStep(inbox, c, r)
        /\ r.pc \in Waiting /\ r.queue = <<>>
    BY <1>7 DEF RequestTimeout, AnswerInv
  <2>2. \/ Does(c, TimedOut(c, t))
        \/ ~HasRequest(c) /\ Does(c, TimedOut(c, r))
    BY <1>7 DEF RequestTimeout
  <2> HIDE DEF r
  <2>3. /\ Members \subseteq DOMAIN t /\ t.pc = r.pc /\ t.queue = r.queue
        /\ t.gaveup = TRUE /\ t.mixed = r.mixed
    BY <2>1 DEF Basic, Members
  <2> HIDE DEF t
  <2>4. Ready(c, t)
    BY <2>1, <2>3 DEF Ready, Basic
  <2>5. ASSUME ~HasRequest(c) PROVE Ready(c, r)
    <3>1. Requests(inbox, c) = {}
      BY <2>5 DEF HasRequest, Requests
    <3>2. r.pc \notin Ended
      BY <2>1 DEF Waiting, Asked, Ended
    <3> QED
      BY <2>1, <3>1, <3>2, Emptied DEF Ready, InStep
  <2>6. \E s : Sound(c, s) /\ Does(c, s)
    BY <2>1, <2>2, <2>3, <2>4, <2>5, AnswerSound
  <2> QED
    BY <2>6, DoesKeeps
<1>8. ASSUME NEW c \in Clients, clif_vsievt_done(c) PROVE AnswerInv'
  <2> DEFINE r == cl[c]
             t == [r EXCEPT !.queue = Tail(@)]
  <2>1. /\ inbox \in Seq(Request) /\ Basic(r) /\ Ready(c, r)
    BY <1>8 DEF clif_vsievt_done, AnswerInv, InStep, Ready, Waiting, Asked, Ended
  <2>2. Does(c, cli_recv_pending(c, IF r.queue = <<>> THEN r ELSE t))
    BY <1>8 DEF clif_vsievt_done
  <2> HIDE DEF r
  <2>3. /\ Members \subseteq DOMAIN t /\ t.pc = r.pc /\ t.queue = Tail(r.queue)
        /\ t.gaveup = r.gaveup /\ t.mixed = r.mixed
    BY <2>1 DEF Basic, Members
  <2> HIDE DEF t
  <2>4. r.queue # <<>> => Ready(c, t)
    BY <2>1, <2>3, Taken DEF Ready, Basic
  <2>5. \E s : Sound(c, s) /\ Does(c, s)
    BY <2>1, <2>2, <2>4, PendingSound
  <2> QED
    BY <2>5, DoesKeeps
<1>9. ASSUME NEW c \in Clients, cl[c].pc = "idle" PROVE inbox \in Seq(Request) /\ Ready(c, cl[c])
  BY <1>9 DEF AnswerInv, InStep, Ready, Waiting, Asked, Ended
<1>10. ASSUME NEW c \in Clients, cli_alarm(c) \/ cli_interactive(c) \/ cli_quit(c)
       PROVE  AnswerInv'
  <2>1. inbox \in Seq(Request) /\ Ready(c, cl[c])
    BY <1>9, <1>10 DEF cli_alarm, cli_interactive, cli_quit
  <2>2. "ping" \in Waiting /\ Asked["ping"] = "P" /\ "killed" \notin Waiting
    BY DEF Waiting, Asked
  <2>3. /\ Sound(c, Send(c, cl[c], "P", "ping")) /\ Sound(c, Stay(cl[c], "killed"))
        /\ \A watch \in BOOLEAN : Sound(c, request(c, cl[c], watch))
        /\ Sound(c, cli_close_connection(c, cl[c], "lost"))
        /\ Sound(c, cli_close_connection(c, cl[c], "quit"))
    BY <2>1, <2>2, SendSound, StaySound, CloseSound, RequestSound
  <2>4. \E s : Sound(c, s) /\ Does(c, s)
    BY <1>10, <2>3 DEF cli_alarm, cli_interactive, cli_quit, Watches
  <2> QED
    BY <2>4, DoesKeeps
<1>11. ASSUME NEW c \in Clients, cli_terminate(c) PROVE AnswerInv'
  <2> DEFINE r == cl[c]
             t == [r EXCEPT !.gaveup = TRUE,
                            !.loose = IF cl[c].pc \in {"attach", "watch"} THEN @ + 1
                                      ELSE @]
  <2>1. inbox \in Seq(Request) /\ Basic(r)
    BY DEF AnswerInv
  <2>2. /\ Members \subseteq DOMAIN t /\ t.queue = r.queue /\ t.gaveup = TRUE
        /\ t.mixed = r.mixed
    BY <2>1 DEF Basic, Members
  <2>3. Does(c, cli_close_connection(c, t, "quit"))
    BY <1>11 DEF cli_terminate
  <2> HIDE DEF r, t
  <2>4. Ready(c, t)
    BY <2>1, <2>2 DEF Ready, Basic
  <2> QED
    BY <2>1, <2>3, <2>4, CloseSound, DoesKeeps
<1>12. ASSUME NEW c \in Clients, Kill(c) PROVE AnswerInv'
  <2> DEFINE r == cl[c]
             t == [clif_close(r) EXCEPT !.pc = "killed"]
  <2>1. inbox \in Seq(Request) /\ Basic(r)
    BY DEF AnswerInv
  <2>2. /\ Members \subseteq DOMAIN t /\ t.queue = <<>> /\ t.gaveup = r.gaveup
        /\ t.mixed = r.mixed /\ t.pc = "killed"
    BY <2>1 DEF Basic, Members, clif_close
  <2>3. Does(c, [client |-> t, sends |-> <<>>])
    BY <1>12 DEF Kill, Stay
  <2> HIDE DEF r, t
  <2>4. Basic(t) /\ InStep(inbox \o <<>>, c, t)
    BY <2>1, <2>2 DEF Basic, InStep, Ended
  <2>5. Sound(c, [client |-> t, sends |-> <<>>])
    BY <2>1, <2>4 DEF Sound
  <2> QED
    BY <2>3, <2>5, DoesKeeps
<1> QED
  BY <1>2, <1>3, <1>4, <1>5, <1>6, <1>7, <1>8, <1>10, <1>11, <1>12,
     ReceiveKeeps, EventKeeps, DeinitKeeps DEF Next

\* A client takes an answer for that of another request only after it has
\* itself given up one, whatever the clients, commands, stops and restarts of
\* the daemon: messages carry no number (clif_request()), but until a request
\* is given up at most one exchange of a client is under way.
THEOREM OwnAnswers == Spec => []TakesOwnAnswer
<1>1. Init => AnswerInv
  <2> SUFFICES ASSUME Init PROVE AnswerInv
    OBVIOUS
  <2>1. inbox = <<>> /\ DOMAIN cl = Clients /\ dst \in [Clients -> Seq(Entry)]
    BY DEF Init, NoMonitors
  <2>2. ASSUME NEW c \in Clients PROVE Basic(cl[c]) /\ InStep(inbox, c, cl[c])
    <3>1. PICK how : cl[c] = Client(how)
      BY DEF Init
    <3>2. Basic(Client(how)) /\ Client(how).pc = "start" /\ Client(how).queue = <<>>
      BY DEF Client, Basic, Members
    <3>3. "start" \notin Waiting
      BY DEF Waiting, Asked
    <3>4. Clean(<<>>, <<>>, c)
      BY DEF Clean, Requests, Answers
    <3> QED
      BY <2>1, <3>1, <3>2, <3>3, <3>4 DEF InStep
  <2> QED
    BY <2>1, <2>2 DEF AnswerInv
<1>2. AnswerInv => TakesOwnAnswer
  BY DEF AnswerInv, Basic, TakesOwnAnswer
<1> QED
  BY <1>1, <1>2, StepAnswer, PTL DEF Spec

-----------------------------------------------------------------------------
(* Monitors                                                                 *)

Adds(req, c) == req.from = c /\ req.cmd \in {"A", "W"}
Takes(req, c) == req.from = c /\ req.cmd = "D"

\* f bounds the entries of client c from above, from the n it has now to those
\* after the last queued request: f[i] is for the first i requests.  A detach
\* of a client with no entries takes none, so that the bound is no sum.
Above(box, c, n, f) ==
  /\ f \in [0..Len(box) -> Nat]
  /\ n <= f[0]
  /\ \A i \in 1..Len(box) :
       /\ Adds(box[i], c) => f[i - 1] + 1 <= f[i]
       /\ Takes(box[i], c) => f[i - 1] <= f[i] + 1
       /\ ~Adds(box[i], c) /\ ~Takes(box[i], c) => f[i - 1] <= f[i]
  /\ \A i \in 0..Len(box) :
       (\A j \in (i + 1)..Len(box) : box[j].from # c) => f[i] <= f[Len(box)]

\* The daemon will end with at most k entries.
AtMost(box, c, n, k) == \E f : Above(box, c, n, f) /\ f[Len(box)] <= k

\* It will end with one at least: it has one (i = 0), or will add one, and no
\* detach comes after that.
AtLeast(box, c, n) ==
  \E i \in 0..Len(box) :
    /\ IF i = 0 THEN n > 0 ELSE Adds(box[i], c)
    /\ \A j \in (i + 1)..Len(box) : ~Takes(box[j], c)

\* What cli_attached stands for, and what the attach under way may add.
On(r) == IF r.attached /\ r.conn = "open" THEN 1 ELSE 0
Own(r) == IF r.pc \in {"lost", "quit"} THEN 0 ELSE On(r)
Coming(r) == IF r.conn = "open" /\ r.pc \in {"attach", "watch"} THEN 1 ELSE 0
Most(r) == r.loose + Own(r) + Coming(r)

\* Whether a client means to be attached: it is about to, or it is and has not
\* set about to detach, on a connection that still has its daemon.
Means(r) == r.conn = "open" /\ (r.pc \in {"attach", "watch"} \/ Own(r) = 1)

\* A closed connection is that of a client with nothing under way, such as one
\* that starts.
Shut(r) ==
  /\ r.conn = "closed" => r.pc \in {"start", "idle", "gone"} /\ ~r.attached
  /\ r.pc = "start" => r.conn = "closed"

Fields == {"pc", "conn", "attached", "queue", "loose", "gaveup", "mixed"}
Known(r) == /\ Fields \subseteq DOMAIN r /\ r.conn \in {"closed", "open", "dead"}
            /\ r.loose \in Nat

Agrees(box, c, r, n, lost) ==
  r.pc # "killed" => /\ AtMost(box, c, n, Most(r)) /\ Shut(r)
                     /\ ~lost /\ Means(r) => AtLeast(box, c, n)

\* The inductive invariant: what the daemon's list will say when the queued
\* requests are done is within the bounds of what the client knows.
ViewInv ==
  /\ inbox \in Seq(Request)
  /\ DOMAIN cl = Clients
  /\ dst \in [Clients -> Seq(Entry)]
  /\ ~up => dst = NoMonitors
  /\ \A c \in Clients : Known(cl[c])
  /\ \A c \in Root : Agrees(inbox, c, cl[c], Len(dst[c]), forgot)

\* The bound on the client's side is a number.
LEMMA MostNat ==
  ASSUME NEW r, Known(r)
  PROVE  /\ Most(r) \in Nat /\ r.loose + On(r) \in Nat /\ On(r) \in {0, 1}
         /\ Own(r) \in {0, 1} /\ Coming(r) \in {0, 1}
BY DEF Known, Most, On, Own, Coming

\* The bounds may be wider than they need be.
LEMMA AtMostWider ==
  ASSUME NEW box, NEW c, NEW n \in Nat, NEW k \in Nat, AtMost(box, c, n, k),
         NEW m \in Nat, m <= n, NEW l \in Nat, k <= l, Len(box) \in Nat
  PROVE  AtMost(box, c, m, l)
<1>1. PICK f : Above(box, c, n, f) /\ f[Len(box)] <= k
  BY DEF AtMost
<1>2. f[0] \in Nat /\ f[Len(box)] \in Nat /\ n <= f[0]
  BY <1>1 DEF Above
<1>3. Above(box, c, m, f) /\ f[Len(box)] <= l
  BY <1>1, <1>2 DEF Above
<1> QED
  BY <1>3 DEF AtMost

\* A request joins the queue.
LEMMA AtMostSent ==
  ASSUME NEW box \in Seq(Request), NEW c, NEW n \in Nat, NEW k \in Nat,
         AtMost(box, c, n, k), NEW req \in Request, NEW l \in Nat,
         Adds(req, c) => k + 1 <= l,
         Takes(req, c) => k <= l + 1,
         ~Adds(req, c) /\ ~Takes(req, c) => k <= l
  PROVE  AtMost(box \o <<req>>, c, n, l)
<1> DEFINE b == box \o <<req>>
           L == Len(box)
<1>1. /\ L \in Nat /\ Len(b) = L + 1 /\ b[L + 1] = req
      /\ \A i \in 1..L : b[i] = box[i]
  OBVIOUS
<1>2. PICK f : Above(box, c, n, f) /\ f[L] <= k
  BY DEF AtMost
<1> DEFINE g == [i \in 0..(L + 1) |-> IF i = L + 1 THEN l ELSE f[i]]
<1>3. /\ f \in [0..L -> Nat] /\ n <= f[0] /\ f[L] \in Nat
  BY <1>1, <1>2 DEF Above
<1>4. /\ g \in [0..(L + 1) -> Nat] /\ g[L + 1] = l
      /\ \A i \in 0..L : g[i] = f[i]
  BY <1>1, <1>3
<1> HIDE DEF g, b, L
<1>5. n <= g[0]
  BY <1>1, <1>3, <1>4
<1>6. ASSUME NEW i \in 1..(L + 1)
      PROVE  /\ Adds(b[i], c) => g[i - 1] + 1 <= g[i]
             /\ Takes(b[i], c) => g[i - 1] <= g[i] + 1
             /\ ~Adds(b[i], c) /\ ~Takes(b[i], c) => g[i - 1] <= g[i]
  <2>1. CASE i = L + 1
    <3>1. b[i] = req /\ g[i] = l /\ g[i - 1] = f[L]
      BY <1>1, <1>4, <2>1
    <3> QED
      BY <1>2, <1>3, <3>1
  <2>2. CASE i \in 1..L
    <3>1. b[i] = box[i] /\ g[i] = f[i] /\ g[i - 1] = f[i - 1]
      <4>1. i \in 0..L /\ i - 1 \in 0..L
        BY <1>1, <2>2
      <4> QED
        BY <1>1, <1>4, <2>2, <4>1
    <3> QED
      BY <1>2, <2>2, <3>1 DEF Above, L
  <2> QED
    BY <1>1, <2>1, <2>2
<1>7. ASSUME NEW i \in 0..(L + 1), \A j \in (i + 1)..(L + 1) : b[j].from # c
      PROVE  g[i] <= g[L + 1]
  <2>1. CASE i = L + 1
    BY <1>1, <1>4, <2>1
  <2>2. CASE i \in 0..L
    <3>1. L + 1 \in (i + 1)..(L + 1)
      BY <1>1, <2>2
    <3>2. req.from # c
      BY <1>1, <1>7, <3>1
    <3>3. \A j \in (i + 1)..L : box[j].from # c
      <4> SUFFICES ASSUME NEW j \in (i + 1)..L PROVE box[j].from # c
        OBVIOUS
      <4>1. j \in (i + 1)..(L + 1) /\ j \in 1..L
        BY <1>1, <2>2
      <4> QED
        BY <1>1, <1>7, <4>1
    <3>4. f[i] <= f[L]
      BY <1>2, <2>2, <3>3 DEF Above, L
    <3>5. k <= l
      BY <3>2 DEF Adds, Takes
    <3>6. f[i] \in Nat /\ g[i] = f[i]
      BY <1>3, <1>4, <2>2
    <3> QED
      BY <1>2, <1>3, <1>4, <3>4, <3>5, <3>6
  <2> QED
    BY <1>1, <2>1, <2>2
<1>8. Above(b, c, n, g)
  BY <1>1, <1>4, <1>5, <1>6, <1>7 DEF Above
<1>9. g[Len(b)] <= l
  BY <1>1, <1>4
<1> QED
  BY <1>8, <1>9 DEF AtMost, b

LEMMA AtLeastSent ==
  ASSUME NEW box \in Seq(Request), NEW c, NEW n \in Nat, NEW req \in Request
  PROVE  /\ Adds(req, c) => AtLeast(box \o <<req>>, c, n)
         /\ ~Takes(req, c) /\ AtLeast(box, c, n) => AtLeast(box \o <<req>>, c, n)
<1> DEFINE b == box \o <<req>>
           L == Len(box)
<1>1. /\ L \in Nat /\ Len(b) = L + 1 /\ b[L + 1] = req
      /\ \A i \in 1..L : b[i] = box[i]
  OBVIOUS
<1> HIDE DEF b, L
<1>2. ASSUME Adds(req, c) PROVE AtLeast(b, c, n)
  <2>1. L + 1 \in 0..Len(b) /\ L + 1 # 0 /\ Adds(b[L + 1], c)
    BY <1>1, <1>2
  <2>2. \A j \in (L + 1 + 1)..Len(b) : ~Takes(b[j], c)
    BY <1>1
  <2> QED
    BY <2>1, <2>2 DEF AtLeast
<1>3. ASSUME ~Takes(req, c), AtLeast(box, c, n) PROVE AtLeast(b, c, n)
  <2>1. PICK i \in 0..L : /\ IF i = 0 THEN n > 0 ELSE Adds(box[i], c)
                          /\ \A j \in (i + 1)..L : ~Takes(box[j], c)
    BY <1>3 DEF AtLeast, L
  <2>2. IF i = 0 THEN n > 0 ELSE Adds(b[i], c)
    BY <1>1, <2>1
  <2>3. ASSUME NEW j \in (i + 1)..(L + 1) PROVE ~Takes(b[j], c)
    BY <1>1, <1>3, <2>1, <2>3
  <2> QED
    BY <1>1, <2>1, <2>2, <2>3 DEF AtLeast
<1> QED
  BY <1>2, <1>3 DEF b

\* The request at the head of the queue is done.
LEMMA BoundsServed ==
  ASSUME NEW box \in Seq(Request), box # <<>>, NEW c, NEW n \in Nat, NEW m \in Nat,
         Adds(Head(box), c) => m = n + 1,
         Takes(Head(box), c) => m = IF n = 0 THEN 0 ELSE n - 1,
         ~Adds(Head(box), c) /\ ~Takes(Head(box), c) => m = n
  PROVE  /\ \A k \in Nat : AtMost(box, c, n, k) => AtMost(Tail(box), c, m, k)
         /\ AtLeast(box, c, n) => AtLeast(Tail(box), c, m)
<1> DEFINE b == Tail(box)
           L == Len(b)
<1>1. /\ L \in Nat /\ Len(box) = L + 1 /\ box[1] = Head(box)
      /\ \A i \in 1..L : b[i] = box[i + 1]
  OBVIOUS
<1> HIDE DEF b, L
<1>2. ASSUME NEW k \in Nat, AtMost(box, c, n, k) PROVE AtMost(b, c, m, k)
  <2>1. PICK f : Above(box, c, n, f) /\ f[L + 1] <= k
    BY <1>1, <1>2 DEF AtMost
  <2> DEFINE g == [i \in 0..L |-> f[i + 1]]
  <2>2. f \in [0..(L + 1) -> Nat] /\ n <= f[0]
    BY <1>1, <2>1 DEF Above
  <2>3. /\ g \in [0..L -> Nat] /\ g[L] = f[L + 1] /\ g[0] = f[1]
        /\ \A i \in 0..L : g[i] = f[i + 1]
    BY <1>1, <2>2
  <2> HIDE DEF g
  <2>4. m <= g[0]
    <3>0. 1 \in 1..Len(box) /\ 1 - 1 = 0
      BY <1>1
    <3>1. /\ Adds(box[1], c) => f[0] + 1 <= f[1]
          /\ Takes(box[1], c) => f[0] <= f[1] + 1
          /\ ~Adds(box[1], c) /\ ~Takes(box[1], c) => f[0] <= f[1]
      BY <2>1, <3>0 DEF Above
    <3>2. f[0] \in Nat /\ f[1] \in Nat
      BY <1>1, <2>2
    <3>3. ~(Adds(box[1], c) /\ Takes(box[1], c))
      BY DEF Adds, Takes
    <3> QED
      BY <1>1, <2>2, <2>3, <3>1, <3>2, <3>3
  <2>5. ASSUME NEW i \in 1..L
        PROVE  /\ Adds(b[i], c) => g[i - 1] + 1 <= g[i]
               /\ Takes(b[i], c) => g[i - 1] <= g[i] + 1
               /\ ~Adds(b[i], c) /\ ~Takes(b[i], c) => g[i - 1] <= g[i]
    <3>1. i + 1 \in 1..Len(box) /\ b[i] = box[i + 1] /\ g[i] = f[i + 1] /\ g[i - 1] = f[i + 1 - 1]
      BY <1>1, <2>3
    <3> QED
      BY <2>1, <3>1 DEF Above
  <2>6. ASSUME NEW i \in 0..L, \A j \in (i + 1)..L : b[j].from # c
        PROVE  g[i] <= g[L]
    <3>1. i + 1 \in 0..Len(box) /\ g[i] = f[i + 1]
      BY <1>1, <2>3
    <3>2. \A j \in (i + 1 + 1)..Len(box) : box[j].from # c
      <4> SUFFICES ASSUME NEW j \in (i + 1 + 1)..Len(box) PROVE box[j].from # c
        OBVIOUS
      <4>1. j - 1 \in (i + 1)..L /\ j - 1 \in 1..L /\ j - 1 + 1 = j
        BY <1>1
      <4> QED
        BY <1>1, <2>6, <4>1
    <3> QED
      BY <1>1, <2>1, <2>3, <3>1, <3>2 DEF Above
  <2>7. Above(b, c, m, g)
    BY <2>3, <2>4, <2>5, <2>6 DEF Above, L
  <2> QED
    BY <2>1, <2>3, <2>7 DEF AtMost, L
<1>3. ASSUME AtLeast(box, c, n) PROVE AtLeast(b, c, m)
  <2>1. PICK i \in 0..Len(box) : /\ IF i = 0 THEN n > 0 ELSE Adds(box[i], c)
                                 /\ \A j \in (i + 1)..Len(box) : ~Takes(box[j], c)
    BY <1>3 DEF AtLeast
  <2>2. CASE i \in {0, 1}
    <3>1. m > 0
      <4>1. CASE i = 0
        <5>1. 1 \in (i + 1)..Len(box)
          BY <1>1, <4>1
        <5>2. ~Takes(box[1], c) /\ n > 0
          BY <2>1, <4>1, <5>1
        <5> QED
          BY <1>1, <5>2
      <4>2. CASE i = 1
        BY <1>1, <2>1, <4>2
      <4> QED
        BY <2>2, <4>1, <4>2
    <3>2. ASSUME NEW j \in 1..L PROVE ~Takes(b[j], c)
      <4>1. j + 1 \in (i + 1)..Len(box)
        BY <1>1, <2>2
      <4> QED
        BY <1>1, <2>1, <4>1
    <3> QED
      BY <1>1, <3>1, <3>2 DEF AtLeast, L
  <2>3. CASE i \notin {0, 1}
    <3>1. i - 1 \in 0..L /\ i - 1 # 0 /\ i - 1 \in 1..L /\ i - 1 + 1 = i
      BY <1>1, <2>3
    <3>2. Adds(b[i - 1], c)
      BY <1>1, <2>1, <2>3, <3>1
    <3>3. ASSUME NEW j \in (i - 1 + 1)..L PROVE ~Takes(b[j], c)
      <4>1. j + 1 \in (i + 1)..Len(box) /\ j \in 1..L
        BY <1>1, <3>1
      <4> QED
        BY <1>1, <2>1, <4>1
    <3> QED
      BY <3>1, <3>2, <3>3 DEF AtLeast, L
  <2> QED
    BY <2>2, <2>3
<1> QED
  BY <1>2, <1>3 DEF b

\* With nothing queued the bounds are those of the list.
LEMMA BoundsNow ==
  ASSUME NEW box \in Seq(Request), NEW c, \A i \in DOMAIN box : box[i].from # c,
         NEW n \in Nat
  PROVE  /\ \A k \in Nat : AtMost(box, c, n, k) => n <= k
         /\ AtLeast(box, c, n) => n > 0
<1>0. Len(box) \in Nat /\ DOMAIN box = 1..Len(box)
  OBVIOUS
<1>1. ASSUME NEW k \in Nat, AtMost(box, c, n, k) PROVE n <= k
  <2>1. PICK f : Above(box, c, n, f) /\ f[Len(box)] <= k
    BY <1>1 DEF AtMost
  <2>2. f[0] \in Nat /\ f[Len(box)] \in Nat /\ n <= f[0]
    BY <1>0, <2>1 DEF Above
  <2>3. 0 \in 0..Len(box) /\ \A j \in (0 + 1)..Len(box) : box[j].from # c
    BY <1>0
  <2>4. f[0] <= f[Len(box)]
    BY <2>1, <2>3 DEF Above
  <2> QED
    BY <2>1, <2>2, <2>4
<1>2. AtLeast(box, c, n) => n > 0
  BY <1>0 DEF AtLeast, Adds
<1> QED
  BY <1>1, <1>2

\* A daemon that has ended has no entries and, without systemd, no requests.
LEMMA AtMostNone ==
  ASSUME NEW c, NEW k \in Nat
  PROVE  AtMost(<<>>, c, 0, k)
<1> DEFINE f == [i \in 0..0 |-> 0]
<1>1. f \in [0..0 -> Nat] /\ f[0] = 0
  OBVIOUS
<1> HIDE DEF f
<1>2. Above(<<>>, c, 0, f)
  BY <1>1 DEF Above
<1> QED
  BY <1>1, <1>2 DEF AtMost

-----------------------------------------------------------------------------
(* The steps of a client, and the list of monitors                          *)

\* The bounds on the list after the requests that are queued now.
MostNow(c, k) == AtMost(inbox, c, Len(dst[c]), k)
LeastNow(c) == AtLeast(inbox, c, Len(dst[c]))

\* A client whose own entry is gone, or on its way out; one that will have at
\* most the entry it knows of; one that has it.
Off(c, r) == Known(r) /\ (c \in Root => MostNow(c, r.loose))

Leaves(c, r) == Known(r) /\ (c \in Root => MostNow(c, r.loose + On(r)))

Settled(c, r) ==
  /\ Leaves(c, r)
  /\ c \in Root => /\ ~forgot /\ On(r) = 1 => LeastNow(c)
                   /\ r.conn = "closed" => ~r.attached

\* A client that waits, or has an event to wait for.
Waits(c, r) ==
  /\ Known(r)
  /\ c \in Root => /\ MostNow(c, Most(r)) /\ r.conn # "closed"
                   /\ ~forgot /\ Means(r) => LeastNow(c)

\* A step after which what the client knows and what it has sent agree.
Fits(c, s) ==
  /\ s.sends \in Seq(Request)
  /\ \A i \in DOMAIN s.sends : s.sends[i].from = c
  /\ s.sends = <<>> \/ \E req \in Request : s.sends = <<req>>
  /\ Known(s.client)
  /\ c \in Root => Agrees(inbox \o s.sends, c, s.client, Len(dst[c]), forgot)

\* The types every lemma needs.
Typed == inbox \in Seq(Request) /\ dst \in [Clients -> Seq(Entry)]

\* What a step that sends nothing, a step that sends one request, and closing a
\* connection leave.
LEMMA StayFits ==
  ASSUME Typed, NEW c \in Clients, NEW r, Known(r), NEW pc, pc # "start",
         c \in Root => LET t == [r EXCEPT !.pc = pc] IN
           /\ MostNow(c, Most(t))
           /\ ~forgot /\ Means(t) => LeastNow(c)
           /\ r.conn = "closed" => pc \in {"idle", "gone"} /\ ~r.attached
  PROVE  Fits(c, Stay(r, pc))
<1> DEFINE t == [r EXCEPT !.pc = pc]
<1>1. /\ Known(t) /\ t.pc = pc /\ t.conn = r.conn
      /\ t.attached = r.attached /\ t.loose = r.loose
  BY DEF Known, Fields
<1>2. Stay(r, pc) = [client |-> t, sends |-> <<>>]
  BY DEF Stay
<1>3. c \in Root => /\ MostNow(c, Most(t))
                    /\ ~forgot /\ Means(t) => LeastNow(c)
                    /\ r.conn = "closed" => pc \in {"idle", "gone"} /\ ~r.attached
  OBVIOUS
<1> HIDE DEF t
<1>4. c \in Root => Agrees(inbox, c, t, Len(dst[c]), forgot)
  BY <1>1, <1>3 DEF Agrees, Shut, MostNow, LeastNow
<1>5. inbox \o <<>> = inbox /\ <<>> \in Seq(Request) /\ DOMAIN <<>> = {}
  BY DEF Typed
<1> QED
  BY <1>1, <1>2, <1>4, <1>5 DEF Fits

LEMMA SendFits ==
  ASSUME Typed, NEW c \in Clients, NEW r, Leaves(c, r), r.conn = "open",
         NEW pc \in Waiting, pc \in {"ping", "command"} => Settled(c, r)
  PROVE  Fits(c, Send(c, r, Asked[pc], pc))
<1> DEFINE t == [r EXCEPT !.pc = pc]
           req == [from |-> c, cmd |-> Asked[pc]]
           n == Len(dst[c])
           k == r.loose + On(r)
<1>1. /\ Known(t) /\ t.pc = pc /\ t.conn = "open"
      /\ t.attached = r.attached /\ t.loose = r.loose
  BY DEF Leaves, Known, Fields
<1>2. Send(c, r, Asked[pc], pc) = [client |-> t, sends |-> <<req>>]
  BY DEF Send
<1>3. pc \in {"attach", "watch", "ping", "command", "lost", "quit"}
  BY DEF Waiting, Asked
<1>4. /\ pc \in {"attach", "watch"} => Asked[pc] \in {"A", "W"}
      /\ pc \in {"lost", "quit"} => Asked[pc] = "D"
      /\ pc \in {"ping", "command"} => Asked[pc] \in {"P", "M"}
  BY DEF Asked
<1>5. /\ req \in Request /\ req.from = c
      /\ pc \in {"attach", "watch"} <=> Adds(req, c)
      /\ pc \in {"lost", "quit"} <=> Takes(req, c)
  BY <1>3, <1>4 DEF Request, Adds, Takes
<1> HIDE DEF t, req
<1>6. k \in Nat /\ n \in Nat /\ Most(t) \in Nat /\ On(r) \in {0, 1} /\ r.loose \in Nat
  BY <1>1, MostNat DEF Leaves, Typed, Known
<1>7. On(t) = On(r)
  BY <1>1 DEF On
<1>8. /\ pc \in {"attach", "watch"} => k + 1 <= Most(t)
      /\ pc \in {"lost", "quit"} => k <= Most(t) + 1
      /\ pc \in {"ping", "command"} => k <= Most(t)
  <2>1. /\ pc \in {"attach", "watch"} => Own(t) = On(r) /\ Coming(t) = 1
        /\ pc \in {"lost", "quit"} => Own(t) = 0 /\ Coming(t) = 0
        /\ pc \in {"ping", "command"} => Own(t) = On(r) /\ Coming(t) = 0
    BY <1>1, <1>7 DEF Own, Coming
  <2>2. Most(t) = r.loose + Own(t) + Coming(t)
    BY <1>1 DEF Most
  <2> QED
    BY <1>3, <1>6, <2>1, <2>2
<1> HIDE DEF k, n
<1>9. ASSUME c \in Root PROVE Agrees(inbox \o <<req>>, c, t, n, forgot)
  <2>1. AtMost(inbox, c, n, k)
    BY <1>9 DEF Leaves, MostNow, k, n
  <2>2. AtMost(inbox \o <<req>>, c, n, Most(t))
    BY <1>3, <1>5, <1>6, <1>8, <2>1, AtMostSent DEF Typed
  <2>3. Shut(t)
    BY <1>1, <1>3 DEF Shut
  <2>4. ASSUME ~forgot, Means(t) PROVE AtLeast(inbox \o <<req>>, c, n)
    <3>1. CASE pc \in {"attach", "watch"}
      BY <1>5, <1>6, <3>1, AtLeastSent DEF Typed
    <3>2. CASE pc \in {"ping", "command"}
      <4>1. On(r) = 1
        BY <1>1, <1>7, <2>4, <3>2 DEF Means, Own
      <4>2. AtLeast(inbox, c, n)
        BY <1>9, <2>4, <3>2, <4>1 DEF Settled, LeastNow, n
      <4> QED
        BY <1>5, <1>6, <3>2, <4>2, AtLeastSent DEF Typed
    <3>3. CASE pc \in {"lost", "quit"}
      BY <1>1, <2>4, <3>3 DEF Means, Own
    <3> QED
      BY <1>3, <3>1, <3>2, <3>3
  <2> QED
    BY <2>2, <2>3, <2>4 DEF Agrees
<1>10. <<req>> \in Seq(Request) /\ \A i \in DOMAIN <<req>> : <<req>>[i].from = c
  BY <1>5
<1> QED
  BY <1>1, <1>2, <1>9, <1>10 DEF Fits, n

LEMMA OpenKnown ==
  ASSUME NEW r, Known(r)
  PROVE  LET t == clif_close(r)
             u == clif_open(r) IN
         /\ Known(t) /\ t.conn = "closed" /\ t.attached = FALSE /\ t.loose = r.loose
         /\ Known(u) /\ u.conn = "open" /\ u.attached = FALSE /\ u.loose = r.loose
<1> DEFINE t == clif_close(r)
           u == clif_open(r)
<1>1. Known(t) /\ t.conn = "closed" /\ t.attached = FALSE /\ t.loose = r.loose
  BY DEF clif_close, Known, Fields
<1> HIDE DEF t
<1>2. Known(u) /\ u.conn = "open" /\ u.attached = FALSE /\ u.loose = r.loose
  BY <1>1 DEF clif_open, t, Known, Fields
<1> QED
  BY <1>1, <1>2 DEF t

\* A new connection of a client whose own entry is gone.
LEMMA OpenSettled ==
  ASSUME NEW c, NEW r, Off(c, r)
  PROVE  Settled(c, clif_open(r)) /\ clif_open(r).conn = "open"
<1> DEFINE u == clif_open(r)
<1>1. Known(u) /\ u.conn = "open" /\ u.attached = FALSE /\ u.loose = r.loose
  BY OpenKnown DEF Off
<1> HIDE DEF u
<1>2. On(u) = 0 /\ u.loose + 0 = r.loose
  BY <1>1 DEF On, Known
<1> QED
  BY <1>1, <1>2 DEF Settled, Leaves, Off, u

LEMMA ClosedFits ==
  ASSUME Typed, NEW c \in Clients, NEW r, Off(c, r), NEW why \in {"lost", "quit"}
  PROVE  Fits(c, Reconnect(c, r)) /\ Fits(c, Closed(c, r, why))
<1> DEFINE t == clif_close(r)
<1>1. Known(t) /\ t.conn = "closed" /\ t.attached = FALSE /\ t.loose = r.loose
  BY OpenKnown DEF Off
<1>2. "attach" \in Waiting /\ Asked["attach"] = "A" /\ "attach" \notin {"ping", "command"}
  BY DEF Waiting, Asked
<1>3. Fits(c, Send(c, clif_open(r), Asked["attach"], "attach"))
  BY <1>2, OpenSettled, SendFits DEF Settled
<1> HIDE DEF t
<1>4. ASSUME NEW pc \in {"idle", "gone"} PROVE Fits(c, Stay(t, pc))
  <2> DEFINE u == [t EXCEPT !.pc = pc]
  <2>1. /\ u.pc = pc /\ u.conn = "closed" /\ u.loose = r.loose /\ r.loose \in Nat
    BY <1>1 DEF Known, Fields, Off
  <2> HIDE DEF u
  <2>2. Most(u) = r.loose /\ ~Means(u)
    BY <2>1 DEF Most, Own, On, Coming, Means
  <2>3. c \in Root => MostNow(c, Most(u)) /\ ~Means(u)
    BY <2>2 DEF Off
  <2> QED
    BY <1>1, <2>3, StayFits DEF u
<1>5. Fits(c, Reconnect(c, r))
  BY <1>2, <1>3, <1>4 DEF Reconnect, t
<1>6. Fits(c, Closed(c, r, why))
  BY <1>4, <1>5 DEF Closed, t
<1> QED
  BY <1>5, <1>6

LEMMA CloseFits ==
  ASSUME Typed, NEW c \in Clients, NEW r, Leaves(c, r), NEW why \in {"lost", "quit"}
  PROVE  Fits(c, cli_close_connection(c, r, why))
<1>1. CASE r.attached /\ r.conn = "open"
  <2>1. why \in Waiting /\ Asked[why] = "D" /\ why \notin {"ping", "command"}
    BY DEF Waiting, Asked
  <2>2. Fits(c, Send(c, r, Asked[why], why))
    BY <1>1, <2>1, SendFits
  <2> QED
    BY <1>1, <2>1, <2>2 DEF cli_close_connection
<1>2. CASE ~(r.attached /\ r.conn = "open")
  <2>1. On(r) = 0 /\ r.loose + 0 = r.loose
    BY <1>2 DEF On, Leaves, Known
  <2>2. Off(c, r)
    BY <2>1 DEF Leaves, Off
  <2> QED
    BY <1>2, <2>2, ClosedFits DEF cli_close_connection
<1> QED
  BY <1>1, <1>2

LEMMA PendingFits ==
  ASSUME Typed, NEW c \in Clients, NEW r, Settled(c, r)
  PROVE  Fits(c, cli_recv_pending(c, r))
<1> DEFINE t == [r EXCEPT !.queue = <<>>]
<1>1. /\ Known(t) /\ t.conn = r.conn /\ t.attached = r.attached /\ t.loose = r.loose
  BY DEF Settled, Leaves, Known, Fields
<1> HIDE DEF t
<1>2. Fits(c, Stay(t, "idle"))
  <2> DEFINE u == [t EXCEPT !.pc = "idle"]
  <2>1. /\ u.pc = "idle" /\ u.conn = r.conn /\ u.loose = r.loose
        /\ u.attached = r.attached
    BY <1>1 DEF Known, Fields
  <2>2. r.loose \in Nat
    BY DEF Settled, Leaves, Known
  <2> HIDE DEF u
  <2>3. Most(u) = r.loose + On(r) /\ (Means(u) => On(r) = 1)
    BY <2>1, <2>2 DEF Most, Own, On, Coming, Means
  <2>4. c \in Root => /\ MostNow(c, Most(u))
                      /\ ~forgot /\ Means(u) => LeastNow(c)
                      /\ t.conn = "closed" => ~t.attached
    BY <1>1, <2>3 DEF Settled, Leaves
  <2> QED
    BY <1>1, <2>4, StayFits DEF u
<1>3. Fits(c, cli_close_connection(c, r, "quit"))
  BY CloseFits DEF Settled
<1> QED
  BY <1>2, <1>3 DEF cli_recv_pending, t

LEMMA RequestFits ==
  ASSUME Typed, NEW c \in Clients, NEW r, Settled(c, r), r.conn = "open",
         NEW watch \in BOOLEAN
  PROVE  /\ Fits(c, request(c, r, watch)) /\ Fits(c, Send(c, r, "P", "ping"))
         /\ Fits(c, Send(c, r, "M", "command"))
<1>1. /\ "command" \in Waiting /\ Asked["command"] = "M"
      /\ "watch" \in Waiting /\ Asked["watch"] = "W"
      /\ "ping" \in Waiting /\ Asked["ping"] = "P"
  BY DEF Waiting, Asked
<1>2. Leaves(c, r)
  BY DEF Settled
<1>3. ASSUME NEW pc \in {"watch", "command", "ping"}
      PROVE  Fits(c, Send(c, r, Asked[pc], pc))
  BY <1>1, <1>2, SendFits
<1>4. /\ Fits(c, Send(c, r, "M", "command")) /\ Fits(c, Send(c, r, "W", "watch"))
      /\ Fits(c, Send(c, r, "P", "ping"))
  BY <1>1, <1>3
<1> QED
  BY <1>4 DEF request

\* An attach that the client knows of has its bit; any other one is loose.
LEMMA AttachFits ==
  ASSUME Typed, NEW c \in Clients, NEW r, Waits(c, r), r.pc \in {"attach", "watch"},
         NEW ok \in BOOLEAN
  PROVE  Fits(c, AfterAttach(c, r, ok))
<1> DEFINE t == [r EXCEPT !.attached = @ \/ ok,
                         !.loose = IF ok /\ ~r.attached THEN @ ELSE @ + 1]
           n == Len(dst[c])
<1>0. r.loose \in Nat /\ Known(r) /\ n \in Nat /\ Len(inbox) \in Nat
  BY DEF Waits, Known, Typed
<1>1. /\ Fields \subseteq DOMAIN t /\ t.conn = r.conn
      /\ t.attached <=> (r.attached \/ ok)
      /\ t.loose = IF ok /\ ~r.attached THEN r.loose ELSE r.loose + 1
  BY <1>0 DEF Known, Fields
<1>2. AfterAttach(c, r, ok) = IF ok /\ r.pc = "watch" /\ r.conn = "open"
                              THEN Send(c, t, "M", "command") ELSE cli_recv_pending(c, t)
  BY DEF AfterAttach
<1> HIDE DEF t, n
<1>3. Known(t)
  BY <1>0, <1>1 DEF Known
<1>4. /\ Most(r) \in Nat /\ t.loose + On(t) \in Nat /\ Most(r) <= t.loose + On(t)
  <2>1. Most(r) = r.loose + On(r) + (IF r.conn = "open" THEN 1 ELSE 0)
    BY <1>0 DEF Most, Own, Coming
  <2>2. On(r) = (IF r.attached /\ r.conn = "open" THEN 1 ELSE 0)
    BY DEF On
  <2>3. On(t) = (IF (r.attached \/ ok) /\ r.conn = "open" THEN 1 ELSE 0)
    BY <1>1 DEF On
  <2>4. CASE r.conn = "open"
    <3>1. CASE r.attached
      BY <1>0, <1>1, <2>1, <2>2, <2>3, <2>4, <3>1
    <3>2. CASE ~r.attached /\ ok
      BY <1>0, <1>1, <2>1, <2>2, <2>3, <2>4, <3>2
    <3>3. CASE ~r.attached /\ ~ok
      BY <1>0, <1>1, <2>1, <2>2, <2>3, <2>4, <3>3
    <3> QED
      BY <3>1, <3>2, <3>3
  <2>5. CASE r.conn # "open"
    BY <1>0, <1>1, <2>1, <2>2, <2>3, <2>5
  <2> QED
    BY <2>4, <2>5
<1>5. c \in Root => MostNow(c, t.loose + On(t))
  <2> SUFFICES ASSUME c \in Root PROVE AtMost(inbox, c, n, t.loose + On(t))
    BY DEF MostNow, n
  <2>1. AtMost(inbox, c, n, Most(r)) /\ n <= n
    BY <1>0 DEF Waits, MostNow, n
  <2> QED
    BY <1>0, <1>4, <2>1, AtMostWider
<1>6. c \in Root /\ ~forgot /\ On(t) = 1 => LeastNow(c)
  <2>1. On(t) = 1 => Means(r)
    BY <1>1 DEF On, Means
  <2> QED
    BY <2>1 DEF Waits
<1>7. Settled(c, t)
  BY <1>1, <1>3, <1>5, <1>6 DEF Settled, Leaves, Waits
<1>8. r.conn = "open" => Fits(c, Send(c, t, "M", "command"))
  BY <1>1, <1>7, RequestFits
<1> QED
  BY <1>2, <1>7, <1>8, PendingFits

\* A client that waits for no attach knows where it is; one that waits for a
\* detach has let go of its entry.
LEMMA WaitsSettled ==
  ASSUME NEW c, NEW r, Waits(c, r)
  PROVE  /\ r.pc \in {"ping", "command", "event"} => Settled(c, r)
         /\ r.pc \in {"lost", "quit"} => Off(c, r)
<1>0. r.loose \in Nat /\ Known(r)
  BY DEF Waits, Known
<1>1. ASSUME r.pc \in {"ping", "command", "event"} PROVE Settled(c, r)
  <2>1. Most(r) = r.loose + On(r) /\ (On(r) = 1 => Means(r))
    BY <1>0, <1>1 DEF Most, Own, Coming, On, Means
  <2> QED
    BY <1>0, <2>1 DEF Waits, Settled, Leaves
<1>2. ASSUME r.pc \in {"lost", "quit"} PROVE Off(c, r)
  <2>1. Most(r) = r.loose
    BY <1>0, <1>2 DEF Most, Own, Coming
  <2> QED
    BY <1>0, <2>1 DEF Waits, Off
<1> QED
  BY <1>1, <1>2

\* A client that waits goes on after an answer, or without one.
LEMMA AnswerFits ==
  ASSUME Typed, NEW c \in Clients, NEW r, Waits(c, r), r.pc \in Waiting, NEW msg
  PROVE  Fits(c, Answered(c, r, msg)) /\ Fits(c, TimedOut(c, r))
<1>1. r.pc \in {"attach", "watch", "ping", "command", "lost", "quit"}
  BY DEF Waiting, Asked
<1>2. CASE r.pc \in {"attach", "watch"}
  <2>1. clif_attach_helper(msg) \in BOOLEAN
    BY DEF clif_attach_helper
  <2> QED
    BY <1>2, <2>1, AttachFits DEF Answered, TimedOut
<1>3. CASE r.pc \in {"ping", "command"}
  <2>1. Settled(c, r) /\ Leaves(c, r)
    BY <1>3, WaitsSettled DEF Settled
  <2>2. Fits(c, Stay(r, "event"))
    <3> DEFINE u == [r EXCEPT !.pc = "event"]
    <3>1. /\ u.pc = "event" /\ u.conn = r.conn /\ u.loose = r.loose
          /\ u.attached = r.attached /\ r.loose \in Nat
      BY DEF Waits, Known, Fields
    <3> HIDE DEF u
    <3>2. Most(u) = Most(r) /\ (Means(u) => Means(r))
      BY <1>3, <3>1 DEF Most, Own, On, Coming, Means
    <3>3. c \in Root => /\ MostNow(c, Most(u)) /\ r.conn # "closed"
                        /\ ~forgot /\ Means(u) => LeastNow(c)
      BY <3>2 DEF Waits
    <3> QED
      BY <3>3, StayFits DEF u, Waits
  <2> QED
    BY <1>3, <2>1, <2>2, PendingFits, CloseFits DEF Answered, TimedOut
<1>4. CASE r.pc \in {"lost", "quit"}
  BY <1>4, WaitsSettled, ClosedFits DEF Answered, TimedOut
<1> QED
  BY <1>1, <1>2, <1>3, <1>4

-----------------------------------------------------------------------------
(* Every step of the system, and the list of monitors                       *)

LEMMA DoesView ==
  ASSUME ViewInv, NEW c \in Clients, NEW s, Fits(c, s), Does(c, s)
  PROVE  ViewInv'
<1>1. /\ cl' = [cl EXCEPT ![c] = s.client] /\ inbox' = inbox \o s.sends
      /\ UNCHANGED <<dst, up, forgot>>
  BY DEF Does, daemon
<1>2. inbox' \in Seq(Request) /\ DOMAIN cl' = Clients
  BY <1>1 DEF ViewInv, Fits
<1>3. /\ cl'[c] = s.client /\ Known(s.client)
      /\ \A d \in Clients : d # c => cl'[d] = cl[d]
  BY <1>1 DEF ViewInv, Fits
<1>4. ASSUME NEW d \in Root
      PROVE  Agrees(inbox', d, cl'[d], Len(dst[d]), forgot)
  <2>1. d \in Clients /\ Len(dst[d]) \in Nat
    BY CtrlAssumption DEF ViewInv
  <2>2. CASE d = c
    BY <1>1, <1>3, <2>2 DEF Fits
  <2>3. CASE d # c
    <3> DEFINE n == Len(dst[d])
               r == cl[d]
    <3>1. Agrees(inbox, d, r, n, forgot) /\ cl'[d] = r /\ Known(r)
      BY <1>3, <2>1, <2>3 DEF ViewInv
    <3>2. CASE s.sends = <<>>
      <4>1. inbox' = inbox
        BY <1>1, <3>2 DEF ViewInv
      <4> QED
        BY <3>1, <4>1
    <3>3. CASE \E req \in Request : s.sends = <<req>>
      <4>1. PICK req \in Request : s.sends = <<req>>
        BY <3>3
      <4>2. req.from # d
        BY <2>3, <4>1 DEF Fits
      <4>3. ~Adds(req, d) /\ ~Takes(req, d)
        BY <4>2 DEF Adds, Takes
      <4>4. inbox' = inbox \o <<req>> /\ inbox \in Seq(Request)
        BY <1>1, <4>1 DEF ViewInv
      <4> HIDE DEF n, r
      <4>5. Most(r) \in Nat /\ n \in Nat /\ Most(r) <= Most(r)
        BY <2>1, <3>1, MostNat DEF n
      <4>6. AtMost(inbox, d, n, Most(r)) => AtMost(inbox', d, n, Most(r))
        BY <4>3, <4>4, <4>5, AtMostSent
      <4>7. AtLeast(inbox, d, n) => AtLeast(inbox', d, n)
        BY <4>3, <4>4, <4>5, AtLeastSent
      <4> QED
        BY <3>1, <4>6, <4>7 DEF Agrees, n
    <3> QED
      BY <3>2, <3>3 DEF Fits
  <2> QED
    BY <2>2, <2>3
<1> QED
  BY <1>1, <1>2, <1>3, <1>4 DEF ViewInv

\* The members that the bounds are about.
SameView(r, t) == /\ Known(t) /\ t.conn = r.conn /\ t.pc = r.pc
                  /\ (t.attached <=> r.attached) /\ t.loose = r.loose

LEMMA SameBounds ==
  ASSUME NEW r, Known(r), NEW t, SameView(r, t)
  PROVE  /\ Most(t) = Most(r) /\ On(t) = On(r) /\ (Means(t) <=> Means(r))
         /\ Shut(r) => Shut(t)
BY DEF SameView, Most, Own, On, Coming, Means, Shut

LEMMA ReceiveView == ViewInv /\ ctrl_iface_receive => ViewInv'
<1> SUFFICES ASSUME ViewInv, ctrl_iface_receive PROVE ViewInv'
  OBVIOUS
<1> DEFINE req == Head(inbox)
           a == Answer(req)[1]
           e == Answer(req)[2]
           f == req.from
<1>1. /\ inbox # <<>> /\ req \in Request /\ inbox' = Tail(inbox)
      /\ inbox' \in Seq(Request) /\ up /\ UNCHANGED <<up, forgot>>
  BY DEF ctrl_iface_receive, ViewInv
<1>2. dst' = e /\ cl' = IF Reaches(f) THEN [cl EXCEPT ![f].queue = Append(@, a)] ELSE cl
  BY DEF ctrl_iface_receive
<1>3. /\ e \in [Clients -> Seq(Entry)]
      /\ \A c \in Clients : c # f => e[c] = dst[c]
      /\ \A c \in Root : c = f =>
           /\ req.cmd \in {"A", "W"} => Len(e[c]) = Len(dst[c]) + 1
           /\ req.cmd = "D" => Len(e[c]) = IF Len(dst[c]) = 0 THEN 0 ELSE Len(dst[c]) - 1
           /\ req.cmd \in {"P", "M"} => e[c] = dst[c]
  BY <1>1, AnswerList DEF ViewInv
<1>4. f \in Clients /\ req.cmd \in {"A", "W", "D", "P", "M"}
  BY <1>1 DEF Request
<1> HIDE DEF a, e
<1>5. ASSUME NEW c \in Clients PROVE SameView(cl[c], cl'[c])
  <2> DEFINE r == cl[c]
             t == [r EXCEPT !.queue = Append(@, a)]
  <2>1. cl'[c] \in {r, t} /\ Known(r)
    BY <1>2, <1>4 DEF ViewInv
  <2> HIDE DEF r
  <2>2. SameView(r, t) /\ SameView(r, r)
    BY <2>1 DEF Fields, Known, SameView
  <2> HIDE DEF t
  <2> QED
    BY <2>1, <2>2 DEF r
<1>6. DOMAIN cl' = Clients
  BY <1>2, <1>4 DEF ViewInv
<1>7. ASSUME NEW c \in Root
      PROVE  Agrees(inbox', c, cl'[c], Len(dst'[c]), forgot)
  <2> DEFINE n == Len(dst[c])
             m == Len(dst'[c])
  <2>1. /\ c \in Clients /\ Agrees(inbox, c, cl[c], n, forgot) /\ Known(cl[c])
        /\ dst[c] \in Seq(Entry) /\ dst'[c] \in Seq(Entry)
    BY <1>2, <1>3, CtrlAssumption DEF ViewInv
  <2>2. n \in Nat /\ m \in Nat
    BY <2>1
  <2>3. /\ Adds(req, c) => m = n + 1
        /\ Takes(req, c) => m = IF n = 0 THEN 0 ELSE n - 1
        /\ ~Adds(req, c) /\ ~Takes(req, c) => m = n
    <3>1. CASE c # f
      BY <1>2, <1>3, <2>1, <3>1 DEF Adds, Takes
    <3>2. CASE c = f
      BY <1>2, <1>3, <1>4, <2>1, <3>2 DEF Adds, Takes
    <3> QED
      BY <3>1, <3>2
  <2> HIDE DEF n, m
  <2>4. /\ \A k \in Nat : AtMost(inbox, c, n, k) => AtMost(inbox', c, m, k)
        /\ AtLeast(inbox, c, n) => AtLeast(inbox', c, m)
    BY <1>1, <2>2, <2>3, BoundsServed DEF ViewInv, req
  <2>5. /\ Most(cl'[c]) = Most(cl[c]) /\ (Means(cl'[c]) <=> Means(cl[c]))
        /\ (Shut(cl[c]) => Shut(cl'[c])) /\ cl'[c].pc = cl[c].pc
    BY <1>5, <2>1, SameBounds DEF SameView
  <2>6. Most(cl[c]) \in Nat
    BY <2>1, MostNat
  <2> QED
    BY <2>1, <2>4, <2>5, <2>6 DEF Agrees, m
<1>8. \A c \in Clients : Known(cl'[c])
  BY <1>5 DEF SameView
<1> QED
  BY <1>1, <1>2, <1>3, <1>6, <1>7, <1>8 DEF ViewInv

LEMMA EventView ==
  ASSUME ViewInv, NEW m, ctrl_iface_send(m)
  PROVE  ViewInv'
<1> DEFINE E(c) == Events(Notices(c, m))
<1>1. /\ inbox' = inbox /\ up /\ UNCHANGED <<up, forgot>>
      /\ dst' = [c \in Clients |-> NotifiedOf(c, m)]
      /\ cl' = [c \in Clients |-> IF Reaches(c)
                  THEN [cl[c] EXCEPT !.queue = @ \o E(c)] ELSE cl[c]]
  BY DEF ctrl_iface_send
<1>2. \A c \in Clients : /\ dst'[c] \in Seq(Entry) /\ Len(dst'[c]) <= Len(dst[c])
                         /\ Reaches(c) => Len(dst'[c]) = Len(dst[c])
  BY <1>1, NotifiedList DEF ViewInv
<1>3. dst' \in [Clients -> Seq(Entry)]
  BY <1>1, <1>2
<1>4. ASSUME NEW c \in Clients PROVE SameView(cl[c], cl'[c])
  <2> DEFINE r == cl[c]
             ev == E(c)
             t == [r EXCEPT !.queue = @ \o ev]
  <2>1. cl'[c] \in {r, t} /\ Known(r)
    BY <1>1 DEF ViewInv
  <2> HIDE DEF r, ev
  <2>2. SameView(r, t) /\ SameView(r, r)
    BY <2>1 DEF Fields, Known, SameView
  <2> HIDE DEF t
  <2> QED
    BY <2>1, <2>2 DEF r
<1>5. ASSUME NEW c \in Root
      PROVE  Agrees(inbox, c, cl'[c], Len(dst'[c]), forgot)
  <2> DEFINE n == Len(dst[c])
             k == Len(dst'[c])
  <2>1. /\ c \in Clients /\ Agrees(inbox, c, cl[c], n, forgot) /\ Known(cl[c])
        /\ n \in Nat /\ k \in Nat /\ k <= n /\ (Reaches(c) => k = n)
        /\ Len(inbox) \in Nat
    BY <1>2, CtrlAssumption DEF ViewInv
  <2>2. /\ Most(cl'[c]) = Most(cl[c]) /\ (Means(cl'[c]) <=> Means(cl[c]))
        /\ (Shut(cl[c]) => Shut(cl'[c])) /\ cl'[c].pc = cl[c].pc
    BY <1>4, <2>1, SameBounds DEF SameView
  <2>3. Most(cl[c]) \in Nat /\ Most(cl[c]) <= Most(cl[c])
    BY <2>1, MostNat
  <2> HIDE DEF n, k
  <2>4. AtMost(inbox, c, n, Most(cl[c])) => AtMost(inbox, c, k, Most(cl[c]))
    BY <2>1, <2>3, AtMostWider
  <2>5. Means(cl[c]) => Reaches(c)
    BY DEF Means, Reaches
  <2> QED
    BY <2>1, <2>2, <2>4, <2>5 DEF Agrees, k
<1>6. DOMAIN cl' = Clients
  BY <1>1
<1>7. \A c \in Clients : Known(cl'[c])
  BY <1>4 DEF SameView
<1> QED
  BY <1>1, <1>3, <1>5, <1>6, <1>7 DEF ViewInv

LEMMA DeinitView == ViewInv /\ ctrl_iface_deinit => ViewInv'
<1> SUFFICES ASSUME ViewInv, ctrl_iface_deinit PROVE ViewInv'
  OBVIOUS
<1>0. <<>> \in Seq(Entry) /\ Len(<<>>) = 0
  OBVIOUS
<1>1. /\ dst' = NoMonitors /\ NoMonitors \in [Clients -> Seq(Entry)]
      /\ forgot' = (forgot \/ systemd)
      /\ \A c \in Clients : Len(NoMonitors[c]) = 0
  BY <1>0 DEF ctrl_iface_deinit, NoMonitors
<1>2. CASE systemd
  <2>1. forgot' /\ UNCHANGED <<inbox, cl>>
    BY <1>1, <1>2 DEF ctrl_iface_deinit
  <2>2. ASSUME NEW c \in Root PROVE Agrees(inbox, c, cl[c], 0, forgot')
    <3> DEFINE n == Len(dst[c])
               k == Most(cl[c])
    <3>1. /\ c \in Clients /\ Agrees(inbox, c, cl[c], n, forgot) /\ Known(cl[c])
          /\ n \in Nat /\ 0 <= n /\ Len(inbox) \in Nat
      BY CtrlAssumption DEF ViewInv
    <3>2. k \in Nat /\ k <= k
      BY <3>1, MostNat
    <3> HIDE DEF n, k
    <3>3. AtMost(inbox, c, n, k) => AtMost(inbox, c, 0, k)
      BY <3>1, <3>2, AtMostWider
    <3> QED
      BY <2>1, <3>1, <3>3 DEF Agrees, k
  <2>3. \A c \in Root : c \in Clients /\ Len(dst'[c]) = 0
    BY <1>1, CtrlAssumption
  <2> QED
    BY <1>1, <2>1, <2>2, <2>3 DEF ViewInv
<1>3. CASE ~systemd
  <2>1. /\ inbox' = <<>>
        /\ cl' = [c \in Clients |->
                    [cl[c] EXCEPT !.conn = IF Reaches(c) THEN "dead" ELSE @, !.loose = 0]]
    BY <1>1, <1>3 DEF ctrl_iface_deinit
  <2>2. ASSUME NEW c \in Clients
        PROVE  /\ Known(cl'[c]) /\ cl'[c].conn # "open"
               /\ cl'[c].conn = "closed" <=> cl[c].conn = "closed"
               /\ cl'[c].pc = cl[c].pc /\ (cl'[c].attached <=> cl[c].attached)
    <3> DEFINE r == cl[c]
               w == IF r.conn = "open" THEN "dead" ELSE r.conn
               t == [r EXCEPT !.conn = w, !.loose = 0]
    <3>1. cl'[c] = t /\ Known(r)
      BY <2>1 DEF ViewInv, Reaches
    <3>2. w \in {"dead", "closed"} /\ (w = "closed" <=> r.conn = "closed")
      BY <3>1 DEF Known
    <3> HIDE DEF r, w
    <3>3. /\ Known(t) /\ t.conn = w /\ t.pc = r.pc /\ (t.attached <=> r.attached)
      BY <3>1, <3>2 DEF Known, Fields
    <3> HIDE DEF t
    <3> QED
      BY <3>1, <3>2, <3>3 DEF r
  <2>3. ASSUME NEW c \in Root PROVE Agrees(<<>>, c, cl'[c], 0, forgot')
    <3>1. c \in Clients /\ Agrees(inbox, c, cl[c], Len(dst[c]), forgot)
      BY CtrlAssumption DEF ViewInv
    <3>2. ~Means(cl'[c]) /\ (Shut(cl[c]) => Shut(cl'[c]))
      BY <2>2, <3>1 DEF Means, Shut
    <3>3. AtMost(<<>>, c, 0, Most(cl'[c]))
      BY <2>2, <3>1, MostNat, AtMostNone
    <3> QED
      BY <2>2, <3>1, <3>2, <3>3 DEF Agrees
  <2>4. \A c \in Root : c \in Clients /\ Len(dst'[c]) = 0
    BY <1>1, CtrlAssumption
  <2>5. DOMAIN cl' = Clients
    BY <2>1, Zenon
  <2>6. <<>> \in Seq(Request)
    OBVIOUS
  <2> QED
    BY <1>1, <2>1, <2>2, <2>3, <2>4, <2>5, <2>6 DEF ViewInv
<1> QED
  BY <1>2, <1>3

LEMMA StepView == ViewInv /\ [Next]_vars => ViewInv'
<1> SUFFICES ASSUME ViewInv, [Next]_vars PROVE ViewInv'
  OBVIOUS
<1>0. Typed
  BY DEF ViewInv, Typed
<1>1. ASSUME UNCHANGED <<inbox, cl, dst, up, forgot>> PROVE ViewInv'
  BY <1>1 DEF ViewInv
<1>2. CASE UNCHANGED vars
  BY <1>1, <1>2 DEF vars, daemon
<1>3. CASE lldpad_main
  <2>1. dst' = dst /\ up' /\ UNCHANGED <<inbox, cl, forgot>>
    BY <1>3 DEF lldpad_main, ViewInv
  <2> QED
    BY <2>1 DEF ViewInv
<1>4. CASE killme \/ killme_waited \/ mark_lldpad_shm_for_removal
  BY <1>1, <1>4 DEF killme, killme_waited, mark_lldpad_shm_for_removal
<1>5. ASSUME NEW c \in Clients
      PROVE  /\ Known(cl[c])
             /\ c \in Root => Agrees(inbox, c, cl[c], Len(dst[c]), forgot)
  BY DEF ViewInv
<1>6. ASSUME NEW c \in Clients, cl[c].pc \in Waiting \cup {"event"}
      PROVE  Waits(c, cl[c])
  <2>1. cl[c].pc \notin {"killed", "start", "idle", "gone"}
    BY <1>6 DEF Waiting, Asked
  <2> QED
    BY <1>5, <2>1 DEF Waits, Agrees, Shut, MostNow, LeastNow
\* A client between requests knows where it is.
<1>7. ASSUME NEW c \in Clients, cl[c].pc \in {"idle", "event", "start"}
      PROVE  Settled(c, cl[c])
  <2> DEFINE r == cl[c]
  <2>1. Known(r) /\ r.loose \in Nat
    BY <1>5 DEF Known
  <2>2. Most(r) = r.loose + On(r) /\ (On(r) = 1 => Means(r))
    BY <1>7, <2>1 DEF Most, Own, Coming, On, Means
  <2>3. c \in Root => /\ MostNow(c, Most(r)) /\ Shut(r)
                      /\ ~forgot /\ Means(r) => LeastNow(c)
    BY <1>5, <1>7 DEF Agrees, MostNow, LeastNow
  <2> QED
    BY <2>1, <2>2, <2>3 DEF Settled, Leaves, Shut
<1>8. ASSUME NEW c \in Clients, client_main(c) PROVE ViewInv'
  <2> DEFINE r == cl[c]
  <2>1. r.pc = "start" /\ Settled(c, r) /\ Known(r) /\ r.loose \in Nat
    BY <1>5, <1>7, <1>8 DEF client_main, Known
  <2>2. c \in Root => On(r) = 0 /\ r.conn = "closed" /\ ~r.attached
    BY <1>5, <2>1 DEF Shut, Agrees, On
  <2>3. r.loose + 0 = r.loose
    BY <2>1
  <2>4. Off(c, r)
    BY <2>1, <2>2, <2>3 DEF Settled, Leaves, Off
  <2>5. Fits(c, Reconnect(c, r)) /\ \A w \in BOOLEAN : Fits(c, request(c, clif_open(r), w))
    BY <1>0, <2>4, OpenSettled, RequestFits, ClosedFits
  <2>6. Fits(c, Stay(r, "gone"))
    <3> DEFINE u == [r EXCEPT !.pc = "gone"]
    <3>1. u.pc = "gone" /\ u.conn = r.conn /\ u.loose = r.loose
      BY <2>1 DEF Known, Fields
    <3> HIDE DEF u, r
    <3>2. c \in Root => Most(u) = r.loose /\ ~Means(u)
      BY <2>1, <2>2, <3>1 DEF Most, Own, On, Coming, Means
    <3>3. c \in Root => MostNow(c, Most(u)) /\ ~Means(u)
      BY <2>4, <3>2 DEF Off
    <3> QED
      BY <1>0, <2>1, <2>2, <3>3, StayFits DEF u
  <2>7. \E s : Fits(c, s) /\ Does(c, s)
    BY <1>8, <2>5, <2>6 DEF client_main, Watches
  <2> QED
    BY <2>7, DoesView
<1>9. ASSUME NEW c \in Clients, NEW r, Waits(c, r), NEW t, SameView(r, t)
      PROVE  Waits(c, t)
  <2>1. Most(t) = Most(r) /\ (Means(t) <=> Means(r))
    BY <1>9, SameBounds DEF Waits
  <2> QED
    BY <1>9, <2>1 DEF Waits, SameView
<1>10. ASSUME NEW c \in Clients, clif_request(c) PROVE ViewInv'
  <2> DEFINE r == cl[c]
             msg == Head(r.queue)
             q == [r EXCEPT !.queue = Tail(@)]
             mixed == msg.cmd \notin {Asked[q.pc], "none"}
             t == [q EXCEPT !.mixed = @ \/ mixed]
             u == [q EXCEPT !.pc = q.pc]
  <2>1. r.pc \in Waiting
    BY <1>10 DEF clif_request
  <2>2. Waits(c, r) /\ Known(r)
    BY <1>5, <1>6, <2>1
  <2>3. IF IsEvent(msg) THEN Does(c, Stay(q, q.pc)) ELSE Does(c, Answered(c, t, msg))
    BY <1>10 DEF clif_request
  <2> HIDE DEF r
  <2>4. SameView(r, q)
    BY <2>2 DEF Known, Fields, SameView
  <2>5. Waits(c, q) /\ q.pc \in Waiting /\ Known(q)
    BY <1>9, <2>1, <2>2, <2>4 DEF SameView
  <2> HIDE DEF q, mixed
  <2>6. SameView(q, t) /\ SameView(q, u)
    BY <2>5 DEF Known, Fields, SameView
  <2> HIDE DEF t
  <2>7. Fits(c, Answered(c, t, msg))
    <3>1. Waits(c, t) /\ t.pc \in Waiting
      BY <1>9, <2>5, <2>6 DEF SameView
    <3> QED
      BY <1>0, <3>1, AnswerFits
  <2>8. Fits(c, Stay(q, q.pc))
    <3>1. Most(u) = Most(q) /\ (Means(u) <=> Means(q))
      BY <2>5, <2>6, SameBounds
    <3> HIDE DEF u
    <3>2. c \in Root => /\ MostNow(c, Most(u)) /\ q.conn # "closed"
                        /\ ~forgot /\ Means(u) => LeastNow(c)
      BY <2>5, <3>1 DEF Waits
    <3>3. q.pc # "start"
      BY <2>5 DEF Waiting, Asked
    <3> QED
      BY <1>0, <2>5, <3>2, <3>3, StayFits DEF u
  <2> QED
    BY <2>3, <2>7, <2>8, DoesView
<1>11. ASSUME NEW c \in Clients, RequestTimeout(c) PROVE ViewInv'
  <2> DEFINE r == cl[c]
             t == [r EXCEPT !.gaveup = TRUE]
  <2>1. r.pc \in Waiting
    BY <1>11 DEF RequestTimeout
  <2>2. Waits(c, r) /\ Known(r)
    BY <1>5, <1>6, <2>1
  <2>3. Does(c, TimedOut(c, t)) \/ Does(c, TimedOut(c, r))
    BY <1>11 DEF RequestTimeout
  <2> HIDE DEF r
  <2>4. SameView(r, t)
    BY <2>2 DEF Known, Fields, SameView
  <2> HIDE DEF t
  <2>5. Waits(c, t) /\ t.pc \in Waiting
    BY <1>9, <2>1, <2>2, <2>4 DEF SameView
  <2> QED
    BY <1>0, <2>1, <2>2, <2>3, <2>5, AnswerFits, DoesView
<1>12. ASSUME NEW c \in Clients, clif_vsievt_done(c) PROVE ViewInv'
  <2> DEFINE r == cl[c]
             t == [r EXCEPT !.queue = Tail(@)]
  <2>1. r.pc = "event" /\ Waits(c, r) /\ Known(r)
    BY <1>5, <1>6, <1>12 DEF clif_vsievt_done
  <2>2. Does(c, cli_recv_pending(c, r)) \/ Does(c, cli_recv_pending(c, t))
    BY <1>12 DEF clif_vsievt_done
  <2> HIDE DEF r
  <2>3. SameView(r, t)
    BY <2>1 DEF Known, Fields, SameView
  <2> HIDE DEF t
  <2>4. Waits(c, t) /\ t.pc = "event"
    BY <1>9, <2>1, <2>3 DEF SameView
  <2>5. Settled(c, r) /\ Settled(c, t)
    BY <2>1, <2>4, WaitsSettled
  <2> QED
    BY <1>0, <2>2, <2>5, PendingFits, DoesView
<1>13. ASSUME NEW c \in Clients, cli_alarm(c) \/ cli_interactive(c) \/ cli_quit(c)
       PROVE  ViewInv'
  <2> DEFINE r == cl[c]
  <2>1. Settled(c, r) /\ Leaves(c, r) /\ Known(r)
    BY <1>7, <1>13 DEF cli_alarm, cli_interactive, cli_quit, Settled, Leaves
  <2>2. r.conn = "open" => /\ Fits(c, Send(c, r, "P", "ping"))
                           /\ \A w \in BOOLEAN : Fits(c, request(c, r, w))
    BY <1>0, <2>1, RequestFits
  <2>3. /\ Fits(c, cli_close_connection(c, r, "lost"))
        /\ Fits(c, cli_close_connection(c, r, "quit"))
    BY <1>0, <2>1, CloseFits
  <2>4. Fits(c, Stay(r, "killed"))
    <3> DEFINE t == [r EXCEPT !.pc = "killed"]
    <3>1. Known(t) /\ t.pc = "killed"
      BY <2>1 DEF Known, Fields
    <3>2. Stay(r, "killed") = [client |-> t, sends |-> <<>>]
      BY DEF Stay
    <3> HIDE DEF t
    <3> DEFINE s == Stay(r, "killed")
    <3>3. s.client = t /\ s.sends = <<>>
      BY <3>2
    <3>4. <<>> \in Seq(Request) /\ \A i \in DOMAIN <<>> : FALSE
      OBVIOUS
    <3> HIDE DEF s
    <3>5. s.sends \in Seq(Request) /\ \A i \in DOMAIN s.sends : s.sends[i].from = c
      BY <3>3, <3>4, Zenon
    <3>6. Known(s.client) /\ Agrees(inbox \o s.sends, c, s.client, Len(dst[c]), forgot)
      BY <3>1, <3>3, Zenon DEF Agrees
    <3>7. Fits(c, s)
      BY <3>3, <3>5, <3>6, Zenon DEF Fits
    <3> QED
      BY <3>7 DEF s
  <2>5. \E s : Fits(c, s) /\ Does(c, s)
    BY <1>13, <2>2, <2>3, <2>4 DEF cli_alarm, cli_interactive, cli_quit, Watches
  <2> QED
    BY <2>5, DoesView
<1>14. ASSUME NEW c \in Clients, cli_terminate(c) PROVE ViewInv'
  <2> DEFINE r == cl[c]
             n == Len(dst[c])
             t == [r EXCEPT !.gaveup = TRUE,
                            !.loose = IF r.pc \in {"attach", "watch"} THEN @ + 1 ELSE @]
  <2>1. r.pc \in Waiting \cup {"event"}
    BY <1>14 DEF cli_terminate
  <2>2. Waits(c, r) /\ Known(r) /\ r.loose \in Nat
    BY <1>5, <1>6, <2>1 DEF Known
  <2>3. Does(c, cli_close_connection(c, t, "quit"))
    BY <1>14 DEF cli_terminate
  <2>4. n \in Nat /\ n <= n /\ Len(inbox) \in Nat
    BY <1>0 DEF Typed
  <2> HIDE DEF r, n
  <2>5. /\ Known(t) /\ t.conn = r.conn /\ (t.attached <=> r.attached)
        /\ t.loose = IF r.pc \in {"attach", "watch"} THEN r.loose + 1 ELSE r.loose
    BY <2>2 DEF Known, Fields
  <2> HIDE DEF t
  <2>6. Most(r) \in Nat /\ t.loose + On(t) \in Nat /\ Most(r) <= t.loose + On(t)
    <3>1. On(t) = On(r) /\ On(r) \in {0, 1}
      BY <2>5 DEF On
    <3>2. Own(r) <= On(r) /\ Own(r) \in {0, 1}
      BY <3>1 DEF Own
    <3>3. Coming(r) \in {0, 1} /\ (r.pc \notin {"attach", "watch"} => Coming(r) = 0)
      BY DEF Coming
    <3> QED
      BY <2>2, <2>5, <3>1, <3>2, <3>3 DEF Most
  <2>7. c \in Root => MostNow(c, t.loose + On(t))
    <3> SUFFICES ASSUME c \in Root PROVE AtMost(inbox, c, n, t.loose + On(t))
      BY DEF MostNow, n
    <3>1. AtMost(inbox, c, n, Most(r))
      BY <2>2 DEF Waits, MostNow, n
    <3> QED
      BY <2>4, <2>6, <3>1, AtMostWider
  <2>8. Leaves(c, t)
    BY <2>5, <2>7 DEF Leaves
  <2> QED
    BY <1>0, <2>3, <2>8, CloseFits, DoesView
<1>15. ASSUME NEW c \in Clients, Kill(c) PROVE ViewInv'
  <2> DEFINE r == clif_close(cl[c])
             t == [r EXCEPT !.pc = "killed"]
  <2>1. Known(r)
    BY <1>5, OpenKnown
  <2>2. Does(c, [client |-> t, sends |-> <<>>])
    BY <1>15 DEF Kill, Stay
  <2> HIDE DEF r
  <2>3. Known(t) /\ t.pc = "killed"
    BY <2>1 DEF Known, Fields
  <2> HIDE DEF t
  <2>4. <<>> \in Seq(Request) /\ DOMAIN <<>> = {}
    OBVIOUS
  <2>5. Fits(c, [client |-> t, sends |-> <<>>])
    BY <2>3, <2>4 DEF Fits, Agrees
  <2> QED
    BY <2>2, <2>5, DoesView
<1> QED
  BY <1>2, <1>3, <1>4, <1>8, <1>10, <1>11, <1>12, <1>13, <1>14, <1>15,
     ReceiveView, EventView, DeinitView DEF Next

\* Whenever nothing is under way the daemon has the entry a client believes to
\* have, and no more than it believes and was unable to keep track of, for any
\* clients, commands, -W options, signals, late answers and restarts: requests
\* are served in the order they were sent (ctrl_iface_receive()), and a client
\* sends a detach only for the entry that cli_attached stands for.
THEOREM ViewsStayWithinBounds == Spec => []ViewsAgree
<1>1. Init => ViewInv
  <2> SUFFICES ASSUME Init PROVE ViewInv
    OBVIOUS
  <2>0. <<>> \in Seq(Entry) /\ <<>> \in Seq(Request) /\ Len(<<>>) = 0
    OBVIOUS
  <2>1. /\ inbox = <<>> /\ DOMAIN cl = Clients /\ dst = NoMonitors
        /\ NoMonitors \in [Clients -> Seq(Entry)]
    BY <2>0 DEF Init, NoMonitors
  <2>2. ASSUME NEW c \in Clients
        PROVE  /\ Known(cl[c]) /\ cl[c].pc = "start" /\ cl[c].conn = "closed"
               /\ cl[c].attached = FALSE
    BY DEF Init, Client, Known, Fields
  <2>3. ASSUME NEW c \in Root PROVE Agrees(inbox, c, cl[c], Len(dst[c]), forgot)
    <3>1. c \in Clients /\ Len(dst[c]) = 0
      BY <2>0, <2>1, CtrlAssumption DEF NoMonitors
    <3>2. Shut(cl[c]) /\ ~Means(cl[c])
      BY <2>2, <3>1 DEF Shut, Means
    <3>3. AtMost(<<>>, c, 0, Most(cl[c]))
      BY <2>2, <3>1, MostNat, AtMostNone
    <3> QED
      BY <2>1, <3>1, <3>2, <3>3 DEF Agrees
  <2> QED
    BY <2>0, <2>1, <2>2, <2>3 DEF ViewInv
<1>2. ViewInv => ViewsAgree
  <2> SUFFICES ASSUME ViewInv, NEW c \in Root,
                      cl[c].pc \in {"idle", "event", "gone"}, cl[c].conn # "dead",
                      ~HasRequest(c)
               PROVE  LET own == IF cl[c].attached THEN 1 ELSE 0
                      IN  /\ Entries(c) <= own + cl[c].loose
                          /\ ~forgot => own <= Entries(c)
    BY DEF ViewsAgree
  <2> DEFINE r == cl[c]
             n == Len(dst[c])
             own == IF r.attached THEN 1 ELSE 0
  <2>1. /\ c \in Clients /\ Known(r) /\ r.loose \in Nat /\ n \in Nat
        /\ Agrees(inbox, c, r, n, forgot) /\ inbox \in Seq(Request)
    BY CtrlAssumption DEF ViewInv, Known
  <2>2. \A i \in DOMAIN inbox : inbox[i].from # c
    BY DEF HasRequest
  <2>3. AtMost(inbox, c, n, Most(r)) /\ Shut(r) /\ (~forgot /\ Means(r) => AtLeast(inbox, c, n))
    BY <2>1 DEF Agrees
  <2>4. r.conn = "open" \/ (r.conn = "closed" /\ ~r.attached)
    BY <2>1, <2>3 DEF Known, Shut
  <2>5. Most(r) = r.loose + own /\ (own = 1 => Means(r)) /\ own \in {0, 1}
    BY <2>1, <2>4 DEF Most, Own, On, Coming, Means
  <2> HIDE DEF r, n, own
  <2>6. n <= r.loose + own
    <3>1. r.loose + own \in Nat
      BY <2>1, <2>5
    <3> QED
      BY <2>1, <2>2, <2>3, <2>5, <3>1, BoundsNow
  <2>7. ~forgot => own <= n
    <3>1. ~forgot /\ own = 1 => n > 0
      BY <2>1, <2>2, <2>3, <2>5, BoundsNow
    <3> QED
      BY <2>1, <2>5, <3>1
  <2>8. n <= own + r.loose
    BY <2>1, <2>5, <2>6
  <2> QED
    BY <2>7, <2>8 DEF Entries, n, r, own
<1> QED
  BY <1>1, <1>2, StepView, PTL DEF Spec
=============================================================================
