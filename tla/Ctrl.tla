-------------------------------- MODULE Ctrl --------------------------------
(***************************************************************************)
(* The control interface: the daemon's side (ctrl_iface.c, the start and   *)
(* stop of lldpad.c), and the client programs lldptool, dcbtool and        *)
(* vdptool over clif.c.                                                    *)
(*                                                                         *)
(* A client owns a datagram socket whose name is its process id.  The name *)
(* stays the same when the client closes the socket and opens another one, *)
(* and the daemon answers and notifies by name: an answer that comes late  *)
(* reaches whatever socket then has the name.  Messages carry no request   *)
(* number, so clif_request takes the next message that is no event for the *)
(* answer.                                                                 *)
(*                                                                         *)
(* The daemon's socket is its own, or systemd's (lldpad.socket); systemd's *)
(* survives a restart of the daemon, with the requests queued on it.       *)
(***************************************************************************)
EXTENDS Naturals, Sequences, FiniteSets

CONSTANTS
  Clients,     \* the clients
  Started,     \* how they may be started: the program of each, and whether with a
               \* command line (otherwise it prompts)
  Root,        \* the clients of uid 0
  ErrorLimit,  \* failed events before a client is dropped (10 in the code)
  RoomFor,     \* bound: messages a client's socket holds
  MaxFaults,   \* bound: stops of the daemon, late answers, signals to clients
  MaxCommands  \* bound: commands typed at a prompt

ASSUME CtrlAssumption ==
  /\ Started \subseteq [Clients -> [tool : {"lldptool", "dcbtool", "vdptool"},
                                   shot : BOOLEAN]]
  /\ Root \subseteq Clients
  /\ ErrorLimit \in Nat /\ RoomFor \in Nat \ {0}
  /\ MaxFaults \in Nat /\ MaxCommands \in Nat

VARIABLES
  up,        \* the daemon runs
  systemd,   \* its socket is systemd's
  dst,       \* clif_data.ctrl_dst, each client's monitors, latest first
  inbox,     \* requests queued on the daemon's socket
  cl,        \* the clients
  shm,       \* the process id in shared memory: unset, dont, own, stale
  doomed,    \* the running instance has been sent SIGINT
  killer,    \* lldpad -k: idle, signalled, dead (the instance it signalled is)
  invoked,   \* history: an lldpad -k has come to its end
  unmarked,  \* history: since the last mark one was removed, or not left
  forgot,    \* history: the daemon ended behind systemd's socket
  left       \* what is left of the bounds

kills == <<shm, doomed, killer, invoked, unmarked>>
daemon == <<up, systemd, dst, kills, forgot>>
vars == <<daemon, inbox, cl, left>>

\* A client: how it was started, what it is doing, its socket, cli_attached,
\* the socket's queue, and three histories: a request was given up while the
\* daemon still had it; an answer was taken for another request's; the number of
\* attaches that the one bit of cli_attached does not hold, because they ended
\* unconfirmed or it was set before.
Client(how) == [tool |-> how.tool, shot |-> how.shot, pc |-> "start",
                conn |-> "closed", attached |-> FALSE, queue |-> <<>>,
                gaveup |-> FALSE, mixed |-> FALSE, loose |-> 0]

\* What a client waits for, and the request it sent for it.  Option -W of
\* vdptool is an attach of its own ("watch").  Detach is sent before a
\* reconnect ("lost") and before the end ("quit").
Asked == [attach |-> "A", watch |-> "W", ping |-> "P", command |-> "M",
          lost |-> "D", quit |-> "D"]
Waiting == DOMAIN Asked

NoMonitors == [c \in Clients |-> <<>>]

Init ==
  /\ up \in BOOLEAN /\ systemd \in BOOLEAN
  /\ dst = NoMonitors /\ inbox = <<>>
  /\ \E how \in Started : cl = [c \in Clients |-> Client(how[c])]
  /\ shm = IF up THEN "own" ELSE "unset"
  /\ doomed = FALSE /\ killer = "idle" /\ invoked = FALSE /\ unmarked = FALSE
  /\ forgot = FALSE
  /\ left = [faults |-> MaxFaults, commands |-> MaxCommands]

-----------------------------------------------------------------------------
(* The daemon: attached monitors                                           *)

\* The module id an attach registers.  dcbtool sends none and gets DCBX.  An
\* interactive lldptool or vdptool sends its id in the byte order of the host,
\* read back as a number: on a little-endian machine no module has that id.
\* vdptool -W formats the number.
attach_str(req) ==
  CASE req.cmd = "W" -> "vdp22"
    [] req.cmd = "A" /\ cl[req.from].tool = "dcbtool" -> "dcbx"
    [] OTHER -> "none"

\* Every operation picks the entries of one name, so that the list is kept by
\* name; an entry has its module, and the events that failed since one arrived.
clif_iface_attach(req) ==
  [dst EXCEPT ![req.from] = <<[module |-> attach_str(req), errors |-> 0]>> \o @]

\* The latest entry of the name goes.
detach_clif_monitor(c) ==
  [dst EXCEPT ![c] = IF @ = <<>> THEN <<>> ELSE Tail(@)]

\* The events of DCBX are the ones sent without a module id.
is_ctrl_listening(entry, module) == entry.module = module

-----------------------------------------------------------------------------
(* The daemon: requests and events                                         *)

\* A send by name fails when nobody has bound the name, or when the socket
\* that has is connected to a daemon that is gone; a full socket blocks it.
Reaches(c) == cl[c].conn = "open"
HasRoom(c, n) == Reaches(c) => Len(cl[c].queue) + n <= RoomFor

clif_iface_detach(c) == [cmd |-> "D", ok |-> dst[c] # <<>>]
clif_iface_ping == [cmd |-> "P", ok |-> TRUE]
clif_iface_module == [cmd |-> "M", ok |-> TRUE]

\* A request's answer, and the list of monitors it leaves.
process_clif_cmd(req) ==
  CASE req.cmd \in {"A", "W"} -> <<[cmd |-> req.cmd, ok |-> TRUE], clif_iface_attach(req)>>
    [] req.cmd = "D" -> <<clif_iface_detach(req.from), detach_clif_monitor(req.from)>>
    [] req.cmd = "P" -> <<clif_iface_ping, dst>>
    [] req.cmd = "M" -> <<clif_iface_module, dst>>

\* Only root is served; the refusal names no command.
Answer(req) ==
  IF req.from \in Root THEN process_clif_cmd(req)
  ELSE <<[cmd |-> "none", ok |-> FALSE], dst>>

ctrl_iface_receive ==
  /\ up /\ inbox # <<>>
  /\ HasRoom(Head(inbox).from, 1)
  /\ \E a \in {Answer(Head(inbox))} :
       /\ dst' = a[2]
       /\ cl' = IF Reaches(Head(inbox).from)
                THEN [cl EXCEPT ![Head(inbox).from].queue = Append(@, a[1])]
                ELSE cl
  /\ inbox' = Tail(inbox)
  /\ UNCHANGED <<up, systemd, kills, forgot, left>>

\* Every listening monitor is sent the event.
Listening(c, module) == {i \in DOMAIN dst[c] : is_ctrl_listening(dst[c][i], module)}
Notices(c, module) == Cardinality(Listening(c, module))

\* A failure counts against its entry, a success clears the count.
Counted(c, module) ==
  [i \in DOMAIN dst[c] |->
     IF i \notin Listening(c, module) THEN dst[c][i]
     ELSE [dst[c][i] EXCEPT !.errors = IF Reaches(c) THEN 0 ELSE @ + 1]]

\* Past the limit an entry is dropped by its name: for each entry over the
\* limit the first entry of the name goes.
NotifiedOf(c, module) ==
  LET list == Counted(c, module)
      over == {i \in Listening(c, module) : list[i].errors > ErrorLimit}
  IN  SubSeq(list, Cardinality(over) + 1, Len(list))

Events(n) == [i \in 1..n |-> [cmd |-> "event", ok |-> TRUE]]

ctrl_iface_send(module) ==
  /\ up
  /\ \A c \in Clients : HasRoom(c, Notices(c, module))
  /\ dst' = [c \in Clients |-> NotifiedOf(c, module)]
  /\ cl' = [c \in Clients |->
              IF Reaches(c)
              THEN [cl[c] EXCEPT !.queue = @ \o Events(Notices(c, module))]
              ELSE cl[c]]
  /\ UNCHANGED <<up, systemd, inbox, kills, forgot, left>>

-----------------------------------------------------------------------------
(* The daemon: start, stop, lldpad -k and lldpad -s                        *)

lldpad_shm_getpid == shm

AlwaysSetsPid == "own"

\* The first instance puts its process id into shared memory, unless an
\* lldpad -k has put DONT_KILL_PID there; the id of a process that is gone is
\* overwritten.
lldpad_shm_setpid == IF lldpad_shm_getpid = "dont" THEN "dont" ELSE "own"

lldpad_main ==
  /\ ~up
  /\ up' = TRUE /\ dst' = NoMonitors
  /\ shm' = lldpad_shm_setpid
  /\ UNCHANGED <<systemd, inbox, cl, doomed, killer, invoked, unmarked, forgot, left>>

Fault == left.faults > 0 /\ left' = [left EXCEPT !.faults = @ - 1]

\* The end of the daemon, by a signal or a crash.  Its own socket goes with
\* it: queued requests are lost and the clients' sockets have no peer.
ctrl_iface_deinit ==
  /\ up
  /\ up' = FALSE /\ dst' = NoMonitors
  /\ IF systemd THEN UNCHANGED <<inbox, cl>>
     ELSE /\ inbox' = <<>>
          /\ cl' = [c \in Clients |->
                      [cl[c] EXCEPT !.conn = IF Reaches(c) THEN "dead" ELSE @, !.loose = 0]]
  /\ shm' = IF shm = "own" THEN "stale" ELSE shm
  /\ doomed' = FALSE
  /\ killer' = IF killer = "signalled" THEN "dead" ELSE killer
  /\ IF doomed THEN UNCHANGED left ELSE Fault
  /\ forgot' = (forgot \/ systemd)
  /\ UNCHANGED <<systemd, invoked, unmarked>>

\* lldpad -k, one at a time, reads the process id and signals it; a process
\* that is gone, or none, leaves only the mark.
killme ==
  /\ killer = "idle" /\ lldpad_shm_getpid # "dont" /\ Fault
  /\ \/ /\ lldpad_shm_getpid = "own"
        /\ killer' = "signalled" /\ doomed' = TRUE
        /\ UNCHANGED <<shm, invoked, unmarked>>
     \/ /\ lldpad_shm_getpid # "own"
        /\ shm' = "dont" /\ invoked' = TRUE /\ unmarked' = FALSE
        /\ UNCHANGED <<doomed, killer>>
  /\ UNCHANGED <<up, systemd, dst, forgot, inbox, cl>>

\* It waits for the instance to end, then leaves the mark, unless the segment
\* has been removed and nobody has made it again; or, after ten seconds, it
\* leaves without a mark an instance that will still end.
killme_waited ==
  /\ \/ /\ killer = "dead"
        /\ \/ shm' = "dont" /\ unmarked' = FALSE
           \/ shm = "unset" /\ shm' = shm /\ unmarked' = TRUE
     \/ killer = "signalled" /\ shm' = shm /\ unmarked' = TRUE
  /\ killer' = "idle" /\ invoked' = TRUE
  /\ UNCHANGED <<up, systemd, dst, doomed, forgot, inbox, cl, left>>

\* lldpad -s.
mark_lldpad_shm_for_removal ==
  /\ shm # "unset"
  /\ shm' = "unset" /\ unmarked' = TRUE
  /\ UNCHANGED <<up, systemd, dst, doomed, killer, invoked, forgot, inbox, cl, left>>

-----------------------------------------------------------------------------
(* The clients.  A step of client c maps its record r to the record after  *)
(* it and the requests it sends.                                           *)

Stay(r, pc) == [client |-> [r EXCEPT !.pc = pc], sends |-> <<>>]

\* clif_request sends, and waits.
Send(c, r, cmd, pc) ==
  [client |-> [r EXCEPT !.pc = pc], sends |-> <<[from |-> c, cmd |-> cmd]>>]

\* A command: its options are parsed into one request to a module.  vdptool
\* attaches while it parses -W, at a prompt too, where it is attached already.
Watches(c) == IF cl[c].tool = "vdptool" THEN BOOLEAN ELSE {FALSE}

request(c, r, watch) ==
  IF watch THEN Send(c, r, "W", "watch") ELSE Send(c, r, "M", "command")

clif_close(r) == [r EXCEPT !.conn = "closed", !.queue = <<>>, !.attached = FALSE]

\* The name of the daemon's socket is bound, so that connect() succeeds.
Bound == up \/ systemd

clif_open(r) == [clif_close(r) EXCEPT !.conn = "open"]

NoReattach(c, r) == Stay(IF Bound THEN clif_open(r) ELSE clif_close(r), "idle")

\* Connect again and attach; without a daemon, back to the prompt.
Reconnect(c, r) ==
  IF Bound THEN Send(c, clif_open(r), "A", "attach") ELSE Stay(clif_close(r), "idle")

Closed(c, r, why) ==
  IF why = "lost" THEN Reconnect(c, r) ELSE Stay(clif_close(r), "gone")

KeepsMonitor(c, r, why) == Closed(c, r, why)

\* A client that knows that it is attached detaches first; on a socket whose
\* daemon is gone that fails at once.
cli_close_connection(c, r, why) ==
  IF r.attached /\ r.conn = "open" THEN Send(c, r, "D", why) ELSE Closed(c, r, why)

\* Back at the prompt, cli_recv_pending prints all that has come.  A client
\* with a command line is done.
cli_recv_pending(c, r) ==
  IF r.shot THEN cli_close_connection(c, r, "quit")
  ELSE Stay([r EXCEPT !.queue = <<>>], "idle")

\* clif_attach succeeds on any four-byte answer with status 0.
clif_attach_helper(msg) == msg.ok /\ msg.cmd \in {"A", "W", "D"}

\* After an attach vdptool -W goes on with its command, if it succeeded.
AfterAttach(c, r, ok) ==
  LET s == [r EXCEPT !.attached = @ \/ ok,
                     !.loose = IF ok /\ ~r.attached THEN @ ELSE @ + 1]
  IN IF ok /\ r.pc = "watch" /\ r.conn = "open" THEN Send(c, s, "M", "command")
     ELSE cli_recv_pending(c, s)

\* While attached, vdptool waits for an event after every answer.
clif_vsievt(c, r) == r.tool = "vdptool" /\ r.attached

Answered(c, r, msg) ==
  CASE r.pc \in {"attach", "watch"} -> AfterAttach(c, r, clif_attach_helper(msg))
    [] r.pc \in {"ping", "command"} ->
         IF clif_vsievt(c, r) THEN Stay(r, "event") ELSE cli_recv_pending(c, r)
    [] r.pc \in {"lost", "quit"} -> Closed(c, r, r.pc)

TimedOut(c, r) ==
  CASE r.pc \in {"attach", "watch"} -> AfterAttach(c, r, FALSE)
    [] r.pc = "ping" -> cli_close_connection(c, r, "lost")
    [] r.pc = "command" -> cli_recv_pending(c, r)
    [] r.pc \in {"lost", "quit"} -> Closed(c, r, r.pc)

-----------------------------------------------------------------------------
(* The clients: actions                                                    *)

Does(c, step) ==
  /\ \E s \in {step} : /\ cl' = [cl EXCEPT ![c] = s.client]
                       /\ inbox' = inbox \o s.sends
  /\ UNCHANGED daemon

\* Start: an interactive client waits for the daemon and attaches, one with a
\* command line gives up without it.
client_main(c) ==
  /\ cl[c].pc = "start"
  /\ \/ Bound /\ ~cl[c].shot /\ Does(c, Reconnect(c, cl[c]))
     \/ Bound /\ cl[c].shot
        /\ \E watch \in Watches(c) : Does(c, request(c, clif_open(cl[c]), watch))
     \/ ~Bound /\ cl[c].shot /\ Does(c, Stay(cl[c], "gone"))
  /\ UNCHANGED left

TakesAnything(msg) == FALSE

\* The events before the answer go to msg_cb.
IsEvent(msg) == msg.cmd = "event"

clif_request(c) ==
  /\ cl[c].pc \in Waiting /\ cl[c].queue # <<>>
  /\ \E msg \in {Head(cl[c].queue)}, r \in {[cl[c] EXCEPT !.queue = Tail(@)]} :
       IF IsEvent(msg) THEN Does(c, Stay(r, r.pc))
       ELSE LET mixed == msg.cmd \notin {Asked[r.pc], "none"}
            IN  Does(c, Answered(c, [r EXCEPT !.mixed = @ \/ mixed], msg))
  /\ UNCHANGED left

\* Two seconds without a message: the request was lost with the daemon, or
\* the daemon is slow and will still do it.
HasRequest(c) == \E i \in DOMAIN inbox : inbox[i].from = c

RequestTimeout(c) ==
  /\ cl[c].pc \in Waiting /\ cl[c].queue = <<>>
  /\ \/ HasRequest(c)
        /\ Does(c, TimedOut(c, [cl[c] EXCEPT !.gaveup = TRUE]))
        /\ Fault
     \/ ~HasRequest(c) /\ Does(c, TimedOut(c, cl[c])) /\ UNCHANGED left

\* clif_vsievt takes the next message, whatever it is, or times out.
clif_vsievt_done(c) ==
  /\ cl[c].pc = "event"
  /\ Does(c, cli_recv_pending(c, IF cl[c].queue = <<>> THEN cl[c]
                                 ELSE [cl[c] EXCEPT !.queue = Tail(@)]))
  /\ UNCHANGED left

\* Every second at the prompt: ping; a connection that fails is replaced.
cli_alarm(c) ==
  /\ cl[c].pc = "idle" /\ (cl[c].conn = "closed" => Bound)
  /\ Does(c, IF cl[c].conn = "open" THEN Send(c, cl[c], "P", "ping")
             ELSE cli_close_connection(c, cl[c], "lost"))
  /\ UNCHANGED left

\* A command at the prompt.  On a dead connection it fails at once; without
\* one it is dropped, but for -W, which attaches through a NULL pointer.
cli_interactive(c) ==
  /\ cl[c].pc = "idle" /\ left.commands > 0
  /\ \E watch \in Watches(c) :
       \/ cl[c].conn = "open" /\ Does(c, request(c, cl[c], watch))
       \/ cl[c].conn = "closed" /\ watch /\ Does(c, Stay(cl[c], "killed"))
  /\ left' = [left EXCEPT !.commands = @ - 1]

cli_quit(c) ==
  /\ cl[c].pc = "idle"
  /\ Does(c, cli_close_connection(c, cl[c], "quit"))
  /\ UNCHANGED left

\* SIGINT or SIGTERM, in the middle of a request too.  An attach that is under
\* way then is never undone.
cli_terminate(c) ==
  /\ cl[c].pc \in (Waiting \ {"quit"}) \cup {"event"}
  /\ LET r == [cl[c] EXCEPT !.gaveup = TRUE,
                            !.loose = IF cl[c].pc \in {"attach", "watch"} THEN @ + 1
                                      ELSE @]
     IN  Does(c, cli_close_connection(c, r, "quit"))
  /\ Fault

\* SIGKILL.
Kill(c) ==
  /\ cl[c].pc \notin {"start", "gone", "killed"}
  /\ Does(c, Stay(clif_close(cl[c]), "killed"))
  /\ Fault

Next ==
  \/ ctrl_iface_receive \/ lldpad_main \/ ctrl_iface_deinit \/ killme \/ killme_waited
  \/ mark_lldpad_shm_for_removal
  \/ \E m \in {"dcbx", "vdp22"} : ctrl_iface_send(m)
  \/ \E c \in Clients :
       \/ client_main(c) \/ clif_request(c) \/ RequestTimeout(c) \/ clif_vsievt_done(c)
       \/ cli_alarm(c) \/ cli_interactive(c) \/ cli_quit(c) \/ cli_terminate(c) \/ Kill(c)

Spec == Init /\ [][Next]_vars

\* The event loop serves its sockets in turn, and an answer that finds the
\* client's socket full waits for room (hence SF); an init system starts the
\* daemon; and the timers of the clients (select, alarm) run out.
Fairness ==
  /\ SF_vars(ctrl_iface_receive) /\ WF_vars(lldpad_main)
  /\ \A c \in Clients : /\ WF_vars(client_main(c)) /\ WF_vars(cli_alarm(c))
                        /\ WF_vars(clif_request(c) \/ RequestTimeout(c) \/ clif_vsievt_done(c))

FairSpec == Spec /\ Fairness

-----------------------------------------------------------------------------
(* Properties                                                              *)

Entries(c) == Len(dst[c])

\* Types, and: an entry never stays past ErrorLimit failed events, for
\* ctrl_iface_send drops it -- by its name, so that with two entries of a name
\* the other one goes first.
TypeOK ==
  /\ up \in BOOLEAN /\ systemd \in BOOLEAN /\ forgot \in BOOLEAN
  /\ shm \in {"unset", "dont", "own", "stale"} /\ doomed \in BOOLEAN
  /\ killer \in {"idle", "signalled", "dead"}
  /\ invoked \in BOOLEAN /\ unmarked \in BOOLEAN
  /\ \A c \in Clients :
       /\ dst[c] \in Seq([module : {"dcbx", "vdp22", "none"}, errors : Nat])
       /\ dst[c] # <<>> => c \in Root
       /\ \A i \in DOMAIN dst[c] : dst[c][i].errors > ErrorLimit => cl[c].loose > 0
  /\ \A i \in DOMAIN inbox :
       inbox[i].from \in Clients /\ inbox[i].cmd \in {"A", "W", "D", "P", "M"}
  /\ \A c \in Clients :
       /\ cl[c].pc \in Waiting \cup {"start", "idle", "event", "gone", "killed"}
       /\ cl[c].conn \in {"closed", "open", "dead"}
       /\ Len(cl[c].queue) <= RoomFor /\ cl[c].loose \in Nat

\* clif_request tells answers apart from events but not from each other: a
\* client takes an answer for that of another request only after it has itself
\* given up a request that the daemon still had.
TakesOwnAnswer == \A c \in Clients : cl[c].mixed => cl[c].gaveup

\* The client's cli_attached and the daemon's list agree whenever no request is
\* under way.  An attached client has an entry, unless the daemon forgot it in
\* a restart behind systemd's socket, which the client cannot see.  And the
\* daemon has no more entries of a client than cli_attached stands for and the
\* attaches it could not: one confirmed for a client that had cli_attached set,
\* which is every -W typed at a prompt, and one that ended unconfirmed.  These
\* stay after the client has quit.
ViewsAgree ==
  \A c \in Root :
    /\ cl[c].pc \in {"idle", "event", "gone"} /\ cl[c].conn # "dead"
    /\ ~HasRequest(c)
    => LET own == IF cl[c].attached THEN 1 ELSE 0
       IN  /\ Entries(c) <= own + cl[c].loose
           /\ ~forgot => own <= Entries(c)

\* lldpad(8): "Once lldpad -k has been invoked and lldpad has been restarted,
\* subsequent invocations of lldpad -k will not terminate lldpad."  They do in
\* two cases only: an lldpad -s has removed the mark, or the -k had left none
\* because it gave up waiting for the instance it signalled.
KillsFirstOnly == invoked /\ killer = "signalled" => unmarked

\* A client at its prompt is attached again after the daemon was away, if the
\* socket was the daemon's own: the ping of cli_alarm fails then, and the
\* client connects and attaches anew.
Reattaches ==
  \A c \in {d \in Root : \E how \in Started : ~how[d].shot} :
    /\ ~systemd /\ ~cl[c].shot
    /\ <>[](up /\ cl[c].pc \notin {"gone", "killed"})
    => <>[](Entries(c) > 0)
=============================================================================
