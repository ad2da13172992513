----------------------------- MODULE LogSystem -----------------------------
(***************************************************************************)
(* A log client, the log server it talks to and the server's relay host.   *)
(*                                                                         *)
(* The client is sudo's own (plugins/sudoers/log_client.c), which logs a   *)
(* command as it runs, or sudo_sendlog (logsrvd/sendlog.c), which sends a  *)
(* finished log and may be run again to go on from the last commit point.  *)
(* Connections break, servers crash, are terminated and started again,     *)
(* writes to the disk and connection attempts fail: at most conf.faults    *)
(* times, and only the kinds in conf.kinds.                                *)
(***************************************************************************)
EXTENDS LogServer, FiniteSets

CONSTANT Confs     \* the configurations to consider

(* The kinds of fault: a connection to the client or to the relay host     *)
(* breaks, a server crashes or is told to terminate, the disk fails, a     *)
(* queued journal cannot be locked, a connection attempt fails at once or  *)
(* later, the client's wait times out.                                     *)
Kinds == {"drop_client", "drop_relay", "crash_edge", "crash_central", "term_edge",
          "term_central", "disk", "lock", "refused", "unreachable", "timeout"}

ASSUME ConfsAssumption ==
  Confs \subseteq [mode : {"local", "journal", "relay"}, flush : BOOLEAN,
                   compress : BOOLEAN, client : {"sudo", "sendlog"},
                   job : {"io", "sub", "quiet", "reject", "alert"},
                   ignore : BOOLEAN, faults : Nat, runs : Nat,
                   kinds : SUBSET Kinds]

VARIABLES
  cli,     \* the client_closure, and the event loop the client is in
  stopping,\* the servers that were told to terminate
  faults   \* how many faults may still happen

vars == <<srvvars, cli, stopping, faults>>

N     == Len(Delays)
LogsIO == conf.job \in {"io", "sub"}

(* enum client_state, in its order.                                        *)
C_ERROR        == 0
C_RECV_HELLO   == 1
C_SEND_RESTART == 2
C_SEND_ACCEPT  == 3
C_SEND_ALERT   == 4
C_SEND_REJECT  == 5
C_SEND_IO      == 6
C_SEND_EXIT    == 7
C_CLOSING      == 8
C_FINISHED     == 9

(* client_closure_alloc(), before the client is connected.  "next" is the  *)
(* next record of the command's I/O, "sub" a sub-command yet to be logged. *)
client_closure_alloc ==
  [loop |-> "idle", state |-> C_RECV_HELLO, wq |-> << >>, read_ev |-> FALSE,
   disabled |-> FALSE, elapsed |-> 0, committed |-> 0, restart |-> 0, id |-> NoId,
   next |-> 1, sub |-> conf.job = "sub", run |-> 1, sent |-> FALSE]

Init ==
  /\ conf \in Confs
  /\ conn = [i \in Ids |-> NoConn]
  /\ pipe = [p \in Pipes |-> Shut]
  /\ logs = << >>
  /\ jrn = NoJournal
  /\ queue = EmptyQueue
  /\ up = Servers
  /\ cli = client_closure_alloc
  /\ stopping = {}
  /\ faults = conf.faults

-----------------------------------------------------------------------------
(* The server's steps.                                                     *)

(* What the network may answer to a connection attempt, which is made when *)
(* the relay host has noticed the end of the last connection.  A failure   *)
(* is a fault unless the relay host is down.                               *)
Nets ==
  {n \in {"now", "wait", "fail"} :
     /\ conf.mode = "local" => n = "now"
     /\ n = "now" /\ conf.mode # "local" => "central" \in up /\ conn["central"] = NoConn
     /\ n = "fail" => "central" \notin up \/ ("refused" \in conf.kinds /\ faults > 0)}
Disks == {"good"} \cup (IF "disk" \in conf.kinds /\ faults > 0 THEN {"open", "kept", "lost"} ELSE {})
Locks == {"good"} \cup (IF "lock" \in conf.kinds /\ faults > 0 THEN {"open"} ELSE {})

World(disk, net) ==
  [conn |-> conn, pipe |-> pipe, logs |-> logs, jrn |-> jrn, queue |-> queue,
   ok |-> TRUE, o |-> [disk |-> disk, net |-> net]]

(* A server's step ends in the world that is the one element of W (a set   *)
(* only so that TLC computes it once).                                     *)
Become(W) ==
  \E w \in W :
    /\ conn' = w.conn /\ pipe' = w.pipe /\ logs' = w.logs
    /\ jrn' = w.jrn /\ queue' = w.queue

Callback(s, w) ==
  /\ s \in up
  /\ Become({w})
  /\ UNCHANGED <<conf, up, cli, stopping>>

(* A step that took the answers d and n of disk and network.               *)
Spend(d, n) ==
  faults' = IF d # "good" \/ (n = "fail" /\ "central" \in up) THEN faults - 1 ELSE faults

(* A message is read from the peer, or from the journal that is replayed.  *)
ClientMsg(i) ==
  /\ conn[i] # NoConn /\ conn[i].read_ev
  /\ i # "replay" /\ pipe[InPipe(i)].q # << >>
  /\ \E d \in Disks, n \in Nets :
       /\ Spend(d, n)
       /\ Callback(ServerOf(i), client_msg_cb(
            [World(d, n) EXCEPT !.pipe[InPipe(i)].q = Tail(@)], i, Head(pipe[InPipe(i)].q)))

ReplayMsg ==
  /\ conn["replay"] # NoConn /\ conn["replay"].read_ev
  /\ conn["replay"].pos < jrn.dur
  /\ \E n \in Nets :
       /\ Spend("good", n)
       /\ Callback("edge", client_msg_cb([World("good", n) EXCEPT !.conn["replay"].pos = @ + 1],
                                         "replay", jrn.msgs[conn["replay"].pos + 1]))

(* The end of the connection, or of the journal.                           *)
ClientEOF(i) ==
  /\ conn[i] # NoConn /\ conn[i].read_ev
  /\ IF i = "replay" THEN conn[i].pos >= jrn.dur
                     ELSE pipe[InPipe(i)].q = << >> /\ ~pipe[InPipe(i)].wr
  /\ \E d \in Disks, n \in Nets :
       Spend(d, n) /\ Callback(ServerOf(i), connection_close(World(d, n), i))

ServerMsg(i) ==
  /\ conn[i] # NoConn /\ conn[i].wq # << >>
  /\ \E d \in Disks, n \in Nets :
       Spend(d, n) /\ Callback(ServerOf(i), server_msg_cb(World(d, n), i))

ServerCommit(i) ==
  /\ conn[i] # NoConn /\ conn[i].commit_ev
  /\ \E d \in Disks :
       Spend(d, "now") /\ Callback(ServerOf(i), server_commit_cb(World(d, "now"), i))

Connected(i) ==
  /\ conn[i] # NoConn /\ conn[i].relay = "connecting"
  /\ "central" \in up /\ conn["central"] = NoConn
  /\ Callback("edge", connect_cb(World("good", "now"), i, TRUE))
  /\ UNCHANGED faults

(* The attempt fails, and so does the one to the next relay host, if any.  *)
ConnectFailed(i) ==
  /\ conn[i] # NoConn /\ conn[i].relay = "connecting"
  /\ "central" \notin up \/ ("unreachable" \in conf.kinds /\ faults > 0)
  /\ Callback("edge", connect_cb(World("good", "fail"), i, FALSE))
  /\ Spend("good", "fail")

RelayWrite(i) ==
  /\ conn[i] # NoConn /\ conn[i].relay = "open" /\ conn[i].rq # << >>
  /\ \E n \in Nets : Spend("good", n) /\ Callback("edge", relay_client_msg_cb(World("good", n), i))

RelayRead(i) ==
  /\ conn[i] # NoConn /\ conn[i].relay = "open"
  /\ pipe["r2e"].q # << >> \/ ~pipe["r2e"].wr
  /\ \E n \in Nets : Spend("good", n) /\ Callback("edge", relay_server_msg_cb(World("good", n), i))

QueueEvent ==
  /\ queue.ev
  /\ \E d \in Locks, n \in Nets :
       Spend(d, n) /\ Callback("edge", outgoing_queue_cb(World(d, n)))

-----------------------------------------------------------------------------
(* Faults.                                                                 *)

Fault(kind) ==
  /\ kind \in conf.kinds /\ faults > 0
  /\ faults' = faults - 1

(* A connection breaks; a part of what is on its way still arrives.        *)
Broken(p, k) == [q |-> SubSeq(p.q, 1, k), wr |-> FALSE, rd |-> FALSE]
Drop(kind, in, out) ==
  /\ Fault(kind)
  /\ pipe[in].wr /\ pipe[in].rd
  /\ \E k \in 0..Len(pipe[in].q), l \in 0..Len(pipe[out].q) :
       pipe' = [pipe EXCEPT ![in] = Broken(@, k), ![out] = Broken(@, l)]
  /\ UNCHANGED <<conf, conn, logs, jrn, queue, up, cli, stopping>>

(* What becomes of a server's files when it ends: of what was still in a   *)
(* stream's buffer, some k.                                                *)
Kept(n, dur, k) == IF n < dur + k THEN n ELSE dur + k
Down(s, k) ==
  LET closed(p) == IF s = "edge" THEN TRUE ELSE p \in {"e2r", "r2e"}
      mine      == s = (IF conf.mode = "local" THEN "edge" ELSE "central")
  IN  /\ up' = up \ {s}
      /\ conn' = [i \in Ids |-> IF ServerOf(i) = s THEN NoConn ELSE conn[i]]
      /\ pipe' = [p \in Pipes |-> IF closed(p) THEN Broken(pipe[p], Len(pipe[p].q)) ELSE pipe[p]]
      /\ logs' = [n \in DOMAIN logs |->
                    LET l == logs[n]
                    IN  IF mine THEN Ended(l, Kept(Len(l.recs), l.dur, k)) ELSE l]
      /\ jrn' = LET d == Kept(Len(jrn.msgs), jrn.dur, k)
                IN  IF s = "edge" THEN [jrn EXCEPT !.msgs = SubSeq(@, 1, d), !.dur = d] ELSE jrn
      /\ queue' = IF s = "edge" THEN EmptyQueue ELSE queue
      /\ stopping' = stopping \ {s}
      /\ UNCHANGED <<conf, cli>>

Crash(s) ==
  /\ s \in up
  /\ Fault(IF s = "edge" THEN "crash_edge" ELSE "crash_central")
  /\ \E k \in 0..(N + 2) : Down(s, k)

(* SIGTERM: server_shutdown(); the event loop ends when the connections    *)
(* are gone, or after ten seconds (shutdown_cb), and exit() flushes plain  *)
(* streams.                                                                *)
Terminate(s) ==
  /\ s \in up \ stopping
  /\ Fault(IF s = "edge" THEN "term_edge" ELSE "term_central")
  /\ stopping' = stopping \cup {s}
  /\ \E n \in Nets : Become({server_shutdown(World("good", n), s)})
  /\ UNCHANGED <<conf, up, cli>>

Exit(s) ==
  /\ s \in stopping
  /\ \E k \in (IF conf.compress THEN 0 ELSE N + 2)..(N + 2) : Down(s, k)
  /\ UNCHANGED faults

(* main(): a server is started again.                                      *)
Start(s) ==
  /\ s \notin up
  /\ up' = up \cup {s}
  /\ Become({IF s = "edge" THEN logsrvd_queue_scan(World("good", "now")) ELSE World("good", "now")})
  /\ UNCHANGED <<conf, cli, stopping, faults>>

-----------------------------------------------------------------------------
(* The client.  These operators map a client_closure to the one they leave.*)

Say(c, m) == [c EXCEPT !.wq = Append(@, m)]

(* fmt_initial_message() of sudo: an AcceptMessage is written from sudo's  *)
(* main event loop, with the command running.                              *)
fmt_initial_message(c) ==
  CASE conf.job = "reject" -> Say([c EXCEPT !.state = C_SEND_REJECT], Msg("reject", 0))
    [] conf.job = "alert"  -> Say([c EXCEPT !.state = C_SEND_ALERT], Msg("alert", 0))
    [] OTHER -> Say([c EXCEPT !.state = C_SEND_ACCEPT, !.loop = "main"],
                    Msg("accept", IF LogsIO THEN 1 ELSE 0))

(* The answer of sudo_sendlog to a ServerHello.                            *)
sendlog_first_message(c) ==
  CASE c.restart > 0 -> Say([c EXCEPT !.state = C_SEND_RESTART], IdMsg("restart", c.restart, c.id))
    [] c.restart = 0 /\ conf.job = "reject" ->
         Say([c EXCEPT !.state = C_SEND_REJECT], Msg("reject", 0))
    [] OTHER -> Say([c EXCEPT !.state = C_SEND_ACCEPT], Msg("accept", IF LogsIO THEN 1 ELSE 0))

(* fmt_next_iolog(): up to two messages.                                   *)
fmt_next_iolog(c) ==
  LET one(x) == IF x.next > N
                THEN Say([x EXCEPT !.state = C_SEND_EXIT], Msg("exit", 0))
                ELSE Say([x EXCEPT !.next = @ + 1, !.elapsed = @ + Delays[x.next]],
                         Msg("io", x.next))
      c1 == one(c)
  IN  IF c1.state = C_SEND_EXIT THEN c1 ELSE one(c1)

(* client_message_completion(), when the write queue is empty.             *)
sudo_message_completion(c) ==
  CASE c.state \in {C_SEND_ALERT, C_SEND_REJECT} ->
         [c EXCEPT !.read_ev = FALSE, !.state = C_FINISHED]
    [] c.state = C_SEND_ACCEPT -> [c EXCEPT !.state = C_SEND_IO]
    [] c.state = C_SEND_EXIT ->
         IF LogsIO THEN [c EXCEPT !.state = C_CLOSING]
         ELSE [c EXCEPT !.state = C_FINISHED, !.read_ev = FALSE]
    [] OTHER -> c

sendlog_message_completion(c) ==
  CASE c.state = C_SEND_ACCEPT /\ ~LogsIO ->
         Say([c EXCEPT !.state = C_SEND_EXIT], Msg("exit", 0))
    [] c.state \in {C_SEND_RESTART, C_SEND_IO} \/ (c.state = C_SEND_ACCEPT /\ LogsIO) ->
         fmt_next_iolog([c EXCEPT !.state = C_SEND_IO])
    [] c.state = C_SEND_REJECT -> [c EXCEPT !.state = C_FINISHED]
    [] c.state = C_SEND_EXIT -> [c EXCEPT !.state = IF LogsIO THEN C_CLOSING ELSE C_FINISHED]
    [] OTHER -> c

(* log_server_close(): the ExitMessage is appended, and a loop of its own  *)
(* waits for the final commit point; a disabled closure is only freed.     *)
log_server_close(c) ==
  IF c.disabled THEN [c EXCEPT !.loop = "ending"]
  ELSE Say([c EXCEPT !.state = C_SEND_EXIT, !.loop = "close", !.read_ev = TRUE], Msg("exit", 0))

(* The bad label of sudo's callbacks: the plugin is disabled, or the event *)
(* loop is left and, if it was the main one, the command killed.           *)
sudo_bad(c, writing) ==
  IF conf.ignore
  THEN [c EXCEPT !.disabled = TRUE, !.read_ev = FALSE, !.wq = IF writing THEN << >> ELSE @]
  ELSE IF c.loop = "main" THEN log_server_close(c)
  ELSE [c EXCEPT !.loop = "ending"]

(* The bad label of sudo_sendlog's callbacks.                              *)
sendlog_bad(c, writing) ==
  [c EXCEPT !.read_ev = FALSE, !.wq = IF writing THEN << >> ELSE @]

client_bad(c, writing) ==
  IF conf.client = "sudo" THEN sudo_bad(c, writing) ELSE sendlog_bad(c, writing)

(* handle_server_message() of sudo: the hello, a commit point, a log ID    *)
(* (which it does not keep), an error.                                     *)
sudo_server_hello(c) ==
  IF c.state = C_RECV_HELLO THEN fmt_initial_message(c) ELSE sudo_bad(c, FALSE)
sudo_commit_point(c, m) ==
  IF c.state < C_SEND_IO THEN sudo_bad(c, FALSE)
  ELSE IF c.state = C_CLOSING /\ c.elapsed = m.n
  THEN [c EXCEPT !.committed = m.n, !.state = C_FINISHED, !.read_ev = FALSE]
  ELSE [c EXCEPT !.committed = m.n]
sudo_server_message(c, m) ==
  CASE m.t = "hello"  -> sudo_server_hello(c)
    [] m.t = "commit" -> sudo_commit_point(c, m)
    [] m.t = "log_id" -> c
    [] m.t = "error"  -> sudo_bad([c EXCEPT !.state = C_ERROR], FALSE)

(* handle_server_message() of sudo_sendlog: what was sent so far being     *)
(* committed ends the event loop.                                          *)
sendlog_server_hello(c) ==
  IF c.state = C_RECV_HELLO THEN sendlog_first_message(c) ELSE sendlog_bad(c, FALSE)
sendlog_commit_point(c, m) ==
  IF c.state < C_SEND_IO THEN sendlog_bad(c, FALSE) ELSE [c EXCEPT !.committed = m.n]
sendlog_server_message(c, m) ==
  CASE m.t = "hello"  -> sendlog_server_hello(c)
    [] m.t = "commit" ->
         LET c1 == sendlog_commit_point(c, m)
         IN  IF c1.elapsed # c1.committed THEN c1
             ELSE [c1 EXCEPT !.state = C_FINISHED, !.loop = "ending"]
    [] m.t = "log_id" -> [c EXCEPT !.id = m.id]
    [] m.t = "error"  -> sendlog_bad([c EXCEPT !.state = C_ERROR], FALSE)

client_server_message(c, m) ==
  IF conf.client = "sudo" THEN sudo_server_message(c, m) ELSE sendlog_server_message(c, m)

client_message_completion(c) ==
  IF conf.client = "sudo" THEN sudo_message_completion(c) ELSE sendlog_message_completion(c)

-----------------------------------------------------------------------------
(* The client's steps.                                                     *)

Running == cli.loop \in {"hello", "main", "close"}

ClientStep(c) ==
  /\ cli' = c
  /\ UNCHANGED <<conf, conn, logs, jrn, queue, up, stopping, faults>>

(* log_server_connect(), or connect_server() of sudo_sendlog: the server   *)
(* accepts the connection (listener_cb) and the ClientHello is queued.     *)
Connect ==
  /\ cli.loop = "idle" /\ "edge" \in up /\ conn["client"] = NoConn
  /\ \E n \in Nets :
       /\ Become({new_connection(World("good", n))})
       /\ Spend("good", n)
  /\ cli' = Say([cli EXCEPT !.read_ev = TRUE,
                            !.loop = IF conf.client = "sudo" THEN "hello" ELSE "main"],
                Msg("hello", 0))
  /\ UNCHANGED <<conf, up, stopping>>

(* server_msg_cb() of the client: a message of the server is read.         *)
CliRead ==
  /\ Running /\ cli.read_ev /\ pipe["e2c"].q # << >>
  /\ ClientStep(client_server_message(cli, Head(pipe["e2c"].q)))
  /\ pipe' = [pipe EXCEPT !["e2c"].q = Tail(@)]

(* It finds that the connection was closed, or times out where it has a    *)
(* timeout.                                                                *)
CliEOF ==
  /\ Running /\ cli.read_ev /\ pipe["e2c"].q = << >> /\ ~pipe["e2c"].wr
  /\ ClientStep(client_bad(cli, FALSE))
  /\ UNCHANGED pipe

CliTimeout ==
  /\ conf.client = "sudo" /\ cli.loop \in {"hello", "close"} /\ cli.read_ev
  /\ Fault("timeout")
  /\ cli' = client_bad(cli, FALSE)
  /\ UNCHANGED <<conf, conn, pipe, logs, jrn, queue, up, stopping>>

(* client_msg_cb() of the client: a message is written, or cannot be.      *)
CliWrite ==
  /\ Running /\ cli.wq # << >>
  /\ LET c == [cli EXCEPT !.wq = Tail(@)]
     IN  IF pipe["c2e"].rd
         THEN /\ pipe' = [pipe EXCEPT !["c2e"].q = Append(@, Head(cli.wq))]
              /\ ClientStep(IF c.wq = << >> THEN client_message_completion(c) ELSE c)
         ELSE UNCHANGED pipe /\ ClientStep(client_bad(cli, TRUE))

(* sudoers_io_log_remote(): the running command did some I/O.              *)
CommandIO ==
  /\ conf.client = "sudo" /\ cli.loop = "main" /\ LogsIO /\ cli.next <= N
  /\ ClientStep(IF cli.disabled THEN [cli EXCEPT !.next = @ + 1]
                ELSE Say([cli EXCEPT !.next = @ + 1, !.elapsed = @ + Delays[cli.next]],
                         Msg("io", cli.next)))
  /\ UNCHANGED pipe

(* It ran a sub-command (fmt_accept_message()).                            *)
SubCommand ==
  /\ conf.client = "sudo" /\ cli.loop = "main" /\ cli.sub /\ cli.state = C_SEND_IO
  /\ ClientStep(IF cli.disabled THEN [cli EXCEPT !.sub = FALSE]
                ELSE Say([cli EXCEPT !.sub = FALSE], Msg("accept", 0)))
  /\ UNCHANGED pipe

(* It exited.                                                              *)
CommandExit ==
  /\ conf.client = "sudo" /\ cli.loop = "main"
  /\ LogsIO => cli.next > N
  /\ ClientStep(log_server_close(cli))
  /\ UNCHANGED pipe

(* The event loop has nothing left to wait for, or was left: the closure   *)
(* is freed.  "sent" is a client that reports no failure.                  *)
CliEnd ==
  /\ \/ cli.loop = "ending"
     \/ /\ cli.loop = "hello" \/ cli.loop = "close" \/ (cli.loop = "main" /\ conf.client = "sendlog")
        /\ ~cli.read_ev /\ cli.wq = << >>
  /\ ClientStep([cli EXCEPT !.loop = "done", !.read_ev = FALSE, !.wq = << >>,
                            !.sent = (cli.state = C_FINISHED)])
  /\ pipe' = CloseSocket(pipe, "e2c", "c2e")

(* main() of sudo_sendlog, run again with the commit point and the log ID  *)
(* that it printed (or the ID's last component).                           *)
Resend ==
  /\ conf.client = "sendlog" /\ cli.loop = "done" /\ ~cli.sent /\ cli.run < conf.runs
  /\ cli.id # NoId /\ (cli.committed > 0 \/ cli.restart > 0)
  /\ \E id \in {cli.id} \cup (IF cli.id = JournalPath THEN {JournalName} ELSE {}) :
       LET r == IF cli.committed > 0 THEN cli.committed ELSE cli.restart
       IN  ClientStep([client_closure_alloc EXCEPT
                         !.run = cli.run + 1, !.restart = r, !.elapsed = r, !.id = id,
                         !.next = SeekTo(Delays, r) + 1])
  /\ UNCHANGED pipe

-----------------------------------------------------------------------------
(* The event loops of the servers and of the client.                       *)
ServerLoop(s) ==
  \/ \E i \in ConnsOf(s) : ClientMsg(i) \/ ClientEOF(i) \/ ServerMsg(i) \/ ServerCommit(i)
  \/ Exit(s)
EdgeLoop ==
  \/ ServerLoop("edge")
  \/ ReplayMsg
  \/ \E i \in ConnsOf("edge") :
       Connected(i) \/ ConnectFailed(i) \/ RelayWrite(i) \/ RelayRead(i)
  \/ QueueEvent
ClientLoop ==
  \/ Connect \/ CliRead \/ CliEOF \/ CliWrite \/ CliEnd \/ Resend
  \/ CommandIO \/ SubCommand \/ CommandExit
Faults ==
  \/ Drop("drop_client", "c2e", "e2c") \/ Drop("drop_relay", "e2r", "r2e")
  \/ \E s \in Servers : Crash(s) \/ Terminate(s)
  \/ CliTimeout

Progress == EdgeLoop \/ ServerLoop("central") \/ ClientLoop \/ \E s \in Servers : Start(s)

Next == Progress \/ Faults

Spec == Init /\ [][Next]_vars

(* Some event loop with an event that is ready takes a step: timers fire,  *)
(* connection attempts end, the command does its I/O and exits, a server   *)
(* that is down is started again.  Nothing forces a fault.  No event is    *)
(* ready forever, so no loop needs a fairness of its own.                  *)
Fairness == WF_vars(Progress)

FairSpec == Spec /\ Fairness

-----------------------------------------------------------------------------
(* Properties.                                                             *)

(* The I/O logs, what of them is on disk, and the point in time up to      *)
(* which the client was told that it is.                                   *)
IOLogs     == {n \in DOMAIN logs : logs[n].io}
Acked      == IF cli.committed > 0 THEN cli.committed ELSE cli.restart
OnDisk(l)  == SubSeq(l.recs, 1, l.dur)

TypeOK ==
  /\ conf \in Confs
  /\ up \subseteq Servers /\ stopping \subseteq up
  /\ faults \in 0..conf.faults
  /\ \A i \in Ids : conn[i].state \in {-1} \cup INITIAL..FINISHED
  /\ cli.state \in C_ERROR..C_FINISHED /\ cli.next \in 1..(N + 1)
  /\ jrn.dur \in 0..Len(jrn.msgs)
  /\ \A n \in DOMAIN logs : logs[n].dur \in 0..Len(logs[n].recs)

(* Whatever breaks, and however often a session is resumed or a journal    *)
(* replayed, an I/O log holds the command's I/O from the beginning, each   *)
(* record once and in order.  A torn log may have lost some.               *)
LogIsPrefix ==
  \A n \in IOLogs : logs[n].torn \/ logs[n].recs = [k \in 1..Len(logs[n].recs) |-> k]

(* A journal has one owner: the connection it is written by, the one that  *)
(* replays it, or the outgoing queue.                                      *)
Owners == {i \in {"client", "replay"} : conn[i] # NoConn /\ conn[i].journal}
JournalOwner == TypeOK /\ Cardinality(Owners) + queue.n <= 1

(* What is stored: whole logs, and journals that one connection writes.    *)
StorageSound == LogIsPrefix /\ JournalOwner

(* A client that resumes its session at a commit point it was sent finds   *)
(* the server able to, whatever was lost in between, unless the log was    *)
(* already complete, or torn.                                              *)
Restarted(i) ==
  LET q == pipe[InPipe(i)].q
  IN  /\ conn[i] # NoConn /\ conn[i].cms = "local" /\ conn[i].read_ev
      /\ q # << >> /\ Head(q).t = "restart" /\ ~logs[Head(q).id[2]].done /\ ~logs[Head(q).id[2]].torn
      /\ pipe'[InPipe(i)].q = Tail(q) /\ faults' = faults
RestartFound ==
  [][\A i \in {"client", "central"} : Restarted(i) => conn'[i].state = RUNNING]_vars

(* The service the client gets when the log is not journaled first.        *)
Direct == conf.mode # "journal" /\ LogsIO
Stored == IF Direct /\ IOLogs # {} THEN logs[CHOOSE n \in IOLogs : TRUE].dur ELSE 0
RecordsAt(t) == CHOOSE k \in 0..N : Sum(SubSeq(Delays, 1, k)) = t
Service == INSTANCE LogService WITH
  logged <- IF conf.client = "sudo" THEN RecordsAt(cli.elapsed) ELSE N,
  stored <- Stored,
  acked  <- IF Direct THEN RecordsAt(Acked) ELSE 0,
  sent   <- Direct /\ cli.sent,
  exposed <- Direct /\ \E n \in IOLogs : logs[n].torn \/ logs[n].copied > 0

(* The clients, the servers and the protocol between them implement the    *)
(* service: a commit point covers only what is on disk, nothing it covers  *)
(* is lost by a crash or a resumed session, and a client reports success   *)
(* only after the last one.                                                *)
ImplementsService == Service!Spec

-----------------------------------------------------------------------------
(* Every client comes to an end, whatever breaks.                          *)
ClientEnds == <>(cli.loop = "done")

(* Without a fault all the I/O that the client logged gets to the server   *)
(* that stores it, and the log is marked complete there.                   *)
Delivered ==
  (conf.faults = 0 /\ LogsIO) ~>
    \E n \in IOLogs : logs[n].done /\ Sum(Times(OnDisk(logs[n]))) = cli.elapsed

(* A client is served: it ends, and its log arrives if nothing breaks.     *)
ClientServed == ClientEnds /\ Delivered

(* A finished journal is relayed and then removed, unless the queue's      *)
(* callback could not open or lock it: it stays queued, with no timer to   *)
(* try again.                                                              *)
JournalRelayed == (jrn.dir = "outgoing") ~> (jrn.dir = "removed" \/ queue.passed)

(* Once a journal is removed the relay host has the complete log.          *)
RemovedWhenStored ==
  jrn.dir = "removed" => \E n \in DOMAIN logs : logs[n].done /\ Sum(Times(OnDisk(logs[n]))) = cli.elapsed
=============================================================================
