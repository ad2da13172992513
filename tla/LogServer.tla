----------------------------- MODULE LogServer -----------------------------
(***************************************************************************)
(* sudo_logsrvd (logsrvd/): the connection closures of a log server and    *)
(* what their callbacks do.  Two servers run this code.  The "edge" server *)
(* takes the client's connection and stores the log itself, stores it in a *)
(* journal that it relays once it is complete (store_first), or relays it  *)
(* in real time.  The "central" server is the relay host and stores what   *)
(* it is sent.  A server has one thread and one event loop, so a callback  *)
(* is atomic.                                                              *)
(*                                                                         *)
(* A callback is an operator that maps a "world" (the server's part of the *)
(* state) to the world it leaves; the world's ok is the C function's       *)
(* return value and its o the answers of disk and network.  A disk that    *)
(* does not do its job ("good") will not open or lock a file ("open"), or  *)
(* fails a write: the stream keeps what it has buffered ("kept") or drops  *)
(* it ("lost").                                                            *)
(***************************************************************************)
EXTENDS Integers, Sequences, SequencesExt

CONSTANT Delays    \* the delay of each record of the command's I/O

ASSUME DelaysAssumption == Delays \in Seq(Nat \ {0})

VARIABLES
  conf,    \* how the servers are configured and what the client logs
  conn,    \* the connection closures: the client's, the one that replays a
           \* journal (both of the edge server), the relay host's
  pipe,    \* the two directions of each connection
  logs,    \* the logs stored by the server that stores them, oldest first
  jrn,     \* the edge server's journal file
  queue,   \* outgoing_journal_queue, whether outgoing_queue_event is armed, and
           \* whether its callback passed over a journal it could not open
  up       \* the servers that are running

srvvars == <<conf, conn, pipe, logs, jrn, queue, up>>

Ids     == {"client", "replay", "central"}
Servers == {"edge", "central"}
ServerOf(i) == IF i = "central" THEN "central" ELSE "edge"
ConnsOf(s)  == {i \in Ids : ServerOf(i) = s}

(* enum connection_status, in its order.                                   *)
INITIAL    == 0
CONNECTING == 1
RUNNING    == 2
EXITED     == 3
SHUTDOWN   == 4
FINISHED   == 5

(* A message: its type, a number (an index of the command's I/O, a point   *)
(* in time, or whether I/O is to be logged) and a log ID.                  *)
NoId         == <<"none", 0>>
JournalPath  == <<"path", 0>>    \* the path name of the journal
JournalName  == <<"name", 0>>    \* its last component
Msg(t, n)    == [t |-> t, n |-> n, id |-> NoId]
IdMsg(t, n, id) == [t |-> t, n |-> n, id |-> id]

DelayOf(m) == IF m.t = "io" THEN Delays[m.n] ELSE 0
Sum(s)     == FoldLeft(LAMBDA a, b : a + b, 0, s)
Times(ns)  == [k \in 1..Len(ns) |-> Delays[ns[k]]]
Put(s, p, x) == IF p < Len(s) THEN [s EXCEPT ![p + 1] = x] ELSE Append(s, x)

(* (Slip: the first record past the target is taken for it.)               *)
SeekTo_Past(ds, target) ==
  LET S == {p \in 1..Len(ds) : Sum(SubSeq(ds, 1, p)) > target}
  IN  IF S = {} THEN -1 ELSE CHOOSE p \in S : \A q \in S : p <= q

(* iolog_seekto(), and the searches of journal_seek() and iolog_rewrite(): *)
(* how many records lie before the first point that is not before the target,  *)
(* if the elapsed time there is the target's; otherwise -1.                *)
SeekTo(ds, target) ==
  LET S == {p \in 1..Len(ds) : Sum(SubSeq(ds, 1, p)) >= target}
      f == CHOOSE p \in S : \A q \in S : p <= q
  IN  IF S # {} /\ Sum(SubSeq(ds, 1, f)) = target THEN f ELSE -1

-----------------------------------------------------------------------------
(* Connections and files.                                                  *)

(* The end of a direction the writer has, the end the reader has.          *)
Shut   == [q |-> << >>, wr |-> FALSE, rd |-> FALSE]
Open   == [q |-> << >>, wr |-> TRUE, rd |-> TRUE]
Pipes  == {"c2e", "e2c", "e2r", "r2e"}
InPipe(i)  == IF i = "client" THEN "c2e" ELSE "e2r"
OutPipe(i) == IF i = "client" THEN "e2c" ELSE "r2e"

NoConn == [state |-> -1]
Live(w, i) == w.conn[i] # NoConn

(* connection_closure_alloc()                                              *)
NewClosure(cms, store_first) ==
  [state |-> INITIAL, cms |-> cms, store_first |-> store_first,
   has_write_ev |-> cms # "relay", log_io |-> FALSE, error |-> FALSE,
   elapsed |-> 0, read_ev |-> FALSE, commit_ev |-> FALSE, wq |-> << >>,
   log |-> 0, pos |-> 0, journal |-> FALSE,
   relay |-> "none", rq |-> << >>]

Cms(i) == IF i = "central" \/ conf.mode # "journal" THEN "local" ELSE "journal"

NoJournal == [msgs |-> << >>, dur |-> 0, dir |-> "none"]
EmptyQueue == [n |-> 0, ev |-> FALSE, passed |-> FALSE]

DiskFails(w) == w.o.disk # "good"

(* What is left of a log of which d records got to the disk; it is torn if *)
(* that is less than its last rewriting copied.                            *)
Ended(l, d) ==
  [l EXCEPT !.recs = SubSeq(@, 1, d), !.dur = d, !.copied = 0, !.torn = @ \/ d < l.copied]

(* iolog_close_all() and fclose() of the journal flush what is buffered;   *)
(* a failure is at most reported.                                          *)
CloseFiles(w, i) ==
  LET c == w.conn[i]
      l == w.logs[c.log]
      j == IF DiskFails(w) THEN w.jrn.dur ELSE Len(w.jrn.msgs)
  IN  [w EXCEPT
        !.logs = IF c.log = 0 THEN @
                 ELSE [@ EXCEPT ![c.log] = Ended(l, IF DiskFails(w) THEN l.dur ELSE Len(l.recs))],
        !.jrn  = IF c.journal THEN [@ EXCEPT !.msgs = SubSeq(@, 1, j), !.dur = j] ELSE @]

CloseSocket(p, in, out) == [p EXCEPT ![in].rd = FALSE, ![out].wr = FALSE]

(* logsrvd_queue_enable()                                                  *)
logsrvd_queue_enable(w) ==
  IF w.queue.n > 0 THEN [w EXCEPT !.queue.ev = TRUE] ELSE w

logsrvd_queue_insert(w) == logsrvd_queue_enable([w EXCEPT !.queue.n = @ + 1])

(* (Slip: the journal of a failed connection is not queued again.)         *)
connection_closure_free_NoRequeue(w, i) ==
  LET c  == w.conn[i]
      w2 == CloseFiles(w, i)
      p1 == IF c.relay \in {"open", "error"} THEN CloseSocket(w2.pipe, "r2e", "e2r") ELSE w2.pipe
      p2 == IF c.has_write_ev THEN CloseSocket(p1, InPipe(i), OutPipe(i)) ELSE p1
  IN  [w2 EXCEPT !.conn[i] = NoConn, !.pipe = p2]

(* (Slip: whatever it was doing, a closure's journal is queued.)           *)
connection_closure_free_Always(w, i) ==
  LET c  == w.conn[i]
      w1 == IF c.journal THEN logsrvd_queue_insert(w) ELSE w
      w2 == CloseFiles(w1, i)
      p1 == IF c.relay \in {"open", "error"} THEN CloseSocket(w2.pipe, "r2e", "e2r") ELSE w2.pipe
      p2 == IF c.has_write_ev THEN CloseSocket(p1, InPipe(i), OutPipe(i)) ELSE p1
  IN  [w2 EXCEPT !.conn[i] = NoConn, !.pipe = p2]

(* connection_closure_free() with relay_closure_free(): what is queued for *)
(* the client or for the relay host is discarded.                          *)
connection_closure_free(w, i) ==
  LET c  == w.conn[i]
      w1 == IF c.state = CONNECTING /\ c.journal THEN logsrvd_queue_insert(w) ELSE w
      w2 == CloseFiles(w1, i)
      p1 == IF c.relay \in {"open", "error"} THEN CloseSocket(w2.pipe, "r2e", "e2r") ELSE w2.pipe
      p2 == IF c.has_write_ev THEN CloseSocket(p1, InPipe(i), OutPipe(i)) ELSE p1
  IN  [w2 EXCEPT !.conn[i] = NoConn, !.pipe = p2]

(* start_protocol(): a relay-only closure has no client to greet.          *)
start_protocol(w, i) ==
  [w EXCEPT !.conn[i].read_ev = TRUE,
            !.conn[i].wq = IF w.conn[i].has_write_ev THEN Append(@, Msg("hello", 0)) ELSE @]

(* start_relay() and the relay host's new_connection(): the edge server    *)
(* queues its ClientHello, the relay host its ServerHello.                 *)
start_relay(w, i) ==
  LET w1 == [w EXCEPT !.conn[i].relay = "open", !.conn[i].rq = <<Msg("hello", 0)>>,
                      !.pipe = [@ EXCEPT !["e2r"] = Open, !["r2e"] = Open],
                      !.conn["central"] = NewClosure("local", FALSE)]
  IN  start_protocol(w1, "central")

(* connect_relay_next(), called until it connects, waits for the network   *)
(* or runs out of relay hosts: what becomes of it is o.net.  Connecting at *)
(* once leaves the closure's state as it is.                               *)
connect_relay_next(w, i) ==
  CASE w.o.net = "now"  -> [start_relay(w, i) EXCEPT !.ok = TRUE]
    [] w.o.net = "wait" -> [w EXCEPT !.conn[i].relay = "connecting",
                                     !.conn[i].state = CONNECTING, !.ok = TRUE]
    [] w.o.net = "fail" -> [w EXCEPT !.conn[i].relay = "closed", !.ok = FALSE]

(* connect_relay()                                                         *)
connect_relay(w, i) ==
  LET w1 == connect_relay_next(w, i)
  IN  IF w1.ok THEN [w1 EXCEPT !.conn[i].cms = "relay"] ELSE w1

(* What reading a journal's descriptor finds: a finished journal has been  *)
(* flushed and rewound, another one is read from where its writer is.      *)
Replay(w) == [NewClosure("relay", FALSE) EXCEPT !.journal = TRUE,
                !.pos = IF w.jrn.dir = "outgoing" THEN 0 ELSE w.jrn.dur]

(* (Slip: the journal is removed however the connection ended.)            *)
connection_close_Eager(w, i) ==
  LET c    == w.conn[i]
      hand == c.store_first /\ c.state = FINISHED /\ c.relay = "none" /\ c.journal
      w1   == [w EXCEPT !.conn["replay"] = Replay(w), !.conn[i].journal = FALSE]
      w2   == connect_relay(w1, "replay")
      w3   == IF ~hand THEN w ELSE IF w2.ok THEN w2 ELSE connection_closure_free(w2, "replay")
      w4   == IF w3.conn[i].journal THEN [w3 EXCEPT !.jrn.dir = "removed"] ELSE w3
  IN  connection_closure_free(w4, i)

(* connection_close(), a closure that finished storing a journal handing   *)
(* it to one that replays it.                                              *)
connection_close(w, i) ==
  LET c    == w.conn[i]
      hand == c.store_first /\ c.state = FINISHED /\ c.relay = "none" /\ c.journal
      w1   == [w EXCEPT !.conn["replay"] = Replay(w), !.conn[i].journal = FALSE]
      w2   == connect_relay(w1, "replay")
      w3   == IF ~hand THEN w ELSE IF w2.ok THEN w2 ELSE connection_closure_free(w2, "replay")
      w4   == IF c.state = FINISHED /\ w3.conn[i].journal
              THEN logsrvd_queue_enable([w3 EXCEPT !.jrn.dir = "removed"])
              ELSE w3
  IN  connection_closure_free(w4, i)

(* schedule_error_message(), given an error string or none.                *)
schedule_error_message(w, i, errstr) ==
  LET c == w.conn[i]
      r == errstr /\ ~c.error /\ c.has_write_ev
  IN  [w EXCEPT !.ok = r,
        !.conn[i] = [c EXCEPT !.read_ev = FALSE, !.error = TRUE,
                              !.wq = IF r THEN Append(@, Msg("error", 0)) ELSE @]]

(* The send_error label of the callbacks.                                  *)
send_error(w, i) ==
  LET w1 == schedule_error_message(w, i, TRUE)
  IN  IF w1.ok THEN w1 ELSE connection_close(w1, i)

(* schedule_commit_point(): an exited session is finished by any one.      *)
schedule_commit_point(w, i, point) ==
  LET c == w.conn[i]
  IN  [w EXCEPT !.ok = TRUE,
        !.conn[i].wq = IF c.has_write_ev THEN Append(@, Msg("commit", point)) ELSE @,
        !.conn[i].state = IF c.state = EXITED THEN FINISHED ELSE @]

-----------------------------------------------------------------------------
(* The three client_message_switch tables.  Fail is a handler that returns *)
(* false.                                                                  *)

Fail(w) == [w EXCEPT !.ok = FALSE]
Good(w) == [w EXCEPT !.ok = TRUE]

(* A stored event with its I/O log: the first dur records are on disk, the *)
(* first "copied" ones only in the unflushed copies of iolog_rewrite(); it *)
(* is torn once records got lost and nobody noticed.                       *)
EventLog(ev, io) ==
  [ev |-> ev, io |-> io, recs |-> << >>, dur |-> 0, done |-> FALSE, copied |-> 0, torn |-> FALSE]

SendLogId(w, i, id) == [w EXCEPT !.conn[i].wq = Append(@, IdMsg("log_id", 0, id))]

(* store_accept_local() with iolog_init(): a second AcceptMessage is for a *)
(* sub-command of the session, which goes to the event log only.           *)
store_accept_local(w, i, m) ==
  LET n  == Len(w.logs) + 1
      w1 == [w EXCEPT !.logs = Append(@, EventLog("accept", m.n = 1)), !.ok = TRUE]
      w2 == [w1 EXCEPT !.conn[i].log = n, !.conn[i].log_io = (m.n = 1)]
  IN  IF DiskFails(w) THEN Fail(w)
      ELSE IF w.conn[i].log # 0 THEN Good(w)
      ELSE IF m.n = 1 THEN SendLogId(w2, i, <<"iolog", n>>) ELSE w2

StoreEvent(w, m) ==
  IF DiskFails(w) THEN Fail(w)
  ELSE [w EXCEPT !.logs = Append(@, EventLog(m.t, FALSE)), !.ok = TRUE]

store_reject_local(w, i, m) == StoreEvent(w, m)
store_alert_local(w, i, m)  == StoreEvent(w, m)

(* store_exit_local(): clearing the write bits marks the log complete.     *)
store_exit_local(w, i, m) ==
  IF DiskFails(w) THEN Fail(w)
  ELSE [w EXCEPT !.logs[w.conn[i].log].done = TRUE, !.ok = TRUE]

(* The streams of a log are flushed, by iolog_flush_all() or by every      *)
(* iolog_write() under iolog_flush.  No caller looks at a failure.         *)
Flushed(w, i) ==
  LET c == w.conn[i]
      l == w.logs[c.log]
  IN  CASE w.o.disk = "good" -> [w EXCEPT !.logs[c.log].dur = Len(l.recs), !.logs[c.log].copied = 0]
        [] w.o.disk = "lost" -> [w EXCEPT !.logs[c.log].recs = SubSeq(@, 1, l.dur),
                                          !.logs[c.log].torn = TRUE,
                                          !.conn[i].pos = IF @ < l.dur THEN @ ELSE l.dur]
        [] OTHER -> [w EXCEPT !.logs[c.log].torn = TRUE]

(* store_iobuf_local(), store_winsize_local(), store_suspend_local(): a    *)
(* file that cannot be created is an error; iolog_write() returns -1 when  *)
(* it fails, which the three take for success, and the time goes on.       *)
store_iobuf_local(w, i, m) ==
  LET c  == w.conn[i]
      w1 == [w EXCEPT !.logs[c.log].recs = Put(@, c.pos, m.n),
                      !.conn[i].pos = @ + 1, !.conn[i].elapsed = @ + DelayOf(m), !.ok = TRUE]
  IN  IF w.o.disk = "open" THEN Fail(w)
      ELSE IF conf.flush \/ DiskFails(w) THEN Flushed(w1, i) ELSE w1

(* (Slip: the log is continued where it ends, not at the resume point.)    *)
store_restart_local_Append(w, i, m) ==
  LET k == m.id[2]
      l == w.logs[k]
  IN  IF m.id[1] # "iolog" \/ DiskFails(w) \/ l.done THEN Fail(w)
      ELSE [w EXCEPT !.conn[i].log = k, !.conn[i].pos = Len(l.recs),
                     !.conn[i].elapsed = m.n, !.ok = TRUE]

(* iolog_rewrite(): a copy of the log up to the resume point is renamed    *)
(* over it, file by file.  The new streams stay open and are flushed only  *)
(* under iolog_flush.  When a rename fails the copies are closed, and some *)
(* may be in place.                                                        *)
iolog_rewrite(l, p, disk) ==
  LET cut == [l EXCEPT !.recs = SubSeq(@, 1, p), !.dur = p, !.copied = 0]
  IN  CASE disk = "good" /\ ~conf.flush -> [cut EXCEPT !.dur = 0, !.copied = p]
        [] disk = "kept" -> l
        [] OTHER -> cut

(* store_restart_local(): a compressed log is rewritten; in another one    *)
(* seeking leaves the rest to be overwritten.                              *)
store_restart_local(w, i, m) ==
  LET k == m.id[2]
      l == w.logs[k]
      p == SeekTo(Times(l.recs), m.n)
      r == IF conf.compress THEN iolog_rewrite(l, p, w.o.disk) ELSE l
  IN  IF m.id[1] # "iolog" \/ w.o.disk = "open" THEN Fail(w)
      ELSE IF l.done \/ p = -1 THEN Fail(w)
      ELSE IF DiskFails(w) THEN [w EXCEPT !.logs[k] = r, !.ok = FALSE]
      ELSE [w EXCEPT !.conn[i].log = k, !.conn[i].pos = p, !.conn[i].elapsed = m.n,
                     !.logs[k] = r, !.ok = TRUE]

(* journal_write(): into the stream's buffer.                              *)
journal_write(w, i, m) ==
  IF DiskFails(w) THEN Fail(w)
  ELSE [w EXCEPT !.jrn.msgs = Put(@, w.conn[i].pos, m), !.conn[i].pos = @ + 1, !.ok = TRUE]

(* journal_create()                                                        *)
journal_create(w, i) ==
  [w EXCEPT !.jrn = [NoJournal EXCEPT !.dir = "incoming"], !.conn[i].journal = TRUE]

(* journal_accept()                                                        *)
journal_accept(w, i, m) ==
  LET new == ~w.conn[i].journal
      w1  == journal_write(IF new THEN journal_create(w, i) ELSE w, i, m)
  IN  IF DiskFails(w) THEN Fail(w)
      ELSE IF new /\ m.n = 1 THEN SendLogId(w1, i, JournalPath) ELSE w1

(* An event opens a journal unless it belongs to a session.                *)
journal_reject(w, i, m) ==
  IF DiskFails(w) THEN Fail(w)
  ELSE journal_write(IF w.conn[i].journal THEN w ELSE journal_create(w, i), i, m)

journal_alert(w, i, m) == journal_reject(w, i, m)

(* (Slip: the finished journal is not moved to outgoing/ and rewound.)     *)
journal_exit_Unfinished(w, i, m) == journal_write(w, i, m)

(* journal_exit() and journal_finish()                                     *)
journal_exit(w, i, m) ==
  LET w1 == journal_write(w, i, m)
  IN  IF ~w1.ok THEN w1
      ELSE [w1 EXCEPT !.jrn.dur = Len(w1.jrn.msgs), !.jrn.dir = "outgoing"]

journal_iobuf(w, i, m) ==
  LET w1 == journal_write(w, i, m)
  IN  IF ~w1.ok THEN w1 ELSE [w1 EXCEPT !.conn[i].elapsed = @ + DelayOf(m)]

journal_seek(msgs, target) == SeekTo([k \in 1..Len(msgs) |-> DelayOf(msgs[k])], target)

(* journal_restart() looks for the log ID below <relay_dir>/incoming.      *)
journal_restart(w, i, m) ==
  LET p == journal_seek(w.jrn.msgs, m.n)
  IN  IF m.id # JournalName \/ w.jrn.dir # "incoming" THEN Fail(w)
      ELSE [w EXCEPT !.conn[i].journal = TRUE, !.conn[i].pos = IF p = -1 THEN 0 ELSE p,
                     !.conn[i].elapsed = m.n, !.ok = (p # -1)]

(* relay_enqueue_write(), which relay_accept() to relay_iobuf() end in.    *)
(* relay_restart() strips the relay host off the log ID that               *)
(* handle_log_id() did not put there: an absolute path stays as it is.     *)
relay_enqueue_write(w, i, m) == [w EXCEPT !.conn[i].rq = Append(@, m), !.ok = TRUE]

(* closure->cms->op                                                        *)
CmsAccept(w, i, m) ==
  CASE w.conn[i].cms = "local"   -> store_accept_local(w, i, m)
    [] w.conn[i].cms = "journal" -> journal_accept(w, i, m)
    [] w.conn[i].cms = "relay"   -> relay_enqueue_write(w, i, m)

CmsEvent(w, i, m) ==
  CASE w.conn[i].cms = "local"   ->
         IF m.t = "alert" THEN store_alert_local(w, i, m) ELSE store_reject_local(w, i, m)
    [] w.conn[i].cms = "journal" ->
         IF m.t = "alert" THEN journal_alert(w, i, m) ELSE journal_reject(w, i, m)
    [] w.conn[i].cms = "relay"   -> relay_enqueue_write(w, i, m)

CmsExit(w, i, m) ==
  CASE w.conn[i].cms = "local"   -> store_exit_local(w, i, m)
    [] w.conn[i].cms = "journal" -> journal_exit(w, i, m)
    [] w.conn[i].cms = "relay"   -> relay_enqueue_write(w, i, m)

CmsRestart(w, i, m) ==
  CASE w.conn[i].cms = "local"   -> store_restart_local(w, i, m)
    [] w.conn[i].cms = "journal" -> journal_restart(w, i, m)
    [] w.conn[i].cms = "relay"   -> relay_enqueue_write(w, i, m)

CmsIobuf(w, i, m) ==
  CASE w.conn[i].cms = "local"   -> store_iobuf_local(w, i, m)
    [] w.conn[i].cms = "journal" -> journal_iobuf(w, i, m)
    [] w.conn[i].cms = "relay"   -> relay_enqueue_write(w, i, m)

-----------------------------------------------------------------------------
(* The handlers of client messages.                                        *)

handle_accept(w, i, m) ==
  LET w1 == CmsAccept(w, i, m)
  IN  IF w.conn[i].state \in {EXITED, FINISHED} THEN Fail(w)
      ELSE IF w1.ok /\ w1.conn[i].state = INITIAL
      THEN [w1 EXCEPT !.conn[i].log_io = @ \/ m.n = 1, !.conn[i].state = RUNNING]
      ELSE w1

handle_reject(w, i, m) ==
  LET w1 == CmsEvent(w, i, m)
  IN  IF w.conn[i].state \in {EXITED, FINISHED} THEN Fail(w)
      ELSE IF w1.ok /\ w1.conn[i].state = INITIAL
      THEN [w1 EXCEPT !.conn[i].state = FINISHED]
      ELSE w1

(* (Slip: the final commit point is left to the periodic ones.)            *)
handle_exit_NoCommit(w, i, m) ==
  LET w1 == CmsExit(w, i, m)
  IN  IF w.conn[i].state # RUNNING THEN Fail(w)
      ELSE [w1 EXCEPT !.conn[i].read_ev = FALSE,
                      !.conn[i].state = IF ~w1.ok THEN @ ELSE IF w1.conn[i].log_io THEN EXITED ELSE FINISHED]

handle_exit(w, i, m) ==
  LET w1 == CmsExit(w, i, m)
      c  == w1.conn[i]
  IN  IF w.conn[i].state # RUNNING THEN Fail(w)
      ELSE [w1 EXCEPT !.conn[i] =
             [c EXCEPT !.read_ev = FALSE,
                       !.state = IF ~w1.ok THEN @ ELSE IF c.log_io THEN EXITED ELSE FINISHED,
                       !.commit_ev = @ \/ (w1.ok /\ c.log_io /\ c.relay = "none")]]

(* handle_restart(): iolog_rewrite() fails without an error string.        *)
handle_restart(w, i, m) ==
  LET w0 == [w EXCEPT !.conn[i].log_io = TRUE]
      w1 == CmsRestart(w0, i, m)
      e  == ~(w.conn[i].cms = "local" /\ conf.compress /\ w.o.disk # "open"
              /\ ~w.logs[m.id[2]].done)
  IN  IF w.conn[i].state # INITIAL THEN Fail(w)
      ELSE IF w1.ok THEN [w1 EXCEPT !.conn[i].state = RUNNING]
      ELSE schedule_error_message(w1, i, e)

(* handle_iobuf(), handle_winsize(), handle_suspend() and enable_commit()  *)
handle_iobuf(w, i, m) ==
  LET w1 == CmsIobuf(w, i, m)
  IN  IF w.conn[i].state # RUNNING \/ ~w.conn[i].log_io THEN Fail(w)
      ELSE IF w1.ok /\ w1.conn[i].relay = "none"
      THEN [w1 EXCEPT !.conn[i].commit_ev = TRUE]
      ELSE w1

handle_alert(w, i, m) == CmsEvent(w, i, m)

handle_client_hello(w, i, m) == IF w.conn[i].state = INITIAL THEN Good(w) ELSE Fail(w)

handle_client_message(w, i, m) ==
  CASE m.t = "accept"  -> handle_accept(w, i, m)
    [] m.t = "reject"  -> handle_reject(w, i, m)
    [] m.t = "alert"   -> handle_alert(w, i, m)
    [] m.t = "exit"    -> handle_exit(w, i, m)
    [] m.t = "restart" -> handle_restart(w, i, m)
    [] m.t = "io"      -> handle_iobuf(w, i, m)
    [] m.t = "hello"   -> handle_client_hello(w, i, m)

(* client_msg_cb(), for a message that was read.                           *)
client_msg_cb(w, i, m) ==
  LET w1 == handle_client_message(w, i, m)
  IN  IF ~w1.ok THEN send_error(w1, i)
      ELSE IF w1.conn[i].state = FINISHED THEN connection_close(w1, i)
      ELSE w1

(* server_msg_cb(): one message is written; with the queue empty a closure *)
(* that has nothing left to say is closed.                                 *)
server_msg_cb(w, i) ==
  LET c  == w.conn[i]
      w1 == [w EXCEPT !.conn[i].wq = Tail(@), !.pipe[OutPipe(i)].q = Append(@, Head(c.wq))]
  IN  IF ~w.pipe[OutPipe(i)].rd THEN connection_close(w, i)
      ELSE IF Len(c.wq) = 1 /\ (c.error \/ c.state \in {FINISHED, SHUTDOWN})
      THEN connection_close(w1, i)
      ELSE w1

(* (Slip: the I/O log's streams are not flushed.)                          *)
server_commit_cb_NoFlush(w, i) ==
  schedule_commit_point([w EXCEPT !.conn[i].commit_ev = FALSE], i, w.conn[i].elapsed)

(* server_commit_cb(): unless every write is, the I/O log is flushed (a    *)
(* journal is not); the commit point is sent whether that worked or not.   *)
server_commit_cb(w, i) ==
  LET c  == w.conn[i]
      w1 == [w EXCEPT !.conn[i].commit_ev = FALSE]
  IN  schedule_commit_point(IF c.log = 0 \/ conf.flush THEN w1 ELSE Flushed(w1, i), i, c.elapsed)

-----------------------------------------------------------------------------
(* The relay connection.                                                   *)

(* connect_cb(), when the connection attempt ended.                        *)
connect_cb(w, i, connected) ==
  LET w1 == connect_relay_next(w, i)
  IN  IF connected THEN start_relay([w EXCEPT !.conn[i].state = INITIAL], i)
      ELSE IF w1.ok THEN w1
      ELSE send_error(w1, i)

(* relay_client_msg_cb(): a message is written to the relay host.          *)
relay_client_msg_cb(w, i) ==
  LET c == w.conn[i]
  IN  IF ~w.pipe["e2r"].rd THEN send_error(w, i)
      ELSE [w EXCEPT !.conn[i].rq = Tail(@), !.pipe["e2r"].q = Append(@, Head(c.rq))]

(* The handlers of the relay host's messages.                              *)
handle_server_hello(w, i, m) ==
  IF w.conn[i].state = INITIAL THEN Good(start_protocol(w, i)) ELSE Fail(w)
handle_commit_point(w, i, m) ==
  IF w.conn[i].state >= RUNNING THEN schedule_commit_point(w, i, m.n) ELSE Fail(w)
handle_log_id(w, i, m) == Good(IF w.conn[i].has_write_ev THEN SendLogId(w, i, m.id) ELSE w)
handle_server_error(w, i, m) ==
  schedule_error_message([w EXCEPT !.conn[i].relay = "error"], i, TRUE)

handle_server_message(w, i, m) ==
  CASE m.t = "hello"  -> handle_server_hello(w, i, m)
    [] m.t = "commit" -> handle_commit_point(w, i, m)
    [] m.t = "log_id" -> handle_log_id(w, i, m)
    [] m.t = "error"  -> handle_server_error(w, i, m)

(* relay_server_msg_cb(): a message or the end of the relay connection.    *)
relay_server_msg_cb(w, i) ==
  LET c  == w.conn[i]
      w1 == handle_server_message([w EXCEPT !.pipe["r2e"].q = Tail(@)], i, Head(w.pipe["r2e"].q))
      w2 == [w EXCEPT !.conn[i].relay = "closed", !.pipe = CloseSocket(@, "r2e", "e2r")]
  IN  IF w.pipe["r2e"].q # << >> THEN (IF w1.ok THEN w1 ELSE send_error(w1, i))
      ELSE IF c.state # FINISHED THEN send_error(w2, i)
      ELSE IF ~c.has_write_ev THEN connection_close(w2, i)
      ELSE w2

-----------------------------------------------------------------------------
(* The outgoing queue, startup and shutdown.                               *)

(* outgoing_queue_cb(): a journal that was removed is dropped; one that    *)
(* cannot be opened or locked stays where it is; another one is replayed   *)
(* from its beginning, wherever it lies.  The event is not armed again.    *)
outgoing_queue_cb(w) ==
  LET w0 == [w EXCEPT !.queue = EmptyQueue]
      w1 == connect_relay([w0 EXCEPT !.conn["replay"] = [Replay(w) EXCEPT !.pos = 0]], "replay")
  IN  IF w.queue.n = 0 \/ w.jrn.dir \in {"none", "removed"} THEN w0
      ELSE IF DiskFails(w) THEN [w EXCEPT !.queue.ev = FALSE, !.queue.passed = TRUE]
      ELSE IF w1.ok THEN w1
      ELSE connection_close(w1, "replay")

(* logsrvd_queue_scan() at startup finds what is in outgoing/.             *)
logsrvd_queue_scan(w) ==
  logsrvd_queue_enable([w EXCEPT !.queue.n = IF w.jrn.dir = "outgoing" THEN 1 ELSE 0])

(* server_shutdown() and relay_shutdown() for one closure.                 *)
shutdown_closure(w, i) ==
  LET c  == w.conn[i]
      w1 == [w EXCEPT !.conn[i].state = SHUTDOWN, !.conn[i].read_ev = FALSE]
  IN  IF ~Live(w, i) THEN w
      ELSE IF c.relay # "none"
      THEN (IF c.relay # "open" /\ c.rq = << >> THEN connection_close(w1, i) ELSE w1)
      ELSE IF c.log_io THEN [w1 EXCEPT !.conn[i].commit_ev = TRUE]
      ELSE connection_close(w1, i)

server_shutdown(w, s) ==
  IF s = "edge" THEN shutdown_closure(shutdown_closure(w, "client"), "replay")
                ELSE shutdown_closure(w, "central")

(* new_connection() of the edge server.                                    *)
new_connection(w) ==
  LET w0 == [w EXCEPT !.conn["client"] = NewClosure(Cms("client"), conf.mode = "journal"),
                      !.pipe = [@ EXCEPT !["c2e"] = Open, !["e2c"] = Open]]
      w1 == connect_relay(w0, "client")
  IN  IF conf.mode # "relay" THEN start_protocol(w0, "client")
      ELSE IF w1.ok THEN w1
      ELSE connection_close(w1, "client")
=============================================================================
