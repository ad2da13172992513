----------------------------- MODULE Intercept ------------------------------
(***************************************************************************)
(* The sudoers plugin at work: opened, asked to check a command, to list   *)
(* or to validate, and, when the command's own commands are intercepted or *)
(* logged, asked again by the processes it starts.  src/exec_intercept.c   *)
(* is sudo's side, src/sudo_intercept_common.c and sudo_intercept.c the    *)
(* library loaded into the command.                                        *)
(*                                                                         *)
(* A process reports with a hello on the descriptor it was started with,   *)
(* and learns the port sudo listens on.  For each exec it connects, sends  *)
(* the token and a request, and waits for the answer; the connection is    *)
(* passed on to the program it becomes, for the hello of that program.     *)
(* Connection 0 is the socket pair of the first command.  A request that   *)
(* is only logged is not waited for.                                       *)
(***************************************************************************)
EXTENDS SudoersMeaning

CONSTANTS
    Confs,       \* the situations to start from
    MaxProcs,    \* processes of the command
    MaxConns,    \* connections made by them
    NoPreload,   \* inodes of programs the library is not loaded into
    Scripts,     \* inodes of programs execve(2) fails for with ENOEXEC
    Shell        \* _PATH_SUDO_BSHELL

VARIABLES
    conf,        \* the situation: what is asked, and the bounds procs on the processes
                 \* and tries on the execs of a process and the one that forked it
    ctx,         \* the plugin's context
    phase,       \* "open", "ask", "run" (the command runs), "end"
    call,        \* the call of the plugin made in the last step
    details,     \* CD_INTERCEPT and CD_LOG_SUBCMDS of the command
    procs,       \* the processes of the command
    conns,       \* connection -> messages to sudo, to the process, sudo's end open
    closures,    \* sudo's closures: state and event
    pending,     \* connections not accepted yet
    audit        \* the events audited for the command's commands

vars == <<conf, ctx, phase, call, details, procs, conns, closures, pending, audit>>

Procs == 1 .. MaxProcs
Conns == 0 .. MaxConns
NoConn == -1

Unborn == [pc |-> "unborn", fds |-> {}, sock |-> NoConn, port |-> FALSE,
           log_only |-> FALSE, execs |-> 0, req |-> <<NoPath, "">>, run |-> NoPath,
           prog |-> <<NoPath, "", NoPath, NoPath>>]
Unused == [up |-> <<>>, down |-> <<>>, open |-> FALSE]
Free == [state |-> "FREE", ev |-> "none", command |-> NoPath]
NoCall == [op |-> "none"]

\* The context that the settings and the user's environment make.
NewContext(f) ==
    [user |-> f.user, host |-> f.host, path |-> f.path, tty |-> f.tty, now |-> f.now,
     ticket |-> f.ticket, password |-> f.password, wants |-> f.wants,
     runas_user |-> f.runas_user, runas_group |-> f.runas_group, ts_uid |-> f.ts_uid,
     mode |-> f.mode,
     runas_pw |-> "root", runas_gr |-> "", list_pw |-> "", defs |-> init_defaults,
     sources |-> <<>>, need_reinit |-> FALSE, early |-> FALSE, asked |-> FALSE,
     ret |-> "none", argv0 |-> NoPath, argv_args |-> "", cmnd |-> NoPath, cmnd_dir |-> "",
     cmnd_stat |-> NoFile, cmnd_list |-> NoPath, args |-> "", runas_cmnd |-> NoPath,
     execfd |-> NoFile,
     perm |-> [r |-> Passwd[f.user].uid, e |-> 0, s |-> 0, rg |-> Passwd[f.user].gid,
               eg |-> Passwd[f.user].gid, sg |-> Passwd[f.user].gid,
               groups |-> Passwd[f.user].groups, stack |-> <<>>, ok |-> TRUE,
               fail |-> f.fail, failed |-> FALSE]]

Ids(p) == <<p.r, p.e, p.s, p.rg, p.eg, p.sg, p.groups>>

NewCall(op, cmnd, args, list_user) ==
    [op |-> op, cmnd |-> cmnd, args |-> args, list_user |-> list_user,
     entry |-> Ids(ctx.perm), ticket |-> ctx.ticket, edit |-> "EDIT" \in ctx.mode,
     intercepted |-> phase = "run" /\ details.intercept]

Init ==
    /\ conf \in Confs
    /\ ctx = NewContext(conf)
    /\ phase = "open"
    /\ call = NoCall
    /\ details = [intercept |-> FALSE, log |-> FALSE]
    /\ procs = [p \in Procs |-> Unborn]
    /\ conns = [n \in Conns |-> Unused]
    /\ closures = [n \in Conns |-> Free]
    /\ pending = <<>>
    /\ audit = {}

-----------------------------------------------------------------------------
(* The calls of the front end. *)

Open ==
    /\ phase = "open"
    /\ ctx' = sudoers_init(ctx, conf.sources)
    /\ phase' = IF ctx'.ret = "true" THEN "ask" ELSE "end"
    /\ call' = NewCall("open", NoPath, "", "")
    /\ UNCHANGED <<conf, details, procs, conns, closures, pending, audit>>

\* intercept_setup for the command: its first message is a hello.
\* A program the library is not loaded into keeps the descriptor; sudo has
\* the shell run a script that has no interpreter (sudo_execve).
Started(run) ==
    LET image == IF Stat(ctx', run) \in Scripts THEN Shell ELSE run
    IN [Unborn EXCEPT !.pc = IF Stat(ctx', image) \in NoPreload THEN "alone" ELSE "start",
                      !.fds = {0}, !.sock = 0, !.prog = <<conf.cmnd, conf.args, run, image>>]

Check ==
    LET watched == ctx'.defs.intercept \/ ctx'.defs.log_subcmds
        starts == ctx'.ret = "true" /\ watched /\ "EDIT" \notin ctx'.mode
    IN /\ phase = "ask" /\ conf.op = "check"
       /\ ctx' = sudoers_policy_check(ctx, conf.cmnd, conf.args)
       /\ call' = NewCall("check", conf.cmnd, conf.args, "")
       /\ phase' = IF starts THEN "run" ELSE "end"
       /\ details' = [intercept |-> ctx'.defs.intercept, log |-> ctx'.defs.log_subcmds]
       /\ procs' = IF starts THEN [procs EXCEPT ![1] = Started(ctx'.runas_cmnd)] ELSE procs
       /\ conns' = IF starts THEN [conns EXCEPT ![0].open = TRUE] ELSE conns
       /\ closures' = IF starts
                      THEN [closures EXCEPT ![0].state = "RECV_HELLO_INITIAL", ![0].ev = "read"]
                      ELSE closures
       /\ UNCHANGED <<conf, pending, audit>>

List ==
    /\ phase = "ask" /\ conf.op = "list"
    /\ ctx' = sudoers_policy_list(ctx, conf.cmnd, conf.args, conf.list_user)
    /\ call' = NewCall("list", conf.cmnd, conf.args, conf.list_user)
    /\ phase' = "end"
    /\ UNCHANGED <<conf, details, procs, conns, closures, pending, audit>>

Validate ==
    /\ phase = "ask" /\ conf.op = "validate"
    /\ ctx' = sudoers_policy_validate(ctx)
    /\ call' = NewCall("validate", NoPath, "", "")
    /\ phase' = "end"
    /\ UNCHANGED <<conf, details, procs, conns, closures, pending, audit>>
-----------------------------------------------------------------------------
(* The library in the processes of the command. *)

\* A process has the other end of connection n.
Held(n) == \E p \in Procs : n \in procs[p].fds

SudoUnchanged == call' = NoCall /\ UNCHANGED <<conf, ctx, phase, details, closures, audit>>

\* What the process finds at path, with the ids of the target user.
LooksUp(path) == Stat([ctx EXCEPT !.perm.e = Passwd[ctx.runas_pw].uid], path)

\* send_req: to a closed connection it may fail, or seem to work.
Sends(n, msgs) == [conns EXCEPT ![n].up = IF conns[n].open THEN @ \o msgs ELSE @]

Closed(proc, n) == [proc EXCEPT !.fds = @ \ {n}, !.sock = NoConn, !.pc = "run"]

\* sudo_interposer_init, run when the library is loaded: say hello.
SendHello(p) ==
    LET n == procs[p].sock
    IN /\ procs[p].pc = "start"
       /\ \/ procs' = [procs EXCEPT ![p].pc = "hello"] /\ conns' = Sends(n, <<[type |-> "hello"]>>)
          \/ ~conns[n].open /\ procs' = [procs EXCEPT ![p] = Closed(@, n)] /\ UNCHANGED conns
       /\ UNCHANGED pending
       /\ SudoUnchanged

\* Learn the port from the answer.  After an end of file the port stays
\* unset, and every exec of the process will fail.
RecvHello(p) ==
    LET n == procs[p].sock
        ans == conns[n].down[1]
    IN /\ procs[p].pc = "hello"
       /\ conns[n].down # <<>> \/ ~conns[n].open
       /\ IF conns[n].down # <<>>
          THEN /\ procs' = [procs EXCEPT ![p] = [Closed(@, n) EXCEPT
                                 !.port = TRUE, !.log_only = ans.log_only]]
               /\ conns' = [conns EXCEPT ![n].down = Tail(@)]
          ELSE procs' = [procs EXCEPT ![p] = Closed(@, n)] /\ UNCHANGED conns
       /\ UNCHANGED pending
       /\ SudoUnchanged

\* A connection number nobody uses any more.
Fresh(n) == /\ n > 0 /\ closures[n] = Free /\ ~Held(n)
            /\ \A i \in DOMAIN pending : pending[i] # n

\* exec_wrapper and intercept_connect: a command the process cannot find
\* fails at once, and so does one without a listener to ask.
Connect(p, req) ==
    LET listening == closures[0].state = "RECV_CONNECTION"
        n == Min({i \in Conns : Fresh(i)})
    IN /\ procs[p].pc = "run" /\ procs[p].execs < conf.tries
       /\ req \in conf.execs
       /\ \E i \in Conns : Fresh(i)
       /\ IF LooksUp(req[1]) # NoFile /\ procs[p].port /\ listening
          THEN /\ procs' = [procs EXCEPT ![p].pc = "token", ![p].req = req, ![p].sock = n,
                                         ![p].fds = @ \cup {n}, ![p].execs = @ + 1]
               /\ conns' = [conns EXCEPT ![n] = [Unused EXCEPT !.open = TRUE]]
               /\ pending' = Append(pending, n)
          ELSE /\ procs' = [procs EXCEPT ![p].execs = @ + 1]
               /\ UNCHANGED <<conns, pending>>
       /\ SudoUnchanged

\* send_policy_check_req: the token, then the request.
SendToken(p) ==
    LET n == procs[p].sock
    IN /\ procs[p].pc = "token"
       /\ \/ procs' = [procs EXCEPT ![p].pc = "request"] /\ conns' = Sends(n, <<[type |-> "token"]>>)
          \/ ~conns[n].open /\ procs' = [procs EXCEPT ![p] = Closed(@, n)] /\ UNCHANGED conns
       /\ UNCHANGED pending
       /\ SudoUnchanged

\* When commands are only logged the answer is not waited for.
SendRequest(p) ==
    LET n == procs[p].sock
        req == procs[p].req
    IN /\ procs[p].pc = "request"
       /\ \/ /\ procs' = [procs EXCEPT ![p].pc = IF procs[p].log_only THEN "exec" ELSE "wait",
                            ![p].run = req[1]]
             /\ conns' = Sends(n, <<[type |-> "request", cmnd |-> req[1], args |-> req[2]]>>)
          \/ ~conns[n].open /\ procs' = [procs EXCEPT ![p] = Closed(@, n)] /\ UNCHANGED conns
       /\ UNCHANGED pending
       /\ SudoUnchanged

\* command_allowed: anything but an accept closes the connection and fails.
RecvResponse(p) ==
    LET n == procs[p].sock
        ans == conns[n].down[1]
    IN /\ procs[p].pc = "wait"
       /\ conns[n].down # <<>> \/ ~conns[n].open
       /\ IF conns[n].down # <<>> /\ ans.type = "accept"
          THEN procs' = [procs EXCEPT ![p].pc = "exec", ![p].run = ans.command]
          ELSE procs' = [procs EXCEPT ![p] = Closed(@, n)]
       /\ conns' = IF conns[n].down # <<>> THEN [conns EXCEPT ![n].down = Tail(@)] ELSE conns
       /\ UNCHANGED pending
       /\ SudoUnchanged

\* execve of image: the new program starts with the connection and without
\* a port.
Becomes(p, image) ==
    /\ LooksUp(image) # NoFile
    /\ procs' = [procs EXCEPT ![p] = [@ EXCEPT
                     !.pc = IF LooksUp(image) \in NoPreload THEN "alone" ELSE "start",
                     !.port = FALSE, !.log_only = FALSE,
                     !.prog = procs[p].req \o <<procs[p].run, image>>]]

\* The rest of exec_wrapper.  A file execve does not know the format of is
\* given to the shell, without another request, if the process had called
\* execvp or the like.  If it fails the connection stays open, though nobody
\* will use it.
Exec(p) ==
    LET script == LooksUp(procs[p].run) \in Scripts
    IN /\ procs[p].pc = "exec"
       /\ \/ ~script /\ Becomes(p, procs[p].run)
          \/ script /\ Becomes(p, Shell)
          \/ procs' = [procs EXCEPT ![p].pc = "run", ![p].sock = NoConn]
       /\ UNCHANGED <<conns, pending>>
       /\ SudoUnchanged

\* fork: the child has the parent's port and its descriptors.
Fork(p, q) ==
    /\ procs[p].pc = "run" /\ procs[q].pc = "unborn" /\ q <= conf.procs
    /\ procs' = [procs EXCEPT ![q] = procs[p]]
    /\ UNCHANGED <<conns, pending>>
    /\ SudoUnchanged

\* A process ends, or is killed, at any time.
Exit(p) ==
    /\ procs[p].pc \notin {"unborn", "dead"}
    /\ procs' = [procs EXCEPT ![p] = [Unborn EXCEPT !.pc = "dead"]]
    /\ UNCHANGED <<conns, pending>>
    /\ SudoUnchanged

-----------------------------------------------------------------------------
(* Sudo's side: one closure for each connection. *)

\* An event audited for an intercepted command.
Event(kind, by, req, run) ==
    [kind |-> kind, by |-> by, cmnd |-> req.cmnd, args |-> req.args, run |-> run]

(* (Slip: a command an approval plugin refuses keeps the accepted state.) *)
Approved_Kept(req, run) ==
    [state |-> "POLICY_ACCEPT",
     events |-> {Event("accept", "sudoers", req, run),
                 IF req.cmnd \in conf.unapproved THEN Event("reject", "approval", req, run)
                 ELSE Event("accept", "sudo", req, run)}]

\* What the plugin allows the approval plugins may still refuse.
Approved(req, run) ==
    IF req.cmnd \in conf.unapproved
    THEN [state |-> "POLICY_REJECT",
          events |-> {Event("accept", "sudoers", req, run), Event("reject", "approval", req, run)}]
    ELSE [state |-> "POLICY_ACCEPT",
          events |-> {Event("accept", "sudoers", req, run), Event("accept", "sudo", req, run)}]

\* The plugin's answer c turned into a state of the closure; FAILED stands
\* for a return of false.
Decided(c, req) ==
    LET Is(a) == [state |-> a.state, command |-> c.runas_cmnd, asked |-> TRUE, c |-> c,
                  events |-> a.events]
    IN Is(CASE c.ret = "true" -> Approved(req, c.runas_cmnd)
            [] c.ret = "false" -> [state |-> "POLICY_REJECT",
                                   events |-> {Event("reject", "sudoers", req, c.runas_cmnd)}]
            [] OTHER -> [state |-> "FAILED",
                         events |-> {Event("error", "sudoers", req, c.runas_cmnd)}])

\* intercept_check_policy: the command may be gone since the process found
\* it; a command that is only logged is not put to the policy.
intercept_check_policy(req, gone) ==
    IF gone \/ ~details.intercept
    THEN [state |-> IF gone THEN "POLICY_ERROR" ELSE "POLICY_ACCEPT",
          command |-> req.cmnd, asked |-> FALSE, c |-> ctx,
          events |-> IF gone THEN {} ELSE {Event("accept", "sudo", req, req.cmnd)}]
    ELSE Decided(sudoers_policy_check(ctx, req.cmnd, req.args), req)

\* intercept_connection_close.
connection_close(n, left) ==
    /\ closures' = [closures EXCEPT ![n] = Free]
    /\ conns' = [conns EXCEPT ![n].open = FALSE, ![n].up = <<>>, ![n].down = left]

\* intercept_read, in the order of the source: the token first, where one is
\* expected, and then a message, which may not have come yet.
\* up is what is left to read and state the state after the token.
ReadNothing(n, state, up) ==
    /\ up = <<>>
    /\ IF Held(n)
       THEN /\ closures' = [closures EXCEPT ![n].state = state]
            /\ conns' = [conns EXCEPT ![n].up = up]
       ELSE connection_close(n, <<>>)
    /\ call' = NoCall /\ UNCHANGED <<ctx, audit>>

\* A hello is only taken from the first command, which makes sudo listen (or
\* fail to), and on a connection whose command was accepted.
ReadHello(n, state, up) ==
    /\ up # <<>> /\ up[1].type = "hello"
    /\ \/ /\ state \in {"RECV_HELLO_INITIAL", "RECV_HELLO"}
          /\ closures' = [closures EXCEPT ![n].ev = "write"]
          /\ conns' = [conns EXCEPT ![n].up = Tail(up)]
       \/ state # "RECV_HELLO" /\ connection_close(n, <<>>)
    /\ call' = NoCall /\ UNCHANGED <<ctx, audit>>

\* A request is only taken after the token, and once.
PolicyCheckReq(state, req, gone) ==
    IF state = "RECV_POLICY_CHECK" THEN intercept_check_policy(req, gone)
    ELSE [state |-> "FAILED", asked |-> FALSE, c |-> ctx, events |-> {}]

\* When commands are only logged the hello is waited for at once.
ReadRequest(n, state, up) ==
    /\ up # <<>> /\ up[1].type = "request"
    /\ \E gone \in BOOLEAN : \E r \in {PolicyCheckReq(state, up[1], gone)} :
          /\ ctx' = r.c
          /\ call' = IF r.asked THEN NewCall("check", up[1].cmnd, up[1].args, "") ELSE NoCall
          /\ audit' = audit \cup r.events
          /\ IF r.state = "FAILED" THEN connection_close(n, <<>>)
             ELSE /\ conns' = [conns EXCEPT ![n].up = Tail(up)]
                  /\ closures' = [closures EXCEPT ![n] =
                        IF details.intercept
                        THEN [state |-> r.state, ev |-> "write", command |-> r.command]
                        ELSE [Free EXCEPT !.state = "RECV_HELLO", !.ev = "read"]]

Readable(n) == closures[n].ev = "read" /\ (conns[n].up # <<>> \/ ~Held(n))

intercept_read(n) ==
    LET secret == closures[n].state = "RECV_SECRET" /\ conns[n].up # <<>>
        state == IF secret THEN "RECV_POLICY_CHECK" ELSE closures[n].state
        up == IF secret THEN Tail(conns[n].up) ELSE conns[n].up
    IN /\ phase = "run" /\ Readable(n)
       /\ ReadNothing(n, state, up) \/ ReadHello(n, state, up) \/ ReadRequest(n, state, up)
       /\ UNCHANGED <<conf, phase, details, procs, pending>>

Answer(cl) ==
    CASE cl.state \in {"RECV_HELLO_INITIAL", "RECV_HELLO"} ->
            [type |-> "hello_resp", log_only |-> ~details.intercept]
      [] cl.state = "POLICY_ACCEPT" -> [type |-> "accept", command |-> cl.command]
      [] cl.state = "POLICY_REJECT" -> [type |-> "reject"]
      [] cl.state = "POLICY_ERROR" -> [type |-> "error"]

\* intercept_write: the first closure becomes the listener, that of an
\* accepted command waits for the hello, the others are done.
intercept_write(n) ==
    LET st == closures[n].state
        down == Append(conns[n].down, Answer(closures[n]))
    IN /\ phase = "run" /\ closures[n].ev = "write"
       /\ IF ~Held(n) THEN connection_close(n, <<>>)
          ELSE IF st = "RECV_HELLO_INITIAL"
          THEN /\ closures' = [closures EXCEPT ![n] =
                                  [Free EXCEPT !.state = "RECV_CONNECTION", !.ev = "accept"]]
               /\ conns' = [conns EXCEPT ![n].open = FALSE, ![n].down = down]
          ELSE IF st = "POLICY_ACCEPT"
          THEN /\ closures' = [closures EXCEPT ![n] =
                                  [Free EXCEPT !.state = "RECV_HELLO", !.ev = "read"]]
               /\ conns' = [conns EXCEPT ![n].down = down]
          ELSE connection_close(n, down)
       /\ call' = NoCall /\ UNCHANGED <<conf, ctx, phase, details, procs, pending, audit>>

\* intercept_accept_cb: by now there is a token, and it is asked for first.
intercept_accept_cb ==
    LET n == Head(pending)
    IN /\ phase = "run" /\ closures[0].ev = "accept" /\ pending # <<>>
       /\ closures' = [closures EXCEPT ![n] = [Free EXCEPT !.state = "RECV_SECRET", !.ev = "read"]]
       /\ pending' = Tail(pending)
       /\ call' = NoCall /\ UNCHANGED <<conf, ctx, phase, details, procs, conns, audit>>

(* (Slip: the connections that were accepted are not closed.) *)
intercept_cleanup_LeftOpen ==
    /\ phase = "run" /\ procs[1].pc = "dead"
    /\ phase' = "end"
    /\ closures' = [n \in Conns |-> Free]
    /\ pending' = <<>>
    /\ call' = NoCall /\ UNCHANGED <<conf, ctx, details, procs, conns, audit>>

\* intercept_cleanup, once the command has ended, and the exit of sudo.
intercept_cleanup ==
    /\ phase = "run" /\ procs[1].pc = "dead"
    /\ phase' = "end"
    /\ closures' = [n \in Conns |-> Free]
    /\ conns' = [n \in Conns |-> [conns[n] EXCEPT !.open = FALSE, !.up = <<>>]]
    /\ pending' = <<>>
    /\ call' = NoCall /\ UNCHANGED <<conf, ctx, details, procs, audit>>

-----------------------------------------------------------------------------
ProcessStep(p) ==
    \/ SendHello(p) \/ RecvHello(p) \/ SendToken(p) \/ SendRequest(p)
    \/ RecvResponse(p) \/ Exec(p)

SudoStep ==
    \/ intercept_accept_cb \/ intercept_cleanup
    \/ \E n \in Conns : intercept_read(n) \/ intercept_write(n)

Next ==
    \/ Open \/ Check \/ List \/ Validate
    \/ SudoStep
    \/ \E p \in Procs : ProcessStep(p) \/ Exit(p)
    \/ \E p \in Procs, req \in conf.execs : Connect(p, req)
    \/ \E p, q \in Procs : Fork(p, q)

\* An event of sudo's is active, or the command has ended.
SudoReady ==
    /\ phase = "run"
    /\ \/ procs[1].pc = "dead"
       \/ closures[0].ev = "accept" /\ pending # <<>>
       \/ \E n \in Conns : Readable(n) \/ closures[n].ev = "write"

\* Sudo's event loop does not stop while there is an event to serve, and a
\* process goes on with a system call that can return.  (SudoReady is written
\* out for ENABLED SudoStep.)
Fairness ==
    /\ []<>~SudoReady \/ []<><<SudoStep>>_vars
    /\ \A p \in Procs : WF_vars(ProcessStep(p))

Spec == Init /\ [][Next]_vars /\ Fairness

-----------------------------------------------------------------------------
(* Properties. *)

Answered == call.op \in {"check", "list", "validate"}

\* Once an intercepted command was sudoedit every later check is an error:
\* its mode is not valid for sudoedit.
EditIntercepted == {"EDIT", "POLICY_INTERCEPTED"} \subseteq ctx.mode

\* Every answer of the plugin is what the policy means: the walk through
\* aliases, rules and sources, the Defaults re-read for each intercepted
\* command and the order of the tests in sudoers_check_common give the
\* verdict of the reference.  If an id could not be changed on the way the
\* plugin may refuse more than that, never less.
VerdictRight ==
    LET Agrees(allowed) ==
            /\ ctx.ret = "true" => allowed
            /\ allowed => ctx.ret = "true" \/ ctx.perm.failed \/ EditIntercepted
    IN Answered /\ ~DatesOverlooked(ctx) => Agrees(Allows(ctx, call))

\* check_user prompts when the rules, the ticket and the user's groups call
\* for it, and for no allowed request otherwise.
PasswordRule ==
    LET Agrees(needed) ==
            /\ ctx.asked => needed
            /\ ctx.ret = "true" /\ needed => ctx.asked
    IN Answered /\ ~DatesOverlooked(ctx) /\ ~ctx.perm.failed =>
          Agrees(NeedsPassword(ctx, call))

\* When a call of the plugin returns the process has the ids and groups it
\* had before, whichever way out was taken (set_perms, restore_perms and
\* rewind_perms); and if one of those calls failed half-way, an allowed
\* request still leaves it root.
CredentialsKept ==
    call.op # "none" =>
        /\ ~ctx.perm.failed => Ids(ctx.perm) = call.entry /\ Len(ctx.perm.stack) <= 1
        /\ ctx.ret = "true" => ctx.perm.e = ROOT_UID

\* The command that will be run is the file that was looked up: runas.cmnd,
\* set by the rule that matched last, names the file of the request, and a
\* descriptor to run it by is open on that file.
RunsWhatWasChecked ==
    /\ Answered /\ call.op = "check" /\ ctx.ret = "true" /\ ~Edits(call) =>
          LET file == Files[CanonPath(Resolved(ctx, call.cmnd))]
          IN /\ CanonPath(ctx.runas_cmnd) \in DOMAIN Files
             /\ Files[CanonPath(ctx.runas_cmnd)] = file
             /\ call.intercepted \/ ctx.execfd \in {NoFile, file}

\* When commands are intercepted, a program of the command was started only
\* after the policy and the approval plugins accepted that very request and
\* the audit plugins were told, whatever the processes do meanwhile.  What
\* runs is the accepted file, or else the shell that exec_wrapper gave it to,
\* which nobody was asked about.
OnlyAccepted ==
    LET Own(prog) == prog # Unborn.prog /\ SubSeq(prog, 1, 2) # <<conf.cmnd, conf.args>>
        Accepted(prog, by) == [kind |-> "accept", by |-> by, cmnd |-> prog[1],
                               args |-> prog[2], run |-> prog[3]] \in audit
        Interpreted(prog) == Files[CanonPath(prog[3])] \in Scripts /\ prog[4] = Shell
    IN details.intercept =>
          \A p \in Procs : Own(procs[p].prog) =>
             /\ Accepted(procs[p].prog, "sudoers") /\ Accepted(procs[p].prog, "sudo")
             /\ procs[p].prog[4] = procs[p].prog[3] \/ Interpreted(procs[p].prog)

\* A process that waits for sudo's answer does not wait for ever: it is
\* answered, or sees the connection close when sudo is done.
ExecReturns ==
    \A p \in Procs : procs[p].pc \in {"hello", "wait"} ~> procs[p].pc \notin {"hello", "wait"}
=============================================================================
