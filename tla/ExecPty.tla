------------------------------ MODULE ExecPty ------------------------------
(***************************************************************************)
(* Running a command in a pseudo-terminal: the main sudo process           *)
(* (src/exec_pty.c), the monitor it forks (src/exec_monitor.c) and the     *)
(* command the monitor forks.  Main and monitor each run the event loop of *)
(* lib/util/event.c and talk over a socket pair, the backchannel; the      *)
(* child tells the monitor of a failed execve(2) over another one.  The    *)
(* user, the shell and other processes send signals, stop and continue.    *)
(*                                                                         *)
(* A loop round is an "active" queue, as in EventLoop, whose callbacks run *)
(* one per step: the events poll(2) found ready in the order of the base's *)
(* list, then the signals that draining the signal pipe appended.          *)
(*                                                                         *)
(* Left out: the data of the terminal and its window size, ptrace and      *)
(* intercept mode, SELinux, and a user's terminal that is revoked.         *)
(***************************************************************************)
EXTENDS Queues

CONSTANT Configs   \* how sudo was started, and what may happen to it

VARIABLES
  conf,     \* the member of Configs this behaviour is about
  main,     \* the main process: struct exec_closure and its event loop
  mon,      \* the monitor: struct monitor_closure and its event loop
  cmd,      \* the command
  sock,     \* the two directions of the backchannel
  err,      \* what the monitor can read from the error socket
  caught,   \* signals a handler noted and no callback has seen, by process
  tty,      \* the user's terminal: is sudo in the foreground, is it raw
  pty,      \* which of monitor and command owns the command's terminal
  env       \* what the environment did so far (bounded), and history

vars == <<conf, main, mon, cmd, sock, err, caught, tty, pty, env>>

(* Signals in the order of their numbers, which is the order in which      *)
(* signal_pipe_cb() activates their events.  INT, QUIT, USR1 and USR2 are  *)
(* handled as TERM is.                                                     *)
SigOrder == <<"HUP", "ALRM", "TERM", "CHLD", "CONT", "TSTP">>
Signals  == {SigOrder[i] : i \in 1..Len(SigOrder)}
Senders  == {"user", "kernel", "command"}

StopStats == {"TSTP", "TTIN", "STOP"}
ExitStats == {"0", "1", "killed"}
Errnos    == {"EXEC", "FORK", "EPIPE", "ECONNRESET"}

(* (Slip: a stop for the terminal taken for an end.)                       *)
WIFSTOPPED_NoTtin(v) == v \in StopStats \ {"TTIN"}

(* A wait status is a stop signal or how the process ended.  "0" is both   *)
(* the status of exit(0) and the value CMD_INVALID.                        *)
WIFSTOPPED(v) == v \in StopStats

CS(type, val) == [type |-> type, val |-> val]
NoStatus      == CS("INVALID", "0")

Statuses ==
  {NoStatus} \cup [type : {"WSTATUS"}, val : ExitStats \cup StopStats \cup {"early"}]
             \cup [type : {"ERRNO"}, val : Errnos]

ToMonitor ==
  [type : {"SIGNO"}, val : (Signals \ {"CHLD", "CONT"}) \cup {"0", "CONT_FG", "CONT_BG"}]
ToMain    == (Statuses \ {NoStatus}) \cup {CS("PID", "0")}

NoSignals == [s \in Signals |-> "none"]

ASSUME ConfigsAssumption ==
  \A c \in Configs :
    /\ {c.fg, c.execbg, c.early} \subseteq BOOLEAN
    /\ c.signals \subseteq {"main", "mon"} \X Signals \X Senders
    /\ c.nsignals \in Nat /\ c.stops \in Nat

-----------------------------------------------------------------------------
(* The event loop of a process.                                            *)

Events == {"fwd", "sigpipe", "back", "errsock"} \cup Signals
Io(e)  == <<e, "io">>

(* The loop flags: LOOPBREAK trumps LOOPEXIT, which trumps LOOPCONT.       *)
LoopExit(p)     == [p EXCEPT !.flag = IF @ = "break" THEN @ ELSE "exit"]
LoopBreak(p)    == [p EXCEPT !.flag = "break"]
LoopContinue(p) == [p EXCEPT !.flag = IF @ \in {"break", "exit"} THEN @ ELSE "cont"]

(* What sudo_ev_loop() does after a callback: leave at once, scan again    *)
(* and forget what is active, call the next one, or end the round.         *)
Settle(p) ==
  IF p.flag = "break" THEN [p EXCEPT !.pc = "after", !.active = << >>]
  ELSE IF p.flag = "cont" THEN [p EXCEPT !.pc = "poll", !.active = << >>, !.flag = "none"]
  ELSE [p EXCEPT !.pc = IF p.active # << >> THEN "service"
                        ELSE IF p.flag = "exit" THEN "after" ELSE "poll"]

Raise(c, p, s, from) == [c EXCEPT ![p][s] = from]

(* The signals the handler has noted for process p, and their events in    *)
(* the order in which signal_pipe_cb() activates them.                     *)
Noted(p) == {s \in Signals : caught[p][s] # "none"}

Pending(p) ==
  Filter([i \in DOMAIN SigOrder |-> <<SigOrder[i], caught[p][SigOrder[i]]>>],
         Signals \X Senders)

Drained(p) == [caught EXCEPT ![p] = NoSignals]

(* One poll(2): the ready events, in the order of the base's list.         *)
Scan(p, ready) ==
  [p EXCEPT !.pc = "service", !.active = [i \in 1..Len(ready) |-> Io(ready[i])]]

Running(p, e) == p.pc = "service" /\ p.active[1][1] = e
Popped(p)     == [p EXCEPT !.active = Tail(@)]

-----------------------------------------------------------------------------
(* The command, seen as a process.                                         *)

MonitorLives == mon.pc \notin {"none", "gone", "killed"}
MainLives    == main.pc \notin {"done", "killed"}
CmdLives     == cmd.st \in {"waiting", "starting", "failing", "running", "stopped"}

Ended(s)   == [cmd EXCEPT !.st = "zombie", !.stat = s, !.report = FALSE]
Stopped(s) == [cmd EXCEPT !.st = "stopped", !.stat = s, !.report = TRUE]
Continued  == [cmd EXCEPT !.st = IF cmd.execd THEN "running" ELSE "starting",
                          !.report = FALSE]

(* What a signal sent to the command's process group can make of it.       *)
(* Before exec_cmnd() restores the mask and the handlers, sudo's own       *)
(* handler swallows the signal; afterwards the command may catch it.       *)
Reactions(sig) ==
  CASE sig = "CONT" /\ cmd.st = "stopped" -> {Continued}
    [] sig = "TSTP" /\ cmd.st \in {"starting", "running"} -> {cmd, Stopped("TSTP")}
    [] sig \notin {"CONT", "TSTP"} /\ cmd.st \in {"starting", "running"} -> {cmd, Ended("killed")}
    [] OTHER -> {cmd}

(* terminate_command(): SIGHUP, SIGTERM and, two seconds later, SIGKILL.   *)
Terminated == IF CmdLives THEN {Ended(s) : s \in ExitStats} ELSE {cmd}

(* The command becomes c: its parent is told, and the error socket closes  *)
(* with it.                                                                *)
CmdBecomes(c) ==
  /\ cmd' = c
  /\ err' = IF c.st = "zombie" /\ err = "empty" THEN "eof" ELSE err
  /\ caught' = IF c.st # cmd.st /\ MonitorLives
                 THEN Raise(caught, "mon", "CHLD", "kernel") ELSE caught

-----------------------------------------------------------------------------
(* Initial state: exec_pty() up to the check for early signals.  The       *)
(* terminal is already raw when the command starts in the foreground.      *)

CmndForeground == conf.fg /\ ~conf.execbg

Init ==
  /\ conf \in Configs
  /\ main = [pc |-> "start", monitor |-> FALSE, cmnd |-> FALSE, cstat |-> NoStatus,
             msgs |-> << >>, fwd |-> FALSE, flag |-> "none", active |-> << >>,
             foreground |-> conf.fg, raw |-> CmndForeground, why |-> "none"]
  /\ mon = [pc |-> "none", cmnd |-> FALSE, cstat |-> NoStatus, flag |-> "none",
            active |-> << >>, errsock |-> TRUE, stop |-> "no"]
  /\ cmd = [st |-> "none", stat |-> "0", report |-> FALSE, execd |-> FALSE]
  /\ sock = [toMon |-> << >>, toMain |-> << >>, reset |-> FALSE]
  /\ err = "empty"
  /\ caught = [p \in {"main", "mon"} |-> NoSignals]
  /\ tty = [fg |-> conf.fg, raw |-> CmndForeground]
  /\ pty = "monitor"
  /\ env = [signals |-> 0, stops |-> 0, stray |-> FALSE]

-----------------------------------------------------------------------------
(* The main process.                                                       *)

MainLoop == {"poll", "service", "wait", "after"}

schedule_signal(p, sig) ==
  LoopContinue([p EXCEPT !.msgs = Append(@, CS("SIGNO", sig)), !.fwd = TRUE])

(* resume_terminal() on the closure, and what it does to the terminal.     *)
Resumed(p)    == [p EXCEPT !.foreground = tty.fg, !.raw = tty.fg]
TtyAfterResume == [tty EXCEPT !.raw = @ \/ tty.fg]

(* (Slip: sudo stops with the terminal still raw.)                         *)
StopSelf_Raw(p, why) ==
  /\ main' = [p EXCEPT !.pc = "suspended", !.raw = FALSE, !.why = why]
  /\ tty' = [tty EXCEPT !.fg = FALSE]

(* The stop itself: the terminal gets its mode back first; once sudo has   *)
(* stopped, the shell takes the terminal.                                  *)
StopSelf(p, why) ==
  /\ main' = [p EXCEPT !.pc = "suspended", !.raw = FALSE, !.why = why]
  /\ tty' = [fg |-> FALSE, raw |-> tty.raw /\ ~p.raw]

(* Where a caller of suspend_sudo_pty() goes on: handle_sigchld_pty() with *)
(* its next waitpid(), backchannel_cb() with the event loop.               *)
GoOn(p, why) == IF why = "monitor" THEN [p EXCEPT !.pc = "wait"] ELSE Settle(p)

(* suspend_sudo_pty().  A command that wants the terminal gets it when     *)
(* sudo has it.  Otherwise sudo stops its process group, and itself with   *)
(* it; when the group's leader has gone no one would continue sudo, and    *)
(* the command is terminated instead.                                      *)
HasTerminal(p, sig) == sig = "TTIN" /\ (p.foreground \/ tty.fg)

GiveTerminal(p, why) ==
  /\ main' = GoOn(schedule_signal([p EXCEPT !.foreground = TRUE,
                                            !.raw = @ \/ tty.fg], "CONT_FG"), why)
  /\ tty' = TtyAfterResume
  /\ UNCHANGED <<cmd, err, caught, env>>

StopOrKill(p, why) ==
  \/ /\ conf.leader
     /\ StopSelf(p, why)
     /\ UNCHANGED <<cmd, err, caught, env>>
  \/ /\ ~conf.leader
     /\ main' = GoOn([p EXCEPT !.raw = FALSE, !.cmnd = FALSE], why)
     /\ tty' = [tty EXCEPT !.raw = @ /\ ~p.raw]
     /\ \E c \in IF p.cmnd THEN Terminated ELSE {cmd} : CmdBecomes(c)
     /\ UNCHANGED env

suspend_sudo_pty(p, sig, why) ==
  \/ HasTerminal(p, sig) /\ GiveTerminal(p, why)
  \/ ~HasTerminal(p, sig) /\ StopOrKill(p, why)

(* (Slip: nothing is sent unless sudo is in the foreground.)               *)
AfterStop_Foreground(p) ==
  IF p.cmnd /\ tty.fg THEN schedule_signal(Resumed(p), "CONT_FG") ELSE p

(* After SIGCONT: the rest of suspend_sudo_pty() and of its callers.       *)
AfterStop(p) ==
  IF p.cmnd
    THEN schedule_signal(Resumed(p), IF tty.fg THEN "CONT_FG" ELSE "CONT_BG")
    ELSE p

(* exec_pty(): a signal caught so far ends sudo before the fork; SIGTSTP   *)
(* stops it.  Neither path gives the terminal its mode back.               *)
EarlySignals == {s \in Signals : caught["main"][s] # "none"}

EarlyExit ==
  /\ main.pc = "start" /\ EarlySignals \ {"CHLD", "TSTP"} # {}
  /\ main' = [main EXCEPT !.pc = "done", !.cstat = CS("WSTATUS", "early")]
  /\ UNCHANGED <<conf, mon, cmd, sock, err, caught, tty, pty, env>>

EarlyStop ==
  /\ main.pc = "start" /\ EarlySignals = {"TSTP"}
  /\ main' = [main EXCEPT !.pc = "suspended", !.why = "early"]
  /\ tty' = [tty EXCEPT !.fg = FALSE]
  /\ caught' = Drained("main")
  /\ UNCHANGED <<conf, mon, cmd, sock, err, pty, env>>

ForkMonitor ==
  /\ \/ main.pc = "start" /\ EarlySignals = {}
     \/ main.pc = "resuming" /\ main.why = "early"
  /\ main' = [main EXCEPT !.pc = "poll", !.monitor = TRUE, !.why = "none"]
  /\ mon' = [mon EXCEPT !.pc = "go"]
  /\ sock' = [sock EXCEPT !.toMon = <<CS("SIGNO", "0")>>]
  /\ UNCHANGED <<conf, cmd, err, caught, tty, pty, env>>

(* The scan of the main loop.  fwdchannel_event goes to the head of the    *)
(* list when it is added, before the signal pipe; the backchannel is last. *)
MainReady(e) ==
  CASE e = "fwd"     -> main.fwd
    [] e = "sigpipe" -> Noted("main") # {}
    [] e = "back"    -> sock.toMain # << >> \/ ~MonitorLives

MainPoll ==
  /\ main.pc = "poll"
  /\ LET ready == {e \in {"fwd", "sigpipe", "back"} : MainReady(e)}
     IN  /\ ready # {}
         /\ main' = Scan(main, Filter(<<"fwd", "sigpipe", "back">>, ready))
  /\ UNCHANGED <<conf, mon, cmd, sock, err, caught, tty, pty, env>>

(* poll(2) fails with EINTR: sudo_ev_loop() calls signal_pipe_cb() itself. *)
MainPollInterrupted ==
  /\ main.pc = "poll" /\ Noted("main") # {}
  /\ main' = [main EXCEPT !.pc = "service", !.active = Pending("main")]
  /\ caught' = Drained("main")
  /\ UNCHANGED <<conf, mon, cmd, sock, err, tty, pty, env>>

MainSignalPipe ==
  /\ Running(main, "sigpipe")
  /\ main' = Settle([main EXCEPT !.active = Tail(@) \o Pending("main")])
  /\ caught' = Drained("main")
  /\ UNCHANGED <<conf, mon, cmd, sock, err, tty, pty, env>>

(* fwdchannel_cb(): every queued message is sent; when the monitor has     *)
(* gone, either its unread data makes the first send fail with ECONNRESET, *)
(* which only ends the callback, or the send fails with EPIPE.             *)
fwdchannel_cb ==
  /\ Running(main, "fwd")
  /\ LET p == [Popped(main) EXCEPT !.fwd = FALSE] IN
     \/ /\ MonitorLives
        /\ main' = Settle([p EXCEPT !.msgs = << >>])
        /\ sock' = [sock EXCEPT !.toMon = @ \o p.msgs]
     \/ /\ ~MonitorLives /\ sock.reset
        /\ main' = Settle([p EXCEPT !.msgs = Tail(@)])
        /\ sock' = [sock EXCEPT !.reset = FALSE]
     \/ /\ ~MonitorLives /\ ~sock.reset
        /\ main' = Settle(LoopBreak([p EXCEPT !.msgs = << >>,
                                              !.cstat = CS("ERRNO", "EPIPE")]))
        /\ UNCHANGED sock
  /\ UNCHANGED <<conf, mon, cmd, err, caught, tty, pty, env>>

(* backchannel_cb(): one status from the monitor, or the end of the        *)
(* stream.                                                                 *)
BackEnd(p) ==
  /\ sock.toMain = << >>
  /\ main' = Settle(
       IF sock.reset
         THEN IF p.cstat.val = "0"
                THEN LoopBreak([p EXCEPT !.cstat = CS("ERRNO", "ECONNRESET")]) ELSE p
         ELSE LoopExit([p EXCEPT !.cstat =
                IF @.type = "INVALID" THEN CS("ERRNO", "ECONNRESET") ELSE @]))
  /\ sock' = [sock EXCEPT !.reset = FALSE]
  /\ UNCHANGED <<cmd, err, caught, tty, env>>

BackStatus(p, m) ==
  \/ /\ m.type = "ERRNO"
     /\ main' = Settle(LoopBreak([p EXCEPT !.cstat = m]))
     /\ UNCHANGED <<cmd, err, caught, tty, env>>
  \/ /\ m.type = "PID"
     /\ main' = Settle([p EXCEPT !.cmnd = TRUE])
     /\ UNCHANGED <<cmd, err, caught, tty, env>>
  \/ /\ m.type = "WSTATUS" /\ WIFSTOPPED(m.val)
     /\ suspend_sudo_pty(p, m.val, "command")
  \/ /\ m.type = "WSTATUS" /\ ~WIFSTOPPED(m.val)
     /\ main' = Settle(LoopExit([p EXCEPT !.cstat = m]))
     /\ UNCHANGED <<cmd, err, caught, tty, env>>

backchannel_cb ==
  /\ Running(main, "back")
  /\ \/ BackEnd(Popped(main))
     \/ /\ sock.toMain # << >>
        /\ BackStatus(Popped(main), Head(sock.toMain))
        /\ sock' = [sock EXCEPT !.toMain = Tail(@)]
  /\ UNCHANGED <<conf, mon, pty>>

(* signal_cb_pty().  Once the monitor has been waited for it does nothing. *)
(* A signal the command itself sent is not forwarded, nor is a SIGHUP from *)
(* the kernel.                                                             *)
Forwarded(s, from) ==
  /\ ~(s = "HUP" /\ from = "kernel")
  /\ ~(from = "command" /\ main.cmnd)

signal_cb_pty(s, from) ==
  /\ main.pc = "service" /\ main.active[1] = <<s, from>>
  /\ LET p == Popped(main) IN
     \/ /\ ~main.monitor
        /\ main' = Settle(p) /\ UNCHANGED tty
     \/ /\ main.monitor /\ s = "CHLD"
        /\ main' = [p EXCEPT !.pc = "wait"] /\ UNCHANGED tty
     \/ /\ main.monitor /\ s = "CONT"
        /\ main' = Settle(Resumed(p)) /\ tty' = TtyAfterResume
     \/ /\ main.monitor /\ s \notin {"CHLD", "CONT"}
        /\ main' = Settle(IF Forwarded(s, from) THEN schedule_signal(p, s) ELSE p)
        /\ UNCHANGED tty
  /\ UNCHANGED <<conf, mon, cmd, sock, err, caught, pty, env>>

MainSignal == \E s \in Signals, from \in Senders : signal_cb_pty(s, from)

(* handle_sigchld_pty(): one waitpid() of its loop.  A stopped monitor     *)
(* stops sudo too, and is continued when sudo is.  Only SIGSTOP stops it,  *)
(* so suspend_sudo_pty() has no terminal to give.                          *)
handle_sigchld_pty ==
  /\ main.pc = "wait"
  /\ \/ /\ mon.stop = "new"
        /\ StopOrKill(main, "monitor")
        /\ mon' = [mon EXCEPT !.stop = IF conf.leader THEN "told" ELSE "no"]
     \/ /\ mon.stop # "new"
        /\ main' = Settle([main EXCEPT !.monitor = @ /\ MonitorLives])
        /\ UNCHANGED <<mon, cmd, err, caught, tty, env>>
  /\ UNCHANGED <<conf, sock, pty>>

(* Sudo goes on after the shell continued it.                              *)
MainResumes ==
  /\ main.pc = "resuming" /\ main.why # "early"
  /\ main' = GoOn(AfterStop([main EXCEPT !.why = "none"]), main.why)
  /\ tty' = IF main.cmnd THEN TtyAfterResume ELSE tty
  /\ mon' = IF main.why = "monitor" THEN [mon EXCEPT !.stop = "no"] ELSE mon
  /\ UNCHANGED <<conf, cmd, sock, err, caught, pty, env>>

(* The end of exec_pty(): pty_finish() gives the terminal its mode back if *)
(* sudo is in the foreground.  (Every loop break of the model stored a     *)
(* non-zero status, so there is no command left for exec_pty() to kill.)   *)
MainFinish ==
  /\ main.pc = "after"
  /\ main' = [main EXCEPT !.pc = "done", !.raw = @ /\ ~tty.fg]
  /\ tty' = [tty EXCEPT !.raw = @ /\ ~(main.raw /\ tty.fg)]
  /\ UNCHANGED <<conf, mon, cmd, sock, err, caught, pty, env>>

MainStep ==
  \/ EarlyExit \/ EarlyStop \/ ForkMonitor
  \/ MainPoll \/ MainPollInterrupted \/ MainSignalPipe
  \/ fwdchannel_cb \/ backchannel_cb \/ MainSignal
  \/ handle_sigchld_pty \/ MainResumes \/ MainFinish

-----------------------------------------------------------------------------
(* The monitor.  A stopped monitor takes no step.                          *)

ToMainWith(m) == IF MainLives THEN Append(sock.toMain, m) ELSE sock.toMain

(* send_status(): nothing is sent of an invalid status, and nothing can be *)
(* sent to a main process that has gone.                                   *)
send_status(cs) == IF cs.type = "INVALID" THEN sock.toMain ELSE ToMainWith(cs)

(* The monitor exits: main is told, and data it did not read makes the     *)
(* other end of the backchannel fail with ECONNRESET once.                 *)
MonitorGone(pc, toMain) ==
  /\ mon' = [mon EXCEPT !.pc = pc, !.active = << >>, !.stop = "no"]
  /\ sock' = [sock EXCEPT !.toMain = toMain, !.reset = sock.toMon # << >>]
  /\ caught' = IF MainLives THEN Raise(caught, "main", "CHLD", "kernel") ELSE caught

(* exec_monitor() up to the fork.  The end of the stream is not an error   *)
(* here: a main process that died is noticed in the event loop.            *)
MonitorForks ==
  /\ mon.pc = "go" /\ mon.stop = "no"
  /\ sock.toMon # << >> \/ ~MainLives
  /\ mon' = [mon EXCEPT !.pc = "setup", !.cmnd = TRUE]
  /\ sock' = [sock EXCEPT !.toMon = IF @ = << >> THEN @ ELSE Tail(@)]
  /\ cmd' = [cmd EXCEPT !.st = IF CmndForeground THEN "waiting" ELSE "starting"]
  /\ UNCHANGED <<conf, main, err, caught, tty, pty, env>>

(* A system call of exec_monitor() up to the fork failed: exec_pty() sends *)
(* errno in the child and exits.                                           *)
MonitorFails ==
  /\ mon.pc = "go" /\ mon.stop = "no" /\ "fork" \in conf.faults
  /\ MonitorGone("gone", ToMainWith(CS("ERRNO", "FORK")))
  /\ UNCHANGED <<conf, main, cmd, err, tty, pty, env>>

(* exec_monitor() from the fork to the event loop: the process ID goes to  *)
(* main before a command in the foreground is told to go ahead.            *)
MonitorSetup ==
  /\ mon.pc = "setup" /\ mon.stop = "no"
  /\ mon' = [mon EXCEPT !.pc = "poll"]
  /\ sock' = [sock EXCEPT !.toMain = ToMainWith(CS("PID", "0"))]
  /\ pty' = IF CmndForeground THEN "command" ELSE pty
  /\ cmd' = IF cmd.st = "waiting" THEN [cmd EXCEPT !.st = "starting"] ELSE cmd
  /\ UNCHANGED <<conf, main, err, caught, tty, env>>

(* The scan of the monitor's loop; the signal pipe is at the head.         *)
MonReady(e) ==
  CASE e = "sigpipe" -> Noted("mon") # {}
    [] e = "errsock" -> mon.errsock /\ err # "empty"
    [] e = "back"    -> sock.toMon # << >> \/ ~MainLives

MonPoll ==
  /\ mon.pc = "poll" /\ mon.stop = "no"
  /\ LET ready == {e \in {"sigpipe", "errsock", "back"} : MonReady(e)}
     IN  /\ ready # {}
         /\ mon' = Scan(mon, Filter(<<"sigpipe", "errsock", "back">>, ready))
  /\ UNCHANGED <<conf, main, cmd, sock, err, caught, tty, pty, env>>

MonPollInterrupted ==
  /\ mon.pc = "poll" /\ mon.stop = "no" /\ Noted("mon") # {}
  /\ mon' = [mon EXCEPT !.pc = "service", !.active = Pending("mon")]
  /\ caught' = Drained("mon")
  /\ UNCHANGED <<conf, main, cmd, sock, err, tty, pty, env>>

MonSignalPipe ==
  /\ Running(mon, "sigpipe") /\ mon.stop = "no"
  /\ mon' = Settle([mon EXCEPT !.active = Tail(@) \o Pending("mon")])
  /\ caught' = Drained("mon")
  /\ UNCHANGED <<conf, main, cmd, sock, err, tty, pty, env>>

(* mon_errsock_cb(): errno of a failed execve(2), or the end of the stream *)
(* that a successful one causes.  Either way the event is deleted.         *)
mon_errsock_cb ==
  /\ Running(mon, "errsock") /\ mon.stop = "no"
  /\ mon' = Settle([Popped(mon) EXCEPT
                      !.errsock = FALSE,
                      !.cstat = IF err = "errno" THEN CS("ERRNO", "EXEC") ELSE @])
  /\ UNCHANGED <<conf, main, cmd, sock, err, caught, tty, pty, env>>

(* deliver_signal(): nothing once the command has been waited for.         *)
(* SIGCONT_FG and SIGCONT_BG also say who owns the command's terminal.     *)
Effects(sig) ==
  CASE sig = "ALRM" -> Terminated
    [] sig \in {"CONT_FG", "CONT_BG"} -> Reactions("CONT")
    [] OTHER -> Reactions(sig)

(* (Slip: no check that there still is a command.)                         *)
deliver_signal_Unchecked(sig) ==
  /\ \E c \in Effects(sig) : CmdBecomes(c)
  /\ env' = [env EXCEPT !.stray = @ \/ cmd.st = "reaped"]
  /\ UNCHANGED pty

deliver_signal(sig) ==
  /\ \E c \in IF mon.cmnd THEN Effects(sig) ELSE {cmd} : CmdBecomes(c)
  /\ pty' = CASE mon.cmnd /\ sig = "CONT_FG" -> "command"
              [] mon.cmnd /\ sig = "CONT_BG" -> "monitor"
              [] OTHER -> pty
  /\ env' = [env EXCEPT !.stray = @ \/ (mon.cmnd /\ cmd.st = "reaped")]

(* (Slip: the end of the stream is not noticed.)                           *)
mon_backchannel_cb_NoEof ==
  /\ Running(mon, "back") /\ mon.stop = "no"
  /\ mon' = Settle(Popped(mon))
  /\ \/ /\ sock.toMon # << >>
        /\ sock' = [sock EXCEPT !.toMon = Tail(@)]
        /\ deliver_signal(Head(sock.toMon).val)
     \/ sock.toMon = << >> /\ UNCHANGED <<cmd, sock, err, caught, pty, env>>
  /\ UNCHANGED <<conf, main, tty>>

(* mon_backchannel_cb(): a signal to deliver, or main has gone.            *)
mon_backchannel_cb ==
  /\ Running(mon, "back") /\ mon.stop = "no"
  /\ \/ /\ sock.toMon # << >>
        /\ mon' = Settle(Popped(mon))
        /\ sock' = [sock EXCEPT !.toMon = Tail(@)]
        /\ deliver_signal(Head(sock.toMon).val)
     \/ /\ sock.toMon = << >>
        /\ mon' = Settle(LoopBreak([Popped(mon) EXCEPT
                                      !.cstat = CS("ERRNO", "ECONNRESET")]))
        /\ UNCHANGED <<cmd, sock, err, caught, pty, env>>
  /\ UNCHANGED <<conf, main, tty>>

(* mon_handle_sigchld(): a stop is reported to main, the end is kept until *)
(* the loop is over; neither replaces the errno of a failed execve(2).     *)
Kept(cs) == IF mon.cstat.type = "INVALID" THEN cs ELSE mon.cstat

(* (Slip: the loop is not told to end with the command.)                   *)
mon_handle_sigchld_NoExit(p) ==
  /\ mon' = Settle([p EXCEPT !.cmnd = @ /\ cmd.st # "zombie",
                             !.cstat = IF cmd.st = "zombie"
                                         THEN Kept(CS("WSTATUS", cmd.stat)) ELSE @])
  /\ cmd' = [cmd EXCEPT !.st = IF @ = "zombie" THEN "reaped" ELSE @, !.report = FALSE]
  /\ sock' = [sock EXCEPT !.toMain =
       IF cmd.report THEN send_status(CS("WSTATUS", cmd.stat)) ELSE @]

mon_handle_sigchld(p) ==
  \/ /\ cmd.st = "zombie"
     /\ mon' = Settle(LoopExit([p EXCEPT !.cmnd = FALSE,
                                         !.cstat = Kept(CS("WSTATUS", cmd.stat))]))
     /\ cmd' = [cmd EXCEPT !.st = "reaped"]
     /\ UNCHANGED sock
  \/ /\ cmd.report
     /\ mon' = Settle(p)
     /\ cmd' = [cmd EXCEPT !.report = FALSE]
     /\ sock' = [sock EXCEPT !.toMain =
          IF mon.cstat.type = "INVALID" THEN send_status(CS("WSTATUS", cmd.stat)) ELSE @]
  \/ /\ cmd.st # "zombie" /\ ~cmd.report
     /\ mon' = Settle(IF p.cmnd THEN p ELSE LoopExit(p))
     /\ UNCHANGED <<cmd, sock>>

(* mon_signal_cb(): a signal from the command's group is not delivered.    *)
mon_signal_cb(s, from) ==
  /\ mon.pc = "service" /\ mon.stop = "no" /\ mon.active[1] = <<s, from>>
  /\ \/ /\ s = "CHLD"
        /\ mon_handle_sigchld(Popped(mon))
        /\ UNCHANGED <<err, caught, pty, env>>
     \/ /\ s # "CHLD" /\ from = "command"
        /\ mon' = Settle(Popped(mon))
        /\ UNCHANGED <<cmd, sock, err, caught, pty, env>>
     \/ /\ s # "CHLD" /\ from # "command"
        /\ mon' = Settle(Popped(mon))
        /\ deliver_signal(s)
        /\ UNCHANGED sock
  /\ UNCHANGED <<conf, main, tty>>

MonSignal == \E s \in Signals, from \in Senders : mon_signal_cb(s, from)

(* The end of exec_monitor(): a command that still runs is terminated and  *)
(* waited for, then the status goes to main.                               *)
MonTerminate ==
  /\ mon.pc = "after" /\ mon.stop = "no"
  /\ mon' = [mon EXCEPT !.pc = "finish"]
  /\ \E c \in IF mon.cmnd THEN Terminated ELSE {cmd} :
       cmd' = [c EXCEPT !.st = "reaped"]
  /\ env' = [env EXCEPT !.stray = @ \/ (mon.cmnd /\ cmd.st = "reaped")]
  /\ UNCHANGED <<conf, main, sock, err, caught, tty, pty>>

MonFinish ==
  /\ mon.pc = "finish" /\ mon.stop = "no"
  /\ MonitorGone("gone", send_status(mon.cstat))
  /\ pty' = "monitor"
  /\ UNCHANGED <<conf, main, cmd, err, tty, env>>

MonStep ==
  \/ MonitorForks \/ MonitorFails \/ MonitorSetup
  \/ MonPoll \/ MonPollInterrupted \/ MonSignalPipe
  \/ mon_errsock_cb \/ mon_backchannel_cb \/ MonSignal
  \/ MonTerminate \/ MonFinish

-----------------------------------------------------------------------------
(* The child between fork(2) and execve(2).  It stops waiting for the      *)
(* terminal when the monitor tells it to (MonitorSetup) or has died.       *)

ChildGoesAhead ==
  /\ cmd.st = "waiting" /\ ~MonitorLives
  /\ cmd' = [cmd EXCEPT !.st = "starting"]
  /\ UNCHANGED err

ChildExecs ==
  /\ cmd.st = "starting"
  /\ cmd' = [cmd EXCEPT !.st = "running", !.execd = TRUE]
  /\ err' = "eof"

ChildExecFails ==
  /\ cmd.st = "starting" /\ "exec" \in conf.faults
  /\ cmd' = [cmd EXCEPT !.st = "failing"]
  /\ err' = "errno"

ChildExits ==
  /\ cmd.st = "failing"
  /\ CmdBecomes(Ended("1"))
  /\ UNCHANGED <<conf, main, mon, sock, tty, pty, env>>

ChildStep ==
  \/ /\ ChildGoesAhead \/ ChildExecs \/ ChildExecFails
     /\ UNCHANGED <<conf, main, mon, sock, caught, tty, pty, env>>
  \/ ChildExits

(* The command, and other processes that act on it.  Only a command that   *)
(* does not own its terminal is stopped for using it.                      *)
CommandExits ==
  /\ cmd.st = "running"
  /\ \E s \in ExitStats : CmdBecomes(Ended(s))
  /\ UNCHANGED <<conf, main, mon, sock, tty, pty, env>>

CommandStops ==
  /\ cmd.st = "running" /\ env.stops < conf.stops
  /\ \E s \in {"TSTP"} \cup (IF pty = "monitor" THEN {"TTIN"} ELSE {}) :
       CmdBecomes(Stopped(s))
  /\ env' = [env EXCEPT !.stops = @ + 1]
  /\ UNCHANGED <<conf, main, mon, sock, tty, pty>>

OthersContinueOrKill ==
  /\ cmd.st = "stopped" /\ conf.others
  /\ \E c \in {Continued, Ended("killed")} : CmdBecomes(c)
  /\ UNCHANGED <<conf, main, mon, sock, tty, pty, env>>

(* A signal for main or the monitor.  Before the fork main notes it only   *)
(* where the configuration lets signals come early.                        *)
SignalSent ==
  /\ env.signals < conf.nsignals
  /\ \E to \in {"main", "mon"}, s \in Signals, from \in Senders :
       /\ <<to, s, from>> \in conf.signals
       /\ to = "main" => main.pc \in MainLoop \cup {"suspended"} \/ (main.pc = "start" /\ conf.early)
       /\ to = "mon" => MonitorLives
       /\ from = "command" => cmd.st = "running"
       /\ caught' = Raise(caught, to, s, from)
  /\ env' = [env EXCEPT !.signals = @ + 1]
  /\ UNCHANGED <<conf, main, mon, cmd, sock, err, tty, pty>>

(* The shell continues sudo in the foreground or the background, or brings *)
(* a sudo that runs in the background to the foreground.                   *)
ShellContinues ==
  /\ main.pc = "suspended"
  /\ main' = [main EXCEPT !.pc = "resuming"]
  /\ \E f \in BOOLEAN : tty' = [tty EXCEPT !.fg = f]
  /\ UNCHANGED <<conf, mon, cmd, sock, err, caught, pty, env>>

ShellForegrounds ==
  /\ main.pc \in MainLoop /\ ~tty.fg
  /\ tty' = [tty EXCEPT !.fg = TRUE]
  /\ caught' = Raise(caught, "main", "CONT", "user")
  /\ UNCHANGED <<conf, main, mon, cmd, sock, err, pty, env>>

(* SIGKILL and SIGSTOP, which no process can catch.                        *)
KillMain ==
  /\ "killMain" \in conf.faults /\ MainLives
  /\ main' = [main EXCEPT !.pc = "killed", !.active = << >>]
  /\ UNCHANGED <<conf, mon, cmd, sock, err, caught, tty, pty, env>>

KillMonitor ==
  /\ "killMonitor" \in conf.faults /\ MonitorLives
  /\ MonitorGone("killed", sock.toMain)
  /\ UNCHANGED <<conf, main, cmd, err, tty, pty, env>>

StopMonitor ==
  /\ "stopMonitor" \in conf.faults /\ MonitorLives
  /\ mon.stop = "no" /\ env.stops < conf.stops
  /\ mon' = [mon EXCEPT !.stop = "new"]
  /\ caught' = Raise(caught, "main", "CHLD", "kernel")
  /\ env' = [env EXCEPT !.stops = @ + 1]
  /\ UNCHANGED <<conf, main, cmd, sock, err, tty, pty>>

Environment ==
  \/ CommandExits \/ CommandStops \/ OthersContinueOrKill
  \/ SignalSent \/ ShellContinues \/ ShellForegrounds
  \/ KillMain \/ KillMonitor \/ StopMonitor

(* Nothing is left to happen.                                              *)
Over == ~MainLives /\ ~MonitorLives /\ UNCHANGED vars

Next == MainStep \/ MonStep \/ ChildStep \/ Environment \/ Over

Spec == Init /\ [][Next]_vars

(* The scheduler runs main, the monitor and the child of the fork.         *)
(* Nothing is assumed of the command, the shell or other processes.        *)
Fairness == WF_vars(MainStep) /\ WF_vars(MonStep) /\ WF_vars(ChildStep)

FairSpec == Spec /\ Fairness

-----------------------------------------------------------------------------
(* Properties.                                                             *)

(* Every variable holds what its C counterpart can: statuses by their kind *)
(* and value, loop flags, queues of events with the signal's sender.       *)
Queue == Seq(Events \X (Senders \cup {"io"}))

MainType ==
  [pc : MainLoop \cup {"start", "suspended", "resuming", "done", "killed"},
   monitor : BOOLEAN, cmnd : BOOLEAN, cstat : Statuses, msgs : Seq(ToMonitor),
   fwd : BOOLEAN, flag : {"none", "exit", "break", "cont"}, active : Queue,
   foreground : BOOLEAN, raw : BOOLEAN, why : {"none", "early", "command", "monitor"}]

MonType ==
  [pc : {"none", "go", "setup", "poll", "service", "after", "finish", "gone", "killed"},
   cmnd : BOOLEAN, cstat : Statuses, flag : {"none", "exit", "break"}, active : Queue,
   errsock : BOOLEAN, stop : {"no", "new", "told"}]

CmdType ==
  [st : {"none", "waiting", "starting", "failing", "running", "stopped", "zombie", "reaped"},
   stat : ExitStats \cup StopStats, report : BOOLEAN, execd : BOOLEAN]

TypeOK ==
  /\ conf \in Configs
  /\ main \in MainType /\ mon \in MonType /\ cmd \in CmdType
  /\ sock \in [toMon : Seq(ToMonitor), toMain : Seq(ToMain), reset : BOOLEAN]
  /\ err \in {"empty", "errno", "eof"}
  /\ caught \in [{"main", "mon"} -> [Signals -> Senders \cup {"none"}]]
  /\ tty \in [fg : BOOLEAN, raw : BOOLEAN]
  /\ pty \in {"monitor", "command"}
  /\ env \in [signals : 0..conf.nsignals, stops : 0..conf.stops, stray : BOOLEAN]

(* A wait status that sudo ends with is the one with which the command     *)
(* ended, and the monitor has waited for the command: no stop status, no   *)
(* status of an earlier moment and no invented one gets through the two    *)
(* event loops.  An errno that says the command could not be executed is   *)
(* only reported when its execve(2), or the fork, did fail.                *)
StatusFaithful ==
  main.pc = "done" =>
    /\ main.cstat.type = "WSTATUS" /\ main.cstat.val # "early"
         => cmd.st = "reaped" /\ cmd.stat = main.cstat.val
    /\ main.cstat.type = "ERRNO"
         => CASE main.cstat.val = "EXEC" -> err = "errno" /\ ~cmd.execd
              [] main.cstat.val = "FORK" -> cmd.st = "none"
              [] OTHER -> ~MonitorLives

(* A monitor that ends by itself leaves no command behind: the command was *)
(* waited for, or never forked.  And it never signals the process group of *)
(* a command it has waited for, whose number may be another process's by   *)
(* then.                                                                   *)
CommandCollected ==
  /\ TypeOK
  /\ mon.pc = "gone" => cmd.st \in {"none", "reaped"}
  /\ ~env.stray

(* When sudo has stopped or has ended, the user's terminal has the mode it *)
(* had before.                                                             *)
TerminalRestored == main.pc \in {"suspended", "done"} => ~tty.raw

(* The same for every sudo that no signal reached before its fork.         *)
TerminalRestoredAfterFork == ~conf.early => TerminalRestored

(* A stopped command does not stay unnoticed: sudo stops as well, or the   *)
(* command is continued.  After sudo was continued the same holds again,   *)
(* so continuing sudo continues the command.                               *)
StopAnswered ==
  cmd.st = "stopped" ~>
    \/ cmd.st # "stopped" \/ main.pc = "suspended" \/ ~MainLives
    \/ ~MonitorLives \/ mon.stop # "no"

(* The end of the command ends sudo, unless sudo has stopped, or someone   *)
(* stopped the monitor.                                                    *)
ExitNoticed ==
  cmd.st = "zombie" ~> main.pc = "suspended" \/ ~MainLives \/ mon.stop # "no"

(* When the main process has ended or was killed, the monitor terminates   *)
(* the command and ends too.                                               *)
NoCommandWithoutMain ==
  ~MainLives ~> (~MonitorLives /\ (mon.pc # "killed" => ~CmdLives)) \/ mon.stop # "no"

(* Sudo and its command end together, whichever ends first.                *)
EndsTogether == ExitNoticed /\ NoCommandWithoutMain
=============================================================================
