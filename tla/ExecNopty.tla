----------------------------- MODULE ExecNopty -----------------------------
(***************************************************************************)
(* Running a command without a pseudo-terminal: src/src/exec_nopty.c with  *)
(* the I/O buffers of src/src/exec_iolog.c, the suspension of sudo itself  *)
(* (src/src/suspend_parent.c) and the choices of src/src/exec.c.           *)
(*                                                                         *)
(* The processes are sudo (pc), the command, and the user with their       *)
(* shell.  Sudo's event loop runs one ready callback at a time; in which   *)
(* order is left open, but for the error pipe and SIGCHLD (ErrnoFirst).    *)
(* After loopexit the other callbacks of the round may still run.  A chunk *)
(* of output or input is a number.                                         *)
(***************************************************************************)
EXTENDS Plugins

CONSTANTS
    BufSize,        \* chunks an I/O buffer holds
    PipeSize        \* chunks a pipe holds

VARIABLES
    pc,             \* where sudo is, see FrontEnd and Loop below
    ec,             \* the exec closure: [pid, type, val, saved]
    cmd,            \* the command: [st, stat, sig, told, ran]
    errpipe,        \* "open", "errno" or "eof" to be read, "read"
    caught,         \* signals caught and not yet handled: <<signal, origin>>
    loop,           \* "run", "exit" or "break"
    tty,            \* who owns the terminal: "sudo", "cmd" or "shell"
    out,            \* standard output: [b, pipe, written, shown, bad]
    inp,            \* standard input: [b, pipe, n (chunks read), got]
    fn,             \* [I/O plugin -> its log functions not yet disabled]
    logged,         \* [I/O plugin -> [out, inp -> chunks it has logged]]
    susp,           \* [I/O plugin -> the last signal it was told of]
    left            \* [sigs, stops]: what the environment may still do

evars == <<pc, ec, cmd, errpipe, caught, loop, tty, out, inp, fn, logged,
           susp, left>>

vars == <<pvars, evars>>

Ios == {p \in Names : PluginType[p] = "io"}

CHLD == <<"CHLD", "kernel">>

(* What the wait status of a command can say here.                         *)
Stats == {"exit0", "exit1", "HUP", "TERM", "KILL", "PIPE"}

Alive == cmd.st \in {"forked", "running", "stopped"}

(***************************************************************************)
(* I/O buffers.  buf holds bytes 0..len, of which the first `off' have     *)
(* been written.  An event is "none" (freed), "off" (not scheduled) or     *)
(* "on".                                                                   *)
(***************************************************************************)
NoBuf == [buf |-> <<>>, off |-> 0, r |-> "none", w |-> "none"]

io_buf_new == [NoBuf EXCEPT !.r = "off", !.w = "off"]

Pending(b) == Len(b.buf) > b.off

Emptied(b) == [b EXCEPT !.buf = <<>>, !.off = 0]

Schedule(ev, wanted) ==
    IF ev = "none" THEN "none" ELSE IF wanted THEN "on" ELSE "off"

(* Readers of buffers that are not full, writers of those with data.       *)
add_io_events(b) ==
    [b EXCEPT !.r = IF Len(b.buf) # BufSize THEN Schedule(@, TRUE) ELSE @,
              !.w = IF Pending(b) THEN Schedule(@, TRUE) ELSE @]

(* The same events moved to a temporary base, to be flushed.               *)
del_io_events(b) ==
    [b EXCEPT !.r = Schedule(@, Len(b.buf) # BufSize),
              !.w = Schedule(@, Pending(b))]

(* (Slip: the reader is left scheduled at end of file.)                    *)
read_eof_KeepReader(b) ==
    IF b.w # "none" /\ ~Pending(b) THEN [Emptied(b) EXCEPT !.w = "none"] ELSE b

(* End of file: the reader is freed, and the writer if it has caught up.   *)
read_eof(b) ==
    LET c == [b EXCEPT !.r = "none"]
    IN  IF b.w # "none" /\ ~Pending(b) THEN [Emptied(c) EXCEPT !.w = "none"]
        ELSE c

(* A chunk was read: a full buffer stops its reader, data starts the       *)
(* writer.                                                                 *)
read_data(b, chunk) ==
    LET buf == Append(b.buf, chunk)
    IN  [b EXCEPT !.buf = buf,
                  !.r = IF Len(buf) = BufSize THEN "off" ELSE @,
                  !.w = Schedule(@, TRUE)]

(* One chunk was written.  A buffer written out is reset and, at end of    *)
(* file, its writer freed; a buffer that is not full has its reader        *)
(* scheduled.                                                              *)
write_data(b) ==
    LET c == [b EXCEPT !.off = @ + 1]
        d == IF Pending(c) THEN c
             ELSE [Emptied(c) EXCEPT
                      !.w = IF b.r = "none" THEN "none" ELSE "off"]
    IN  [d EXCEPT !.r = IF Len(d.buf) # BufSize THEN Schedule(@, TRUE) ELSE @]

(* EPIPE: both ends are closed and freed.                                  *)
write_epipe(b) == [b EXCEPT !.r = "none", !.w = "none"]

(***************************************************************************)
(* Signals and death.                                                      *)
(***************************************************************************)
Dead(how) == [cmd EXCEPT !.st = "zombie", !.stat = how]

Stopped(sig) == [cmd EXCEPT !.st = "stopped", !.sig = sig, !.told = FALSE]

(* What a signal can do to the command: kill or stop it, or nothing, where *)
(* it has a handler.  A stopped process takes it when it is continued.     *)
Receive(sig) ==
    CASE sig = "CONT" /\ cmd.st = "stopped" -> {[cmd EXCEPT !.st = "running"]}
      [] sig = "TSTP" /\ cmd.st = "running" -> {cmd, Stopped("TSTP")}
      [] sig = "TERM" /\ cmd.st = "running" -> {cmd, Dead("TERM")}
      [] sig = "TERM" /\ cmd.st = "forked"  -> {Dead("TERM")}
      [] OTHER                              -> {cmd}

(* The command becomes c: a death or a stop raises SIGCHLD, and a death    *)
(* closes the error pipe.  `seen' is what sudo has caught otherwise.       *)
CmdBecomes(c, seen) ==
    /\ cmd' = c
    /\ caught' = IF c.st # cmd.st /\ c.st \in {"zombie", "stopped"}
                 THEN seen \cup {CHLD} ELSE seen
    /\ errpipe' = IF c.st = "zombie" /\ errpipe = "open" THEN "eof" ELSE errpipe

(* Whether the command still has the pid sudo sends a signal to is the     *)
(* invariant PidFresh; here a pid of -1 is simply not signalled.           *)
terminate_command(seen) ==
    IF ec.pid /\ Alive THEN \E how \in {"HUP", "KILL"} : CmdBecomes(Dead(how), seen)
    ELSE CmdBecomes(cmd, seen)

(***************************************************************************)
(* Before the fork.                                                        *)
(***************************************************************************)
FrontEndUnchanged == UNCHANGED <<conf, list, plug>>

IoUnchanged == UNCHANGED <<out, inp, fn, logged, susp>>

(* A signal other than SIGCHLD and SIGTSTP caught so far means the command *)
(* is not run.                                                             *)
sudo_terminated == \E s \in caught : s[1] \notin {"CHLD", "TSTP"}

(* The policy plugin sets up the session; then, with signals blocked, the  *)
(* early signals are looked at.  SIGTSTP stops sudo itself.                *)
exec_nopty_start ==
    /\ pc = "execute"
    /\ \E a \in Replies({list.policy[1]}, {-1, 1}) :
        /\ trouble' = trouble - Bad(a)
        /\ IF Bad(a) > 0
           THEN /\ calls' = calls \o audit_error("policy")
                /\ pc' = "fatal"
                /\ UNCHANGED ec
           ELSE /\ pc' = IF sudo_terminated THEN "close"
                         ELSE IF caught # {} THEN "early_stop" ELSE "fork"
                /\ ec' = IF sudo_terminated
                         THEN [ec EXCEPT !.type = "wstatus", !.val = "TERM"]
                         ELSE ec
                /\ UNCHANGED calls
    /\ FrontEndUnchanged /\ IoUnchanged
    /\ UNCHANGED <<cmd, errpipe, caught, loop, tty, left>>

(* The fork, the events of the closure and the I/O events; signals are     *)
(* blocked all the while, so none is lost.  A failing fork is fatal.       *)
exec_nopty_fork ==
    /\ pc = "fork"
    /\ \/ /\ trouble > 0
          /\ trouble' = trouble - 1
          /\ pc' = "fatal"
          /\ UNCHANGED <<ec, cmd, caught, out, inp>>
       \/ /\ pc' = "loop"
          /\ ec' = [ec EXCEPT !.pid = TRUE]
          /\ cmd' = [cmd EXCEPT !.st = "forked"]
          /\ caught' = {}
          /\ out' = [out EXCEPT !.b = IF conf.nout > 0 THEN add_io_events(io_buf_new) ELSE @]
          /\ inp' = [inp EXCEPT !.b = IF conf.nin > 0 THEN add_io_events(io_buf_new) ELSE @]
          /\ UNCHANGED trouble
    /\ FrontEndUnchanged
    /\ UNCHANGED <<calls, errpipe, loop, tty, fn, logged, susp, left>>

(***************************************************************************)
(* The event loop.                                                         *)
(***************************************************************************)
InLoop == pc = "loop" /\ loop # "break"

(* The errno of a failed execve, or end of file; a failing read breaks the *)
(* loop.                                                                   *)
errpipe_cb ==
    /\ InLoop /\ loop = "run" /\ errpipe \in {"errno", "eof"}
    /\ \/ /\ errpipe' = "read"
          /\ ec' = IF errpipe = "errno" THEN [ec EXCEPT !.type = "errno", !.val = "exec"]
                   ELSE ec
          /\ UNCHANGED <<loop, trouble>>
       \/ /\ trouble > 0
          /\ trouble' = trouble - 1
          /\ ec' = [ec EXCEPT !.type = "errno", !.val = "read"]
          /\ loop' = "break"
          /\ UNCHANGED errpipe
    /\ FrontEndUnchanged /\ IoUnchanged
    /\ UNCHANGED <<calls, pc, cmd, caught, tty, left>>

(* The error pipe's event comes before that of the signals, and the child  *)
(* writes to it before it exits; but when another signal has interrupted   *)
(* poll(2), the signals are served alone.                                  *)
ErrnoFirst(s) == s = CHLD /\ errpipe = "errno" => left.sigs < conf.sigs

(* A signal is not passed on when the command or its group sent it, nor    *)
(* one of the keyboard's when the kernel did: the command has it too.      *)
Forwarded(s) == s[2] = "user" \/ (s[2] = "kernel" /\ s[1] # "TSTP")

(* (Slip: SIGCONT is taken to be the shell's business.)                    *)
signal_cb_nopty_NoCont(s) ==
    /\ InLoop /\ s \in caught /\ ErrnoFirst(s)
    /\ CASE s = CHLD /\ ec.pid ->
               pc' = "wait" /\ CmdBecomes(cmd, caught \ {s})
         [] s[1] = "ALRM" /\ ec.pid /\ Forwarded(s) ->
               UNCHANGED pc /\ terminate_command(caught \ {s})
         [] s[1] \notin {"CHLD", "ALRM", "CONT"} /\ ec.pid /\ Forwarded(s) ->
               UNCHANGED pc /\ \E c \in Receive(s[1]) : CmdBecomes(c, caught \ {s})
         [] OTHER ->
               UNCHANGED pc /\ CmdBecomes(cmd, caught \ {s})
    /\ IoUnchanged
    /\ UNCHANGED <<pvars, ec, loop, tty, left>>

(* The callback of every signal.  Once cmnd_pid is -1 it does nothing, and *)
(* a SIGCHLD is not even waited for.                                       *)
signal_cb_nopty(s) ==
    /\ InLoop /\ s \in caught /\ ErrnoFirst(s)
    /\ CASE s = CHLD /\ ec.pid ->
               pc' = "wait" /\ CmdBecomes(cmd, caught \ {s})
         [] s[1] = "ALRM" /\ ec.pid /\ Forwarded(s) ->
               UNCHANGED pc /\ terminate_command(caught \ {s})
         [] s[1] \notin {"CHLD", "ALRM"} /\ ec.pid /\ Forwarded(s) ->
               UNCHANGED pc /\ \E c \in Receive(s[1]) : CmdBecomes(c, caught \ {s})
         [] OTHER ->
               UNCHANGED pc /\ CmdBecomes(cmd, caught \ {s})
    /\ IoUnchanged
    /\ UNCHANGED <<pvars, ec, loop, tty, left>>

(***************************************************************************)
(* SIGCHLD: handle_sigchld_nopty waits until there is nothing to wait for. *)
(***************************************************************************)
(* The log_suspend function of each I/O plugin in turn, up to the first    *)
(* that fails, which loses it: [calls, fn, susp].                          *)
log_suspend(sig, a) ==
    LET l == SelectSeq(OnList("io"), LAMBDA p : "suspend" \in fn[p])
        called == ToSet(UpTo(l, a, {-1}))
        failed == {p \in called : a[p] # 1}
    IN  [calls |-> IF failed = {} THEN <<>> ELSE audit_error("io"),
         fn |-> [p \in Ios |-> IF p \in failed THEN fn[p] \ {"suspend"} ELSE fn[p]],
         susp |-> [p \in Ios |-> IF p \in called THEN sig ELSE susp[p]]]

SuspendReplies == Replies({p \in InList("io") : "suspend" \in fn[p]}, {-1, 1})

LogSuspend(sig) ==
    \E a \in SuspendReplies :
        LET r == log_suspend(sig, a)
        IN  /\ calls' = calls \o r.calls
            /\ fn' = r.fn
            /\ susp' = r.susp
            /\ trouble' = trouble - Bad(a)

(* The terminal can be handed to the command: it stopped for want of it,   *)
(* is in a process group of its own, and sudo is in the foreground.        *)
CanGiveTty == cmd.sig = "TTOU" /\ conf.ownpgrp /\ tty = "sudo"

(* Give the command the terminal and let it go on, or stop as it did: the  *)
(* plugins are told, and the shell, which sees its job stop, takes the     *)
(* terminal.                                                               *)
sudo_suspend_parent ==
    \/ /\ CanGiveTty
       /\ tty' = "cmd"
       /\ cmd' = [cmd EXCEPT !.st = "running"]
       /\ UNCHANGED <<pc, ec, calls, fn, susp, trouble>>
    \/ /\ ~CanGiveTty
       /\ LogSuspend(cmd.sig)
       /\ cmd' = [cmd EXCEPT !.told = TRUE]
       /\ ec' = [ec EXCEPT !.saved = tty]
       /\ tty' = "shell"
       /\ pc' = "stopped"

(* (Slip: the plugins are not told that the session goes on.)              *)
suspend_resumed_Silent ==
    /\ pc = "resumed"
    /\ tty' = IF ec.saved # "sudo" /\ tty = "sudo" THEN ec.saved ELSE tty
    /\ pc' = "wait"
    /\ UNCHANGED <<pvars, ec, cmd, errpipe, caught, loop, out, inp, fn, logged, susp, left>>

(* Sudo has been continued.  A terminal the command's group had is given   *)
(* back to it, unless sudo is in the background: tcsetpgrp_nobg.           *)
suspend_resumed ==
    /\ pc = "resumed"
    /\ LogSuspend("CONT")
    /\ tty' = IF ec.saved # "sudo" /\ tty = "sudo" THEN ec.saved ELSE tty
    /\ pc' = "wait"
    /\ FrontEndUnchanged
    /\ UNCHANGED <<ec, cmd, errpipe, caught, loop, out, inp, logged, left>>

(* (Slip: the status of the failed exec's child replaces the errno.)       *)
reap_Overwrite ==
    ec' = [ec EXCEPT !.pid = FALSE, !.type = "wstatus", !.val = cmd.stat]

(* The command's status, which does not replace an errno.                  *)
reap ==
    ec' = [ec EXCEPT !.pid = FALSE,
                     !.type = IF @ = "invalid" THEN "wstatus" ELSE @,
                     !.val = IF ec.type = "invalid" THEN cmd.stat ELSE @]

(* One turn of the wait loop: a dead command, a stopped one, or nothing.   *)
handle_sigchld_nopty ==
    /\ pc = "wait"
    /\ \/ /\ cmd.st = "zombie"
          /\ cmd' = [cmd EXCEPT !.st = "gone"]
          /\ reap
          /\ loop' = "exit"
          /\ pc' = "loop"
          /\ UNCHANGED <<tty, calls, fn, susp, trouble>>
       \/ /\ cmd.st = "stopped" /\ ~cmd.told
          /\ sudo_suspend_parent
          /\ UNCHANGED loop
       \/ /\ cmd.st \in {"forked", "running"} \/ (cmd.st = "stopped" /\ cmd.told)
          /\ pc' = "loop"
          /\ UNCHANGED <<ec, cmd, loop, tty, calls, fn, susp, trouble>>
    /\ FrontEndUnchanged
    /\ UNCHANGED <<errpipe, caught, out, inp, logged, left>>

(***************************************************************************)
(* The I/O callbacks, in the loop and in the flush after it.               *)
(***************************************************************************)
DoingIo == InLoop \/ pc = "flush"

(* The log functions for `kind' ("out" or "inp") of each I/O plugin in     *)
(* turn, up to the first that does not return 1: [ok, logged, fn, calls].  *)
(* An error disables that function of that plugin.                         *)
log_io(kind, chunk, a, aud) ==
    LET l == SelectSeq(OnList("io"), LAMBDA p : kind \in fn[p])
        called == ToSet(UpTo(l, a, {-1, 0}))
        errors == {p \in called : a[p] = -1}
        noes == {p \in called : a[p] = 0}
    IN  [ok |-> errors \cup noes = {},
         logged |-> [p \in Ios |-> IF p \in called /\ a[p] = 1
                                   THEN [logged[p] EXCEPT ![kind] = Append(@, chunk)]
                                   ELSE logged[p]],
         fn |-> [p \in Ios |-> IF p \in errors THEN fn[p] \ {kind} ELSE fn[p]],
         calls |-> CASE errors # {} -> audit_error("io")
                     [] noes # {}   -> audit_reject("io", aud).calls
                     [] OTHER       -> <<>>]

LogReplies(kind) ==
    Replies({p \in InList("io") : kind \in fn[p]},
            IF conf.refuse THEN -1..1 ELSE {1})

(* A chunk is logged; if it is refused the command is terminated and, in   *)
(* the same breath, forgotten.                                             *)
LogChunk(kind, chunk, ok) ==
    \E a \in LogReplies(kind), aud \in AuditReplies :
        LET r == log_io(kind, chunk, a, aud)
        IN  /\ Bad(a) + Bad(aud) <= trouble
            /\ Bad(aud) > 0 => \E p \in DOMAIN a : a[p] = 0
            /\ trouble' = trouble - Bad(a) - Bad(aud)
            /\ ok = r.ok
            /\ logged' = r.logged
            /\ fn' = r.fn
            /\ calls' = calls \o r.calls
            /\ IF ok THEN CmdBecomes(cmd, caught) /\ UNCHANGED ec
               ELSE terminate_command(caught) /\ ec' = [ec EXCEPT !.pid = FALSE]

(* The pipe from the command: data, or end of file once it is dead.        *)
ReadyToReadOut == out.b.r = "on" /\ (out.pipe # <<>> \/ ~Alive)

(* (Slip: a refused chunk of output is still given to the writer.)         *)
read_callback_out_KeepWriter ==
    /\ DoingIo /\ ReadyToReadOut
    /\ IF out.pipe = <<>>
       THEN /\ out' = [out EXCEPT !.b = read_eof(@)]
            /\ UNCHANGED <<calls, trouble, ec, cmd, errpipe, caught, fn, logged>>
       ELSE \E ok \in BOOLEAN :
            /\ LogChunk("out", Head(out.pipe), ok)
            /\ out' = [out EXCEPT !.pipe = Tail(@),
                                  !.b = read_data(@, Head(out.pipe))]
    /\ FrontEndUnchanged
    /\ UNCHANGED <<pc, loop, tty, inp, susp, left>>

(* Output of the command.  When a plugin refuses it the write event is     *)
(* freed and what the buffer holds is dropped.                             *)
read_callback_out ==
    /\ DoingIo /\ ReadyToReadOut
    /\ IF out.pipe = <<>>
       THEN /\ out' = [out EXCEPT !.b = read_eof(@)]
            /\ UNCHANGED <<calls, trouble, ec, cmd, errpipe, caught, fn, logged>>
       ELSE \E ok \in BOOLEAN :
            /\ LogChunk("out", Head(out.pipe), ok)
            /\ out' = [out EXCEPT
                   !.pipe = Tail(@),
                   !.bad = @ \/ ~ok,
                   !.b = read_data(IF ok THEN @ ELSE [Emptied(@) EXCEPT !.w = "none"],
                                   Head(out.pipe))]
    /\ FrontEndUnchanged
    /\ UNCHANGED <<pc, loop, tty, inp, susp, left>>

(* The user's standard input, a file of conf.nin chunks.                   *)
ReadyToReadIn == inp.b.r = "on"

(* Input for the command.  The writer keeps even a refused chunk; nobody   *)
(* is left to read it.                                                     *)
read_callback_in ==
    /\ DoingIo /\ ReadyToReadIn
    /\ IF inp.n = conf.nin
       THEN /\ inp' = [inp EXCEPT !.b = read_eof(@)]
            /\ UNCHANGED <<calls, trouble, ec, cmd, errpipe, caught, fn, logged>>
       ELSE \E ok \in BOOLEAN :
            /\ LogChunk("inp", inp.n + 1, ok)
            /\ inp' = [inp EXCEPT !.n = @ + 1, !.b = read_data(@, inp.n + 1)]
    /\ FrontEndUnchanged
    /\ UNCHANGED <<pc, loop, tty, out, susp, left>>

ReadyToWriteOut == out.b.w = "on"

(* The user's standard output takes a chunk, is closed (EPIPE), or fails;  *)
(* a failure is reported as an exec error and breaks the loop.             *)
write_callback_out ==
    /\ DoingIo /\ ReadyToWriteOut
    /\ \/ /\ out' = [out EXCEPT !.shown = Append(@, out.b.buf[out.b.off + 1]),
                                 !.b = write_data(@)]
          /\ UNCHANGED <<trouble, ec, loop, pc>>
       \/ /\ trouble > 0
          /\ trouble' = trouble - 1
          /\ out' = [out EXCEPT !.b = write_epipe(@), !.bad = TRUE]
          /\ UNCHANGED <<ec, loop, pc>>
       \/ /\ trouble > 0
          /\ trouble' = trouble - 1
          /\ ec' = [ec EXCEPT !.type = "errno", !.val = "write"]
          /\ loop' = "break"
          /\ pc' = IF pc = "flush" THEN "close" ELSE pc
          /\ out' = [out EXCEPT !.bad = TRUE]
    /\ FrontEndUnchanged
    /\ UNCHANGED <<calls, cmd, errpipe, caught, tty, inp, fn, logged, susp, left>>

ReadyToWriteIn == inp.b.w = "on" /\ (Len(inp.pipe) < PipeSize \/ ~Alive)

(* The command's standard input takes a chunk, or the command is dead and  *)
(* the write fails with EPIPE.                                             *)
write_callback_in ==
    /\ DoingIo /\ ReadyToWriteIn
    /\ inp' = IF Alive
              THEN [inp EXCEPT !.pipe = Append(@, inp.b.buf[inp.b.off + 1]),
                               !.b = write_data(@)]
              ELSE [inp EXCEPT !.b = write_epipe(@)]
    /\ UNCHANGED <<pvars, pc, ec, cmd, errpipe, caught, loop, tty, out, fn,
                   logged, susp, left>>

(***************************************************************************)
(* After the loop.                                                         *)
(***************************************************************************)
(* The loop has ended.  If it was broken the command is terminated, and    *)
(* not waited for.  What is left in the pipes and buffers is flushed.      *)
exec_nopty_end ==
    /\ pc = "loop" /\ loop # "run"
    /\ IF loop = "break"
       THEN terminate_command(caught) /\ ec' = [ec EXCEPT !.pid = FALSE]
       ELSE CmdBecomes(cmd, caught) /\ UNCHANGED ec
    /\ out' = [out EXCEPT !.b = del_io_events(@)]
    /\ inp' = [inp EXCEPT !.b = del_io_events(@)]
    /\ pc' = "flush"
    /\ UNCHANGED <<pvars, loop, tty, fn, logged, susp, left>>

(* The flush does not block: it ends when nothing is ready, which a slow   *)
(* reader of the output may bring about early.                             *)
exec_nopty_flushed ==
    /\ pc = "flush"
    /\ ~ReadyToReadOut /\ ~ReadyToReadIn /\ ~ReadyToWriteIn
    /\ ReadyToWriteOut => conf.slow
    /\ pc' = "close"
    /\ UNCHANGED <<pvars, ec, cmd, errpipe, caught, loop, tty, out, inp, fn,
                   logged, susp, left>>

(***************************************************************************)
(* The child, the command and the user.                                    *)
(***************************************************************************)
CmdOnly == UNCHANGED <<conf, list, plug, calls, pc, ec, loop, fn, logged, susp>>

(* The child executes the command, or writes errno to the pipe and exits.  *)
exec_cmnd ==
    \/ /\ cmd.st = "forked" /\ errpipe = "open"
       /\ \/ /\ cmd' = [cmd EXCEPT !.st = "running", !.ran = TRUE]
             /\ errpipe' = "eof"
             /\ UNCHANGED trouble
          \/ /\ trouble > 0
             /\ trouble' = trouble - 1
             /\ errpipe' = "errno"
             /\ UNCHANGED cmd
       /\ CmdOnly
       /\ UNCHANGED <<caught, tty, out, inp, left>>
    \/ /\ cmd.st = "forked" /\ errpipe # "open"
       /\ CmdBecomes(Dead("exit1"), caught)
       /\ CmdOnly
       /\ UNCHANGED <<trouble, tty, out, inp, left>>

CommandWrites ==
    /\ cmd.st = "running" /\ out.written < conf.nout
    /\ IF out.b.r = "none"
       THEN CmdBecomes(Dead("PIPE"), caught) /\ UNCHANGED out
       ELSE /\ Len(out.pipe) < PipeSize
            /\ out' = [out EXCEPT !.pipe = Append(@, out.written + 1),
                                  !.written = @ + 1]
            /\ UNCHANGED <<cmd, errpipe, caught>>
    /\ CmdOnly
    /\ UNCHANGED <<trouble, tty, inp, left>>

CommandReads ==
    /\ cmd.st = "running" /\ inp.pipe # <<>>
    /\ inp' = [inp EXCEPT !.pipe = Tail(@), !.got = Append(@, Head(inp.pipe))]
    /\ CmdOnly
    /\ UNCHANGED <<trouble, cmd, errpipe, caught, tty, out, left>>

CommandExits ==
    /\ cmd.st = "running"
    /\ CmdBecomes(Dead("exit0"), caught)
    /\ CmdOnly
    /\ UNCHANGED <<trouble, tty, out, inp, left>>

(* ^Z, of which sudo has a copy when it shares the command's group, or a   *)
(* use of the terminal by a command that does not own it.                  *)
CommandStops ==
    /\ cmd.st = "running" /\ left.stops > 0
    /\ left' = [left EXCEPT !.stops = @ - 1]
    /\ \/ CmdBecomes(Stopped("TSTP"),
                     IF conf.ownpgrp THEN caught ELSE caught \cup {<<"TSTP", "kernel">>})
       \/ /\ tty # IF conf.ownpgrp THEN "cmd" ELSE "sudo"
          /\ CmdBecomes(Stopped("TTOU"), caught)
    /\ CmdOnly
    /\ UNCHANGED <<trouble, tty, out, inp>>

Over == pc \in {"done", "fatal", "replaced"}

(* A signal reaches sudo: from the user, from the command, or the alarm of *)
(* the command's timeout.                                                  *)
SignalSudo ==
    /\ ~Over /\ left.sigs > 0
    /\ \E s \in ({"TERM", "TSTP"} \X {"user"})
                 \cup (IF cmd.st = "running" THEN {<<"TERM", "cmd">>} ELSE {})
                 \cup (IF conf.timeout /\ ec.pid THEN {<<"ALRM", "kernel">>} ELSE {}) :
           caught' = caught \cup {s}
    /\ left' = [left EXCEPT !.sigs = @ - 1]
    /\ CmdOnly
    /\ UNCHANGED <<trouble, cmd, errpipe, tty, out, inp>>

(* The user brings a stopped sudo back, in the foreground or not.  Their   *)
(* shell continues sudo's process group.                                   *)
ShellResumes ==
    /\ pc \in {"stopped", "early_stop"}
    /\ tty' \in {"sudo", "shell"}
    /\ IF conf.ownpgrp THEN UNCHANGED cmd ELSE cmd' \in Receive("CONT")
    /\ caught' = caught \cup {<<"CONT", "user">>}
    /\ pc' = IF pc = "stopped" THEN "resumed" ELSE "fork"
    /\ UNCHANGED <<pvars, ec, errpipe, loop, out, inp, fn, logged, susp, left>>

(* A plugin's own event breaks the loop (the log client, when it loses its *)
(* server).                                                                *)
plugin_event_loopbreak ==
    /\ InLoop /\ conf.pbreak /\ trouble > 0
    /\ trouble' = trouble - 1
    /\ loop' = "break"
    /\ FrontEndUnchanged /\ IoUnchanged
    /\ UNCHANGED <<calls, pc, ec, cmd, errpipe, caught, tty, left>>

(***************************************************************************)
(* The whole of sudo's part, and of the others'.                           *)
(***************************************************************************)
exec_nopty ==
    \/ exec_nopty_start
    \/ exec_nopty_fork
    \/ errpipe_cb
    \/ \E s \in caught : signal_cb_nopty(s)
    \/ handle_sigchld_nopty
    \/ suspend_resumed
    \/ read_callback_out
    \/ read_callback_in
    \/ write_callback_out
    \/ write_callback_in
    \/ exec_nopty_end
    \/ exec_nopty_flushed

Environment ==
    \/ CommandWrites
    \/ CommandReads
    \/ CommandExits
    \/ CommandStops
    \/ SignalSudo
    \/ plugin_event_loopbreak
============================================================================
