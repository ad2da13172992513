------------------------------ MODULE FrontEnd ------------------------------
(***************************************************************************)
(* A run of the sudo front end from start to exit: main() of               *)
(* src/src/sudo.c and the functions it calls, around the execution of the  *)
(* command in ExecNopty.                                                   *)
(*                                                                         *)
(* A session is a record: lines (the Plugin lines of sudo.conf), mode,     *)
(* nout and nin (chunks the command may write, and chunks of input; 0 when *)
(* sudo puts no pipe there), ownpgrp (the command has its own process      *)
(* group), timeout, refuse (I/O plugins may refuse data), slow (the reader *)
(* of the output may be slow), pbreak (a plugin's event may break the      *)
(* loop), noclose (plugins without close functions), and the bounds: sigs  *)
(* (signals sent to sudo), stops (times the command stops by itself) and   *)
(* trouble (calls that go wrong).                                          *)
(*                                                                         *)
(* pc goes "audit_open", "policy_open", "mode", then for a command         *)
(* "approval", "iolog_open", "accept", "edit" (sudoedit only), "execute",  *)
(* "fork", "loop" ("wait", "stopped", "resumed"), "flush", "close", "copy" *)
(* (sudoedit only), "done".  "fatal" is an exit by sudo_fatal or usage,    *)
(* "replaced" means that the command runs in sudo's place.                 *)
(***************************************************************************)
EXTENDS ExecNopty

VARIABLE exit       \* "none", "denied", "ok", "fail", or the command's status

allvars == <<vars, exit>>

ExecUnchanged ==
    UNCHANGED <<ec, cmd, errpipe, caught, loop, tty, out, inp, fn, logged,
                susp, left>>

Init ==
    /\ conf \in Confs
    /\ LET r == sudo_load_plugins(conf.lines)
       IN  /\ list = r.ls
           /\ pc = IF r.ok THEN "audit_open" ELSE "fatal"
    /\ plug = [p \in Names |-> "loaded"]
    /\ calls = <<>>
    /\ trouble = conf.trouble
    /\ ec = [pid |-> FALSE, type |-> "invalid", val |-> "none", saved |-> "sudo"]
    /\ cmd = [st |-> "none", stat |-> "none", sig |-> "none", told |-> FALSE,
              ran |-> FALSE]
    /\ errpipe = "open"
    /\ caught = {}
    /\ loop = "run"
    /\ tty = "sudo"
    /\ out = [b |-> NoBuf, pipe |-> <<>>, written |-> 0, shown |-> <<>>, bad |-> FALSE]
    /\ inp = [b |-> NoBuf, pipe |-> <<>>, n |-> 0, got |-> <<>>]
    /\ fn = [p \in Ios |-> {"out", "inp", "suspend"}]
    /\ logged = [p \in Ios |-> [out |-> <<>>, inp |-> <<>>]]
    /\ susp = [p \in Ios |-> "none"]
    /\ left = [sigs |-> conf.sigs, stops |-> conf.stops]
    /\ exit = "none"

(***************************************************************************)
(* Opening.                                                                *)
(***************************************************************************)
(* A plugin that fails to open ends sudo.                                  *)
audit_open ==
    /\ pc = "audit_open"
    /\ \E a \in OpenReplies("audit") :
        LET r == OpenList("audit", a)
        IN  /\ calls' = calls \o r.calls
            /\ plug' = r.plug
            /\ trouble' = trouble - Bad(a)
            /\ pc' = IF r.ok THEN "policy_open" ELSE "fatal"
    /\ ExecUnchanged
    /\ UNCHANGED <<conf, list, exit>>

(* The policy plugin cannot ask to be disabled: anything but 1 is fatal.   *)
policy_open ==
    /\ pc = "policy_open"
    /\ \E a \in OpenReplies("policy") :
        LET ok == Bad(a) = 0
            p == list.policy[1]
        IN  /\ calls' = Append(calls, <<p, "open", 0>>)
            /\ plug' = IF ok THEN [plug EXCEPT ![p] = "open"] ELSE plug
            /\ trouble' = trouble - Bad(a)
            /\ pc' = IF ok THEN "mode" ELSE "fatal"
    /\ ExecUnchanged
    /\ UNCHANGED <<conf, list, exit>>

(***************************************************************************)
(* The modes that run no command.                                          *)
(***************************************************************************)
(* The answer of a policy function as an audit event: [calls, ok].         *)
audit_answer(ok, a) ==
    CASE ok = 1 -> audit_accept("policy", a)
      [] ok = 0 -> [audit_reject("policy", a) EXCEPT !.ok = FALSE]
      [] OTHER  -> [calls |-> audit_error("policy"), ok |-> FALSE]

(* (Slip: the policy plugin is closed before its answer is audited.)       *)
AnswerAndClose_CloseFirst(ok, a) ==
    policy_close("none") \o audit_answer(ok, a).calls \o audit_close("none")

(* The answer is audited, and only then are the plugins closed: its text   *)
(* belongs to the policy plugin.                                           *)
AnswerAndClose(ok, a) ==
    audit_answer(ok, a).calls \o policy_close("none") \o audit_close("none")

Query ==
    /\ \E ok \in -1..1, a \in AuditReplies :
        LET cost == Bad(a) + (IF ok = 1 THEN 0 ELSE 1)
        IN  /\ cost <= trouble
            /\ trouble' = trouble - cost
            /\ calls' = calls \o AnswerAndClose(ok, a)
            /\ exit' = IF ok = 1 THEN "ok" ELSE "fail"
    /\ pc' = "done"
    /\ ExecUnchanged
    /\ UNCHANGED <<conf, list, plug>>

policy_list == pc = "mode" /\ conf.mode = "list" /\ Query

policy_validate == pc = "mode" /\ conf.mode = "validate" /\ Query

(* sudo -k and sudo -K are not audited.                                    *)
policy_invalidate ==
    /\ pc = "mode" /\ conf.mode = "invalidate"
    /\ calls' = calls \o policy_close("none") \o audit_close("none")
    /\ exit' = "ok"
    /\ pc' = "done"
    /\ ExecUnchanged
    /\ UNCHANGED <<conf, list, plug, trouble>>

(* A plugin opened for one call, and closed if it is `opened'.             *)
OpenAndClose(l, opened) ==
    FlattenSeq([i \in DOMAIN l |->
        <<<<l[i], "open", 0>>>> \o (IF l[i] \in opened THEN CloseAll(<<l[i]>>, "none")
                                   ELSE <<>>)])

(* Each I/O plugin whose open function does not fail, even one that asks   *)
(* to be disabled, is closed again.                                        *)
iolog_show_version(a) ==
    OpenAndClose(OnList("io"), {p \in InList("io") : a[p] # -1})

(* An approval plugin that cannot be opened ends sudo.                     *)
approval_show_version(a) ==
    LET called == UpTo(OnList("approval"), a, {-2, -1})
    IN  [calls |-> OpenAndClose(called, {p \in DOMAIN a : a[p] = 1}),
         ok |-> \A i \in DOMAIN called : a[called[i]] >= 0]

(* sudo -V: each plugin shows its version and is closed.                   *)
show_version ==
    /\ pc = "mode" /\ conf.mode = "version"
    /\ \E a \in OpenReplies("io"), b \in OpenReplies("approval") :
        LET r == approval_show_version(b)
        IN  /\ Bad(a) + Bad(b) <= trouble
            /\ trouble' = trouble - Bad(a) - Bad(b)
            /\ calls' = calls \o policy_close("none") \o iolog_show_version(a)
                              \o r.calls
                              \o (IF r.ok THEN audit_close("none") ELSE <<>>)
            /\ pc' = IF r.ok THEN "done" ELSE "fatal"
            /\ exit' = IF r.ok THEN "ok" ELSE exit
    /\ ExecUnchanged
    /\ UNCHANGED <<conf, list, plug>>

(***************************************************************************)
(* Running a command.                                                      *)
(***************************************************************************)
policy_check ==
    /\ pc = "mode" /\ conf.mode \in {"run", "edit"}
    /\ \E ok \in -2..1, a \in AuditReplies :
        LET r == audit_answer(ok, a)
            cost == Bad(a) + (IF ok = 1 THEN 0 ELSE 1)
        IN  /\ cost <= trouble
            /\ trouble' = trouble - cost
            /\ IF ok = -2
               THEN pc' = "fatal" /\ UNCHANGED calls
               ELSE /\ calls' = calls \o r.calls
                    /\ pc' = IF r.ok THEN "approval" ELSE "denied"
    /\ ExecUnchanged
    /\ UNCHANGED <<conf, list, plug, exit>>

(* The approval plugins not yet asked.                                     *)
ToApprove == SelectSeq(OnList("approval"), LAMBDA p : plug[p] = "loaded")

(* What one approval plugin's answer leads to: its audit event, whether    *)
(* the command is approved, and the plugin's close.                        *)
Approval(p, ok, a) ==
    LET ev == CASE ok = 1 -> audit_accept("approval", a)
                [] ok = 0 -> [audit_reject("approval", a) EXCEPT !.ok = FALSE]
                [] OTHER  -> [calls |-> audit_error("approval"), ok |-> FALSE]
    IN  [calls |-> <<<<p, "open", 0>>>> \o ev.calls \o CloseAll(<<p>>, "none"),
         ok |-> ev.ok]

(* One turn of the loop.  A plugin that asks to be disabled is skipped.    *)
approval_check ==
    /\ pc = "approval"
    /\ IF ToApprove = <<>>
       THEN pc' = "iolog_open" /\ UNCHANGED <<calls, plug, trouble>>
       ELSE LET p == Head(ToApprove)
            IN  \E open \in -2..1, ok \in -2..1, a \in AuditReplies :
                LET cost == Bad(a) + Bad(<<open, ok>>)
                IN  /\ cost <= trouble
                    /\ open # 1 => ok = 1 /\ Bad(a) = 0
                    /\ trouble' = trouble - cost
                    /\ CASE open < 0 \/ ok = -2 ->
                              /\ pc' = "fatal"
                              /\ calls' = Append(calls, <<p, "open", 0>>)
                              /\ UNCHANGED plug
                         [] open = 0 ->
                              /\ calls' = Append(calls, <<p, "open", 0>>)
                              /\ plug' = [plug EXCEPT ![p] = "removed"]
                              /\ UNCHANGED pc
                         [] OTHER ->
                              /\ calls' = calls \o Approval(p, ok, a).calls
                              /\ plug' = [plug EXCEPT ![p] = "checked"]
                              /\ pc' = IF Approval(p, ok, a).ok THEN pc ELSE "denied"
    /\ ExecUnchanged
    /\ UNCHANGED <<conf, list, exit>>

(* The I/O plugins; an error is audited and the command denied, with the   *)
(* plugins that did open left open.                                        *)
iolog_open ==
    /\ pc = "iolog_open"
    /\ \E a \in OpenReplies("io") :
        LET r == OpenList("io", a)
            usage == \E i \in DOMAIN r.calls : a[r.calls[i][1]] = -2
        IN  /\ trouble' = trouble - Bad(a)
            /\ plug' = r.plug
            /\ calls' = calls \o r.calls
                              \o (IF r.ok \/ usage THEN <<>> ELSE audit_error("io"))
            /\ pc' = CASE r.ok  -> "accept"
                       [] usage -> "fatal"
                       [] OTHER -> "denied"
    /\ ExecUnchanged
    /\ UNCHANGED <<conf, list, exit>>

(* The front end's own accept event.                                       *)
front_end_accept ==
    /\ pc = "accept"
    /\ \E a \in AuditReplies :
        LET r == audit_accept("sudo", a)
        IN  /\ trouble' = trouble - Bad(a)
            /\ calls' = calls \o r.calls
            /\ pc' = CASE ~r.ok               -> "denied"
                       [] conf.mode = "edit"  -> "edit"
                       [] conf.noclose        -> "direct"
                       [] OTHER               -> "execute"
    /\ ExecUnchanged
    /\ UNCHANGED <<conf, list, plug, exit>>

(* Whatever was refused, the policy plugin and the audit plugins are       *)
(* closed.                                                                 *)
access_denied ==
    /\ pc = "denied"
    /\ calls' = calls \o policy_close("EACCES") \o audit_close("none")
    /\ exit' = "denied"
    /\ pc' = "done"
    /\ ExecUnchanged
    /\ UNCHANGED <<conf, list, plug, trouble>>

(* sudoedit makes its temporary files before it runs the editor, and gives *)
(* up when it cannot.                                                      *)
sudo_edit_create ==
    /\ pc = "edit"
    /\ \/ pc' = "execute" /\ UNCHANGED <<trouble, exit>>
       \/ /\ trouble > 0
          /\ trouble' = trouble - 1
          /\ exit' = "exit1"
          /\ pc' = "done"
    /\ ExecUnchanged
    /\ UNCHANGED <<conf, list, plug, calls>>

(* Without close functions there is nothing to wait for: the command takes *)
(* sudo's place, unless a signal came first or it cannot be executed.      *)
direct_exec ==
    /\ pc = "direct"
    /\ \/ /\ sudo_terminated
          /\ ec' = [ec EXCEPT !.type = "wstatus", !.val = "TERM"]
          /\ pc' = "close"
          /\ UNCHANGED <<trouble, cmd>>
       \/ /\ ~sudo_terminated
          /\ cmd' = [cmd EXCEPT !.st = "running", !.ran = TRUE]
          /\ pc' = "replaced"
          /\ UNCHANGED <<trouble, ec>>
       \/ /\ ~sudo_terminated /\ trouble > 0
          /\ trouble' = trouble - 1
          /\ ec' = [ec EXCEPT !.type = "errno", !.val = "exec"]
          /\ pc' = "close"
          /\ UNCHANGED cmd
    /\ UNCHANGED <<conf, list, plug, calls, errpipe, caught, loop, tty, out, inp,
                   fn, logged, susp, left, exit>>

(* The plugins are closed with the outcome; without one they are not.      *)
run_command_close ==
    /\ pc = "close"
    /\ calls' = IF ec.type = "invalid" THEN calls
                ELSE calls \o iolog_close(ec.val) \o policy_close(ec.val)
                           \o audit_close(ec.val)
    /\ exit' = IF ec.type = "wstatus" THEN ec.val ELSE "exit1"
    /\ pc' = IF conf.mode = "edit" THEN "copy" ELSE "done"
    /\ ExecUnchanged
    /\ UNCHANGED <<conf, list, plug, trouble>>

(* sudoedit copies the files back; an error there is sudo's exit status.   *)
sudo_edit_copy ==
    /\ pc = "copy"
    /\ \/ UNCHANGED <<trouble, exit>>
       \/ /\ trouble > 0
          /\ trouble' = trouble - 1
          /\ exit' = "exit1"
    /\ pc' = "done"
    /\ ExecUnchanged
    /\ UNCHANGED <<conf, list, plug, calls>>

(***************************************************************************)
(* The specification.                                                      *)
(***************************************************************************)
Main ==
    \/ audit_open
    \/ policy_open
    \/ policy_list
    \/ policy_validate
    \/ policy_invalidate
    \/ show_version
    \/ policy_check
    \/ approval_check
    \/ iolog_open
    \/ front_end_accept
    \/ access_denied
    \/ sudo_edit_create
    \/ direct_exec
    \/ run_command_close
    \/ sudo_edit_copy

Sudo == Main \/ (exec_nopty /\ UNCHANGED exit)

Child == exec_cmnd /\ UNCHANGED exit

Resume == ShellResumes /\ UNCHANGED exit

Next == Sudo \/ Child \/ Resume \/ (Environment /\ UNCHANGED exit)

Spec == Init /\ [][Next]_allvars

(* Sudo and its child run, and the user brings a stopped sudo back.  The   *)
(* command need never exit.                                                *)
FairSpec ==
    /\ Spec
    /\ WF_allvars(Sudo)
    /\ WF_allvars(Child)
    /\ WF_allvars(Resume)

(***************************************************************************)
(* Properties.                                                             *)
(***************************************************************************)
Phases == {"audit_open", "policy_open", "mode", "approval", "iolog_open",
           "accept", "edit", "direct", "execute", "fork", "early_stop", "loop",
           "wait", "stopped", "resumed", "flush", "close", "copy", "denied",
           "done", "fatal", "replaced"}

TypeOK ==
    /\ conf \in Confs
    /\ \A t \in DOMAIN list : \A i \in DOMAIN list[t] : PluginType[list[t][i]] = t
    /\ plug \in [Names -> {"loaded", "open", "checked", "removed"}]
    /\ \A i \in DOMAIN calls : calls[i][1] \in Names
    /\ trouble \in 0..conf.trouble
    /\ pc \in Phases
    /\ ec.pid \in BOOLEAN /\ ec.type \in {"invalid", "errno", "wstatus"}
    /\ cmd.st \in {"none", "forked", "running", "stopped", "zombie", "gone"}
    /\ cmd.stat \in Stats \cup {"none"}
    /\ errpipe \in {"open", "errno", "eof", "read"}
    /\ loop \in {"run", "exit", "break"}
    /\ tty \in {"sudo", "cmd", "shell"}
    /\ \A b \in {out.b, inp.b} : Len(b.buf) <= BufSize /\ b.off <= Len(b.buf)
    /\ fn \in [Ios -> SUBSET {"out", "inp", "suspend"}]
    /\ exit \in Stats \cup {"none", "denied", "ok", "fail"}

IndexesOf(p, fns) == {i \in DOMAIN calls : calls[i][1] = p /\ calls[i][2] \in fns}

Events == {"accept", "reject", "error", "failed"}

(* A plugin is not called again once its close function was, the policy    *)
(* plugin is closed after the last audit event, whose text may be its own, *)
(* and the audit plugins are the last to be closed.  This rests on what    *)
(* sudo_load_plugins makes of every sudo.conf of the run: each list holds  *)
(* a plugin once, there is one policy plugin, and when it is               *)
(* sudoers_policy its audit half is loaded too if it exists.               *)
CloseOrder ==
    /\ pc # "fatal" =>
          /\ Len(list.policy) = 1
          /\ \A t \in DOMAIN list : IsInjective(list[t])
          /\ sudoers.policy \in ToSet(list.policy) =>
                (PluginType[sudoers.audit] = "audit" => sudoers.audit \in ToSet(list.audit))
    /\ \A i \in DOMAIN calls : calls[i][2] = "close" =>
          LET later == {calls[j] : j \in (i + 1)..Len(calls)}
              type == PluginType[calls[i][1]]
          IN  /\ \A c \in later : c[1] # calls[i][1]
              /\ type = "policy" => \A c \in later : c[2] \notin Events
              /\ type = "audit" => \A c \in later : PluginType[c[1]] = "audit"

(* A command is started only when every audit plugin has logged the        *)
(* policy's accept, that of each approval plugin asked, and sudo's own;    *)
(* no approval plugin is left unasked and every I/O plugin is open.  When  *)
(* a command is denied, the last event of every audit plugin says so: a    *)
(* plugin that logged an accept is told of the later refusal or failure,   *)
(* whichever plugin it came from.                                          *)
Audited ==
    /\ cmd.st # "none" =>
          /\ \A p \in InList("audit") :
                 \A from \in {"policy", "sudo"} \cup
                              (IF \E q \in Names : plug[q] = "checked"
                               THEN {"approval"} ELSE {}) :
                     \E i \in DOMAIN calls : calls[i] = <<p, "accept", from>>
          /\ ToApprove = <<>>
          /\ \A p \in InList("io") : plug[p] = "open"
    /\ exit = "denied" =>
          \A p \in InList("audit") :
              LET at == IndexesOf(p, Events)
              IN  at # {} /\ calls[Max(at)][2] # "accept"

(* What the plugins and sudo's parent are told is what happened: the       *)
(* command's own status once it is waited for, errno only when the command *)
(* never ran (or its output could not be written), and every open plugin   *)
(* is closed with just that.  The child of a failed execve passes for a    *)
(* command that exits with status 1 only when a signal interrupts poll(2). *)
(* And cmnd_pid is -1 from the moment the command is waited for, so no     *)
(* signal of sudo's goes to a process that has taken over its process ID.  *)
OutcomeTrue ==
    /\ TypeOK
    /\ ec.pid => cmd.st \in {"forked", "running", "stopped", "zombie"}
    /\ pc = "done" /\ ec.type # "invalid" /\ ~conf.noclose =>
          \A p \in InList("io") \cup InList("policy") \cup InList("audit") :
              \E i \in DOMAIN calls : calls[i] = <<p, "close", ec.val>>
    /\ ec.type = "wstatus" =>
          \/ cmd.st = "none"
          \/ cmd.st = "gone" /\ ec.val = cmd.stat /\ (cmd.stat = "exit1" => left.sigs < conf.sigs)
    /\ ec.type = "errno" /\ ec.val = "exec" => ~cmd.ran
    /\ pc = "done" /\ ec.type = "wstatus" /\ conf.mode = "run" => exit = ec.val

Upto(n) == [i \in 1..n |-> i]

(* The user sees the command's output in order, and sees nothing that some *)
(* I/O plugin has not logged, whichever plugin refuses whichever chunk and *)
(* however the buffer fills; the same for what the command reads.  Once    *)
(* the command is waited for, the flush shows all it has written, unless   *)
(* the user's end fails or is slow.                                        *)
LoggedFirst ==
    /\ out.shown = Upto(Len(out.shown)) /\ inp.got = Upto(Len(inp.got))
    /\ \A p \in InList("io") : /\ IsPrefix(out.shown, logged[p].out)
                               /\ IsPrefix(inp.got, logged[p].inp)
    /\ pc = "close" /\ loop = "exit" /\ ~out.bad /\ ~conf.slow =>
          out.shown = Upto(out.written)

(* While sudo is stopped every I/O plugin has been told with which signal, *)
(* and while it runs the last signal a plugin heard of was SIGCONT, if     *)
(* any.  A plugin whose log_suspend fails loses it, and those after it on  *)
(* the list miss that signal: only then may they disagree.                 *)
SuspendTold ==
    (\A p \in InList("io") : "suspend" \in fn[p]) =>
        \A p \in InList("io") :
            /\ pc = "stopped" => susp[p] = cmd.sig
            /\ pc \in {"loop", "wait"} => susp[p] \in {"none", "CONT"}

(* When the command has died sudo exits, unless an I/O plugin may refuse   *)
(* its output.                                                             *)
SessionEnds == (cmd.st = "zombie" /\ ~conf.refuse) ~> pc \in {"done", "replaced"}

(* A command that stops does not leave the user in front of a sudo that    *)
(* goes on waiting for it: sudo stops too, or the command goes on.  A user *)
(* who brings sudo back brings the command back, even when it is in a      *)
(* process group of its own.  And sudo takes the terminal from nobody: it  *)
(* only hands on what it has.                                              *)
JobControl ==
    /\ (cmd.st = "stopped" /\ pc = "loop") ~> (pc = "stopped" \/ cmd.st # "stopped")
    /\ (pc = "resumed") ~> (cmd.st # "stopped" \/ pc = "stopped")
    /\ [][tty' = "cmd" /\ tty # "cmd" => tty = "sudo"]_allvars

(* Stops and continues reach the plugins, the command and the terminal.    *)
StopsPassedOn == []SuspendTold /\ JobControl
=============================================================================
