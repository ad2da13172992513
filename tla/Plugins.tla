------------------------------ MODULE Plugins ------------------------------
(***************************************************************************)
(* The plugins of the sudo front end (src/src/load_plugins.c and the       *)
(* plugin calls of src/src/sudo.c): how sudo.conf is turned into one       *)
(* policy plugin and lists of audit, approval and I/O plugins, how an      *)
(* audit event is passed down the list, and how the lists are closed.      *)
(*                                                                         *)
(* A plugin is known by its symbol name.  What it answers is the           *)
(* environment's choice: 1 is success, 0 "no" (or "disable me" from an     *)
(* open function), -1 an error, -2 a usage error.  At most conf.trouble of *)
(* the answers and system calls of a session go wrong.  Every plugin has   *)
(* every function of the current API, 1.15 or later, close aside.          *)
(***************************************************************************)
EXTENDS Integers, Sequences, FiniteSets, SequencesExt, FiniteSetsExt

CONSTANTS
    PluginType,     \* [symbol name -> "policy", "audit", "approval", "io",
                    \* or "bad": no such object, symbol, version or type]
    Confs           \* the sessions of the run, see FrontEnd

VARIABLES
    conf,           \* the session this is: a member of Confs
    list,           \* the containers: [policy, audit, approval, io -> Seq(name)]
    plug,           \* [name -> "loaded", "open", or "removed" (unlinked)]
    calls,          \* the calls of plugin functions so far, in order: each is
                    \* <<name, function or "failed", argument>>
    trouble         \* calls that may still go wrong

pvars == <<conf, list, plug, calls, trouble>>

Names == DOMAIN PluginType

(* The sudoers plugin's three symbols, the defaults.                       *)
sudoers == [policy |-> "sudoers_policy", audit |-> "sudoers_audit",
            io |-> "sudoers_io"]

(***************************************************************************)
(* Loading.  `ls' is the lists so far and `ok' whether all went well.      *)
(***************************************************************************)
NoLists == [policy |-> <<>>, audit |-> <<>>, approval |-> <<>>, io |-> <<>>]

(* A second line for a symbol that is already loaded is ignored (a plugin  *)
(* with a clone function is not modelled).                                 *)
sudo_insert_plugin(ls, type, name) ==
    [ls EXCEPT ![type] = IF Contains(@, name) THEN @ ELSE Append(@, name)]

(* One plugin line: a second policy plugin is an error unless it is the    *)
(* same one.                                                               *)
sudo_load_plugin(s, name) ==
    LET type == PluginType[name]
        second == type = "policy" /\ s.ls.policy # <<>>
    IN  CASE ~s.ok        -> s
          [] type = "bad" -> [s EXCEPT !.ok = FALSE]
          [] second       -> [s EXCEPT !.ok = Contains(s.ls.policy, name)]
          [] OTHER        -> [s EXCEPT !.ls = sudo_insert_plugin(@, type, name)]

(* An optional symbol that is not there is not an error.                   *)
sudo_load_sudoers_plugin(s, name, optional) ==
    LET r == sudo_load_plugin(s, name)
    IN  IF optional /\ ~r.ok THEN s ELSE r

(* The lines of sudo.conf in order, then the defaults.                     *)
sudo_load_plugins(lines) ==
    LET s == FoldLeft(sudo_load_plugin, [ls |-> NoLists, ok |-> TRUE], lines)
        audited(t) == sudo_load_sudoers_plugin(t, sudoers.audit, TRUE)
        policy == sudo_load_sudoers_plugin(s, sudoers.policy, FALSE)
    IN  CASE ~s.ok -> s
          [] s.ls.policy = <<>> /\ ~policy.ok -> policy
          [] s.ls.policy = <<>> /\ s.ls.io = <<>> ->
                 sudo_load_sudoers_plugin(audited(policy), sudoers.io, FALSE)
          [] s.ls.policy = <<>> /\ s.ls.io # <<>> -> audited(policy)
          [] s.ls.policy = <<sudoers.policy>> -> audited(s)
          [] OTHER -> s

(***************************************************************************)
(* The environment's answers to a set of calls, and what they cost.        *)
(***************************************************************************)
Bad(a) == Cardinality({p \in DOMAIN a : a[p] # 1})

Replies(S, values) == {a \in [S -> values] : Bad(a) <= trouble}

(* The plugins of a list that are still on it (unlink_plugin frees one).   *)
OnList(type) == SelectSeq(list[type], LAMBDA p : plug[p] # "removed")

InList(type) == ToSet(OnList(type))

(* What a loop over a list calls: its plugins up to and including the      *)
(* first whose answer is in `stop'.                                        *)
UpTo(l, a, stop) ==
    LET at == {i \in DOMAIN l : a[l[i]] \in stop}
    IN  IF at = {} THEN l ELSE SubSeq(l, 1, Min(at))

(* One call of a function of each plugin of a list, in order.              *)
CallAll(l, fn, arg) == [i \in DOMAIN l |-> <<l[i], fn, arg>>]

(***************************************************************************)
(* Audit events.  The argument `from' is the kind of plugin the event is   *)
(* about, or "sudo" for the front end.                                     *)
(***************************************************************************)
(* (Slip: the audit plugin the error comes from stops the loop.)           *)
audit_error2_StopsAtSource(source, from) ==
    LET l == OnList("audit")
        at == {i \in DOMAIN l : l[i] = source}
    IN  CallAll(IF at = {} THEN l ELSE SubSeq(l, 1, Min(at) - 1), "error", from)

(* An error is told to every audit plugin but the one it comes from.  What *)
(* they answer is only logged.                                             *)
audit_error2(source, from) ==
    CallAll(SelectSeq(OnList("audit"), LAMBDA p : p # source), "error", from)

audit_error(from) == audit_error2("none", from)

(* An event goes down the list to the first plugin that fails to take it,  *)
(* and that failure is told to the others: [calls, ok].                    *)
Tell(what, from, a) ==
    LET called == UpTo(OnList("audit"), a, {-1})
        ok == \A i \in DOMAIN called : a[called[i]] = 1
    IN  IF ok THEN [calls |-> CallAll(called, what, from), ok |-> TRUE]
        ELSE [calls |-> CallAll(Front(called), what, from)
                        \o <<<<Last(called), "failed", from>>>>
                        \o audit_error2(Last(called), "audit"),
              ok |-> FALSE]

audit_accept(from, a) == Tell("accept", from, a)

audit_reject(from, a) == Tell("reject", from, a)

(* The answers the audit plugins can give to one event.                    *)
AuditReplies == Replies(InList("audit"), {-1, 1})

(***************************************************************************)
(* Opening and closing.                                                    *)
(***************************************************************************)
(* An open loop stops at an error, and an answer of 0 unlinks the plugin:  *)
(* the calls made, the states that result and whether all went well.       *)
OpenList(type, a) ==
    LET called == UpTo(OnList(type), a, {-2, -1})
        ans(p) == IF p \in ToSet(called) THEN a[p] ELSE -1
    IN  [calls |-> CallAll(called, "open", 0),
         plug |-> [p \in Names |-> CASE ans(p) = 1 -> "open"
                                     [] ans(p) = 0 -> "removed"
                                     [] OTHER      -> plug[p]],
         ok |-> \A i \in DOMAIN called : a[called[i]] >= 0]

OpenReplies(type) == Replies(InList(type), -2..1)

(* conf.noclose: no plugin has a close function.                           *)
CloseAll(l, arg) == IF conf.noclose THEN <<>> ELSE CallAll(l, "close", arg)

iolog_close(arg) == CloseAll(OnList("io"), arg)

policy_close(arg) == CloseAll(OnList("policy"), arg)

audit_close(arg) == CloseAll(OnList("audit"), arg)
============================================================================
