---------------------------- MODULE SudoersPolicy ----------------------------
(***************************************************************************)
(* The sudoers policy: what the plugin does when the front end asks it to  *)
(* check a command, list privileges or validate the user.                  *)
(* plugins/sudoers/sudoers.c, policy.c, lookup.c, defaults.c, check.c,     *)
(* resolve_cmnd.c, find_path.c, sudo_nss.c and display.c.                  *)
(*                                                                         *)
(* The sources (sudo_nss) of c are names; Tree[s] is the record t of s:    *)
(*   userspecs  a sequence of [users, privs], a privilege being            *)
(*              [hosts, defaults, cmnds] and a cmndspec                    *)
(*              [runasusers, runasgroups, cmnd, notbefore, notafter, tags] *)
(*   defaults   a sequence of Defaults [type, binding, var, val]           *)
(*   *_aliases  the aliases                                                *)
(*   opens      who may open it: "sudoers", "root" or "none"; parses, query*)
(*   ret_if_found, ret_if_notfound   [SUCCESS=return], [NOTFOUND=return]   *)
(*                                                                         *)
(* c is the sudoers_context and the module's static variables.  Besides    *)
(* the fields SudoersMatch reads it has host, path (of the user), tty,     *)
(* now, ticket and password (how the time stamp and the user will answer), *)
(* wants (the options -C, -T and VAR=value that were given), list_pw,      *)
(* mode, sources, need_reinit, early, asked (the user was prompted) and    *)
(* ret, what the call returned: "true", "false", "error" (-1) or "usage".  *)
(***************************************************************************)
EXTENDS SudoersMatch, SequencesExt

CONSTANTS
    SudoersOwner,  \* [uid, gid, group_readable] of the sudoers file
    Editor,        \* the path find_editor() finds
    Tree           \* source -> its parse tree and options

FOUND == "FOUND"
NOT_FOUND == "NOT_FOUND"
NOT_FOUND_DOT == "NOT_FOUND_DOT"
NOT_FOUND_ERROR == "NOT_FOUND_ERROR"

Ret(c, ret) == [c EXCEPT !.ret = ret]

-----------------------------------------------------------------------------
(* set_perms and restore_perms on the plugin's context. *)

PermContext(c) ==
    LET u == Passwd[c.user]
        r == Passwd[c.runas_pw]
    IN [user |-> [uid |-> u.uid, gid |-> u.gid,
                  list |-> [of |-> "user", gids |-> u.groups]],
        runas |-> [uid |-> r.uid,
                   gid |-> IF c.runas_gr = "" THEN r.gid ELSE Groups[c.runas_gr],
                   list |-> [of |-> c.runas_pw, gids |-> r.groups]],
        preserve_groups |-> c.defs.preserve_groups,
        sudoers |-> SudoersOwner,
        ts_uid |-> c.ts_uid]

SetPerms(c, perm) == [c EXCEPT !.perm = set_perms(@, perm, PermContext(c))]
RestorePerms(c) == [c EXCEPT !.perm = restore_perms(@)]

-----------------------------------------------------------------------------
(* Defaults. *)

init_defaults ==
    [authenticate |-> TRUE, runas_default |-> "root", preserve_groups |-> FALSE,
     fdexec |-> "digest_only", fast_glob |-> FALSE, secure_path |-> <<>>,
     ignore_dot |-> FALSE, exempt_group |-> "", root_sudo |-> TRUE,
     requiretty |-> FALSE, setenv |-> FALSE, verifypw |-> "all",
     listpw |-> "any", noninteractive_auth |-> FALSE, intercept |-> FALSE,
     intercept_authenticate |-> FALSE, intercept_allow_setid |-> FALSE,
     closefrom_override |-> FALSE, user_command_timeouts |-> FALSE,
     shell_noargs |-> FALSE, log_subcmds |-> FALSE,
     runas_check_shell |-> FALSE, admin_flag |-> FALSE]

EarlyDefaults == {"runas_default"}
LateDefaults == DOMAIN init_defaults \ EarlyDefaults

SETDEF_INIT == {"GENERIC", "HOST", "USER", "RUNAS"}

set_runaspw(c, name) == IF name \in DOMAIN Passwd THEN [c EXCEPT !.runas_pw = name] ELSE c

\* Only when neither -u nor -g was given.
cb_runas_default(c) ==
    IF c.runas_user = "" /\ c.runas_group = ""
    THEN set_runaspw(c, c.defs.runas_default) ELSE c

set_default(c, d) ==
    LET set == [c EXCEPT !.defs[d.var] = d.val]
    IN IF d.var = "runas_default" THEN cb_runas_default(set) ELSE set

set_early_default(c, d) == [c EXCEPT !.defs[d.var] = d.val, !.early = TRUE]
run_early_defaults(c) ==
    IF c.early THEN [cb_runas_default(c) EXCEPT !.early = FALSE] ELSE c

default_type_matches(d, what) == d.type \in what

\* A command binding changes the context as any match of a command does.
default_binding_matches(c, t, d) ==
    LET Is(m) == [m |-> m, c |-> c]
    IN CASE d.type = "GENERIC" -> Is(ALLOW)
         [] d.type = "USER" -> Is(userlist_matches(t, c.user, d.binding))
         [] d.type = "RUNAS" -> Is(runaslist_matches(t, c, d.binding, <<>>))
         [] d.type = "HOST" -> Is(hostlist_matches(t, c.host, d.binding))
         [] d.type = "CMND" -> cmndlist_matches(t, c, d.binding)

\* The entry d, when its binding matched.
Applied(tried, d, vars) ==
    IF tried.m # ALLOW THEN tried.c
    ELSE IF vars = EarlyDefaults THEN set_early_default(tried.c, d)
    ELSE set_default(tried.c, d)

RECURSIVE ApplyDefaults(_, _, _, _, _)

\* One pass over a list of Defaults, for the variables in vars.
ApplyDefaults(c, t, defs, what, vars) ==
    LET d == defs[1]
    IN IF defs = <<>> THEN c
       ELSE IF d.var \notin vars \/ ~default_type_matches(d, what)
       THEN ApplyDefaults(c, t, Tail(defs), what, vars)
       ELSE ApplyDefaults(Applied(default_binding_matches(c, t, d), d, vars),
                          t, Tail(defs), what, vars)

\* The global Defaults of a source: the early ones first, their callbacks
\* when all have been set, then the others.
update_defaults(c, t, what) ==
    ApplyDefaults(run_early_defaults(ApplyDefaults(c, t, t.defaults, what, EarlyDefaults)),
                  t, t.defaults, what, LateDefaults)

RECURSIVE EachSource(_, _, _)

\* update_defaults for each source in turn.
EachSource(c, sources, what) ==
    IF sources = <<>> THEN c
    ELSE EachSource(update_defaults(c, Tree[sources[1]], what), Tail(sources), what)

\* sudoers_reinit_defaults: the admin flag is not looked at twice.
sudoers_reinit_defaults(c) ==
    LET Again(r) == [r EXCEPT !.defs.admin_flag = @ /\ "POLICY_INTERCEPTED" \notin c.mode]
    IN Again(EachSource([c EXCEPT !.defs = init_defaults], c.sources, SETDEF_INIT))

-----------------------------------------------------------------------------
(* Opening the plugin: sudoers_init. *)

Opened(c, opened) == [c |-> c, opened |-> opened /\ c.perm.ok]
ThenRoot(c) == IF c.perm.ok THEN SetPerms(c, "PERM_ROOT") ELSE c
OpenAsRoot(c) == Opened(RestorePerms(c), c.perm.ok)
OpenAs(c, t) ==
    IF ~c.perm.ok THEN Opened(c, FALSE)
    ELSE IF t.opens = "root" /\ c.perm.e # ROOT_UID
    THEN OpenAsRoot(ThenRoot(RestorePerms(c)))
    ELSE Opened(RestorePerms(c), t.opens # "none")

\* open_file: as the owner of sudoers, and again as root if that may not.
open_file(c, t) == OpenAs(SetPerms(c, "PERM_SUDOERS"), t)

\* A source that cannot be opened or parsed is dropped; the others give
\* their Defaults at once.
Taken(o, source) ==
    IF o.opened /\ Tree[source].parses
    THEN update_defaults([o.c EXCEPT !.sources = Append(@, source)], Tree[source], SETDEF_INIT)
    ELSE o.c

RECURSIVE OpenSources(_, _)

OpenSources(c, todo) ==
    IF todo = <<>> THEN c
    ELSE OpenSources(Taken(open_file(c, Tree[todo[1]]), todo[1]), Tail(todo))

\* init_vars: a group without a user means the invoking user.
init_vars(c) ==
    LET name == IF c.runas_user # "" THEN c.runas_user
                ELSE IF c.runas_group # "" THEN c.user ELSE c.defs.runas_default
        known == (c.runas_group = "" \/ c.runas_group \in DOMAIN Groups)
                 /\ name \in DOMAIN Passwd
        Fill(i) == IF ~i.perm.ok \/ ~known THEN Ret(i, "error")
                   ELSE Ret([i EXCEPT !.runas_gr = c.runas_group, !.runas_pw = name], "true")
    IN Fill(SetPerms(c, "PERM_INITIAL"))

InitDone(c) == Ret(c, IF c.sources # <<>> /\ c.perm.ok THEN "true" ELSE "error")
InitAsRoot(c, sources) ==
    IF c.perm.ok THEN InitDone(RestorePerms(OpenSources(c, sources))) ELSE Ret(c, "error")
InitSources(c, sources) ==
    IF c.ret = "true" THEN InitAsRoot(SetPerms(c, "PERM_ROOT"), sources) ELSE c
sudoers_init(c, sources) == InitSources(init_vars([c EXCEPT !.defs = init_defaults]), sources)

-----------------------------------------------------------------------------
(* Finding the command. *)

user_is_exempt(c) == c.defs.exempt_group # "" /\ user_in_group(c.user, c.defs.exempt_group)

\* find_path: a name with a slash is taken as it is; otherwise the first
\* directory of the path that has it, "." being tried last.
find_path(c, infile, path) ==
    LET there == {i \in DOMAIN path : path[i] # "." /\ Stat(c, <<path[i], infile[2]>>) # NoFile}
        dot == <<".", infile[2]>>
        inDot == Stat(c, dot) # NoFile /\ \E i \in DOMAIN path : path[i] = "."
        Is(st, out, at) == [st |-> st, out |-> out, stat |-> Stat(c, at)]
        first == <<path[Min(there)], infile[2]>>
    IN CASE HasSlash(infile) /\ Stat(c, infile) # NoFile -> Is(FOUND, infile, infile)
         [] ~HasSlash(infile) /\ there # {} -> Is(FOUND, first, first)
         [] ~HasSlash(infile) /\ there = {} /\ inDot /\ c.defs.ignore_dot ->
                Is(NOT_FOUND_DOT, NoPath, dot)
         [] ~HasSlash(infile) /\ there = {} /\ inDot /\ ~c.defs.ignore_dot ->
                Is(FOUND, dot, dot)
         [] OTHER -> [st |-> NOT_FOUND, out |-> NoPath, stat |-> c.cmnd_stat]

Found(c, f) == [c |-> RestorePerms([c EXCEPT !.cmnd_stat = f.stat]), st |-> f.st, out |-> f.out]
Search(c, infile, path) == Found(c, find_path(c, infile, path))
SearchAsUser(c, first, infile, path) ==
    IF c.perm.ok THEN Search(c, infile, path) ELSE [first EXCEPT !.c = c]
SearchAgain(first, infile, path) ==
    IF ~first.c.perm.ok \/ first.st # NOT_FOUND THEN first
    ELSE SearchAsUser(SetPerms(first.c, "PERM_USER"), first, infile, path)
SearchAsRunas(c, infile, path) ==
    IF c.perm.ok THEN SearchAgain(Search(c, infile, path), infile, path)
    ELSE [c |-> c, st |-> NOT_FOUND_ERROR, out |-> NoPath]

\* resolve_cmnd: as the runas user, and then as the invoking user.
resolve_cmnd(c, infile, path) == SearchAsRunas(SetPerms(c, "PERM_RUNAS"), infile, path)

\* set_cmnd_path: for "sudo -l command" the path goes to cmnd_list.
set_cmnd_path(c) ==
    LET path == IF c.defs.secure_path # <<>> /\ ~user_is_exempt(c)
                THEN c.defs.secure_path ELSE c.path
        check == "CHECK" \in c.mode
        Filled(r) ==
            [st |-> r.st,
             c |-> [r.c EXCEPT
                       !.cmnd_list = IF check THEN r.out ELSE NoPath,
                       !.cmnd = IF check THEN NoPath ELSE r.out,
                       !.cmnd_dir = IF r.st = FOUND THEN Canon[r.out[1]] ELSE ""]]
    IN Filled(resolve_cmnd(c, c.argv0, path))

\* The steps of set_cmnd.  "sudo sudoedit" is turned into sudoedit here.
CommandName(c) ==
    IF c.mode \cap {"RUN", "EDIT"} # {} THEN c.argv0
    ELSE IF c.mode \cap {"LIST", "CHECK"} # {} THEN <<"", "list">> ELSE <<"", "validate">>
Named(c) == [c EXCEPT !.cmnd = IF @ = NoPath THEN CommandName(c) ELSE @,
                      !.args = IF c.mode \cap {"RUN", "EDIT", "CHECK"} # {}
                               THEN c.argv_args ELSE @]
TurnedToEdit(c) ==
    IF "RUN" \notin c.mode \/ c.cmnd[2] # "sudoedit" THEN c
    ELSE [c EXCEPT !.mode = (@ \ {"RUN"}) \cup {"EDIT"}, !.cmnd = <<"", "sudoedit">>]
WithCmndDefaults(p) ==
    IF p.st = NOT_FOUND_ERROR THEN p
    ELSE [c |-> EachSource(TurnedToEdit(Named(p.c)), p.c.sources, {"CMND"}), st |-> p.st]

(* (Slip: the path that the last command was run by is kept.) *)
set_cmnd_KeepPath(c) ==
    WithCmndDefaults(IF c.mode \cap {"RUN", "CHECK"} # {} /\ "EDIT" \notin c.mode
                     THEN set_cmnd_path([c EXCEPT !.cmnd_stat = NoFile])
                     ELSE [c |-> [c EXCEPT !.cmnd_stat = NoFile], st |-> FOUND])

\* Where the command is, its arguments, and the Defaults bound to it.
set_cmnd(c) ==
    LET fresh == [c EXCEPT !.cmnd_stat = NoFile, !.runas_cmnd = NoPath]
    IN WithCmndDefaults(IF c.mode \cap {"RUN", "CHECK"} # {} /\ "EDIT" \notin c.mode
                        THEN set_cmnd_path(fresh) ELSE [c |-> fresh, st |-> FOUND])

-----------------------------------------------------------------------------
(* Looking the request up. *)

\* The cmndspecs of a tree in the order of the file, each with its place:
\* a privilege lists its commands and a userspec its privileges.
Rules(t) ==
    LET OfPriv(us, priv) == [i \in DOMAIN priv.cmnds |->
                                [us |-> us, priv |-> priv, cs |-> priv.cmnds[i]]]
        OfUser(us) == FoldLeft(LAMBDA acc, priv : acc \o OfPriv(us, priv), <<>>, us.privs)
    IN FoldLeft(LAMBDA acc, us : acc \o OfUser(us), <<>>, t.userspecs)

\* notafter is looked at last and overwrites what notbefore said.
date_match(now, cs) ==
    IF cs.notafter # 0 THEN IF now > cs.notafter THEN DENY ELSE ALLOW
    ELSE IF cs.notbefore # 0 THEN IF now < cs.notbefore THEN DENY ELSE ALLOW
    ELSE UNSPEC

NoRule == [us |-> <<>>]

RuleApplies(c, t, r) ==
    /\ userlist_matches(t, c.user, r.us.users) = ALLOW
    /\ hostlist_matches(t, c.host, r.priv.hosts) = ALLOW
    /\ date_match(c.now, r.cs) # DENY
    /\ runaslist_matches(t, c, r.cs.runasusers, r.cs.runasgroups) = ALLOW

RECURSIVE LookupFrom(_, _, _, _)

LookupNext(tried, t, rules, n) ==
    IF SPECIFIED(tried.m) THEN [m |-> tried.m, c |-> tried.c, rule |-> rules[n]]
    ELSE LookupFrom(tried.c, t, rules, n - 1)

\* From the last rule to the first, until one says something of the command.
LookupFrom(c, t, rules, n) ==
    IF n = 0 THEN [m |-> UNSPEC, c |-> c, rule |-> NoRule]
    ELSE IF RuleApplies(c, t, rules[n])
    THEN LookupNext(cmnd_matches(t, c, rules[n].cs.cmnd), t, rules, n)
    ELSE LookupFrom(c, t, rules, n - 1)

sudoers_lookup_check(c, t) == LookupFrom(c, t, Rules(t), Len(Rules(t)))

sudo_nss_can_continue(t, m) ==
    IF SPECIFIED(m) THEN ~t.ret_if_found ELSE ~t.ret_if_notfound

RECURSIVE LookupSources(_, _, _)

BestOf(r, t, best) == IF SPECIFIED(r.m) THEN [m |-> r.m, rule |-> r.rule, t |-> t] ELSE best
LookupOn(r, t, rest, best) ==
    IF sudo_nss_can_continue(t, r.m) THEN LookupSources(r.c, rest, BestOf(r, t, best))
    ELSE [c |-> r.c, best |-> BestOf(r, t, best), ok |-> TRUE]

\* Each source in turn; best is the last answer so far, with its source.
LookupSources(c, todo, best) ==
    IF todo = <<>> THEN [c |-> c, best |-> best, ok |-> TRUE]
    ELSE IF ~Tree[todo[1]].query THEN [c |-> c, best |-> best, ok |-> FALSE]
    ELSE LookupOn(sudoers_lookup_check(c, Tree[todo[1]]), Tree[todo[1]], Tail(todo), best)

\* The tags that a rule sets; UNSPEC leaves the default alone.
apply_cmndspec(c, cs) ==
    LET Tag(tag, value, old) == IF tag = UNSPEC THEN old ELSE value = tag
    IN [c EXCEPT !.defs.authenticate = Tag(cs.tags.nopasswd, "false", @),
                 !.defs.intercept = Tag(cs.tags.intercept, "true", @),
                 !.defs.setenv = Tag(cs.tags.setenv, "true", @)]

\* The rule's own Defaults and tags are applied whatever the rule says.
RuleApplied(l) ==
    IF ~SPECIFIED(l.best.m) THEN l.c
    ELSE apply_cmndspec(ApplyDefaults(l.c, l.best.t, l.best.rule.priv.defaults,
                                      {"GENERIC"}, DOMAIN init_defaults),
                        l.best.rule.cs)
Verdict(l, c) ==
    [c |-> c,
     validated |-> (IF l.ok /\ c.perm.ok THEN {} ELSE {"ERROR"})
                   \cup (CASE l.best.m = ALLOW -> {"SUCCESS"}
                           [] l.best.m = DENY -> {"FAILURE"}
                           [] OTHER -> {})]
LookupDone(l) == Verdict(l, RestorePerms(RuleApplied(l)))
LookupAsRunas(c) ==
    IF c.perm.ok THEN LookupDone(LookupSources(c, c.sources, [m |-> UNSPEC]))
    ELSE [c |-> c, validated |-> {}]
sudoers_lookup(c) == LookupAsRunas(SetPerms(c, "PERM_RUNAS"))

-----------------------------------------------------------------------------
(* The pseudo-commands: listing and validating. *)

runas_matches_pw(t, c, cs, name) ==
    IF cs.runasusers # <<>> THEN userlist_matches(t, name, cs.runasusers)
    ELSE IF cs.runasgroups = <<>> /\ c.defs.runas_default = name THEN ALLOW ELSE UNSPEC

\* Does the rule let the user list?  Their own privileges always; those of
\* another user when they may run "list" as that user, or ALL as root.
PseudoMatch(c, t, r) ==
    LET own == c.list_pw = "" \/ Passwd[c.user].uid \in {0, Passwd[c.list_pw].uid}
        asOther == runas_matches_pw(t, c, r.cs, c.list_pw)
        Silent == [m |-> UNSPEC, c |-> c]
    IN IF own THEN [m |-> ALLOW, c |-> c]
       ELSE IF date_match(c.now, r.cs) = DENY \/ asOther = DENY THEN Silent
       ELSE IF asOther = ALLOW THEN cmnd_matches(t, c, r.cs.cmnd)
       ELSE IF runas_matches_pw(t, c, r.cs, "root") = ALLOW
       THEN cmnd_matches_all(t, c, r.cs.cmnd) ELSE Silent

\* The privilege's first "authenticate" among its own Defaults.
PrivNopass(priv) ==
    LET said == {i \in DOMAIN priv.defaults : priv.defaults[i].var = "authenticate"}
    IN said # {} /\ ~priv.defaults[Min(said)].val

\* The last answer, and whether a password can be dispensed with.
Noted(m, r, pwcheck, acc) ==
    LET free == r.cs.tags.nopasswd = "true" \/ PrivNopass(r.priv)
    IN [m |-> IF SPECIFIED(m) THEN m ELSE acc.m,
        nopass |-> CASE pwcheck = "any" -> acc.nopass \/ free
                     [] pwcheck = "all" -> acc.nopass /\ free
                     [] OTHER -> acc.nopass]

RECURSIVE PseudoFrom(_, _, _, _, _)

PseudoNext(p, t, rules, pwcheck, acc) ==
    PseudoFrom(p.c, t, Tail(rules), pwcheck, Noted(p.m, rules[1], pwcheck, acc))

\* From the first rule to the last.
PseudoFrom(c, t, rules, pwcheck, acc) ==
    LET r == rules[1]
    IN IF rules = <<>> THEN [c |-> c, acc |-> acc]
       ELSE IF /\ userlist_matches(t, c.user, r.us.users) = ALLOW
               /\ hostlist_matches(t, c.host, r.priv.hosts) = ALLOW
       THEN PseudoNext(PseudoMatch(c, t, r), t, rules, pwcheck, acc)
       ELSE PseudoFrom(c, t, Tail(rules), pwcheck, acc)

RECURSIVE PseudoSources(_, _, _, _)

PseudoOn(r, t, rest, pwcheck) ==
    IF sudo_nss_can_continue(t, r.acc.m) THEN PseudoSources(r.c, rest, pwcheck, r.acc)
    ELSE [c |-> r.c, acc |-> r.acc, ok |-> TRUE]

PseudoSources(c, todo, pwcheck, acc) ==
    LET t == Tree[todo[1]]
    IN IF todo = <<>> THEN [c |-> c, acc |-> acc, ok |-> TRUE]
       ELSE IF ~t.query THEN [c |-> c, acc |-> acc, ok |-> FALSE]
       ELSE PseudoOn(PseudoFrom(c, t, Rules(t), pwcheck, acc), t, Tail(todo), pwcheck)

sudoers_lookup_pseudo(c, pwflag) ==
    LET pwcheck == c.defs[pwflag]
        always == pwcheck = "always" /\ c.defs.authenticate
        Validated(l) ==
            [c |-> [l.c EXCEPT !.defs.authenticate = @ /\ (l.acc.nopass => always)],
             validated |-> (IF l.ok THEN {} ELSE {"ERROR"})
                           \cup (IF l.acc.m = ALLOW \/ Passwd[c.user].uid = 0
                                 THEN {"SUCCESS"} ELSE {"FAILURE"})
                           \cup (IF always THEN {"CHECK_USER"} ELSE {})]
    IN Validated(PseudoSources(c, c.sources, pwcheck,
                               [m |-> UNSPEC, nopass |-> pwcheck \in {"never", "all"}]))

-----------------------------------------------------------------------------
(* Authentication: check_user. *)

\* timestamp_open changes the user id when the time stamps are not root's.
timestamp_open(c) ==
    LET Back(b) == [c |-> b, opened |-> b.perm.ok]
        Open(s) == IF s.perm.ok THEN Back(RestorePerms(s)) ELSE [c |-> s, opened |-> TRUE]
    IN IF c.ts_uid = 0 THEN [c |-> c, opened |-> TRUE]
       ELSE Open(SetPerms(c, "PERM_TIMESTAMP"))

\* verify_user: the user is prompted and answers.
verify_user(c) ==
    [c |-> [c EXCEPT !.asked = TRUE],
     auth |-> IF c.password = "good" THEN "SUCCESS" ELSE "FAILURE"]

\* The user runs something as themselves, in a group of theirs.
RunAsSelf(c) ==
    /\ Passwd[c.user].uid = Passwd[c.runas_pw].uid
    /\ c.runas_gr = "" \/ user_in_group(c.user, c.runas_gr)

\* A ticket is renewed when the request was allowed and authenticated.
Renewed(v, validated, status) ==
    IF /\ v.auth = "SUCCESS" /\ "SUCCESS" \in validated
       /\ "UPDATE_TICKET" \in v.c.mode /\ status # "error"
    THEN [v EXCEPT !.c.ticket = "current"] ELSE v
CheckTicket(c, validated, status) ==
    LET prompt == status # "current" \/ "CHECK_USER" \in validated
    IN IF \/ status = "fatal"
          \/ prompt /\ "NONINTERACTIVE" \in c.mode /\ ~c.defs.noninteractive_auth
       THEN [c |-> c, auth |-> "ERROR"]
       ELSE Renewed(IF prompt THEN verify_user(c) ELSE [c |-> c, auth |-> "SUCCESS"],
                    validated, status)
TicketOpened(o, validated) ==
    CheckTicket(o.c, validated, IF o.opened THEN o.c.ticket ELSE "error")
check_user(c, validated) ==
    IF \/ "POLICY_INTERCEPTED" \in c.mode /\ ~c.defs.intercept_authenticate
       \/ ~c.defs.authenticate \/ user_is_exempt(c)
       \/ Passwd[c.user].uid = 0 \/ RunAsSelf(c)
    THEN [c |-> c, auth |-> "SUCCESS"]
    ELSE IF "IGNORE_TICKET" \in c.mode THEN CheckTicket(c, validated, "error")
    ELSE TicketOpened(timestamp_open(c), validated)

user_shell_valid(c) == c.defs.runas_check_shell => Passwd[c.runas_pw].shell

\* The flag file of an administrator is made as the user.
create_admin_success_flag(c) ==
    LET Back(b) == [c |-> b, ok |-> b.perm.ok]
    IN IF ~c.defs.admin_flag \/ ~user_in_group(c.user, "admin")
       THEN [c |-> c, ok |-> TRUE]
       ELSE LET AsUser(s) == IF s.perm.ok THEN Back(RestorePerms(s)) ELSE Back(s)
            IN AsUser(SetPerms(c, "PERM_USER"))

-----------------------------------------------------------------------------
(* sudoers_check_common, a stage for each call that changes the context: st *)
(* is what set_cmnd found and validated what the lookup said.              *)

\* After create_admin_success_flag: the command, the timeout and the
\* variables that the user asked for.
CheckOptions(f, st) ==
    LET env == "PRESERVE_ENV" \in f.c.mode \/ "badenv" \in f.c.wants
    IN IF ~f.ok THEN Ret(f.c, "error")
       ELSE IF \/ st \in {NOT_FOUND, NOT_FOUND_DOT}
               \/ "timeout" \in f.c.wants /\ ~f.c.defs.user_command_timeouts
               \/ "RUN" \in f.c.mode /\ ~f.c.defs.setenv /\ env
       THEN Ret(f.c, "false") ELSE Ret(f.c, "true")

\* After check_user: the verdict, and the set-id files under intercept.
CheckVerdict(a, st, validated) ==
    LET intercepted == a.c.defs.intercept \/ "POLICY_INTERCEPTED" \in a.c.mode
    IN IF a.auth = "ERROR" THEN Ret(a.c, "error")
       ELSE IF \/ a.auth = "FAILURE" \/ "SUCCESS" \notin validated
               \/ /\ intercepted /\ ~a.c.defs.intercept_allow_setid
                  /\ a.c.cmnd_stat \in SetId
       THEN Ret(a.c, "false")
       ELSE CheckOptions(create_admin_success_flag(a.c), st)

\* After the lookup: shell, terminal and the target user's shell.
CheckCaller(c, st, validated) ==
    IF "ERROR" \in validated THEN Ret(c, "error")
    ELSE IF "IMPLIED_SHELL" \in c.mode /\ ~c.defs.shell_noargs THEN Ret(c, "usage")
    ELSE IF \/ c.defs.requiretty /\ ~c.tty
            \/ c.mode \cap {"RUN", "CHECK"} # {} /\ ~user_shell_valid(c)
    THEN Ret(c, "false")
    ELSE CheckVerdict(check_user(c, validated), st, validated)

\* The command to run is the one typed unless a rule named another path.
CheckLookup(l, st) ==
    CheckCaller([l.c EXCEPT !.runas_cmnd = IF @ = NoPath THEN l.c.cmnd ELSE @],
                st, l.validated)

\* After set_cmnd: root and closefrom, and then the lookup.
CheckFound(s, pwflag) ==
    IF s.st = NOT_FOUND_ERROR THEN Ret(s.c, "error")
    ELSE IF \/ Passwd[s.c.user].uid = 0 /\ ~s.c.defs.root_sudo
            \/ "closefrom" \in s.c.wants /\ ~s.c.defs.closefrom_override
    THEN Ret(s.c, "false")
    ELSE CheckLookup(IF pwflag = "" THEN sudoers_lookup(s.c)
                     ELSE sudoers_lookup_pseudo(s.c, pwflag), s.st)

sudoers_check_common(c, pwflag) ==
    CheckFound(set_cmnd([c EXCEPT !.defs.preserve_groups = @ \/ "PRESERVE_GROUPS" \in c.mode]),
               pwflag)

\* Every entry point starts from PERM_INITIAL and rewinds at the end.
Rewound(c) ==
    LET Back(r) == IF r.perm.ok THEN r ELSE Ret(r, "error")
    IN Back([c EXCEPT !.perm = rewind_perms(@)])

-----------------------------------------------------------------------------
(* The entry points. *)

RUN_VALID_FLAGS ==
    {"PRESERVE_ENV", "IMPLIED_SHELL", "NONINTERACTIVE", "IGNORE_TICKET",
     "UPDATE_TICKET", "PRESERVE_GROUPS", "RUN", "POLICY_INTERCEPTED"}
EDIT_VALID_FLAGS == {"NONINTERACTIVE", "IGNORE_TICKET", "UPDATE_TICKET", "EDIT"}
LIST_VALID_FLAGS == {"NONINTERACTIVE", "IGNORE_TICKET", "UPDATE_TICKET", "LIST", "CHECK"}
VALIDATE_VALID_FLAGS == {"NONINTERACTIVE", "IGNORE_TICKET", "UPDATE_TICKET", "VALIDATE"}
MODE_INTERCEPT_MASK == {"RUN", "NONINTERACTIVE", "IGNORE_TICKET", "POLICY_INTERCEPTED"}

(* (Slip: the Defaults of the last command are kept for the next.) *)
Reinit_KeepDefaults(c) ==
    IF c.need_reinit /\ "RUN" \in c.mode /\ c.defs.intercept
    THEN [c EXCEPT !.mode = (@ \cup {"POLICY_INTERCEPTED"}) \cap MODE_INTERCEPT_MASK]
    ELSE [c EXCEPT !.need_reinit = TRUE]

\* What a second check finds of the first: the mode of an intercepted
\* command, if the last one allowed was to be intercepted, and fresh Defaults.
Reinit(c) ==
    LET mode == IF "RUN" \in c.mode /\ c.defs.intercept
                THEN c.mode \cup {"POLICY_INTERCEPTED"} ELSE c.mode
        kept == IF "POLICY_INTERCEPTED" \in mode THEN mode \cap MODE_INTERCEPT_MASK ELSE mode
    IN IF c.need_reinit THEN sudoers_reinit_defaults([c EXCEPT !.mode = kept])
       ELSE [c EXCEPT !.need_reinit = TRUE]

\* For sudoedit the command run is the editor.
Edited(c) ==
    IF c.ret = "true" /\ "EDIT" \in c.mode THEN [c EXCEPT !.runas_cmnd = Editor] ELSE c

Checked(c) == IF c.perm.ok THEN Edited(sudoers_check_common(c, "")) ELSE Ret(c, "false")
sudoers_check_cmnd(c) == Rewound(Checked(SetPerms(Reinit(c), "PERM_INITIAL")))

\* Every call starts with nobody prompted.
Asked(c, cmnd, args) == [c EXCEPT !.argv0 = cmnd, !.argv_args = args, !.asked = FALSE]

sudoers_policy_check(c, cmnd, args) ==
    LET edit == "EDIT" \in c.mode
        m == [Asked(c, cmnd, args) EXCEPT !.mode = IF edit THEN @ ELSE @ \cup {"RUN"}]
    IN IF m.mode \subseteq (IF edit THEN EDIT_VALID_FLAGS ELSE RUN_VALID_FLAGS)
       THEN sudoers_check_cmnd(m) ELSE Ret(m, "error")

Validated(c) == IF c.perm.ok THEN sudoers_check_common(c, "verifypw") ELSE Ret(c, "error")
sudoers_validate_user(c) == Rewound(Validated(SetPerms(c, "PERM_INITIAL")))

sudoers_policy_validate(c) ==
    LET m == [Asked(c, NoPath, "") EXCEPT !.mode = @ \cup {"VALIDATE"}]
    IN IF m.mode \subseteq VALIDATE_VALID_FLAGS THEN sudoers_validate_user(m)
       ELSE Ret(m, "error")

RECURSIVE DisplayFrom(_, _, _, _, _)

DisplayNext(tried, t, name, rules, n) ==
    IF SPECIFIED(tried.m) THEN tried ELSE DisplayFrom(tried.c, t, name, rules, n - 1)

\* display_cmnd_check: the same walk for "sudo -l command", made as root,
\* for the user listed; here both dates count.
DisplayFrom(c, t, name, rules, n) ==
    LET r == rules[n]
    IN IF n = 0 THEN [m |-> UNSPEC, c |-> c]
       ELSE IF /\ userlist_matches(t, name, r.us.users) = ALLOW
               /\ hostlist_matches(t, c.host, r.priv.hosts) = ALLOW
               /\ r.cs.notbefore = 0 \/ c.now >= r.cs.notbefore
               /\ r.cs.notafter = 0 \/ c.now <= r.cs.notafter
               /\ runaslist_matches(t, c, r.cs.runasusers, r.cs.runasgroups) = ALLOW
       THEN DisplayNext(cmnd_matches(t, c, r.cs.cmnd), t, name, rules, n)
       ELSE DisplayFrom(c, t, name, rules, n - 1)

display_cmnd_check(c, t, name) ==
    [DisplayFrom([c EXCEPT !.cmnd = c.cmnd_list], t, name, Rules(t), Len(Rules(t)))
        EXCEPT !.c.cmnd = c.cmnd]

RECURSIVE DisplaySources(_, _, _, _)

DisplayOn(r, t, name, rest, best) ==
    LET now == IF SPECIFIED(r.m) THEN r.m ELSE best
    IN IF sudo_nss_can_continue(t, r.m) THEN DisplaySources(r.c, name, rest, now)
       ELSE [c |-> r.c, m |-> now, ok |-> TRUE]

DisplaySources(c, name, todo, best) ==
    LET t == Tree[todo[1]]
    IN IF todo = <<>> THEN [c |-> c, m |-> best, ok |-> TRUE]
       ELSE IF ~t.query THEN [c |-> c, m |-> best, ok |-> FALSE]
       ELSE DisplayOn(display_cmnd_check(c, t, name), t, name, Tail(todo), best)

DisplayRet(d) == Ret(d.c, IF ~d.ok THEN "error" ELSE IF d.m = ALLOW THEN "true" ELSE "false")
display_cmnd(c, name) == DisplayRet(DisplaySources(c, name, c.sources, UNSPEC))

\* What is listed: with a command, whether the user may run it.
Shown(c) ==
    IF c.ret = "true" /\ "CHECK" \in c.mode
    THEN display_cmnd(c, IF c.list_pw = "" THEN c.user ELSE c.list_pw) ELSE c
ListedAs(c, list_user) ==
    IF ~c.perm.ok \/ list_user \notin DOMAIN Passwd \cup {""} THEN Ret(c, "error")
    ELSE Shown(sudoers_check_common([c EXCEPT !.list_pw = list_user], "listpw"))
sudoers_list(c, list_user) == Rewound(ListedAs(SetPerms(c, "PERM_INITIAL"), list_user))

sudoers_policy_list(c, cmnd, args, list_user) ==
    LET m == [Asked(c, cmnd, args) EXCEPT
                 !.mode = @ \cup {IF cmnd = NoPath THEN "LIST" ELSE "CHECK"}]
    IN IF m.mode \subseteq LIST_VALID_FLAGS THEN sudoers_list(m, list_user) ELSE Ret(m, "error")
=============================================================================
