------------------------------ MODULE MCPolicy ------------------------------
(***************************************************************************)
(* Users, files, policies and requests for Intercept.                      *)
(***************************************************************************)
EXTENDS Intercept

MCPasswd ==
    [root |-> [uid |-> 0, gid |-> 0, groups |-> {0}, shell |-> TRUE],
     alice |-> [uid |-> 1, gid |-> 1, groups |-> {1, 10}, shell |-> TRUE],
     bob |-> [uid |-> 2, gid |-> 2, groups |-> {2, 20}, shell |-> FALSE]]
MCGroups == [admin |-> 10, staff |-> 20]

\* /bin is a link to /usr/bin; bob may not look into /adm, nor alice into /srv.
MCFiles ==
    (<<"/usr/bin", "ls">> :> 1) @@ (<<"/usr/bin", "sh">> :> 2) @@ (<<"/usr/bin", "su">> :> 3)
    @@ (<<"/adm", "ls">> :> 4) @@ (<<"/adm", "run">> :> 5) @@ (<<"/srv", "run">> :> 6)
    @@ (<<"/home", "run">> :> 7) @@ (<<"/usr/bin", "sudoedit">> :> 8)
    @@ (<<"/usr/bin", "job">> :> 9)
MCCanon ==
    ("/usr/bin" :> "/usr/bin") @@ ("/bin" :> "/usr/bin") @@ ("/adm" :> "/adm")
    @@ ("/srv" :> "/srv") @@ ("." :> "/home") @@ ("/home" :> "/home")
MCUnsearchable == {<<2, "/adm">>, <<1, "/srv">>}
MCDigest == [i \in 1 .. 9 |-> i]
MCSudoersOwner == [uid |-> 0, gid |-> 0, group_readable |-> TRUE]
MCEditor == <<"/usr/bin", "sh">>
MCShell == <<"/usr/bin", "sh">>

ls == <<"/bin", "ls">>
sh == <<"/usr/bin", "sh">>
su == <<"/usr/bin", "su">>
adm == <<"/adm", "ls">>
job == <<"/bin", "job">>

-----------------------------------------------------------------------------
(* Pieces of policies. *)

Member(type, name) == [type |-> type, name |-> name, negated |-> FALSE]
Name(n) == Member("WORD", n)
Alias(n) == Member("ALIAS", n)
All == Member("ALL", "")
Not(m) == [m EXCEPT !.negated = TRUE]

Pattern(kind, paths) ==
    [kind |-> kind, paths |-> paths, anyargs |-> TRUE, args |-> {}, digests |-> {}]
Cmnd(k) == [type |-> "COMMAND", name |-> "", negated |-> FALSE, cmnd |-> k]
Path(p) == Cmnd(Pattern("path", {p}))
AnyCmnd == [Cmnd(Pattern("all", {})) EXCEPT !.type = "ALL"]
CmndAlias(n) == [Cmnd(Pattern("all", {})) EXCEPT !.type = "ALIAS", !.name = n]
WithArgs(m, args) == [m EXCEPT !.cmnd.anyargs = FALSE, !.cmnd.args = args]
WithDigest(m, d) == [m EXCEPT !.cmnd.digests = {d}]
Edit == Cmnd(Pattern("pseudo", {<<"", "sudoedit">>}))
ListCmnd == Cmnd(Pattern("pseudo", {<<"", "list">>}))

NoTags == [nopasswd |-> UNSPEC, intercept |-> UNSPEC, setenv |-> UNSPEC]
Spec1(cmnd) == [runasusers |-> <<>>, runasgroups |-> <<>>, cmnd |-> cmnd,
                notbefore |-> 0, notafter |-> 0, tags |-> NoTags]
As(users, cs) == [cs EXCEPT !.runasusers = users]
InGroup(groups, cs) == [cs EXCEPT !.runasgroups = groups]
NoPasswd(cs) == [cs EXCEPT !.tags.nopasswd = "true"]
Passw(cs) == [cs EXCEPT !.tags.nopasswd = "false"]
SetEnv(cs) == [cs EXCEPT !.tags.setenv = "true"]
Dated(cs, from, to) == [cs EXCEPT !.notbefore = from, !.notafter = to]

Priv(hosts, cmnds) == [hosts |-> hosts, defaults |-> <<>>, cmnds |-> cmnds]
UserSpec(users, cmnds) == [users |-> users, privs |-> <<Priv(<<All>>, cmnds)>>]
Default(var, val) == [type |-> "GENERIC", binding |-> <<>>, var |-> var, val |-> val]
Bound(type, binding, var, val) == [type |-> type, binding |-> binding, var |-> var, val |-> val]

None == [x \in {} |-> x]
Source(defaults, userspecs) ==
    [userspecs |-> userspecs, defaults |-> defaults, user_aliases |-> None,
     host_aliases |-> None, runas_aliases |-> None, cmnd_aliases |-> None,
     opens |-> "sudoers", parses |-> TRUE, query |-> TRUE,
     ret_if_found |-> FALSE, ret_if_notfound |-> FALSE]
-----------------------------------------------------------------------------
(* Policies. *)

\* Rules that overrule one another, with and without a password.
Overruling == Source(<<>>, <<
    UserSpec(<<Member("USERGROUP", "admin")>>, <<As(<<All>>, Spec1(AnyCmnd))>>),
    UserSpec(<<Name("alice")>>,
             <<As(<<Name("bob")>>, NoPasswd(Spec1(Path(ls)))),
               As(<<All, Not(Name("root"))>>, Passw(Spec1(Not(Path(sh)))))>>),
    UserSpec(<<All, Not(Name("alice"))>>, <<NoPasswd(SetEnv(Spec1(Path(<<"/usr/bin", "ls">>))))>>)>>)

\* Aliases within aliases, negated once and twice.
Aliases == [Source(<<>>, <<
    UserSpec(<<All, Not(Alias("OTHERS"))>>,
             <<As(<<Alias("TARGETS")>>, Spec1(CmndAlias("SAFE"))),
               As(<<Not(Alias("TARGETS"))>>, Spec1(Not(CmndAlias("SAFE"))))>>),
    [users |-> <<Alias("OTHERS")>>, privs |-> <<
        Priv(<<Not(Alias("FAR"))>>, <<Spec1(CmndAlias("UNSAFE"))>>),
        Priv(<<Alias("FAR")>>, <<Spec1(AnyCmnd)>>)>>]>>)
    EXCEPT !.user_aliases = [OTHERS |-> <<All, Not(Alias("US"))>>, US |-> <<Name("alice")>>],
           !.host_aliases = [FAR |-> <<All, Not(Name("here"))>>],
           !.runas_aliases = [TARGETS |-> <<Name("root"), Name("bob")>>],
           !.cmnd_aliases = [SAFE |-> <<AnyCmnd, Not(CmndAlias("UNSAFE"))>>,
                             UNSAFE |-> <<Path(sh), Not(Path(ls)), Path(su)>>]]

\* The kinds of command patterns.
Kinds == Source(<<Default("fast_glob", FALSE)>>, <<
    UserSpec(<<Name("alice")>>, <<
        As(<<All>>, Spec1(Cmnd(Pattern("dir", {<<"/adm", "">>})))),
        As(<<All>>, Spec1(WithArgs(Cmnd(Pattern("glob", {ls, sh, su})), {"", "-l"}))),
        As(<<All>>, Spec1(Not(WithArgs(Path(<<"/usr/bin", "ls">>), {"-l"})))),
        As(<<Name("root")>>, Spec1(WithDigest(Path(<<"/bin", "su">>), 3))),
        As(<<Name("bob")>>, Spec1(WithDigest(Path(sh), 1))),
        As(<<All>>, Spec1(Path(<<"/srv", "run">>)))>>),
    UserSpec(<<Name("bob")>>, <<
        Spec1(Cmnd(Pattern("regex", {ls, adm}))), Spec1(WithDigest(AnyCmnd, 2)),
        Spec1(Path(<<"/adm", "run">>))>>)>>)
FastKinds == [Kinds EXCEPT !.defaults = <<Default("fast_glob", TRUE), Default("fdexec", "always")>>]

\* Target groups and the invoking user as the target.
RunasGroups == Source(<<>>, <<
    UserSpec(<<Name("alice")>>, <<
        InGroup(<<Name("staff")>>, As(<<Member("MYSELF", "")>>, Spec1(Path(ls)))),
        InGroup(<<Name("staff")>>, As(<<Name("bob")>>, NoPasswd(Spec1(Path(sh))))),
        InGroup(<<All, Not(Name("admin"))>>, As(<<Name("root")>>, Spec1(Path(su))))>>),
    UserSpec(<<Name("bob")>>, <<
        InGroup(<<Name("staff")>>, Spec1(Path(sh))),
        As(<<Member("MYSELF", ""), Not(Name("root"))>>, Spec1(AnyCmnd))>>)>>)

\* Defaults for users, hosts, targets and commands; early ones come first.
Settings == Source(<<
    Bound("RUNAS", <<Name("bob")>>, "authenticate", FALSE),
    Default("runas_default", "bob"),
    Bound("USER", <<Name("bob")>>, "secure_path", <<"/adm", "/bin">>),
    Bound("CMND", <<Path(ls)>>, "authenticate", TRUE),
    Bound("CMND", <<Path(su)>>, "requiretty", TRUE),
    Bound("HOST", <<Name("here")>>, "closefrom_override", TRUE),
    Default("listpw", "all"), Default("verifypw", "any"), Default("ignore_dot", TRUE),
    Bound("USER", <<All, Not(Name("bob"))>>, "exempt_group", "staff"),
    Bound("USER", <<Name("root")>>, "root_sudo", FALSE)>>, <<
    UserSpec(<<All>>, <<As(<<All>>, Spec1(Path(ls))), Spec1(Path(su)), NoPasswd(Spec1(Path(adm)))>>),
    UserSpec(<<Name("alice")>>, <<NoPasswd(Spec1(Cmnd(Pattern("path", {<<".", "run">>}))))>>)>>)

\* Two sources, the first of which may end the search.
First(found, notfound) ==
    [Source(<<>>, <<UserSpec(<<Name("alice")>>, <<Spec1(Path(ls)), Spec1(Not(Path(sh)))>>)>>)
        EXCEPT !.ret_if_found = found, !.ret_if_notfound = notfound]
Second(query) ==
    [Source(<<Default("authenticate", FALSE)>>,
            <<UserSpec(<<All>>, <<Passw(Spec1(Path(sh))), Spec1(Not(Path(ls)))>>)>>)
        EXCEPT !.query = query]

\* Who may list whose privileges.
Listing == Source(<<Default("listpw", "always"), Default("verifypw", "never")>>, <<
    UserSpec(<<Name("alice")>>, <<As(<<Name("bob")>>, Spec1(ListCmnd)), As(<<Name("bob")>>, Spec1(Path(ls)))>>),
    UserSpec(<<Name("bob")>>, <<As(<<Name("root")>>, NoPasswd(Spec1(AnyCmnd))), Spec1(Not(Path(sh)))>>)>>)

Dates == Source(<<>>, <<
    UserSpec(<<All>>, <<NoPasswd(Spec1(Path(ls))), Dated(Spec1(Not(Path(ls))), 2, 0),
                        Dated(Spec1(Path(sh)), 0, 2), Dated(Spec1(Path(su)), 2, 3)>>),
    [users |-> <<All>>, privs |-> <<Priv(<<Name("there")>>, <<Spec1(Not(Path(sh)))>>)>>]>>)

\* sudoedit, options, shells and the flag of administrators.
Options(allow) == Source(<<
    Default("closefrom_override", allow), Default("user_command_timeouts", allow),
    Default("shell_noargs", allow), Default("requiretty", allow),
    Default("runas_check_shell", ~allow), Default("admin_flag", TRUE),
    Default("noninteractive_auth", allow), Default("preserve_groups", allow)>>, <<
    UserSpec(<<All>>, <<As(<<All>>, Spec1(Edit)), As(<<All>>, SetEnv(Spec1(Path(ls)))),
                        As(<<All>>, Spec1(Path(sh)))>>)>>)

\* Commands that are intercepted, or logged.
Watched(intercept, log) == Source(<<
    Default("intercept", intercept), Default("log_subcmds", log),
    Bound("CMND", <<Path(ls)>>, "intercept_authenticate", TRUE)>>, <<
    UserSpec(<<All>>, <<As(<<All>>, Spec1(AnyCmnd)), As(<<All>>, Spec1(Not(Path(su)))),
                        As(<<Name("bob")>>, NoPasswd(Spec1(Path(ls))))>>)>>)

\* The sources by name.
MCTree ==
    [overruling |-> Overruling, aliases |-> Aliases, kinds |-> Kinds, fastkinds |-> FastKinds,
     groups |-> RunasGroups, settings |-> Settings, listing |-> Listing, dates |-> Dates,
     first |-> First(FALSE, FALSE), found |-> First(TRUE, FALSE), notfound |-> First(FALSE, TRUE),
     second |-> Second(TRUE), broken |-> Second(FALSE),
     loose |-> Options(TRUE), strict |-> Options(FALSE),
     rootonly |-> [Overruling EXCEPT !.opens = "root"], missing |-> [Overruling EXCEPT !.opens = "none"],
     syntax |-> [Overruling EXCEPT !.parses = FALSE],
     both |-> Watched(TRUE, TRUE), intercept |-> Watched(TRUE, FALSE), log |-> Watched(FALSE, TRUE)]
-----------------------------------------------------------------------------
(* Requests. *)

Request(source, user, op, cmnd) ==
    [sources |-> <<source>>, user |-> user, op |-> op, cmnd |-> cmnd, args |-> "",
     list_user |-> "", execs |-> {}, unapproved |-> {}, procs |-> 0, tries |-> 0, host |-> "here",
     path |-> <<".", "/adm", "/usr/bin">>, tty |-> TRUE, now |-> 1, ticket |-> "none",
     password |-> "good", wants |-> {}, runas_user |-> "", runas_group |-> "",
     ts_uid |-> 0, mode |-> {"UPDATE_TICKET"}, fail |-> 0]

People == {"root", "alice", "bob"}
Names == {ls, <<"/usr/bin", "ls">>, <<"", "ls">>, sh, su, <<"", "run">>, <<"/srv", "run">>, <<"/bin", "gone">>}
Targets == {<<"", "">>, <<"bob", "">>, <<"alice", "">>, <<"", "staff">>, <<"bob", "staff">>, <<"root", "admin">>}
Policies == {"overruling", "aliases", "kinds", "fastkinds", "groups", "settings"}

Ask(f, target, args, ticket, password) ==
    [f EXCEPT !.runas_user = target[1], !.runas_group = target[2], !.args = args,
              !.ticket = ticket, !.password = password]

\* Everyone asks for everything, as everyone.
Checks ==
    {Ask(Request(pol, u, "check", n), t, a, "none", "good") :
        pol \in Policies, u \in People, n \in Names, t \in Targets, a \in {"", "-l"}}

\* Other hosts and times, and searches that end early.
Elsewhere ==
    {[Request(pol, u, "check", n) EXCEPT !.host = h, !.now = now] :
        pol \in {"aliases", "settings", "dates"}, u \in {"alice", "bob"}, n \in {ls, sh, su},
        h \in {"here", "there"}, now \in 1 .. 4}
    \cup {[Request(f, u, op, c) EXCEPT !.sources = <<f, s>>] :
             f \in {"first", "found", "notfound"}, s \in {"second", "broken"}, u \in {"alice", "bob"}, op \in {"check", "list"}, c \in {ls, sh}}

\* Tickets, passwords and options.
Authentication ==
    {[Ask(Request(pol, u, op, n), t, "", ticket, pw) EXCEPT !.mode = mode, !.ts_uid = 2] :
        pol \in {"overruling", "settings"}, u \in {"alice", "bob"}, op \in {"check", "validate"},
        n \in {ls, sh}, t \in {<<"", "">>, <<"bob", "">>, <<"", "admin">>},
        ticket \in {"current", "none", "fatal"}, pw \in {"good", "bad"},
        mode \in {{}, {"UPDATE_TICKET"}, {"IGNORE_TICKET"}, {"NONINTERACTIVE", "UPDATE_TICKET"}}}
Optional ==
    {[Ask(Request(pol, u, op, n), t, "", "none", "good") EXCEPT
         !.mode = m, !.wants = w, !.tty = tty] :
        pol \in {"loose", "strict"}, u \in {"root", "alice"}, op \in {"check"},
        n \in {ls, <<"", "sudoedit">>, <<"/adm", "sudoedit">>, <<"", "run">>}, t \in {<<"", "">>, <<"bob", "">>},
        m \in {{}, {"PRESERVE_ENV"}, {"IMPLIED_SHELL"}, {"NONINTERACTIVE"}, {"PRESERVE_GROUPS"}},
        w \in {{}, {"closefrom"}, {"timeout"}, {"badenv"}}, tty \in BOOLEAN}
    \cup
    {[Ask(Request(pol, u, op, <<"", "sudoedit">>), t, "", "none", "good") EXCEPT
         !.mode = IF op = "check" THEN m \cup {"EDIT"} ELSE m, !.tty = tty] :
        pol \in {"loose", "strict"}, u \in {"root", "alice"}, op \in {"check", "validate"},
        t \in {<<"", "">>, <<"bob", "">>}, m \in {{}, {"NONINTERACTIVE"}}, tty \in BOOLEAN}

\* Listing and validating.
Lists ==
    {[Request(pol, u, op, n) EXCEPT !.list_user = IF op = "list" THEN l ELSE "",
                                    !.ticket = ticket, !.now = now] :
        pol \in {"listing", "settings", "overruling", "dates"}, u \in People, op \in {"list", "validate"},
        n \in {NoPath, ls, sh}, l \in {"", "alice", "bob"}, ticket \in {"current", "none"},
        now \in {1, 4}}

\* One call that changes ids fails, at any point.
Failing ==
    {[Ask(Request(pol, u, op, n), t, "", "none", "good") EXCEPT !.fail = fail, !.ts_uid = 2] :
        pol \in {"overruling", "strict", "kinds"}, u \in {"alice", "bob"}, op \in {"check", "list"},
        n \in {ls, sh, <<"", "run">>}, t \in {<<"", "">>, <<"bob", "staff">>}, fail \in 1 .. 8}

\* Sources that only root may open, or that are missing or broken.
Opening ==
    {[Request(f, "alice", "check", ls) EXCEPT !.sources = <<f, "dates">>, !.fail = fail] :
        f \in {"rootonly", "missing", "syntax"}, fail \in 0 .. 3}
    \cup {Request(f, "alice", "check", ls) : f \in {"missing", "syntax"}}

-----------------------------------------------------------------------------
(* Commands whose own commands are intercepted, or logged. *)

Watch(pol, target, execs, unapproved) ==
    [Request(pol, "alice", "check", sh) EXCEPT
        !.runas_user = target, !.execs = execs, !.unapproved = unapproved,
        !.procs = 2, !.tries = 1, !.mode = {"IGNORE_TICKET"}]

\* Two processes that try one exec each, or one that tries three.
Watching ==
    UNION {{w, [w EXCEPT !.procs = 1, !.tries = 3, !.mode = {"UPDATE_TICKET"}]} : w \in
        {Watch("both", "root", {<<ls, "">>, <<su, "">>}, {}),
         Watch("intercept", "bob", {<<ls, "">>, <<sh, "-l">>}, {sh}),
         Watch("intercept", "root", {<<ls, "">>, <<<<"/bin", "sudoedit">>, "">>}, {}),
         Watch("intercept", "root", {<<job, "">>, <<su, "">>}, {}),
         Watch("log", "bob", {<<ls, "">>, <<<<"/adm", "ls">>, "">>}, {})}}

MCConfs == Checks \cup Elsewhere \cup Authentication \cup Optional \cup Lists
           \cup Failing \cup Opening \cup Watching
=============================================================================
