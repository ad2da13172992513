--------------------------- MODULE SudoersMeaning ---------------------------
(***************************************************************************)
(* What a sudoers policy means, said without the order in which the code   *)
(* looks at it: aliases are replaced by what they stand for, of the        *)
(* members that cover a request the last one speaks, and of the rules that *)
(* speak of it the last one decides (sudoers(5), "SUDOERS FILE FORMAT":    *)
(* "Where there are multiple matches, the last match is used").  The       *)
(* operators of SudoersPolicy are compared with these.                     *)
(*                                                                         *)
(* A call q is [op, cmnd, args, list_user, entry, ticket, intercepted,     *)
(* edit]: what was asked of the plugin, the ids of the process and the     *)
(* state of the ticket at the time, whether it came from an intercepted    *)
(* command and whether sudo was started as sudoedit.                       *)
(***************************************************************************)
EXTENDS SudoersPolicy

RECURSIVE Leaves(_, _)

\* A list with its aliases replaced; two negations cancel.
Flipped(leaves, by) == [i \in DOMAIN leaves |-> [leaves[i] EXCEPT !.negated = (@ # by)]]
LeavesOf(aliases, m) ==
    IF m.type = "ALIAS" /\ m.name \in DOMAIN aliases
    THEN Flipped(Leaves(aliases, aliases[m.name]), m.negated) ELSE <<m>>
Leaves(aliases, list) ==
    FoldLeft(LAMBDA acc, m : acc \o LeavesOf(aliases, m), <<>>, list)

\* What the last leaf that covers the request says.
Word(leaves, Hit(_)) ==
    LET hits == {i \in DOMAIN leaves : Hit(leaves[i])}
    IN IF hits = {} THEN UNSPEC ELSE IF leaves[Max(hits)].negated THEN DENY ELSE ALLOW

UserWord(t, name, list) ==
    Word(Leaves(t.user_aliases, list),
         LAMBDA m : \/ m.type = "ALL"
                    \/ m.type = "USERGROUP" /\ user_in_group(name, m.name)
                    \/ m.type \in {"WORD", "ALIAS"} /\ m.name = name)

HostWord(t, host, list) ==
    Word(Leaves(t.host_aliases, list),
         LAMBDA m : m.type = "ALL" \/ (m.type \in {"WORD", "ALIAS"} /\ m.name = host))

\* The target user, and the target group when one was asked for.
TargetUserWord(t, c, users) ==
    Word(Leaves(t.runas_aliases, users),
         LAMBDA m : \/ m.type = "ALL"
                    \/ m.type = "USERGROUP" /\ user_in_group(c.runas_pw, m.name)
                    \/ m.type = "MYSELF" /\ c.runas_pw = c.user
                    \/ m.type \in {"WORD", "ALIAS"} /\ m.name = c.runas_pw)
OrOwnGroup(c, word) ==
    IF /\ word = UNSPEC
       /\ Groups[c.runas_gr] \in RunasGids(c) \cup {Passwd[c.runas_pw].gid}
    THEN ALLOW ELSE word
TargetGroupWord(c, groups) ==
    OrOwnGroup(c, Word(groups, LAMBDA m : m.type = "ALL" \/ m.name = c.runas_gr))
Both(user, group) ==
    IF DENY \in {user, group} THEN DENY
    ELSE IF user = ALLOW /\ group = ALLOW THEN ALLOW ELSE UNSPEC
RunasWord(t, c, users, groups) ==
    Both(TargetUserWord(t, c, IF users # <<>> THEN users
                              ELSE <<[type |-> "WORD", name |-> c.defs.runas_default,
                                      negated |-> FALSE]>>),
         IF c.runas_gr = "" THEN ALLOW ELSE TargetGroupWord(c, groups))

-----------------------------------------------------------------------------
(* Commands.  A path stands for the file that its canonical name has. *)

CanonPath(p) == <<IF p[1] \in DOMAIN Canon THEN Canon[p[1]] ELSE p[1], p[2]>>
SeenBy(uid, p) ==
    CanonPath(p) \in DOMAIN Files /\ <<uid, CanonPath(p)[1]>> \notin Unsearchable

\* Does the pattern k cover the path p with these arguments, for a process
\* with this uid?  A file that it cannot see is only known by its name.
Covers(c, k, p, args, uid) ==
    LET seen == SeenBy(uid, p)
        argsOK == k.anyargs \/ args \in k.args
        digestOK == k.digests = {} \/ (seen /\ Digest[Files[CanonPath(p)]] \in k.digests)
    IN /\ digestOK
       /\ CASE k.kind = "all" -> TRUE
            [] k.kind = "pseudo" -> p \in k.paths /\ argsOK
            [] k.kind = "dir" -> seen /\ \E q \in k.paths : CanonPath(q)[1] = CanonPath(p)[1]
            [] k.kind = "path" ->
                   /\ argsOK
                   /\ IF seen THEN \E q \in k.paths : CanonPath(q) = CanonPath(p)
                      ELSE p \in k.paths /\ c.defs.fdexec # "always"
            [] k.kind = "regex" \/ (k.kind = "glob" /\ c.defs.fast_glob) ->
                   argsOK /\ seen /\ {p, CanonPath(p)} \cap k.paths # {}
            [] k.kind = "glob" /\ ~c.defs.fast_glob ->
                   argsOK /\ seen /\ \E q \in k.paths : CanonPath(q) = CanonPath(p)

CmndWord(t, c, list, p, args, uid) ==
    Word(Leaves(t.cmnd_aliases, list),
         LAMBDA m : m.type # "ALIAS" /\ Covers(c, m.cmnd, p, args, uid))

AllWord(t, c, m, p, args, uid) ==
    Word(Leaves(t.cmnd_aliases, <<m>>),
         LAMBDA l : l.type = "ALL" /\ Covers(c, l.cmnd, p, args, uid))

\* The file a command name stands for: the first of the search path that the
\* target user can see, else the first the invoking user can see.
ResolvedBy(cmnd, path, uid) ==
    LET there == {i \in DOMAIN path : path[i] # "." /\ SeenBy(uid, <<path[i], cmnd[2]>>)}
    IN IF HasSlash(cmnd) THEN IF SeenBy(uid, cmnd) THEN cmnd ELSE NoPath
       ELSE IF there # {} THEN <<path[Min(there)], cmnd[2]>>
       ELSE IF SeenBy(uid, <<".", cmnd[2]>>) /\ "." \in ToSet(path)
       THEN <<".", cmnd[2]>> ELSE NoPath
Dotless(c, cmnd, p) ==
    IF p[1] = "." /\ ~HasSlash(cmnd) /\ c.defs.ignore_dot THEN NoPath ELSE p
Else(p, q) == IF p # NoPath THEN p ELSE q
SearchPath(c) == IF c.defs.secure_path # <<>> /\ ~user_is_exempt(c)
                 THEN c.defs.secure_path ELSE c.path
Resolved(c, cmnd) ==
    Dotless(c, cmnd, Else(ResolvedBy(cmnd, SearchPath(c), Passwd[c.runas_pw].uid),
                          ResolvedBy(cmnd, SearchPath(c), Passwd[c.user].uid)))

-----------------------------------------------------------------------------
(* Rules and sources. *)

InForce(c, cs) ==
    /\ cs.notbefore = 0 \/ c.now >= cs.notbefore
    /\ cs.notafter = 0 \/ c.now <= cs.notafter

Concerns(t, c, r, name) ==
    UserWord(t, name, r.us.users) = ALLOW /\ HostWord(t, c.host, r.priv.hosts) = ALLOW

\* The last of the words that is one, with its place.
LastOf(words) ==
    LET said == {i \in DOMAIN words : words[i] # UNSPEC}
    IN IF said = {} THEN [m |-> UNSPEC, at |-> 0]
       ELSE [m |-> words[Max(said)], at |-> Max(said)]

\* A source is asked unless an earlier one ends the search; a listing
\* counts the answers so far, a check that of the source alone.
Asks(c, words, sofar) ==
    {i \in DOMAIN words : \A j \in 1 .. i - 1 :
        IF \E k \in (IF sofar THEN 1 .. j ELSE {j}) : words[k].m # UNSPEC
        THEN ~Tree[c.sources[j]].ret_if_found ELSE ~Tree[c.sources[j]].ret_if_notfound}

\* What the policy says of the user name running p: the word, its rule, and
\* whether the sources could be asked.
RuleWord(t, c, r, name, p, args, uid) ==
    IF /\ Concerns(t, c, r, name)
       /\ InForce(c, r.cs)
       /\ RunasWord(t, c, r.cs.runasusers, r.cs.runasgroups) = ALLOW
    THEN CmndWord(t, c, <<r.cs.cmnd>>, p, args, uid) ELSE UNSPEC
SourceWord(t, c, name, p, args, uid) ==
    LastOf([i \in DOMAIN Rules(t) |-> RuleWord(t, c, Rules(t)[i], name, p, args, uid)])
Among(words, asked) == LastOf([i \in DOMAIN words |-> IF i \in asked THEN words[i].m ELSE UNSPEC])
Chosen(c, words, asked, d) ==
    [m |-> d.m,
     answered |-> \A i \in asked : Tree[c.sources[i]].query,
     rule |-> IF d.at = 0 THEN NoRule ELSE Rules(Tree[c.sources[d.at]])[words[d.at].at]]
DecisionOf(c, words, asked) == Chosen(c, words, asked, Among(words, asked))
DecisionFrom(c, words) == DecisionOf(c, words, Asks(c, words, FALSE))
Decision(c, name, p, args, uid) ==
    DecisionFrom(c, [i \in DOMAIN c.sources |->
                        SourceWord(Tree[c.sources[i]], c, name, p, args, uid)])

\* May the user list, or validate?  Their own privileges always; those of
\* another user when they may run "list" as that user, or ALL as root.
AsUser(t, c, cs, name) ==
    IF cs.runasusers # <<>> THEN UserWord(t, name, cs.runasusers)
    ELSE IF cs.runasgroups = <<>> /\ c.defs.runas_default = name THEN ALLOW ELSE UNSPEC
ListWord(t, c, q, cs, as) ==
    IF as = ALLOW THEN CmndWord(t, c, <<cs.cmnd>>, <<"", "list">>, c.args, ROOT_UID)
    ELSE IF as = UNSPEC /\ AsUser(t, c, cs, "root") = ALLOW
    THEN AllWord(t, c, cs.cmnd, <<"", "list">>, c.args, ROOT_UID) ELSE UNSPEC
PseudoRule(t, c, q, r) ==
    IF ~Concerns(t, c, r, c.user) THEN UNSPEC
    ELSE IF q.list_user = "" \/ Passwd[c.user].uid = Passwd[q.list_user].uid THEN ALLOW
    ELSE IF ~InForce(c, r.cs) THEN UNSPEC
    ELSE ListWord(t, c, q, r.cs, AsUser(t, c, r.cs, q.list_user))
PseudoSource(t, c, q) == LastOf([i \in DOMAIN Rules(t) |-> PseudoRule(t, c, q, Rules(t)[i])])
RulesFor(t, c) == {r \in ToSet(Rules(t)) : Concerns(t, c, r, c.user)}
PseudoOf(c, words, asked) ==
    [allowed |-> /\ Passwd[c.user].uid = 0 \/ Among(words, asked).m = ALLOW
                 /\ \A i \in asked : Tree[c.sources[i]].query,
     rules |-> UNION {RulesFor(Tree[c.sources[i]], c) : i \in asked}]
PseudoFor(c, words) == PseudoOf(c, words, Asks(c, words, TRUE))
Pseudo(c, q) == PseudoFor(c, [i \in DOMAIN c.sources |-> PseudoSource(Tree[c.sources[i]], c, q)])

-----------------------------------------------------------------------------
(* When a password is asked for. *)

Edits(q) == q.op = "check" /\ q.cmnd[2] = "sudoedit"
NameOf(c, q) == IF Edits(q) THEN <<"", "sudoedit">> ELSE Else(Resolved(c, q.cmnd), q.cmnd)
RuleFor(c, q) == Decision(c, c.user, NameOf(c, q), q.args, Passwd[c.runas_pw].uid)

\* The last Defaults entry about var that applies: those bound to a command
\* come after the others.
Applies(t, c, d, cmnd) ==
    CASE d.type = "GENERIC" -> TRUE
      [] d.type = "USER" -> UserWord(t, c.user, d.binding) = ALLOW
      [] d.type = "HOST" -> HostWord(t, c.host, d.binding) = ALLOW
      [] d.type = "RUNAS" -> RunasWord(t, c, d.binding, <<>>) = ALLOW
      [] d.type = "CMND" -> CmndWord(t, c, d.binding, cmnd, c.args, ROOT_UID) = ALLOW
Entries(t, c, cmnd, var) ==
    SelectSeq(t.defaults, LAMBDA d : d.var = var /\ Applies(t, c, d, cmnd))
LastEntry(entries, var) ==
    LET bound == SelectSeq(entries, LAMBDA d : d.type = "CMND")
        last == IF bound = <<>> THEN entries ELSE bound
    IN IF last = <<>> THEN init_defaults[var] ELSE last[Len(last)].val
Setting(c, q, var) ==
    LET cmnd == IF q.op = "check" THEN NameOf(c, q)
                ELSE <<"", IF q.op = "list" THEN "list" ELSE "validate">>
    IN LastEntry(FoldLeft(LAMBDA acc, x : acc \o Entries(Tree[x], c, cmnd, var),
                          <<>>, c.sources), var)

\* The rule that decides has its own Defaults and tags.
ByRule(rule, set) ==
    LET own == SelectSeq(rule.priv.defaults, LAMBDA d : d.var = "authenticate")
    IN IF rule = NoRule THEN set
       ELSE IF rule.cs.tags.nopasswd # UNSPEC THEN rule.cs.tags.nopasswd = "false"
       ELSE IF own # <<>> THEN own[Len(own)].val ELSE set
Authenticate(c, q) == ByRule(RuleFor(c, q).rule, Setting(c, q, "authenticate"))

\* For a listing: "any" rule or "all" rules without a password.
PwFlag(q) == IF q.op = "list" THEN "listpw" ELSE "verifypw"
ByRules(pwcheck, rules) ==
    LET Free(r) == r.cs.tags.nopasswd = "true" \/ PrivNopass(r.priv)
    IN CASE pwcheck = "any" -> \A r \in rules : ~Free(r)
         [] pwcheck = "all" -> \E r \in rules : ~Free(r)
         [] pwcheck = "always" -> TRUE
         [] pwcheck = "never" -> FALSE
PseudoAuthenticate(c, q) ==
    Setting(c, q, "authenticate") /\ ByRules(Setting(c, q, PwFlag(q)), Pseudo(c, q).rules)

\* The password is needed, whatever the ticket says; and in spite of it.
MustAuthenticate(c, q) ==
    /\ IF q.op = "check" THEN Authenticate(c, q) ELSE PseudoAuthenticate(c, q)
    /\ ~user_is_exempt(c)
    /\ Passwd[c.user].uid # 0
    /\ ~(c.runas_pw = c.user /\ (c.runas_gr = "" \/ user_in_group(c.user, c.runas_gr)))
    /\ q.intercepted => Setting(c, q, "intercept_authenticate")
TicketHelps(c, q) ==
    /\ q.ticket = "current" /\ "IGNORE_TICKET" \notin c.mode
    /\ q.op = "check" \/ Setting(c, q, PwFlag(q)) # "always"
NeedsPassword(c, q) == MustAuthenticate(c, q) /\ ~TicketHelps(c, q)

-----------------------------------------------------------------------------
(* The verdict. *)

\* The conditions besides the rules: root, options, terminal, shell, set-id
\* files under intercept, the environment.
Permitted(c, q) ==
    LET d == c.defs
        runs == q.op = "check" /\ ~Edits(q)
        file == NameOf(c, q)
    IN /\ Passwd[c.user].uid = 0 => d.root_sudo
       /\ "closefrom" \in c.wants => d.closefrom_override
       /\ "IMPLIED_SHELL" \in c.mode => d.shell_noargs
       /\ d.requiretty => c.tty
       /\ q.cmnd # NoPath /\ ~Edits(q) /\ d.runas_check_shell => Passwd[c.runas_pw].shell
       /\ "timeout" \in c.wants => d.user_command_timeouts
       /\ runs /\ ("PRESERVE_ENV" \in c.mode \/ "badenv" \in c.wants) => d.setenv
       /\ (d.intercept \/ q.intercepted) /\ ~d.intercept_allow_setid
            /\ q.cmnd # NoPath /\ CanonPath(file) \in DOMAIN Files
            => Files[CanonPath(file)] \notin SetId

Authenticated(c, q) ==
    MustAuthenticate(c, q) =>
        /\ q.ticket # "fatal" \/ "IGNORE_TICKET" \in c.mode
        /\ \/ TicketHelps(c, q)
           \/ /\ c.password = "good"
              /\ "NONINTERACTIVE" \notin c.mode \/ c.defs.noninteractive_auth

\* The policy allows what was asked.
Grants(d) == d.m = ALLOW /\ d.answered
Shows(c, q, p) ==
    p # NoPath /\ Grants(Decision(c, IF q.list_user = "" THEN c.user ELSE q.list_user,
                                 p, q.args, ROOT_UID))
Allows(c, q) ==
    /\ Permitted(c, q)
    /\ Authenticated(c, q)
    /\ IF q.op = "check"
       THEN (q.edit \/ Resolved(c, q.cmnd) # NoPath) /\ Grants(RuleFor(c, q))
       ELSE Pseudo(c, q).allowed /\ (q.cmnd # NoPath => Shows(c, q, Resolved(c, q.cmnd)))

\* A rule with both dates is taken to be in force before the first of them.
DatesOverlooked(c) ==
    \E i \in DOMAIN c.sources : \E j \in DOMAIN Rules(Tree[c.sources[i]]) :
        LET cs == Rules(Tree[c.sources[i]])[j].cs
        IN cs.notafter # 0 /\ c.now < cs.notbefore
=============================================================================
