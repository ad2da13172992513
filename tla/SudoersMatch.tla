---------------------------- MODULE SudoersMatch ----------------------------
(***************************************************************************)
(* Matching a request against the lists of a sudoers policy:               *)
(* plugins/sudoers/match.c, match_command.c and match_digest.c.            *)
(*                                                                         *)
(* A list is a sequence of members [type, name, negated]; a command member *)
(* has a pattern besides.  The code walks a list from its end and stops at *)
(* the first member that says ALLOW or DENY.  An alias stands for a list   *)
(* of its own, looked up in the tree t of the source it is used in.        *)
(*                                                                         *)
(* c is the plugin's sudoers_context.  Matching a command changes it (the  *)
(* command to run and the descriptor to run it by), so the command         *)
(* operators return the answer m and the context c.                        *)
(*                                                                         *)
(* A path is <<directory, base name>>, the directory being "" for a name   *)
(* without a slash and "." for one in the current directory.  A file is an *)
(* inode number; a descriptor is the inode it was opened on.               *)
(***************************************************************************)
EXTENDS Integers, Sequences, FiniteSetsExt, Privileges

CONSTANTS
    Passwd,       \* user name -> [uid, gid, groups, shell]
    Groups,       \* group name -> gid
    Files,        \* <<canonical directory, base name>> -> inode
    Canon,        \* directory -> its canonical name
    Unsearchable, \* pairs <<uid, canonical directory>> that may not be searched
    SetId,        \* the inodes with a setuid or setgid bit
    Digest        \* inode -> digest of the contents

ALLOW == "ALLOW"
DENY == "DENY"
UNSPEC == "UNSPEC"
NoFile == 0
NoPath == <<"", "">>

SPECIFIED(m) == m # UNSPEC
IsAbsolute(path) == path[1] \notin {"", "."}
HasSlash(path) == path[1] # ""

\* stat(2) as the effective user.
Stat(c, path) ==
    IF /\ path[1] \in DOMAIN Canon
       /\ <<Canon[path[1]], path[2]>> \in DOMAIN Files
       /\ <<c.perm.e, Canon[path[1]]>> \notin Unsearchable
    THEN Files[<<Canon[path[1]], path[2]>>] ELSE NoFile

-----------------------------------------------------------------------------
(* Lists of users, hosts and runas users and groups. *)

\* What a member says when it matches, and what it makes of its alias' answer.
Says(m, matches) ==
    IF ~matches THEN UNSPEC ELSE IF m.negated THEN DENY ELSE ALLOW

(* (Slip: the answer of a negated alias is not turned round when it is DENY.) *)
OfAlias_DenyKept(m, rc) == IF m.negated /\ rc = ALLOW THEN DENY ELSE rc

OfAlias(m, rc) ==
    IF ~m.negated \/ ~SPECIFIED(rc) THEN rc ELSE IF rc = ALLOW THEN DENY ELSE ALLOW

\* The walk from the end: the last answer that says something.
LastWord(answers) ==
    LET said == {i \in DOMAIN answers : SPECIFIED(answers[i])}
    IN IF said = {} THEN UNSPEC ELSE answers[Max(said)]

user_in_group(name, group) ==
    Groups[group] \in Passwd[name].groups \cup {Passwd[name].gid}

RECURSIVE userlist_matches(_, _, _)

\* A name that is no alias of the right kind is taken as a user name.
user_matches(t, name, m) ==
    CASE m.type = "ALL" -> Says(m, TRUE)
      [] m.type = "USERGROUP" -> Says(m, user_in_group(name, m.name))
      [] m.type = "ALIAS" /\ m.name \in DOMAIN t.user_aliases ->
            OfAlias(m, userlist_matches(t, name, t.user_aliases[m.name]))
      [] OTHER -> Says(m, m.name = name)

userlist_matches(t, name, list) ==
    LastWord([i \in DOMAIN list |-> user_matches(t, name, list[i])])

RECURSIVE hostlist_matches(_, _, _)

host_matches(t, host, m) ==
    CASE m.type = "ALL" -> Says(m, TRUE)
      [] m.type = "ALIAS" /\ m.name \in DOMAIN t.host_aliases ->
            OfAlias(m, hostlist_matches(t, host, t.host_aliases[m.name]))
      [] OTHER -> Says(m, m.name = host)

hostlist_matches(t, host, list) ==
    LastWord([i \in DOMAIN list |-> host_matches(t, host, list[i])])

RECURSIVE runas_userlist_matches(_, _, _)

\* MYSELF, the empty runas user, stands for the invoking user: it matches
\* when only a group was asked for, or the user asked for themselves.
runas_userlist_matches(t, c, list) ==
    LET Answer(m) ==
            CASE m.type = "ALL" -> Says(m, TRUE)
              [] m.type = "USERGROUP" -> Says(m, user_in_group(c.runas_pw, m.name))
              [] m.type = "ALIAS" /\ m.name \in DOMAIN t.runas_aliases ->
                    OfAlias(m, runas_userlist_matches(t, c, t.runas_aliases[m.name]))
              [] m.type = "MYSELF" ->
                    Says(m, \/ c.runas_user = "" /\ c.runas_group # ""
                            \/ c.user = c.runas_pw)
              [] OTHER -> Says(m, m.name = c.runas_pw)
    IN LastWord([i \in DOMAIN list |-> Answer(list[i])])

\* The group list that PERM_RUNAS would set, as a set of gids.
RunasGids(c) ==
    IF c.defs.preserve_groups THEN Passwd[c.user].groups ELSE Passwd[c.runas_pw].groups

RECURSIVE runas_grouplist_matches(_, _, _)

\* A group no member speaks of is allowed when it is the runas user's own.
runas_grouplist_matches(t, c, list) ==
    LET Answer(m) ==
            CASE m.type = "ALL" -> Says(m, TRUE)
              [] m.type = "ALIAS" /\ m.name \in DOMAIN t.runas_aliases ->
                    OfAlias(m, runas_grouplist_matches(t, c, t.runas_aliases[m.name]))
              [] OTHER -> Says(m, m.name = c.runas_gr)
        listed == LastWord([i \in DOMAIN list |-> Answer(list[i])])
    IN IF SPECIFIED(listed) THEN listed
       ELSE IF Groups[c.runas_gr] \in RunasGids(c) \cup {Passwd[c.runas_pw].gid}
       THEN ALLOW ELSE UNSPEC

\* Both lists may be missing (an empty sequence here): no user list stands
\* for runas_default.  Without a runas group the user list alone decides.
runaslist_matches(t, c, users, groups) ==
    LET default == <<[type |-> "WORD", name |-> c.defs.runas_default, negated |-> FALSE]>>
        user == runas_userlist_matches(t, c, IF users = <<>> THEN default ELSE users)
        group == IF c.runas_group = "" THEN UNSPEC
                 ELSE runas_grouplist_matches(t, c, groups)
    IN IF user = DENY \/ group = DENY THEN DENY
       ELSE IF user = group \/ c.runas_gr = "" THEN user ELSE UNSPEC

-----------------------------------------------------------------------------
(* Commands.  A pattern is a record [kind, paths, anyargs, args, digests]: *)
(*   "all"              any command                                        *)
(*   "path"             paths is the one path named                        *)
(*   "dir"              a directory, any file of it; paths is {<<dir, "">>}*)
(*   "glob", "regex"    paths are the names the pattern covers             *)
(*   "pseudo"           "list" or "sudoedit", paths is {<<"", name>>}      *)
(* Its arguments are the set args of those it accepts, or anyargs.         *)

command_args_match(c, k) == k.anyargs \/ c.args \in k.args

\* open_cmnd: the file is only opened for a digest or when fdexec says so.
MustOpen(c, k) == c.defs.fdexec = "always" \/ k.digests # {}

\* The descriptor open_cmnd sets (NoFile for none), and whether it succeeds.
OpenFd(c, k, path) == IF MustOpen(c, k) THEN Stat(c, path) ELSE NoFile
open_cmnd(c, k, path) == MustOpen(c, k) => Stat(c, path) # NoFile

\* digest_matches: the digest of the file itself, opened or named.
digest_matches(c, k, path) ==
    k.digests = {} \/ (Stat(c, path) # NoFile /\ Digest[Stat(c, path)] \in k.digests)

set_cmnd_fd(c, fd) ==
    [c EXCEPT !.execfd = IF c.defs.fdexec = "never" THEN NoFile ELSE fd]

Matches(c) == [m |-> ALLOW, c |-> c]
Differs(c) == [m |-> DENY, c |-> c]

\* The directory of the command and that of a sudoers path are compared by
\* their canonical names, where both have one.
SameDir(c, dir) ==
    c.cmnd_dir # "" /\ dir \in DOMAIN Canon => Canon[dir] = c.cmnd_dir

\* ALL: a file that does not exist is no error; runas.cmnd is left alone.
command_matches_all(c, k) ==
    IF ~digest_matches(c, k, c.cmnd) THEN Differs(c)
    ELSE Matches(set_cmnd_fd(c, IF HasSlash(c.cmnd) THEN OpenFd(c, k, c.cmnd) ELSE NoFile))

\* A directory: the file of that name in it must be the command itself.
\* The arguments are not looked at and the descriptor is closed again.
command_matches_dir(c, k, dir) ==
    LET path == <<dir, c.cmnd[2]>>
    IN IF /\ SameDir(c, dir)
          /\ Stat(c, path) # NoFile
          /\ Stat(c, path) = c.cmnd_stat
          /\ digest_matches(c, k, path)
       THEN Matches([c EXCEPT !.runas_cmnd = path]) ELSE Differs(c)

\* fnmatch(3): the name as typed, else the name in its canonical directory.
command_matches_fnmatch(c, k) ==
    LET canonical == <<c.cmnd_dir, c.cmnd[2]>>
        cmnd == IF IsAbsolute(c.cmnd) /\ c.cmnd \in k.paths THEN c.cmnd ELSE canonical
    IN IF /\ cmnd \in k.paths
          /\ c.cmnd_dir # "" \/ cmnd = c.cmnd
          /\ command_args_match(c, k)
          /\ Stat(c, cmnd) # NoFile
          /\ digest_matches(c, k, cmnd)
       THEN Matches(set_cmnd_fd(c, OpenFd(c, k, cmnd))) ELSE Differs(c)

\* A regular expression is tried on the same two names.
command_matches_regex(c, k) == command_matches_fnmatch(c, k)

\* glob(3): an exact match among the files found decides, for or against;
\* else a file of the same name, directory and inode.  runas.cmnd is set
\* before the arguments are compared.
command_matches_glob(c, k) ==
    LET found == {p \in k.paths : Stat(c, p) # NoFile}
        exact == IsAbsolute(c.cmnd) /\ c.cmnd \in found
        good == {p \in found :
                    /\ Stat(c, p) = c.cmnd_stat
                    /\ digest_matches(c, k, p)
                    /\ IF exact THEN p = c.cmnd
                       ELSE p[2] = c.cmnd[2] /\ SameDir(c, p[1])}
        cp == CHOOSE p \in good : TRUE
        set == [c EXCEPT !.runas_cmnd = cp]
    IN IF good = {} THEN Differs(c)
       ELSE IF ~command_args_match(c, k) THEN Differs(set)
       ELSE Matches(set_cmnd_fd(set, OpenFd(c, k, cp)))

\* A plain path: the same base name, directory and inode.  Only when the
\* path of sudoers cannot be examined are the names compared.
command_matches_normal(c, k) ==
    LET path == CHOOSE p \in k.paths : TRUE
    IN IF /\ path[2] = c.cmnd[2]
          /\ SameDir(c, path[1])
          /\ open_cmnd(c, k, path)
          /\ IF Stat(c, path) # NoFile THEN Stat(c, path) = c.cmnd_stat ELSE path = c.cmnd
          /\ command_args_match(c, k)
          /\ digest_matches(c, k, path)
       THEN Matches(set_cmnd_fd([c EXCEPT !.runas_cmnd = path], OpenFd(c, k, path)))
       ELSE Differs(c)

command_matches(c, k) ==
    CASE k.kind = "all" -> command_matches_all(c, k)
      [] k.kind = "regex" -> command_matches_regex(c, k)
      [] k.kind = "pseudo" ->
            IF c.cmnd \in k.paths /\ command_args_match(c, k) THEN Matches(c) ELSE Differs(c)
      [] k.kind = "glob" -> IF c.defs.fast_glob THEN command_matches_fnmatch(c, k)
                            ELSE command_matches_glob(c, k)
      [] k.kind = "dir" -> command_matches_dir(c, k, (CHOOSE p \in k.paths : TRUE)[1])
      [] k.kind = "path" -> command_matches_normal(c, k)

RECURSIVE cmndlist_matches(_, _, _)

\* cmnd_matches: an alias that does not exist says nothing.
cmnd_matches(t, c, m) ==
    IF m.type # "ALIAS"
    THEN [command_matches(c, m.cmnd) EXCEPT !.m = Says(m, @ = ALLOW)]
    ELSE IF m.name \notin DOMAIN t.cmnd_aliases THEN [m |-> UNSPEC, c |-> c]
    ELSE [cmndlist_matches(t, c, t.cmnd_aliases[m.name]) EXCEPT !.m = OfAlias(m, @)]

\* From the end, keeping what each attempt leaves in the context.
cmndlist_matches(t, c, list) ==
    LET Or(r) == IF SPECIFIED(r.m) THEN r
                 ELSE cmndlist_matches(t, r.c, SubSeq(list, 1, Len(list) - 1))
    IN IF list = <<>> THEN [m |-> UNSPEC, c |-> c]
       ELSE Or(cmnd_matches(t, c, list[Len(list)]))

RECURSIVE cmndlist_matches_all(_, _, _)

\* cmnd_matches_all: only ALL counts, directly or in an alias.
cmnd_matches_all(t, c, m) ==
    IF m.type = "ALL"
    THEN [command_matches(c, m.cmnd) EXCEPT !.m = Says(m, @ = ALLOW)]
    ELSE IF m.type = "ALIAS" /\ m.name \in DOMAIN t.cmnd_aliases
    THEN [cmndlist_matches_all(t, c, t.cmnd_aliases[m.name]) EXCEPT !.m = OfAlias(m, @)]
    ELSE [m |-> UNSPEC, c |-> c]

cmndlist_matches_all(t, c, list) ==
    LET Or(r) == IF SPECIFIED(r.m) THEN r
                 ELSE cmndlist_matches_all(t, r.c, SubSeq(list, 1, Len(list) - 1))
    IN IF list = <<>> THEN [m |-> UNSPEC, c |-> c]
       ELSE Or(cmnd_matches_all(t, c, list[Len(list)]))
=============================================================================
