----------------------------- MODULE Privileges -----------------------------
(***************************************************************************)
(* How the sudoers plugin changes the identity of the sudo process and     *)
(* gets it back: plugins/sudoers/set_perms.c, the variant for systems with *)
(* setresuid(2).  set_perms pushes a perm_state on a stack and makes the   *)
(* system calls that reach it, restore_perms pops it, rewind_perms pops    *)
(* all but the first.                                                      *)
(*                                                                         *)
(* A process is a record p:                                                *)
(*   r, e, s, rg, eg, sg  the real, effective and saved ids of the kernel  *)
(*   groups               the kernel's group vector                        *)
(*   stack                perm_stack, its depth being its length           *)
(*   ok                   what the last call returned                      *)
(*   fail                 the number of calls that may fail until one does,*)
(*                        0 if none will                                   *)
(*   failed               one of them has failed                           *)
(* A group list is a record [of, gids]: the code compares lists by         *)
(* address, and "of" says which object it is.                              *)
(***************************************************************************)
EXTENDS Integers, Sequences

CONSTANT PermStackMax

ASSUME PermStackMaxAssumption == PermStackMax \in Nat /\ PermStackMax > 1

NO_UID == -1
ROOT_UID == 0

PermState(r, e, s, rg, eg, sg, list) ==
    [r |-> r, e |-> e, s |-> s, rg |-> rg, eg |-> eg, sg |-> sg, list |-> list]

-----------------------------------------------------------------------------
(* The kernel.  A process that is not effectively root may only move among *)
(* its real, effective and saved ids and may not set its groups.  A call   *)
(* that changes the real user id, or sets the groups, may also fail for    *)
(* lack of memory or processes.                                            *)

Kept(new, old) == IF new = NO_UID THEN old ELSE new

\* A call that may fail at random: it does when the countdown reaches it.
Fallible(p) ==
    IF p.fail = 1 THEN [p EXCEPT !.ok = FALSE, !.fail = 0, !.failed = TRUE]
    ELSE [p EXCEPT !.fail = IF @ = 0 THEN 0 ELSE @ - 1]

setresuid(p, r, e, s) ==
    LET may == p.e = ROOT_UID \/ {r, e, s} \subseteq {NO_UID, p.r, p.e, p.s}
        Set(q) == IF ~q.ok THEN q
                  ELSE [q EXCEPT !.r = Kept(r, @), !.e = Kept(e, @), !.s = Kept(s, @)]
    IN IF ~p.ok THEN p
       ELSE IF ~may THEN [p EXCEPT !.ok = FALSE]
       ELSE Set(IF r \in {NO_UID, p.r} THEN p ELSE Fallible(p))

setresgid(p, r, e, s) ==
    IF ~p.ok THEN p
    ELSE IF p.e # ROOT_UID /\ ~({r, e, s} \subseteq {NO_UID, p.rg, p.eg, p.sg})
    THEN [p EXCEPT !.ok = FALSE]
    ELSE [p EXCEPT !.rg = Kept(r, @), !.eg = Kept(e, @), !.sg = Kept(s, @)]

sudo_setgroups(p, gids) ==
    LET Set(q) == IF q.ok THEN [q EXCEPT !.groups = gids] ELSE q
    IN IF ~p.ok THEN p
       ELSE IF p.e # ROOT_UID THEN [p EXCEPT !.ok = FALSE]
       ELSE Set(Fallible(p))

-----------------------------------------------------------------------------
(* ID(x) and OID(x): an id that the two states share is left alone. *)
Diff(new, old) == IF new = old THEN NO_UID ELSE new

\* The calls that take the process from state o to state n, each made only
\* when there is something to change.
ChangeUid(p, o, n) ==
    IF <<n.r, n.e, n.s>> = <<o.r, o.e, o.s>> THEN p
    ELSE setresuid(p, Diff(n.r, o.r), Diff(n.e, o.e), Diff(n.s, o.s))
ChangeGid(p, o, n) ==
    IF <<n.rg, n.eg, n.sg>> = <<o.rg, o.eg, o.sg>> THEN p
    ELSE setresgid(p, Diff(n.rg, o.rg), Diff(n.eg, o.eg), Diff(n.sg, o.sg))
ChangeGroups(p, o, n) ==
    IF n.list = o.list THEN p ELSE sudo_setgroups(p, n.list.gids)

\* runas_getgroups: with preserve_groups the invoking user's own list.
runas_getgroups(c) == IF c.preserve_groups THEN c.user.list ELSE c.runas.list

\* runas_setgroups: the runas groups are set whatever the list was before.
runas_setgroups(p, c) ==
    IF c.preserve_groups THEN p ELSE sudo_setgroups(p, runas_getgroups(c).gids)

(* (Slip: the order of the calls is turned round, as when leaving root.) *)
restore_perms_UidLast(p) ==
    LET d == Len(p.stack)
        o == p.stack[d - 1]
        n == p.stack[d]
        q == [p EXCEPT !.ok = TRUE, !.stack = SubSeq(@, 1, d - 1)]
    IN IF d < 2 THEN [p EXCEPT !.ok = TRUE]
       ELSE setresuid(
                ChangeGroups(
                    setresgid(q, Diff(o.rg, n.rg), Diff(o.eg, n.eg),
                              Diff(o.sg, n.sg)),
                    n, o),
                Diff(o.r, n.r), Diff(o.e, n.e), Diff(o.s, n.s))

\* restore_perms: back to the state below.  The stack is popped before the
\* calls are made, so it is shorter even when one of them fails.
restore_perms(p) ==
    LET d == Len(p.stack)
        o == p.stack[d - 1]
        n == p.stack[d]
        q == [p EXCEPT !.ok = TRUE, !.stack = SubSeq(@, 1, d - 1)]
        asRoot == IF Diff(o.e, n.e) = ROOT_UID
                  THEN setresuid(q, NO_UID, ROOT_UID, NO_UID) ELSE q
    IN IF d < 2 THEN [p EXCEPT !.ok = TRUE]
       ELSE setresuid(
                ChangeGroups(
                    setresgid(asRoot, Diff(o.rg, n.rg), Diff(o.eg, n.eg),
                              Diff(o.sg, n.sg)),
                    n, o),
                Diff(o.r, n.r), Diff(o.e, n.e), Diff(o.s, n.s))

\* rewind_perms: restore until one state is left; it stops at a failure.
rewind_perms(p) ==
    LET Again(q) == IF q.ok THEN restore_perms(q) ELSE q
        undo[n \in 0 .. PermStackMax] ==
            IF n = 0 THEN [p EXCEPT !.ok = TRUE] ELSE Again(undo[n - 1])
    IN IF Len(p.stack) < 2 THEN [p EXCEPT !.ok = TRUE]
       ELSE undo[Len(p.stack) - 1]

\* PERM_INITIAL: go back to the bottom whatever happens, then note the ids
\* the process has.  The group list noted is the user's, which the process
\* was started with.
set_perms_initial(p, c) ==
    LET Noted(q) == [q EXCEPT !.ok = TRUE,
                              !.stack = <<PermState(q.r, q.e, q.s, q.rg, q.eg, q.sg,
                                                    c.user.list)>>]
    IN Noted(IF Len(p.stack) > 1 THEN rewind_perms(p) ELSE p)

\* The state that each perm asks for, above the state o.
WantedState(o, perm, c) ==
    CASE perm = "PERM_ROOT" -> PermState(0, 0, 0, o.rg, 0, o.sg, o.list)
      [] perm = "PERM_USER" ->
            PermState(c.user.uid, c.user.uid, 0, o.rg, c.user.gid, o.sg, c.user.list)
      [] perm = "PERM_RUNAS" ->
            PermState(o.r, c.runas.uid, o.s, o.rg, c.runas.gid, o.sg,
                      runas_getgroups(c))
      [] perm = "PERM_SUDOERS" ->
            PermState(0, IF c.sudoers.uid = 0 /\ c.sudoers.group_readable THEN 1
                         ELSE c.sudoers.uid, 0, o.rg, c.sudoers.gid, o.sg, o.list)
      [] perm = "PERM_TIMESTAMP" ->
            PermState(0, c.ts_uid, 0, o.rg, o.eg, o.sg, o.list)

\* The group list on the way from o to n.
SetGroups(p, o, n, perm, c) ==
    CASE perm = "PERM_USER" -> ChangeGroups(p, o, n)
      [] perm = "PERM_RUNAS" -> runas_setgroups(p, c)
      [] OTHER -> p

\* The user id goes first when becoming root and last when leaving it.
Reach(p, o, n, perm, c) ==
    IF perm = "PERM_ROOT" THEN ChangeGid(ChangeUid(p, o, n), o, n)
    ELSE ChangeUid(SetGroups(ChangeGid(p, o, n), o, n, perm, c), o, n)

\* A failure half-way leaves what was already changed, and nothing is pushed.
Push(p, n) == IF p.ok THEN [p EXCEPT !.stack = Append(@, n)] ELSE p

Enter(p, o, n, perm, c) == Push(Reach(p, o, n, perm, c), n)

\* set_perms: the calls in the order of the source.
set_perms(p, perm, c) ==
    LET o == p.stack[Len(p.stack)]
    IN IF Len(p.stack) = PermStackMax THEN [p EXCEPT !.ok = FALSE]
       ELSE IF perm = "PERM_INITIAL" THEN set_perms_initial(p, c)
       ELSE IF p.stack = <<>> THEN [p EXCEPT !.ok = FALSE]
       ELSE Enter([p EXCEPT !.ok = TRUE], o, WantedState(o, perm, c), perm, c)
=============================================================================
