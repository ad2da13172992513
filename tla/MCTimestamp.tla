---------------------------- MODULE MCTimestamp ----------------------------
(* Small instances of Timestamp for TLC.                                   *)
EXTENDS Timestamp, TLC

CONSTANTS p1, p2, i1, i2, i3

Ses(tty, start, ppid, sid) ==
  [tty |-> tty, start |-> start, ppid |-> ppid, pstart |-> start, sid |-> sid]

(* A terminal, a second terminal, a login on the first terminal that got   *)
(* the same start time but another session, one without a terminal, and    *)
(* one whose parent got the process ID of an earlier parent.               *)
OnTty1      == Ses("tty1", "t1", "pid1", "sid1")
OnTty2      == Ses("tty2", "t2", "pid2", "sid2")
OnTty1Later == Ses("tty1", "t1", "pid1", "sid3")
NoTerminal  == Ses("notty", "t1", "pid1", "sid1")
ReusedPid   == Ses("tty1", "t3", "pid1", "sid1")

Sessions5 == {OnTty1, OnTty2, OnTty1Later, NoTerminal, ReusedPid}

Conf(type, timeout, users) ==
  [type |-> type, timeout |-> timeout, users |-> users, bootKnown |-> TRUE,
   faults |-> FALSE, file |-> << >>, reboots |-> 0]

TwoTtys == {OnTty1, OnTty2} \X {"u1"}
OneTty  == {OnTty1} \X {"u1"}

(* One configuration per way of telling tickets apart, then the boot time  *)
(* check, clocks that start again without it, and failing system calls.    *)
SafetyConfigs ==
  { Conf("tty", 2, {OnTty1, OnTty1Later} \X {"u1", "u2"}),
    Conf("tty", -1, {OnTty1, NoTerminal} \X {"u1"}),
    Conf("ppid", 1, {OnTty1, ReusedPid} \X {"u1"}),
    [Conf("global", 2, TwoTtys) EXCEPT !.reboots = 1],
    [Conf("tty", 1, OneTty) EXCEPT !.reboots = 1],
    [Conf("tty", 2, OneTty) EXCEPT !.reboots = 1, !.bootKnown = FALSE],
    [Conf("tty", 2, TwoTtys) EXCEPT !.faults = TRUE] }

(* Files written by an older version: a lock record of the old size, and   *)
(* an old tty record in the first place; and a first record of the current *)
(* size that is not a lock record.                                         *)
UpgradedFile == <<Blank("v1", "lockexcl"), Blank("v1", "tty")>>
OlderFile    == <<Blank("v1", "tty")>>
DamagedFile  == <<Blank("v2", "bad")>>

LiveConfigs ==
  { [Conf("tty", 2, OneTty) EXCEPT !.file = f] :
      f \in {<< >>, OlderFile, DamagedFile} }
  \cup { [Conf("tty", 2, TwoTtys) EXCEPT !.file = UpgradedFile] }

DamagedConfigs == { [Conf("tty", 2, TwoTtys) EXCEPT !.file = DamagedFile] }

NoFileConfigs == { Conf("tty", 0, OneTty) }

Symmetry2 == Permutations({p1, p2}) \cup Permutations({i1, i2, i3})
=============================================================================
