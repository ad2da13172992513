------------------------------ MODULE MCVisudo ------------------------------
(* Small instances of Visudo for TLC.                                      *)
EXTENDS Visudo

Files(m, i) == [f \in File |-> IF f = Sudoers THEN m ELSE i]
Users(a, b) == [s \in Session |-> IF s = "ann" THEN a ELSE b]
AllKinds    == Files({"good", "bad", "inc", "badinc", "empty"}, {"good", "bad", "empty"})
SomeKinds   == Files({"inc", "bad"}, {"good", "bad"})

Conf(main, saves, kinds, how, noincludes, files, faults) ==
    [main |-> main, saves |-> saves, kinds |-> kinds, how |-> how,
     noincludes |-> noincludes, files |-> files, faults |-> faults]

(* One user: files that are there or not, included or not.                 *)
OneUser ==
    { Conf(Users(Sudoers, Absent), Users(3, 0), AllKinds, how, n, files, {}) :
        how \in {"include", "dir"}, n \in BOOLEAN,
        files \in {Files("inc", "good"), Files("good", "bad"), Files("none", "none")} }

(* Two things go wrong.                                                    *)
Trouble ==
    { Conf(Users(Sudoers, Absent), Users(2, 0), AllKinds, "include", FALSE,
           Files("inc", "good"), {x, y}) :
        x, y \in {"open", "lock", "parser", "write", "clock", "editor", "instant", "chown",
                  "rename", "signal"} }

(* Two users of one file, or one of them of the included file only.        *)
TwoUsers ==
    { Conf(Users(Sudoers, other), Users(2, 1), SomeKinds, how, FALSE, files, {"kill"}) :
        other \in {Sudoers, Included}, how \in {"include", "dir"},
        files \in {Files("inc", "good"), Files("none", "none")} }

MCConfs == OneUser \cup Trouble \cup TwoUsers
=============================================================================
