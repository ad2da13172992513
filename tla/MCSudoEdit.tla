---------------------------- MODULE MCSudoEdit ----------------------------
(***************************************************************************)
(* One user who edits two files, with faults; and two users who edit the   *)
(* same file.                                                              *)
(***************************************************************************)
EXTENDS SudoEdit

MCChunk == {"zero", "o1", "o2", "p1", "p2", "a1", "a2", "a3", "b1", "b2", "b3"}

MCNewText ==
    [s \in Session |-> IF s = "ann" THEN {<<>>, <<"a1">>, <<"a1", "a2", "a3">>}
                       ELSE {<<"b1">>, <<"b1", "b2", "b3">>}]

Args(a, b) == [s \in Session |-> IF s = "ann" THEN a ELSE b]

Firsts(F, G) == {[f \in File |-> IF f = "f" THEN x ELSE y] : x \in F, y \in G}

OneUser ==
    [args : {Args(<<"f", "g">>, <<>>)}, faults : {2}, ticks : {1},
     first : Firsts({Absent, <<"o1">>}, {<<>>, <<"p1", "p2">>})]

TwoUsers ==
    [args : {Args(<<"f">>, <<"f">>)}, faults : {1}, ticks : {0},
     first : Firsts({Absent, <<"o1", "o2">>}, {<<>>})]

MCConfs == OneUser \cup TwoUsers
=============================================================================
