---------------------------- MODULE MCEventLoop ----------------------------
(* Small instances of EventLoop for TLC.                                   *)
EXTENDS EventLoop

(* The signal pipe, a persistent reader and a writer that is added again   *)
(* each time, on one descriptor; a timer; and two signals.                 *)
Io         == {"sigpipe", "reader", "writer"}
Fds        == [e \in Io |-> IF e = "sigpipe" THEN 3 ELSE 4]
TwoSigs    == {"int", "term"}
SigNumbers == [e \in TwoSigs |-> IF e = "int" THEN 1 ELSE 2]
Persistent == {"sigpipe", "reader"}

Blocking   == {{}}
AllModes   == {{}, {"ONCE"}, {"NONBLOCK"}}
AllAdds    == { <<"reader", NoTimeout, FALSE>>, <<"reader", 1, FALSE>>,
                <<"writer", NoTimeout, TRUE>>, <<"timer", 1, FALSE>>,
                <<"int", NoTimeout, FALSE>>, <<"term", NoTimeout, FALSE>> }
LiveAdds   == { <<"reader", 1, FALSE>>, <<"timer", 1, FALSE>>,
                <<"int", NoTimeout, FALSE>> }
=============================================================================
