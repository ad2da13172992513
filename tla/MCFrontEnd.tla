---------------------------- MODULE MCFrontEnd ----------------------------
(* Instances of FrontEnd for TLC.                                          *)
EXTENDS FrontEnd

MCPluginType ==
    [sudoers_policy |-> "policy", sudoers_audit |-> "audit", sudoers_io |-> "io",
     other_policy |-> "policy", other_audit |-> "audit", other_io |-> "io",
     approval |-> "approval", missing |-> "bad"]

Plain == [lines |-> <<>>, mode |-> "run", nout |-> 0, nin |-> 0,
          ownpgrp |-> FALSE, timeout |-> FALSE, refuse |-> FALSE, slow |-> FALSE,
          pbreak |-> FALSE, noclose |-> FALSE, sigs |-> 0, stops |-> 0, trouble |-> 1]

Full == <<"sudoers_policy", "sudoers_audit", "other_audit", "approval",
          "sudoers_io", "other_io">>

(* The modes, with two audit plugins, an approval plugin and two I/O       *)
(* plugins, and the ways to write sudo.conf.                               *)
FrontConfs ==
    {[Plain EXCEPT !.lines = Full, !.mode = m, !.trouble = 2] :
        m \in {"run", "edit", "version", "list", "validate", "invalidate"}}
    \cup {[Plain EXCEPT !.lines = l] :
        l \in {<<>>, <<"other_policy", "other_audit">>, <<"sudoers_policy", "other_policy">>,
               <<"other_io", "other_io">>, <<"sudoers_policy", "sudoers_policy">>,
               <<"other_audit", "missing">>}}
    \cup {[Plain EXCEPT !.lines = <<"other_policy", "other_audit">>, !.noclose = TRUE,
                        !.sigs = 1]}

(* The ways to run a command, with one audit plugin and two I/O plugins.   *)
Two == [Plain EXCEPT !.lines = <<"sudoers_policy", "sudoers_io", "other_io">>]

ExecConfs ==
    {[Two EXCEPT !.nout = 3, !.refuse = TRUE],
     [Two EXCEPT !.nin = 2, !.refuse = TRUE],
     [Two EXCEPT !.nout = 3, !.slow = TRUE, !.pbreak = TRUE],
     [Plain EXCEPT !.nout = 3, !.sigs = 1, !.timeout = TRUE],
     [Two EXCEPT !.stops = 2, !.sigs = 1],
     [Two EXCEPT !.stops = 2, !.sigs = 1, !.ownpgrp = TRUE]}

AllConfs == FrontConfs \cup ExecConfs
=============================================================================
