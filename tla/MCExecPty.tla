----------------------------- MODULE MCExecPty -----------------------------
(* Small instances of ExecPty for TLC.                                     *)
EXTENDS ExecPty

Conf(fg, execbg) ==
  [fg |-> fg, execbg |-> execbg, early |-> FALSE, leader |-> TRUE, others |-> FALSE,
   signals |-> {}, nsignals |-> 0, stops |-> 0, faults |-> {}]

ToSudo(s, from) == <<"main", s, from>>
ToMon(s, from)  == <<"mon", s, from>>

(* Signals for sudo: forwarded ones, the command timeout, and one the      *)
(* command and one the kernel sent.                                        *)
SomeSignals ==
  {ToSudo("TERM", "user"), ToSudo("TSTP", "user"), ToSudo("ALRM", "kernel"),
   ToSudo("TERM", "command"), ToSudo("HUP", "kernel"), ToMon("TERM", "user"),
   ToMon("TERM", "command"), ToMon("TSTP", "user")}

PtyConfigs ==
  { [Conf(TRUE, FALSE) EXCEPT !.stops = 2, !.others = TRUE],
    [Conf(TRUE, TRUE) EXCEPT !.stops = 2],
    [Conf(FALSE, FALSE) EXCEPT !.stops = 1, !.leader = FALSE],
    [Conf(TRUE, FALSE) EXCEPT !.signals = SomeSignals, !.nsignals = 2],
    [Conf(TRUE, FALSE) EXCEPT !.stops = 1, !.signals = SomeSignals, !.nsignals = 1],
    [Conf(TRUE, FALSE) EXCEPT !.signals = SomeSignals, !.nsignals = 1,
                              !.faults = {"exec", "fork"}],
    [Conf(TRUE, FALSE) EXCEPT !.stops = 1, !.faults = {"killMain", "killMonitor"}],
    [Conf(TRUE, FALSE) EXCEPT !.stops = 1, !.faults = {"stopMonitor"}],
    [Conf(TRUE, FALSE) EXCEPT !.stops = 1, !.faults = {"stopMonitor"}, !.leader = FALSE],
    [Conf(TRUE, FALSE) EXCEPT !.early = TRUE, !.nsignals = 1,
       !.signals = {ToSudo("TERM", "user"), ToSudo("TSTP", "user")}] }
=============================================================================
