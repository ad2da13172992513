--------------------------- MODULE ExecPtyProofs ---------------------------
(***************************************************************************)
(* Running a command in a pseudo-terminal, for every configuration and any *)
(* number of signals and stops: sudo ends with the status the command      *)
(* ended with, the monitor leaves no command behind and signals no process *)
(* it has waited for, and sudo stops or ends with the terminal restored.   *)
(***************************************************************************)
EXTENDS ExecPtyInvariant

(***************************************************************************)
(* The child, the command and the environment                              *)
(***************************************************************************)
LEMMA CommandMoves ==
  ASSUME Inv, UNCHANGED <<conf, main, sock, tty>>, MonSame, CmdMoves, Forked,
         caught' \in CaughtType, pty' \in {"monitor", "command"},
         env' \in [signals : 0..conf.nsignals, stops : 0..conf.stops, stray : BOOLEAN],
         env'.stray = env.stray
  PROVE  Inv'
<1>1. WaitInv' /\ Stable /\ ChildInv'
  BY MonSameStable, Zenon DEF CmdMoves
<1>2. main.pc # "start" /\ Forked' /\ (MonitorLives' <=> MonitorLives)
  BY Zenon DEF Inv, ForkInv, MonSame, Forked, MonitorLives
<1>3. ForkInv'
  BY <1>2, Zenon DEF Inv, ForkInv
<1>4. TermInv'
  BY <1>2, Zenon DEF Inv, TermInv
<1>5. LoopInv'
  BY <1>2, Zenon DEF Inv, LoopInv, MonSame
<1>6. StatusInv'
  <2>1. PICK c : c = main.cstat
    BY Zenon
  <2>2. Range(sock'.toMain) \subseteq Range(sock.toMain) /\ main'.cstat = c /\ Stored(c)
    BY <2>1, Zenon DEF Inv, StatusInv
  <2> QED
    BY <1>1, <2>2, StatusKept, Zenon
<1>7. TypeOK'
  BY Zenon DEF Inv, TypeOK, MonSame, CmdMoves, CaughtType
<1> QED
  BY <1>1, <1>3, <1>4, <1>5, <1>6, <1>7, Zenon DEF Inv

(* The bounds on what the environment does.                                *)
LEMMA EnvType ==
  ASSUME TypeOK
  PROVE  LET E == [signals : 0..conf.nsignals, stops : 0..conf.stops, stray : BOOLEAN]
         IN  /\ env \in E
             /\ env.stops < conf.stops => [env EXCEPT !.stops = @ + 1] \in E
             /\ env.signals < conf.nsignals => [env EXCEPT !.signals = @ + 1] \in E
             /\ [env EXCEPT !.stops = @ + 1].stray = env.stray
             /\ [env EXCEPT !.signals = @ + 1].stray = env.stray
<1> DEFINE E == [signals : 0..conf.nsignals, stops : 0..conf.stops, stray : BOOLEAN]
<1>1. env \in E /\ conf.nsignals \in Nat /\ conf.stops \in Nat
  BY ConfigsAssumption, Zenon DEF TypeOK
<1>2. env.stops < conf.stops => env.stops + 1 \in 0..conf.stops
  BY <1>1
<1>3. env.signals < conf.nsignals => env.signals + 1 \in 0..conf.nsignals
  BY <1>1
<1> QED
  BY <1>1, <1>2, <1>3, Zenon

LEMMA ChildForked ==
  ASSUME Inv, cmd.st # "none"
  PROVE  Forked /\ TypeOK /\ ChildInv /\ caught \in CaughtType
BY Zenon DEF Inv, WaitInv, Forked, TypeOK, CaughtType

LEMMA ChildStepInv ==
  ASSUME Inv, ChildStep
  PROVE  Inv'
<1>1. cmd.st \in {"waiting", "starting", "failing"}
  BY Zenon DEF ChildStep, ChildGoesAhead, ChildExecs, ChildExecFails, ChildExits
<1>2. Forked /\ TypeOK /\ ChildInv /\ caught \in CaughtType /\ cmd \in CmdType
  BY <1>1, ChildForked, Zenon DEF TypeOK
<1>3. /\ UNCHANGED <<conf, main, sock, tty>> /\ pty' \in {"monitor", "command"} /\ env' = env
      /\ env' \in [signals : 0..conf.nsignals, stops : 0..conf.stops, stray : BOOLEAN]
      /\ MonSame
  BY <1>2, Zenon DEF TypeOK, ChildStep, ChildExits, MonSame
<1>4. CASE ChildGoesAhead /\ UNCHANGED caught
  <2>1. cmd.st = "waiting" /\ cmd' = [cmd EXCEPT !.st = "starting"] /\ err' = err
    BY <1>4, Zenon DEF ChildGoesAhead
  <2>2. /\ cmd' \in CmdType /\ cmd'.st = "starting" /\ cmd'.report = cmd.report
        /\ cmd'.stat = cmd.stat /\ cmd'.execd = cmd.execd
    BY <1>2, <2>1, Zenon DEF CmdType
  <2>3. CmdMoves
    BY <1>2, <2>1, <2>2, Zenon DEF CmdMoves, ChildInv, TypeOK
  <2> QED
    BY <1>2, <1>3, <1>4, <2>3, CommandMoves, Zenon
<1>5. CASE ChildExecs /\ UNCHANGED caught
  <2>1. cmd.st = "starting" /\ cmd' = [cmd EXCEPT !.st = "running", !.execd = TRUE] /\ err' = "eof"
    BY <1>5, Zenon DEF ChildExecs
  <2>2. /\ cmd' \in CmdType /\ cmd'.st = "running" /\ cmd'.report = cmd.report
        /\ cmd'.stat = cmd.stat /\ cmd'.execd = TRUE
    BY <1>2, <2>1, Zenon DEF CmdType
  <2>3. CmdMoves
    BY <1>2, <2>1, <2>2, Zenon DEF CmdMoves, ChildInv, TypeOK
  <2> QED
    BY <1>2, <1>3, <1>5, <2>3, CommandMoves, Zenon
<1>6. CASE ChildExecFails /\ UNCHANGED caught
  <2>1. cmd.st = "starting" /\ cmd' = [cmd EXCEPT !.st = "failing"] /\ err' = "errno"
    BY <1>6, Zenon DEF ChildExecFails
  <2>2. /\ cmd' \in CmdType /\ cmd'.st = "failing" /\ cmd'.report = cmd.report
        /\ cmd'.stat = cmd.stat /\ cmd'.execd = cmd.execd
    BY <1>2, <2>1, Zenon DEF CmdType
  <2>3. CmdMoves
    BY <1>2, <2>1, <2>2, Zenon DEF CmdMoves, ChildInv, TypeOK
  <2> QED
    BY <1>2, <1>3, <1>6, <2>3, CommandMoves, Zenon
<1>7. CASE ChildExits
  <2>1. PICK c : CmdStep(c) /\ CmdBecomes(c)
    BY <1>7, Zenon DEF ChildExits, CmdStep, CmdLives, ExitStats
  <2>2. CmdMoves /\ caught' \in CaughtType
    BY <1>2, <2>1, CmdBecomesMoves, Zenon DEF CaughtType
  <2> QED
    BY <1>2, <1>3, <2>2, CommandMoves, Zenon
<1> QED
  BY <1>4, <1>5, <1>6, <1>7, Zenon DEF ChildStep

LEMMA CommandStep ==
  ASSUME Inv, CommandExits \/ CommandStops \/ OthersContinueOrKill
  PROVE  Inv'
<1>1. cmd.st \in {"running", "stopped"} /\ UNCHANGED <<conf, main, mon, sock, tty, pty>>
  BY Zenon DEF CommandExits, CommandStops, OthersContinueOrKill
<1>2. Forked /\ TypeOK /\ ChildInv
  BY <1>1, ChildForked, Zenon
<1>3. PICK c : CmdStep(c) /\ CmdBecomes(c)
  BY Zenon DEF CommandExits, CommandStops, OthersContinueOrKill, CmdStep, CmdLives, ExitStats, StopStats
<1>4. CmdMoves /\ caught' \in CaughtType
  BY <1>2, <1>3, CmdBecomesMoves, Zenon DEF CaughtType
<1>5. MonSame /\ pty' \in {"monitor", "command"}
  BY <1>1, <1>2, Zenon DEF MonSame, TypeOK
<1>6. /\ env' \in [signals : 0..conf.nsignals, stops : 0..conf.stops, stray : BOOLEAN]
      /\ env'.stray = env.stray
  BY <1>2, EnvType, Zenon DEF CommandExits, CommandStops, OthersContinueOrKill
<1> QED
  BY <1>1, <1>2, <1>4, <1>5, <1>6, CommandMoves, Zenon

LEMMA StopMonitorStep ==
  ASSUME Inv, StopMonitor
  PROVE  Inv'
<1>1. /\ mon' = [mon EXCEPT !.stop = "new"] /\ caught' = Raise(caught, "main", "CHLD", "kernel")
      /\ env' = [env EXCEPT !.stops = @ + 1] /\ env.stops < conf.stops /\ MonitorLives
      /\ UNCHANGED <<conf, main, cmd, sock, err, tty, pty>>
  BY Zenon DEF StopMonitor
<1>2. Forked /\ TypeOK /\ ChildInv
  BY <1>1, Zenon DEF Inv, Forked, MonitorLives
<1>3. MonSame
  BY <1>1, <1>2, Zenon DEF MonSame, TypeOK, MonType
<1>4. CmdMoves
  BY <1>1, <1>2, CmdSame, Zenon
<1>5. caught' \in CaughtType
  <2>1. "CHLD" \in Signals /\ "kernel" \in Senders
    BY SignalNames, Zenon DEF Senders
  <2> QED
    BY <1>1, <1>2, <2>1, RaiseType, Zenon DEF CaughtType
<1>6. /\ env' \in [signals : 0..conf.nsignals, stops : 0..conf.stops, stray : BOOLEAN]
      /\ env'.stray = env.stray
  BY <1>1, <1>2, EnvType, Zenon
<1>7. pty' \in {"monitor", "command"}
  BY <1>1, <1>2, Zenon DEF TypeOK
<1> QED
  BY <1>1, <1>2, <1>3, <1>4, <1>5, <1>6, <1>7, CommandMoves, Zenon

(* Before the fork, signals come only where the configuration says so.     *)
LEMMA SentStep ==
  ASSUME Inv, SignalSent
  PROVE  Inv'
<1>1. TypeOK /\ ChildInv /\ main \in MainType /\ tty \in TtyType
  BY Zenon DEF Inv, TypeOK, TtyType
<1>2. /\ UNCHANGED <<conf, main, mon, cmd, sock, err, tty, pty>>
      /\ env' = [env EXCEPT !.signals = @ + 1] /\ env.signals < conf.nsignals
  BY Zenon DEF SignalSent
<1>3. PICK to \in {"main", "mon"}, s \in Signals, from \in Senders :
        /\ to = "main" => main.pc \in MainLoop \cup {"suspended"} \/ (main.pc = "start" /\ conf.early)
        /\ to = "mon" => MonitorLives
        /\ caught' = Raise(caught, to, s, from)
  BY Zenon DEF SignalSent
<1>4. caught' \in CaughtType
  BY <1>1, <1>3, RaiseType, Zenon DEF CaughtType
<1>5. /\ env' \in [signals : 0..conf.nsignals, stops : 0..conf.stops, stray : BOOLEAN]
      /\ env'.stray = env.stray
  BY <1>1, <1>2, EnvType, Zenon
<1>6. MonSame /\ CmdMoves
  BY <1>1, <1>2, CmdSame, Zenon DEF MonSame, TypeOK
<1>7. WaitInv' /\ Stable /\ ChildInv'
  BY <1>5, <1>6, MonSameStable, Zenon DEF CmdMoves
<1>8. ForkInv' /\ LoopInv'
  BY <1>2, Zenon DEF Inv, ForkInv, LoopInv, Forked, MonitorLives
<1>9. TermInv'
  <2>1. CASE to = "mon"
    <3>1. main.pc # "start"
      BY <1>3, <2>1, Zenon DEF Inv, ForkInv, Forked, MonitorLives
    <3> QED
      BY <1>2, <3>1, Zenon DEF Inv, TermInv
  <2>2. CASE to = "main"
    <3>1. main.pc = "start" => conf.early
      BY <1>3, <2>2, Zenon DEF MainLoop
    <3> QED
      BY <1>2, <3>1, Zenon DEF Inv, TermInv
  <2> QED
    BY <2>1, <2>2, Zenon
<1>10. StatusInv'
  <2>1. PICK c : c = main.cstat
    BY Zenon
  <2>2. Range(sock'.toMain) \subseteq Range(sock.toMain) /\ main'.cstat = c /\ Stored(c)
    BY <1>2, <2>1, Zenon DEF Inv, StatusInv
  <2> QED
    BY <1>6, <1>7, <2>2, StatusKept, Zenon
<1>11. TypeOK'
  BY <1>1, <1>2, <1>4, <1>5, Zenon DEF TypeOK, CaughtType
<1> QED
  BY <1>7, <1>8, <1>9, <1>10, <1>11, Zenon DEF Inv

(***************************************************************************)
(* The monitor                                                             *)
(***************************************************************************)
LEMMA MonMoves ==
  ASSUME Inv, UNCHANGED <<conf, main, tty>>, Forked, Forked', mon' \in MonType,
         cmd' \in CmdType, err' \in {"empty", "errno", "eof"}, sock' \in SockType,
         caught' \in CaughtType, pty' \in {"monitor", "command"},
         env' \in [signals : 0..conf.nsignals, stops : 0..conf.stops, stray : BOOLEAN],
         ChildInv', WaitInv', Stable, mon'.pc = "service" => mon'.active # << >>,
         sock.toMain # << >> \/ ~MonitorLives => sock'.toMain # << >> \/ ~MonitorLives',
         \A m \in Range(sock'.toMain) : m \in Range(sock.toMain) \/ Sent(m)',
         KeptInv'
  PROVE  Inv'
<1>1. main.pc # "start"
  BY Zenon DEF Inv, ForkInv
<1>2. ForkInv'
  BY <1>1, Zenon DEF Inv, ForkInv
<1>3. TermInv'
  BY <1>1, Zenon DEF Inv, TermInv
<1>4. LoopInv'
  BY Zenon DEF Inv, LoopInv
<1>5. StatusInv'
  <2>1. \A m \in Range(sock'.toMain) : Sent(m)'
    BY HappenedStays, Zenon DEF Inv, StatusInv
  <2>2. PICK c : c = main.cstat
    BY Zenon
  <2>3. Stored(c)'
    BY <2>2, HappenedStays, Zenon DEF Inv, StatusInv
  <2> QED
    BY <2>1, <2>2, <2>3, Zenon DEF StatusInv
<1>6. TypeOK'
  BY Zenon DEF Inv, TypeOK, SockType, CaughtType
<1> QED
  BY <1>2, <1>3, <1>4, <1>5, <1>6, Zenon DEF Inv

(* The monitor keeps its status.                                           *)
LEMMA KeptStays ==
  ASSUME Inv, Stable, mon'.cstat = mon.cstat
  PROVE  KeptInv'
<1>1. PICK m : m = mon.cstat
  BY Zenon
<1>2. Happened(m) => Happened(m)'
  BY HappenedStays, Zenon
<1> QED
  BY <1>1, <1>2, Zenon DEF Inv, StatusInv, KeptInv, Keepable

LEMMA MonFacts ==
  ASSUME Inv
  PROVE  /\ TypeOK /\ ForkInv /\ WaitInv /\ ChildInv /\ StatusInv /\ LoopInv
         /\ mon \in MonType /\ cmd \in CmdType /\ sock \in SockType /\ caught \in CaughtType
         /\ pty \in {"monitor", "command"} /\ err \in {"empty", "errno", "eof"}
         /\ env \in [signals : 0..conf.nsignals, stops : 0..conf.stops, stray : BOOLEAN]
BY Zenon DEF Inv, TypeOK, SockType, CaughtType

LEMMA ToMainType ==
  ASSUME TypeOK, NEW m \in ToMain
  PROVE  /\ ToMainWith(m) \in Seq(ToMain)
         /\ \A k \in Range(ToMainWith(m)) : k \in Range(sock.toMain) \/ k = m
         /\ sock.toMain # << >> => ToMainWith(m) # << >>
<1>1. sock.toMain \in Seq(ToMain)
  BY Zenon DEF TypeOK
<1>2. /\ Append(sock.toMain, m) \in Seq(ToMain) /\ Append(sock.toMain, m) # << >>
      /\ \A k \in Range(Append(sock.toMain, m)) : k \in Range(sock.toMain) \/ k = m
  BY <1>1 DEF Range
<1> QED
  BY <1>1, <1>2, Zenon DEF ToMainWith

LEMMA ForksStep ==
  ASSUME Inv, MonitorForks
  PROVE  Inv'
<1>1. /\ mon.pc = "go" /\ mon' = [mon EXCEPT !.pc = "setup", !.cmnd = TRUE]
      /\ sock' = [sock EXCEPT !.toMon = IF @ = << >> THEN @ ELSE Tail(@)]
      /\ cmd' = [cmd EXCEPT !.st = IF CmndForeground THEN "waiting" ELSE "starting"]
      /\ UNCHANGED <<conf, main, err, caught, tty, pty, env>>
  BY Zenon DEF MonitorForks
<1>2. /\ TypeOK /\ ForkInv /\ WaitInv /\ ChildInv /\ StatusInv /\ LoopInv
      /\ mon \in MonType /\ cmd \in CmdType /\ sock \in SockType /\ caught \in CaughtType
      /\ pty \in {"monitor", "command"} /\ err \in {"empty", "errno", "eof"}
      /\ env \in [signals : 0..conf.nsignals, stops : 0..conf.stops, stray : BOOLEAN]
  BY MonFacts, Zenon
<1>3. cmd.st = "none" /\ ~env.stray /\ Forked /\ MonitorLives
  BY <1>1, <1>2, Zenon DEF WaitInv, Forked, MonitorLives
<1>4. mon' \in MonType /\ mon'.pc = "setup" /\ mon'.cmnd = TRUE /\ mon'.cstat = mon.cstat
  BY <1>1, <1>2, Zenon DEF MonType
<1>5. (IF sock.toMon = << >> THEN sock.toMon ELSE Tail(sock.toMon)) \in Seq(ToMonitor)
  BY <1>2 DEF SockType
<1>6. sock' \in SockType /\ sock'.toMain = sock.toMain
  BY <1>1, <1>2, <1>5, Zenon DEF SockType
<1>7. /\ cmd' \in CmdType /\ cmd'.st \in {"waiting", "starting"} /\ cmd'.stat = cmd.stat
      /\ cmd'.report = cmd.report /\ cmd'.execd = cmd.execd
  BY <1>1, <1>2, Zenon DEF CmdType
<1>8. ChildInv'
  BY <1>1, <1>2, <1>3, <1>7, Zenon DEF ChildInv
<1>9. WaitInv'
  BY <1>1, <1>3, <1>4, <1>7, Zenon DEF WaitInv, MonLoop
<1>10. Stable
  BY <1>1, <1>3, <1>7, Zenon DEF Stable, MonitorEnded
<1>11. KeptInv'
  BY <1>4, <1>10, KeptStays, Zenon
<1>12. Forked' /\ MonitorLives'
  BY <1>4, Zenon DEF Forked, MonitorLives
<1>13. mon'.pc # "service"
  BY <1>4, Zenon
<1> QED
  BY <1>1, <1>2, <1>3, <1>4, <1>6, <1>7, <1>8, <1>9, <1>10, <1>11, <1>12, <1>13, MonMoves, Zenon

LEMMA SetupStep ==
  ASSUME Inv, MonitorSetup
  PROVE  Inv'
<1>1. /\ mon.pc = "setup" /\ mon' = [mon EXCEPT !.pc = "poll"]
      /\ sock' = [sock EXCEPT !.toMain = ToMainWith(CS("PID", "0"))]
      /\ pty' = IF CmndForeground THEN "command" ELSE pty
      /\ cmd' = IF cmd.st = "waiting" THEN [cmd EXCEPT !.st = "starting"] ELSE cmd
      /\ UNCHANGED <<conf, main, err, caught, tty, env>>
  BY Zenon DEF MonitorSetup
<1>2. /\ TypeOK /\ ForkInv /\ WaitInv /\ ChildInv /\ StatusInv /\ LoopInv
      /\ mon \in MonType /\ cmd \in CmdType /\ sock \in SockType /\ caught \in CaughtType
      /\ pty \in {"monitor", "command"} /\ err \in {"empty", "errno", "eof"}
      /\ env \in [signals : 0..conf.nsignals, stops : 0..conf.stops, stray : BOOLEAN]
  BY MonFacts, Zenon
<1>3. ~env.stray /\ Forked /\ MonitorLives
  BY <1>1, <1>2, Zenon DEF WaitInv, Forked, MonitorLives
<1>4. mon' \in MonType /\ mon'.pc = "poll" /\ mon'.cmnd = mon.cmnd /\ mon'.cstat = mon.cstat
  BY <1>1, <1>2, Zenon DEF MonType
<1>5. PICK m \in ToMain : m = CS("PID", "0") /\ Sent(m)'
  <2>1. PICK m \in ToMain : m = CS("PID", "0") /\ m.type = "PID"
    <3>1. CS("PID", "0") \in ToMain /\ CS("PID", "0").type = "PID"
      BY Zenon DEF CS, ToMain
    <3> QED
      BY <3>1, Zenon
  <2>2. Sent(m)'
    BY <2>1, Zenon DEF Sent, Happened
  <2> QED
    BY <2>1, <2>2, Zenon
<1>6. /\ sock' \in SockType /\ sock'.toMain = ToMainWith(m)
      /\ \A k \in Range(sock'.toMain) : k \in Range(sock.toMain) \/ k = m
      /\ sock.toMain # << >> => sock'.toMain # << >>
  BY <1>1, <1>2, <1>5, ToMainType, Zenon DEF SockType
<1>7. CmdMoves
  <2>1. CASE cmd.st = "waiting"
    <3>1. /\ cmd' \in CmdType /\ cmd'.st = "starting" /\ cmd'.stat = cmd.stat
          /\ cmd'.report = cmd.report /\ cmd'.execd = cmd.execd
      BY <1>1, <1>2, <2>1, Zenon DEF CmdType
    <3> QED
      BY <1>1, <1>2, <2>1, <3>1, Zenon DEF ChildInv, CmdMoves
  <2>2. CASE cmd.st # "waiting"
    BY <1>1, <1>2, <2>2, CmdSame, Zenon
  <2> QED
    BY <2>1, <2>2, Zenon
<1>8. WaitInv'
  BY <1>1, <1>2, <1>4, <1>7, Zenon DEF WaitInv, MonLoop, CmdMoves
<1>9. Stable
  BY <1>1, <1>7, Zenon DEF Stable, CmdMoves, MonitorEnded
<1>10. KeptInv'
  BY <1>4, <1>9, KeptStays, Zenon
<1>11. Forked' /\ MonitorLives' /\ mon'.pc # "service" /\ pty' \in {"monitor", "command"}
  BY <1>1, <1>2, <1>4, Zenon DEF Forked, MonitorLives
<1> QED
  BY <1>1, <1>2, <1>3, <1>4, <1>5, <1>6, <1>7, <1>8, <1>9, <1>10, <1>11, MonMoves, Zenon
     DEF CmdMoves

(* What a callback of the monitor leaves of its closure.                   *)
SameMon(p, q) ==
  q.cmnd = p.cmnd /\ q.cstat = p.cstat /\ q.active = p.active

LEMMA PoppedMon ==
  ASSUME Inv, mon.pc = "service"
  PROVE  LET p == Popped(mon)
         IN  p \in MonType /\ p.cmnd = mon.cmnd /\ p.cstat = mon.cstat
<1>1. mon \in MonType /\ mon.active \in Queue /\ mon.active # << >>
  BY Zenon DEF Inv, TypeOK, LoopInv, MonType
<1>2. Tail(mon.active) \in Queue
  BY <1>1 DEF Queue
<1> QED
  BY <1>1, <1>2, Zenon DEF Popped, MonType

LEMMA MonFlags ==
  ASSUME NEW p \in MonType
  PROVE  /\ LoopExit(p) \in MonType /\ SameMon(p, LoopExit(p))
         /\ LoopBreak(p) \in MonType /\ SameMon(p, LoopBreak(p))
<1>1. LoopExit(p) \in MonType /\ SameMon(p, LoopExit(p))
  BY Zenon DEF LoopExit, MonType, SameMon
<1>2. LoopBreak(p) \in MonType /\ SameMon(p, LoopBreak(p))
  BY Zenon DEF LoopBreak, MonType, SameMon
<1> QED
  BY <1>1, <1>2, Zenon

(* The types of all that a step of the monitor may change.                 *)
MonTypes ==
  /\ cmd' \in CmdType /\ err' \in {"empty", "errno", "eof"} /\ sock' \in SockType
  /\ caught' \in CaughtType /\ pty' \in {"monitor", "command"}
  /\ env' \in [signals : 0..conf.nsignals, stops : 0..conf.stops, stray : BOOLEAN]

(* In its loop, the monitor goes on from a closure p.                      *)
LEMMA MonGoesOn ==
  ASSUME Inv, mon.pc \in MonLoop, UNCHANGED <<conf, main, tty>>,
         NEW p \in MonType, mon' = Settle(p), MonTypes, ChildInv', ~env'.stray,
         p.cmnd <=> cmd'.st # "reaped",
         cmd.st = "reaped" => cmd'.st = "reaped" /\ cmd'.stat = cmd.stat,
         err = "errno" /\ ~cmd.execd => err' = "errno" /\ ~cmd'.execd,
         sock.toMain # << >> => sock'.toMain # << >>,
         \A m \in Range(sock'.toMain) : m \in Range(sock.toMain) \/ Sent(m)',
         Keepable(p.cstat)'
  PROVE  Inv'
<1>1. /\ mon' \in MonType /\ LikeMon(p, mon') /\ mon'.pc \in {"after", "poll", "service"}
      /\ mon'.pc = "service" => mon'.active # << >>
  BY SettleMon, Zenon
<1>2. WaitInv'
  BY <1>1, Zenon DEF WaitInv, MonLoop, LikeMon
<1>3. Forked /\ Forked' /\ MonitorLives /\ MonitorLives'
  BY <1>1, Zenon DEF Forked, MonLoop, MonitorLives
<1>4. Stable
  BY Zenon DEF Stable, MonitorEnded, MonLoop
<1>5. KeptInv'
  BY <1>1, Zenon DEF KeptInv, LikeMon
<1> QED
  BY <1>1, <1>2, <1>3, <1>4, <1>5, MonMoves, Zenon DEF MonTypes

(* The monitor ends, by itself or not.                                     *)
LEMMA MonEnds ==
  ASSUME Inv, MonitorLives, UNCHANGED <<conf, main, cmd, err, tty, env>>,
         NEW pc \in {"gone", "killed"},
         mon' = [mon EXCEPT !.pc = pc, !.active = << >>, !.stop = "no"],
         pc = "gone" => cmd.st \in {"none", "reaped"},
         pty' \in {"monitor", "command"}, sock' \in SockType, caught' \in CaughtType,
         \A m \in Range(sock'.toMain) : m \in Range(sock.toMain) \/ Sent(m)'
  PROVE  Inv'
<1>1. /\ TypeOK /\ ForkInv /\ WaitInv /\ ChildInv /\ StatusInv /\ LoopInv
      /\ mon \in MonType /\ cmd \in CmdType /\ sock \in SockType /\ caught \in CaughtType
      /\ pty \in {"monitor", "command"} /\ err \in {"empty", "errno", "eof"}
      /\ env \in [signals : 0..conf.nsignals, stops : 0..conf.stops, stray : BOOLEAN]
  BY MonFacts, Zenon
<1>2. mon' \in MonType /\ mon'.pc = pc /\ mon'.cstat = mon.cstat
  BY <1>1, EmptyQueue, Zenon DEF MonType
<1>3. WaitInv'
  BY <1>1, <1>2, Zenon DEF WaitInv, MonLoop
<1>4. ChildInv'
  BY <1>1, Zenon DEF ChildInv
<1>5. Stable
  BY <1>2, Zenon DEF Stable, MonitorEnded, MonitorLives
<1>6. KeptInv'
  BY <1>2, <1>5, KeptStays, Zenon
<1>7. Forked /\ Forked' /\ ~MonitorLives' /\ mon'.pc # "service"
  BY <1>2, Zenon DEF Forked, MonitorLives
<1> QED
  BY <1>1, <1>2, <1>3, <1>4, <1>5, <1>6, <1>7, MonMoves, Zenon

LEMMA EndsStep ==
  ASSUME Inv, MonitorFails \/ MonFinish \/ KillMonitor
  PROVE  Inv'
<1>1. /\ TypeOK /\ ForkInv /\ WaitInv /\ ChildInv /\ StatusInv /\ LoopInv
      /\ mon \in MonType /\ cmd \in CmdType /\ sock \in SockType /\ caught \in CaughtType
      /\ pty \in {"monitor", "command"} /\ err \in {"empty", "errno", "eof"}
      /\ env \in [signals : 0..conf.nsignals, stops : 0..conf.stops, stray : BOOLEAN]
  BY MonFacts, Zenon
<1>2. ASSUME NEW pc, NEW t \in Seq(ToMain), MonitorGone(pc, t)
      PROVE  /\ mon' = [mon EXCEPT !.pc = pc, !.active = << >>, !.stop = "no"]
             /\ sock' \in SockType /\ sock'.toMain = t /\ caught' \in CaughtType
  <2>1. "CHLD" \in Signals /\ "kernel" \in Senders /\ (sock.toMon # << >>) \in BOOLEAN
    BY SignalNames, Zenon DEF Senders
  <2>2. caught' \in CaughtType
    BY <1>1, <1>2, <2>1, RaiseType, Zenon DEF MonitorGone, CaughtType
  <2>3. sock' = [sock EXCEPT !.toMain = t, !.reset = sock.toMon # << >>]
    BY <1>2, Zenon DEF MonitorGone
  <2>4. sock' \in SockType /\ sock'.toMain = t
    BY <1>1, <2>1, <2>3, Zenon DEF SockType
  <2> QED
    BY <1>2, <2>2, <2>4, Zenon DEF MonitorGone
<1>3. CASE MonitorFails
  <2>1. /\ mon.pc = "go" /\ MonitorLives /\ UNCHANGED <<conf, main, cmd, err, tty, pty, env>>
        /\ MonitorGone("gone", ToMainWith(CS("ERRNO", "FORK"))) /\ cmd.st = "none"
    BY <1>1, <1>3, Zenon DEF MonitorFails, MonitorLives, WaitInv
  <2>2. PICK m \in ToMain : m = CS("ERRNO", "FORK") /\ m.type = "ERRNO" /\ m.val = "FORK"
    <3>1. /\ CS("ERRNO", "FORK") \in ToMain /\ CS("ERRNO", "FORK").type = "ERRNO"
          /\ CS("ERRNO", "FORK").val = "FORK"
      BY Zenon DEF CS, ToMain, Statuses, NoStatus, Errnos
    <3> QED
      BY <3>1, Zenon
  <2>3. PICK t \in Seq(ToMain) : /\ t = ToMainWith(m)
                                 /\ \A k \in Range(t) : k \in Range(sock.toMain) \/ k = m
    BY <1>1, ToMainType, Zenon
  <2>4. /\ mon' = [mon EXCEPT !.pc = "gone", !.active = << >>, !.stop = "no"]
        /\ sock' \in SockType /\ sock'.toMain = t /\ caught' \in CaughtType
    BY <1>2, <2>1, <2>2, <2>3, Zenon
  <2>5. mon'.pc = "gone"
    BY <1>1, <2>4, Zenon DEF MonType
  <2>6. Sent(m)'
    BY <2>1, <2>2, <2>5, Zenon DEF Sent, Happened
  <2> QED
    BY <1>1, <2>1, <2>3, <2>4, <2>6, MonEnds, Zenon
<1>4. CASE MonFinish
  <2>1. /\ mon.pc = "finish" /\ MonitorLives /\ UNCHANGED <<conf, main, cmd, err, tty, env>>
        /\ pty' = "monitor" /\ MonitorGone("gone", send_status(mon.cstat)) /\ cmd.st = "reaped"
    BY <1>1, <1>4, Zenon DEF MonFinish, MonitorLives, WaitInv
  <2>2. PICK m \in Statuses : m = mon.cstat
    BY <1>1, Zenon DEF MonType
  <2>3. PICK t \in Seq(ToMain) : /\ t = send_status(m)
                                 /\ \A k \in Range(t) : k \in Range(sock.toMain)
                                                        \/ (k = m /\ m.type # "INVALID")
    <3>1. m.type # "INVALID" => m \in ToMain
      BY <2>2 DEF ToMain, NoStatus, CS
    <3>2. CASE m.type = "INVALID"
      BY <1>1, <3>2, Zenon DEF send_status, SockType
    <3>3. CASE m.type # "INVALID"
      BY <1>1, <3>1, <3>3, ToMainType, Zenon DEF send_status
    <3> QED
      BY <3>2, <3>3, Zenon
  <2>4. /\ mon' = [mon EXCEPT !.pc = "gone", !.active = << >>, !.stop = "no"]
        /\ sock' \in SockType /\ sock'.toMain = t /\ caught' \in CaughtType
    BY <1>2, <2>1, <2>2, <2>3, Zenon
  <2>5. mon'.pc = "gone" /\ mon'.cstat = m
    BY <1>1, <2>2, <2>4, Zenon DEF MonType
  <2>6. Sent(m)'
    <3>1. Stable
      BY <2>1, <2>5, Zenon DEF Stable, MonitorEnded
    <3>2. Keepable(m)'
      BY <2>5, <3>1, <2>2, KeptStays, Zenon DEF KeptInv
    <3> QED
      BY <2>5, <3>2, <2>2, Zenon DEF Sent, Happened, Keepable, MonitorEnded, Statuses, NoStatus, CS
  <2> QED
    BY <1>1, <2>1, <2>3, <2>4, <2>6, MonEnds, Zenon
<1>5. CASE KillMonitor
  <2>1. /\ MonitorLives /\ UNCHANGED <<conf, main, cmd, err, tty, pty, env>>
        /\ MonitorGone("killed", sock.toMain)
    BY <1>5, Zenon DEF KillMonitor
  <2>2. PICK t \in Seq(ToMain) : t = sock.toMain
    BY <1>1, Zenon DEF SockType
  <2>3. /\ mon' = [mon EXCEPT !.pc = "killed", !.active = << >>, !.stop = "no"]
        /\ sock' \in SockType /\ sock'.toMain = t /\ caught' \in CaughtType
    BY <1>2, <2>1, <2>2, Zenon
  <2>4. "killed" # "gone"
    BY Zenon
  <2> QED
    BY <1>1, <2>1, <2>2, <2>3, <2>4, MonEnds, Zenon
<1> QED
  BY <1>3, <1>4, <1>5, Zenon

LEMMA MonScanStep ==
  ASSUME Inv, MonPoll \/ MonPollInterrupted
  PROVE  Inv'
<1>1. /\ TypeOK /\ ForkInv /\ WaitInv /\ ChildInv /\ StatusInv /\ LoopInv
      /\ mon \in MonType /\ cmd \in CmdType /\ sock \in SockType /\ caught \in CaughtType
      /\ pty \in {"monitor", "command"} /\ err \in {"empty", "errno", "eof"}
      /\ env \in [signals : 0..conf.nsignals, stops : 0..conf.stops, stray : BOOLEAN]
  BY MonFacts, Zenon
<1>2. mon.pc = "poll" /\ UNCHANGED <<conf, main, cmd, sock, err, tty, pty, env>>
  BY Zenon DEF MonPoll, MonPollInterrupted
<1>3. PICK a \in Queue : a # << >> /\ mon' = [mon EXCEPT !.pc = "service", !.active = a]
  <2>1. CASE MonPoll
    <3> DEFINE list  == <<"sigpipe", "errsock", "back">>
               ready == {e \in {"sigpipe", "errsock", "back"} : MonReady(e)}
               f == Filter(list, ready)
               a == [i \in 1 .. Len(f) |-> Io(f[i])]
    <3>1. ready # {} /\ mon' = [mon EXCEPT !.pc = "service", !.active = a]
      BY <2>1, Zenon DEF MonPoll, Scan
    <3>2. list \in Seq(Events) /\ Once(list)
      BY DEF Events, Once
    <3>3. \A e \in {"sigpipe", "errsock", "back"} : e \in Range(list)
      BY DEF Range
    <3>4. ready \cap Range(list) # {}
      BY <3>1, <3>3, Zenon
    <3> HIDE DEF list, ready
    <3>5. a \in Queue /\ a # << >>
      BY <3>2, <3>4, ScanType, Zenon
    <3> QED
      BY <3>1, <3>5, Zenon
  <2>2. CASE MonPollInterrupted
    BY <1>1, <2>2, PendingQueue, Zenon DEF MonPollInterrupted
  <2> QED
    BY <2>1, <2>2, Zenon
<1>4. /\ mon' \in MonType /\ mon'.pc = "service" /\ mon'.active # << >>
      /\ mon'.cmnd = mon.cmnd /\ mon'.cstat = mon.cstat
  BY <1>1, <1>3, Zenon DEF MonType
<1>5. caught' \in CaughtType
  BY <1>1, DrainedType, Zenon DEF MonPoll, MonPollInterrupted, CaughtType
<1>6. WaitInv'
  BY <1>1, <1>2, <1>4, Zenon DEF WaitInv, MonLoop
<1>7. ChildInv'
  BY <1>1, <1>2, Zenon DEF ChildInv
<1>8. Stable
  BY <1>2, Zenon DEF Stable, MonitorEnded
<1>9. KeptInv'
  BY <1>4, <1>8, KeptStays, Zenon
<1>10. Forked /\ Forked' /\ MonitorLives /\ MonitorLives'
  BY <1>2, <1>4, Zenon DEF Forked, MonitorLives
<1> QED
  BY <1>1, <1>2, <1>4, <1>5, <1>6, <1>7, <1>8, <1>9, <1>10, MonMoves, Zenon

(* A callback that only looks.                                             *)
LEMMA MonLooks ==
  ASSUME Inv, mon.pc \in MonLoop, UNCHANGED <<conf, main, cmd, sock, err, tty, pty, env>>,
         caught' \in CaughtType, NEW p \in MonType, mon' = Settle(p), p.cmnd = mon.cmnd,
         Keepable(p.cstat)
  PROVE  Inv'
<1>1. /\ TypeOK /\ ForkInv /\ WaitInv /\ ChildInv /\ StatusInv /\ LoopInv
      /\ mon \in MonType /\ cmd \in CmdType /\ sock \in SockType /\ caught \in CaughtType
      /\ pty \in {"monitor", "command"} /\ err \in {"empty", "errno", "eof"}
      /\ env \in [signals : 0..conf.nsignals, stops : 0..conf.stops, stray : BOOLEAN]
  BY MonFacts, Zenon
<1>2. MonTypes
  BY <1>1, Zenon DEF MonTypes
<1>3. ChildInv' /\ ~env'.stray /\ (p.cmnd <=> cmd'.st # "reaped")
  BY <1>1, Zenon DEF ChildInv, WaitInv
<1>4. Stable
  BY SettleMon, Zenon DEF Stable, MonitorEnded, MonLoop
<1>5. Keepable(p.cstat)'
  <2>1. PICK m : m = p.cstat
    BY Zenon
  <2>2. Happened(m) => Happened(m)'
    BY <1>4, HappenedStays, Zenon
  <2> QED
    BY <2>1, <2>2, Zenon DEF Keepable
<1> QED
  BY <1>2, <1>3, <1>5, MonGoesOn, Zenon

LEMMA MonPipeStep ==
  ASSUME Inv, MonSignalPipe
  PROVE  Inv'
<1>1. /\ mon.pc = "service" /\ mon.pc \in MonLoop
      /\ UNCHANGED <<conf, main, cmd, sock, err, tty, pty, env>> /\ caught' = Drained("mon")
      /\ mon' = Settle([mon EXCEPT !.active = Tail(@) \o Pending("mon")])
  BY Zenon DEF MonSignalPipe, Running, MonLoop
<1>2. TypeOK /\ mon \in MonType /\ KeptInv /\ mon.active \in Queue /\ mon.active # << >>
  BY <1>1, Zenon DEF Inv, TypeOK, MonType, StatusInv, LoopInv
<1>3. PICK a \in Queue : a = Tail(mon.active) \o Pending("mon")
  <2>1. Pending("mon") \in Queue
    BY <1>2, PendingQueue, Zenon
  <2>2. Tail(mon.active) \o Pending("mon") \in Queue
    BY <1>2, <2>1 DEF Queue
  <2> QED
    BY <2>2, Zenon
<1>4. PICK p \in MonType : /\ p = [mon EXCEPT !.active = a] /\ p.cmnd = mon.cmnd
                           /\ p.cstat = mon.cstat
  <2> DEFINE t == [mon EXCEPT !.active = a]
  <2>1. t \in MonType /\ t.cmnd = mon.cmnd /\ t.cstat = mon.cstat
    BY <1>2, Zenon DEF MonType
  <2> QED
    BY <2>1, Zenon
<1>5. mon' = Settle(p) /\ Keepable(p.cstat)
  BY <1>1, <1>2, <1>3, <1>4, Zenon DEF KeptInv
<1>6. caught' \in CaughtType
  BY <1>1, <1>2, DrainedType, Zenon DEF CaughtType
<1> QED
  BY <1>1, <1>4, <1>5, <1>6, MonLooks, Zenon

LEMMA ErrsockStep ==
  ASSUME Inv, mon_errsock_cb
  PROVE  Inv'
<1>1. /\ mon.pc = "service" /\ mon.pc \in MonLoop
      /\ UNCHANGED <<conf, main, cmd, sock, err, caught, tty, pty, env>>
      /\ mon' = Settle([Popped(mon) EXCEPT
                          !.errsock = FALSE,
                          !.cstat = IF err = "errno" THEN CS("ERRNO", "EXEC") ELSE @])
  BY Zenon DEF mon_errsock_cb, Running, MonLoop
<1>2. TypeOK /\ KeptInv /\ ChildInv /\ caught \in CaughtType
  BY Zenon DEF Inv, TypeOK, StatusInv, CaughtType
<1>3. PICK o \in MonType : o = Popped(mon) /\ o.cmnd = mon.cmnd /\ o.cstat = mon.cstat
  BY <1>1, PoppedMon, Zenon
<1>4. CS("ERRNO", "EXEC") \in Statuses
  BY Zenon DEF CS, Statuses, Errnos
<1>5. PICK m \in Statuses : m = IF err = "errno" THEN CS("ERRNO", "EXEC") ELSE o.cstat
  BY <1>4, Zenon DEF MonType
<1>6. Keepable(m)
  <2>1. CASE err # "errno"
    BY <1>2, <1>3, <1>5, <2>1, Zenon DEF KeptInv
  <2>2. CASE err = "errno"
    <3>1. m.type = "ERRNO" /\ m.val = "EXEC"
      BY <1>5, <2>2, Zenon DEF CS
    <3> QED
      BY <1>2, <2>2, <3>1, Zenon DEF Keepable, Happened, ChildInv
  <2> QED
    BY <2>1, <2>2, Zenon
<1>7. PICK p \in MonType : /\ p = [o EXCEPT !.errsock = FALSE, !.cstat = m]
                           /\ p.cmnd = o.cmnd /\ p.cstat = m
  <2> DEFINE t == [o EXCEPT !.errsock = FALSE, !.cstat = m]
  <2>1. t \in MonType /\ t.cmnd = o.cmnd /\ t.cstat = m
    BY Zenon DEF MonType
  <2> QED
    BY <2>1, Zenon
<1>8. mon' = Settle(p)
  BY <1>1, <1>3, <1>5, <1>7, Zenon
<1> QED
  BY <1>1, <1>2, <1>3, <1>6, <1>7, <1>8, MonLooks, Zenon

(* deliver_signal() does not signal a command that was waited for.         *)
LEMMA DeliverStep ==
  ASSUME Inv, mon.pc = "service", NEW sig, deliver_signal(sig), mon' = Settle(Popped(mon)),
         UNCHANGED <<conf, main, tty>>, sock' \in SockType, sock'.toMain = sock.toMain
  PROVE  Inv'
<1>1. /\ TypeOK /\ ForkInv /\ WaitInv /\ ChildInv /\ StatusInv /\ LoopInv
      /\ mon \in MonType /\ cmd \in CmdType /\ sock \in SockType /\ caught \in CaughtType
      /\ pty \in {"monitor", "command"} /\ err \in {"empty", "errno", "eof"}
      /\ env \in [signals : 0..conf.nsignals, stops : 0..conf.stops, stray : BOOLEAN]
  BY MonFacts, Zenon
<1>2. mon.pc \in MonLoop
  BY Zenon DEF MonLoop
<1>3. PICK c : CmdStep(c) /\ CmdBecomes(c)
  BY EffectsStep, Zenon DEF deliver_signal, CmdStep
<1>4. CmdMoves /\ caught' \in CaughtType
  BY <1>1, <1>3, CmdBecomesMoves, Zenon DEF CaughtType
<1>5. (mon.cmnd <=> cmd.st # "reaped") /\ ~env.stray
  BY <1>1, <1>2, Zenon DEF WaitInv
<1>6. env' = [env EXCEPT !.stray = @ \/ (mon.cmnd /\ cmd.st = "reaped")]
  BY Zenon DEF deliver_signal
<1>7. (env.stray \/ (mon.cmnd /\ cmd.st = "reaped")) = FALSE
  BY <1>1, <1>5, Zenon
<1>8. /\ env' \in [signals : 0..conf.nsignals, stops : 0..conf.stops, stray : BOOLEAN]
      /\ ~env'.stray
  BY <1>1, <1>6, <1>7, Zenon
<1>9. pty' \in {"monitor", "command"}
  BY <1>1, Zenon DEF deliver_signal
<1>10. PICK p \in MonType : p = Popped(mon) /\ p.cmnd = mon.cmnd /\ p.cstat = mon.cstat
  BY PoppedMon, Zenon
<1>11. MonTypes /\ ChildInv'
  BY <1>4, <1>8, <1>9, Zenon DEF MonTypes, CmdMoves
<1>12. Stable
  BY <1>4, <1>10, SettleMon, Zenon DEF Stable, MonitorEnded, CmdMoves
<1>13. Keepable(p.cstat)'
  <2>1. PICK m : m = p.cstat
    BY Zenon
  <2>2. Happened(m) => Happened(m)'
    BY <1>12, HappenedStays, Zenon
  <2> QED
    BY <1>1, <1>10, <2>1, <2>2, Zenon DEF Keepable, KeptInv, StatusInv
<1>14. p.cmnd <=> cmd'.st # "reaped"
  BY <1>4, <1>5, <1>10, Zenon DEF CmdMoves
<1> QED
  BY <1>2, <1>8, <1>10, <1>11, <1>12, <1>13, <1>14, MonGoesOn, Zenon DEF Stable

LEMMA MonBackStep ==
  ASSUME Inv, mon_backchannel_cb
  PROVE  Inv'
<1>1. mon.pc = "service" /\ mon.pc \in MonLoop /\ UNCHANGED <<conf, main, tty>>
  BY Zenon DEF mon_backchannel_cb, Running, MonLoop
<1>2. sock \in SockType /\ caught \in CaughtType
  BY Zenon DEF Inv, TypeOK, SockType, CaughtType
<1>3. CASE /\ sock.toMon # << >> /\ mon' = Settle(Popped(mon))
           /\ sock' = [sock EXCEPT !.toMon = Tail(@)] /\ deliver_signal(Head(sock.toMon).val)
  <2>1. Tail(sock.toMon) \in Seq(ToMonitor)
    BY <1>2, <1>3 DEF SockType
  <2>2. sock' \in SockType /\ sock'.toMain = sock.toMain
    BY <1>2, <1>3, <2>1, Zenon DEF SockType
  <2>3. PICK sig : sig = Head(sock.toMon).val
    BY Zenon
  <2>4. deliver_signal(sig)
    BY <1>3, <2>3, Zenon
  <2> QED
    BY <1>1, <1>3, <2>2, <2>4, DeliverStep, Zenon
<1>4. CASE /\ mon' = Settle(LoopBreak([Popped(mon) EXCEPT !.cstat = CS("ERRNO", "ECONNRESET")]))
           /\ UNCHANGED <<cmd, sock, err, caught, pty, env>>
  <2>1. PICK o \in MonType : o = Popped(mon) /\ o.cmnd = mon.cmnd
    BY <1>1, PoppedMon, Zenon
  <2>2. PICK m \in Statuses : /\ m = CS("ERRNO", "ECONNRESET") /\ m.type = "ERRNO"
                              /\ m.val = "ECONNRESET"
    <3>1. /\ CS("ERRNO", "ECONNRESET") \in Statuses /\ CS("ERRNO", "ECONNRESET").type = "ERRNO"
          /\ CS("ERRNO", "ECONNRESET").val = "ECONNRESET"
      BY Zenon DEF CS, Statuses, Errnos
    <3> QED
      BY <3>1, Zenon
  <2>3. PICK q \in MonType : q = [o EXCEPT !.cstat = m] /\ q.cmnd = o.cmnd /\ q.cstat = m
    <3> DEFINE t == [o EXCEPT !.cstat = m]
    <3>1. t \in MonType /\ t.cmnd = o.cmnd /\ t.cstat = m
      BY Zenon DEF MonType
    <3> QED
      BY <3>1, Zenon
  <2>4. PICK p \in MonType : p = LoopBreak(q) /\ SameMon(q, p)
    BY MonFlags, Zenon
  <2>5. mon' = Settle(p) /\ p.cmnd = mon.cmnd /\ p.cstat = m
    BY <1>4, <2>1, <2>2, <2>3, <2>4, Zenon DEF SameMon
  <2>6. Keepable(p.cstat)
    BY <2>2, <2>5, Zenon DEF Keepable
  <2> QED
    BY <1>1, <1>2, <1>4, <2>5, <2>6, MonLooks, Zenon
<1> QED
  BY <1>3, <1>4, Zenon DEF mon_backchannel_cb

(* mon_handle_sigchld() on a command that has ended.                       *)
LEMMA ReapStep ==
  ASSUME Inv, mon.pc = "service", cmd.st = "zombie", NEW o \in MonType,
         o.cmnd = mon.cmnd, o.cstat = mon.cstat,
         mon' = Settle(LoopExit([o EXCEPT !.cmnd = FALSE,
                                          !.cstat = Kept(CS("WSTATUS", cmd.stat))])),
         cmd' = [cmd EXCEPT !.st = "reaped"],
         UNCHANGED <<conf, main, sock, err, caught, tty, pty, env>>
  PROVE  Inv'
<1>1. /\ TypeOK /\ ForkInv /\ WaitInv /\ ChildInv /\ StatusInv /\ LoopInv
      /\ mon \in MonType /\ cmd \in CmdType /\ sock \in SockType /\ caught \in CaughtType
      /\ pty \in {"monitor", "command"} /\ err \in {"empty", "errno", "eof"}
      /\ env \in [signals : 0..conf.nsignals, stops : 0..conf.stops, stray : BOOLEAN]
  BY MonFacts, Zenon
<1>2. mon.pc \in MonLoop
  BY Zenon DEF MonLoop
<1>3. /\ cmd' \in CmdType /\ cmd'.st = "reaped" /\ cmd'.stat = cmd.stat
      /\ cmd'.report = cmd.report /\ cmd'.execd = cmd.execd
  BY <1>1, Zenon DEF CmdType
<1>4. MonTypes
  BY <1>1, <1>3, Zenon DEF MonTypes
<1>5. ChildInv'
  BY <1>1, <1>3, Zenon DEF ChildInv
<1>6. PICK s \in ExitStats \cup StopStats : s = cmd.stat
  BY <1>1, Zenon DEF CmdType
<1>7. CS("WSTATUS", s) \in Statuses /\ CS("WSTATUS", s).type = "WSTATUS" /\ CS("WSTATUS", s).val = s
  BY Zenon DEF CS, Statuses
<1>8. PICK m \in Statuses : m = IF mon.cstat.type = "INVALID" THEN CS("WSTATUS", s) ELSE mon.cstat
  BY <1>1, <1>7, Zenon DEF MonType
<1>9. PICK q \in MonType : /\ q = [o EXCEPT !.cmnd = FALSE, !.cstat = m] /\ q.cmnd = FALSE
                           /\ q.cstat = m
  <2> DEFINE t == [o EXCEPT !.cmnd = FALSE, !.cstat = m]
  <2>1. t \in MonType /\ t.cmnd = FALSE /\ t.cstat = m
    BY Zenon DEF MonType
  <2> QED
    BY <2>1, Zenon
<1>10. PICK p \in MonType : p = LoopExit(q) /\ p.cmnd = FALSE /\ p.cstat = m
  <2>1. LoopExit(q) \in MonType /\ SameMon(q, LoopExit(q))
    BY MonFlags, Zenon
  <2> QED
    BY <1>9, <2>1, Zenon DEF SameMon
<1>11. mon' = Settle(p)
  BY <1>6, <1>8, <1>9, <1>10, Zenon DEF Kept
<1>12. Stable
  BY <1>3, <1>10, <1>11, SettleMon, Zenon DEF Stable, MonitorEnded
<1>13. Keepable(p.cstat)'
  <2>1. CASE mon.cstat.type = "INVALID"
    <3>1. m.type = "WSTATUS" /\ m.val = s /\ cmd'.stat = s
      BY <1>3, <1>6, <1>7, <1>8, <2>1, Zenon
    <3>2. Happened(m)'
      BY <1>3, <3>1, Zenon DEF Happened
    <3> QED
      BY <1>10, <3>1, <3>2, Zenon DEF Keepable
  <2>2. CASE mon.cstat.type # "INVALID"
    <3>1. m = mon.cstat /\ Keepable(m)
      BY <1>1, <1>8, <2>2, Zenon DEF StatusInv, KeptInv
    <3>2. Happened(m) => Happened(m)'
      BY <1>12, HappenedStays, Zenon
    <3> QED
      BY <1>10, <3>1, <3>2, Zenon DEF Keepable
  <2> QED
    BY <2>1, <2>2, Zenon
<1>14. ~env'.stray
  BY <1>1, Zenon DEF WaitInv
<1> QED
  BY <1>1, <1>2, <1>3, <1>4, <1>5, <1>10, <1>11, <1>12, <1>13, <1>14, MonGoesOn, Zenon DEF Stable

(* mon_handle_sigchld() on a command that has stopped.                     *)
LEMMA ReportStep ==
  ASSUME Inv, mon.pc = "service", cmd.report, NEW o \in MonType,
         o.cmnd = mon.cmnd, o.cstat = mon.cstat, mon' = Settle(o),
         cmd' = [cmd EXCEPT !.report = FALSE],
         sock' = [sock EXCEPT !.toMain =
           IF mon.cstat.type = "INVALID" THEN send_status(CS("WSTATUS", cmd.stat)) ELSE @],
         UNCHANGED <<conf, main, err, caught, tty, pty, env>>
  PROVE  Inv'
<1>1. /\ TypeOK /\ ForkInv /\ WaitInv /\ ChildInv /\ StatusInv /\ LoopInv
      /\ mon \in MonType /\ cmd \in CmdType /\ sock \in SockType /\ caught \in CaughtType
      /\ pty \in {"monitor", "command"} /\ err \in {"empty", "errno", "eof"}
      /\ env \in [signals : 0..conf.nsignals, stops : 0..conf.stops, stray : BOOLEAN]
  BY MonFacts, Zenon
<1>2. mon.pc \in MonLoop
  BY Zenon DEF MonLoop
<1>3. /\ cmd' \in CmdType /\ cmd'.st = cmd.st /\ cmd'.stat = cmd.stat
      /\ cmd'.report = FALSE /\ cmd'.execd = cmd.execd
  BY <1>1, Zenon DEF CmdType
<1>4. ChildInv'
  BY <1>1, <1>3, Zenon DEF ChildInv
<1>5. PICK s \in StopStats : s = cmd.stat
  BY <1>1, Zenon DEF ChildInv
<1>6. PICK m \in ToMain : m = CS("WSTATUS", s) /\ m.type = "WSTATUS" /\ m.val = s
  <2>1. /\ CS("WSTATUS", s) \in ToMain /\ CS("WSTATUS", s).type = "WSTATUS"
        /\ CS("WSTATUS", s).val = s
    BY Zenon DEF CS, ToMain, Statuses, NoStatus
  <2> QED
    BY <2>1, Zenon
<1>7. Sent(m)'
  BY <1>5, <1>6, Zenon DEF Sent, WIFSTOPPED
<1>8. PICK t \in Seq(ToMain) :
        /\ t = IF mon.cstat.type = "INVALID" THEN send_status(CS("WSTATUS", cmd.stat)) ELSE sock.toMain
        /\ \A k \in Range(t) : k \in Range(sock.toMain) \/ k = m
        /\ sock.toMain # << >> => t # << >>
  <2>1. send_status(CS("WSTATUS", cmd.stat)) = ToMainWith(m)
    BY <1>5, <1>6, Zenon DEF send_status
  <2>2. /\ ToMainWith(m) \in Seq(ToMain)
        /\ \A k \in Range(ToMainWith(m)) : k \in Range(sock.toMain) \/ k = m
        /\ sock.toMain # << >> => ToMainWith(m) # << >>
    BY <1>1, ToMainType, Zenon
  <2>3. sock.toMain \in Seq(ToMain)
    BY <1>1, Zenon DEF SockType
  <2> QED
    BY <2>1, <2>2, <2>3, Zenon
<1>9. sock' \in SockType /\ sock'.toMain = t
  BY <1>1, <1>8, Zenon DEF SockType
<1>10. MonTypes
  BY <1>1, <1>3, <1>9, Zenon DEF MonTypes
<1>11. Stable
  BY <1>3, SettleMon, Zenon DEF Stable, MonitorEnded
<1>12. Keepable(o.cstat)'
  <2>1. PICK n : n = o.cstat
    BY Zenon
  <2>2. Happened(n) => Happened(n)'
    BY <1>11, HappenedStays, Zenon
  <2> QED
    BY <1>1, <2>1, <2>2, Zenon DEF Keepable, StatusInv, KeptInv
<1>13. ~env'.stray /\ (o.cmnd <=> cmd'.st # "reaped")
  BY <1>1, <1>2, <1>3, Zenon DEF WaitInv
<1> QED
  BY <1>1, <1>2, <1>4, <1>7, <1>8, <1>9, <1>10, <1>11, <1>12, <1>13, MonGoesOn, Zenon DEF Stable

LEMMA MonSignalStep ==
  ASSUME Inv, MonSignal
  PROVE  Inv'
<1>1. PICK s \in Signals, from \in Senders : mon_signal_cb(s, from)
  BY Zenon DEF MonSignal
<1>2. mon.pc = "service" /\ mon.pc \in MonLoop /\ UNCHANGED <<conf, main, tty>>
  BY <1>1, Zenon DEF mon_signal_cb, MonLoop
<1>3. TypeOK /\ sock \in SockType /\ caught \in CaughtType /\ KeptInv
  BY Zenon DEF Inv, TypeOK, StatusInv, SockType, CaughtType
<1>4. PICK o \in MonType : o = Popped(mon) /\ o.cmnd = mon.cmnd /\ o.cstat = mon.cstat
  BY <1>2, PoppedMon, Zenon
<1>5. CASE mon_handle_sigchld(o) /\ UNCHANGED <<err, caught, pty, env>>
  <2>1. CASE /\ cmd.st = "zombie"
             /\ mon' = Settle(LoopExit([o EXCEPT !.cmnd = FALSE,
                                                 !.cstat = Kept(CS("WSTATUS", cmd.stat))]))
             /\ cmd' = [cmd EXCEPT !.st = "reaped"] /\ UNCHANGED sock
    BY <1>2, <1>4, <1>5, <2>1, ReapStep, Zenon
  <2>2. CASE /\ cmd.report /\ mon' = Settle(o) /\ cmd' = [cmd EXCEPT !.report = FALSE]
             /\ sock' = [sock EXCEPT !.toMain =
                  IF mon.cstat.type = "INVALID" THEN send_status(CS("WSTATUS", cmd.stat)) ELSE @]
    BY <1>2, <1>4, <1>5, <2>2, ReportStep, Zenon
  <2>3. CASE mon' = Settle(IF o.cmnd THEN o ELSE LoopExit(o)) /\ UNCHANGED <<cmd, sock>>
    <3>1. LoopExit(o) \in MonType /\ SameMon(o, LoopExit(o))
      BY MonFlags, Zenon
    <3>2. PICK p \in MonType : mon' = Settle(p) /\ p.cmnd = mon.cmnd /\ p.cstat = mon.cstat
      BY <1>4, <2>3, <3>1, Zenon DEF SameMon
    <3>3. Keepable(p.cstat)
      BY <1>3, <3>2, Zenon DEF KeptInv
    <3> QED
      BY <1>2, <1>3, <1>5, <2>3, <3>2, <3>3, MonLooks, Zenon
  <2> QED
    BY <1>5, <2>1, <2>2, <2>3, Zenon DEF mon_handle_sigchld
<1>6. CASE mon' = Settle(o) /\ UNCHANGED <<cmd, sock, err, caught, pty, env>>
  <2>1. Keepable(o.cstat)
    BY <1>3, <1>4, Zenon DEF KeptInv
  <2> QED
    BY <1>2, <1>3, <1>4, <1>6, <2>1, MonLooks, Zenon
<1>7. CASE mon' = Settle(Popped(mon)) /\ deliver_signal(s) /\ UNCHANGED sock
  BY <1>2, <1>3, <1>7, DeliverStep, Zenon
<1> QED
  BY <1>1, <1>4, <1>5, <1>6, <1>7, Zenon DEF mon_signal_cb

(* The monitor terminates and waits for a command that is still there.     *)
LEMMA TerminateStep ==
  ASSUME Inv, MonTerminate
  PROVE  Inv'
<1>1. /\ TypeOK /\ ForkInv /\ WaitInv /\ ChildInv /\ StatusInv /\ LoopInv
      /\ mon \in MonType /\ cmd \in CmdType /\ sock \in SockType /\ caught \in CaughtType
      /\ pty \in {"monitor", "command"} /\ err \in {"empty", "errno", "eof"}
      /\ env \in [signals : 0..conf.nsignals, stops : 0..conf.stops, stray : BOOLEAN]
  BY MonFacts, Zenon
<1>2. /\ mon.pc = "after" /\ mon' = [mon EXCEPT !.pc = "finish"]
      /\ env' = [env EXCEPT !.stray = @ \/ (mon.cmnd /\ cmd.st = "reaped")]
      /\ UNCHANGED <<conf, main, sock, err, caught, tty, pty>>
  BY Zenon DEF MonTerminate
<1>3. (mon.cmnd <=> cmd.st # "reaped") /\ ~env.stray
  BY <1>1, <1>2, Zenon DEF WaitInv, MonLoop
<1>4. (env.stray \/ (mon.cmnd /\ cmd.st = "reaped")) = FALSE
  BY <1>1, <1>3, Zenon
<1>5. /\ env' \in [signals : 0..conf.nsignals, stops : 0..conf.stops, stray : BOOLEAN]
      /\ ~env'.stray
  BY <1>1, <1>2, <1>4, Zenon
<1>6. PICK c \in CmdType : /\ cmd' = [c EXCEPT !.st = "reaped"] /\ c.execd = cmd.execd
                           /\ c.report => c.stat \in StopStats
                           /\ cmd.st = "reaped" => c.stat = cmd.stat
  <2>1. PICK c \in IF mon.cmnd THEN Terminated ELSE {cmd} : cmd' = [c EXCEPT !.st = "reaped"]
    BY Zenon DEF MonTerminate
  <2>2. CASE c = cmd
    BY <1>1, <2>1, <2>2, Zenon DEF ChildInv
  <2>3. CASE c # cmd
    <3>1. PICK s \in ExitStats : c = Ended(s) /\ CmdLives
      BY <2>1, <2>3, Zenon DEF Terminated
    <3>2. c \in CmdType /\ c.execd = cmd.execd /\ c.report = FALSE
      BY <1>1, <3>1, Zenon DEF Ended, CmdType
    <3>3. cmd.st # "reaped"
      BY <3>1, Zenon DEF CmdLives
    <3> QED
      BY <2>1, <3>2, <3>3, Zenon
  <2> QED
    BY <2>2, <2>3, Zenon
<1>7. /\ cmd' \in CmdType /\ cmd'.st = "reaped" /\ cmd'.stat = c.stat
      /\ cmd'.report = c.report /\ cmd'.execd = c.execd
  BY <1>6, Zenon DEF CmdType
<1>8. ChildInv'
  BY <1>1, <1>2, <1>6, <1>7, Zenon DEF ChildInv
<1>9. mon' \in MonType /\ mon'.pc = "finish" /\ mon'.cstat = mon.cstat
  BY <1>1, <1>2, Zenon DEF MonType
<1>10. WaitInv'
  BY <1>5, <1>7, <1>9, Zenon DEF WaitInv, MonLoop
<1>11. Stable
  BY <1>2, <1>6, <1>7, Zenon DEF Stable, MonitorEnded
<1>12. KeptInv'
  BY <1>9, <1>11, KeptStays, Zenon
<1>13. Forked /\ Forked' /\ MonitorLives /\ MonitorLives' /\ mon'.pc # "service"
  BY <1>2, <1>9, Zenon DEF Forked, MonitorLives
<1> QED
  BY <1>1, <1>2, <1>5, <1>7, <1>8, <1>9, <1>10, <1>11, <1>12, <1>13, MonMoves, Zenon

(***************************************************************************)
(* The theorems                                                            *)
(***************************************************************************)
LEMMA InitInv == Init => Inv
<1> SUFFICES ASSUME Init PROVE Inv
  BY Zenon
<1>1. conf \in Configs /\ {conf.fg, conf.execbg, conf.early} \subseteq BOOLEAN
      /\ conf.nsignals \in Nat /\ conf.stops \in Nat
  BY ConfigsAssumption, Zenon DEF Init
<1>2. CmndForeground \in BOOLEAN /\ (CmndForeground => conf.fg)
  BY <1>1, Zenon DEF CmndForeground
<1>3. NoStatus \in Statuses /\ NoStatus.type = "INVALID" /\ << >> \in Seq(ToMonitor)
      /\ << >> \in Seq(ToMain) /\ "0" \in ExitStats
  BY DEF NoStatus, CS, Statuses, ExitStats
<1>4. /\ main \in MainType /\ main.pc = "start" /\ main.why = "none" /\ main.active = << >>
      /\ main.cstat = NoStatus /\ main.fwd = FALSE /\ main.raw = CmndForeground
  BY <1>1, <1>2, <1>3, EmptyQueue, Zenon DEF Init, MainType, MainLoop
<1>5. /\ mon \in MonType /\ mon.pc = "none" /\ mon.cmnd = FALSE /\ mon.cstat = NoStatus
  BY <1>3, EmptyQueue, Zenon DEF Init, MonType
<1>6. /\ cmd \in CmdType /\ cmd.st = "none" /\ cmd.report = FALSE /\ cmd.execd = FALSE
  BY <1>3, Zenon DEF Init, CmdType
<1>7. sock \in SockType /\ sock.toMain = << >>
  BY <1>3, Zenon DEF Init, SockType
<1>8. caught \in CaughtType /\ \A s \in Signals : caught["main"][s] = "none"
  BY Zenon DEF Init, CaughtType, NoSignals
<1>9. tty \in TtyType /\ tty.raw = CmndForeground /\ tty.fg = conf.fg
  BY <1>1, <1>2, Zenon DEF Init, TtyType
<1>10. /\ env \in [signals : 0..conf.nsignals, stops : 0..conf.stops, stray : BOOLEAN]
       /\ env.stray = FALSE
  BY <1>1 DEF Init
<1>11. err = "empty" /\ pty = "monitor"
  BY Zenon DEF Init
<1>12. TypeOK
  BY <1>1, <1>4, <1>5, <1>6, <1>7, <1>8, <1>9, <1>10, <1>11, Zenon
     DEF TypeOK, SockType, CaughtType, TtyType
<1>13. ForkInv
  BY <1>3, <1>4, <1>5, <1>7, Zenon DEF ForkInv, Forked, MainLoop
<1>14. TermInv
  BY <1>2, <1>4, <1>8, <1>9, Zenon DEF TermInv, EarlySignals
<1>15. WaitInv
  BY <1>5, <1>6, <1>10, Zenon DEF WaitInv, MonLoop
<1>16. ChildInv
  BY <1>6, <1>11, Zenon DEF ChildInv
<1>17. LoopInv
  BY <1>4, <1>5, EmptyQueue, Zenon DEF LoopInv
<1>18. StatusInv
  <2>1. Range(sock.toMain) = {}
    BY <1>7 DEF Range
  <2>2. Happened(NoStatus) /\ Keepable(NoStatus)
    BY <1>3, Zenon DEF Happened, Keepable
  <2> QED
    BY <1>4, <1>5, <2>1, <2>2, Zenon DEF StatusInv, KeptInv, Stored
<1> QED
  BY <1>12, <1>13, <1>14, <1>15, <1>16, <1>17, <1>18, Zenon DEF Inv

LEMMA NextInv == Inv /\ [Next]_vars => Inv'
<1> SUFFICES ASSUME Inv, [Next]_vars PROVE Inv'
  BY Zenon
<1>1. CASE MainStep
  BY <1>1, EarlyStep, ForkStep, PollStep, InterruptedStep, SignalPipeStep, ForwardStep,
     BackStep, SignalStep, MonitorStatusStep, ResumeStep, FinishStep, Zenon DEF MainStep
<1>2. CASE MonStep
  BY <1>2, ForksStep, EndsStep, SetupStep, MonScanStep, MonPipeStep, ErrsockStep, MonBackStep,
     MonSignalStep, TerminateStep, Zenon DEF MonStep
<1>3. CASE ChildStep
  BY <1>3, ChildStepInv, Zenon
<1>4. CASE Environment
  BY <1>4, CommandStep, SentStep, ShellStep, EndsStep, StopMonitorStep, Zenon DEF Environment
<1>5. CASE UNCHANGED vars
  <2>1. UNCHANGED <<conf, main, mon, cmd, sock, err, caught, tty, pty, env>>
    BY <1>5, Zenon DEF vars
  <2>2. /\ main' \in MainType /\ caught' \in CaughtType /\ tty' \in TtyType
        /\ ForkInv' /\ TermInv'
    BY <2>1, Zenon DEF Inv, TypeOK, CaughtType, TtyType, ForkInv, TermInv, Forked, EarlySignals
  <2> QED
    BY <2>1, <2>2, MainRests, Zenon
<1> QED
  BY <1>1, <1>2, <1>3, <1>4, <1>5, Zenon DEF Next, Over

LEMMA InvHolds == Spec => []Inv
  BY InitInv, NextInv, PTL DEF Spec

(* A wait status sudo ends with is the one the command ended with, after   *)
(* the monitor has waited for it, and an errno is one of a fork or an      *)
(* execve(2) that failed, or of a monitor that has gone: what travels from *)
(* waitpid(2) in the monitor through mon_handle_sigchld(), send_status(),  *)
(* backchannel_cb() and exec_pty() stays true, whatever signals, stops,    *)
(* kills and continues come in between.                                    *)
THEOREM StatusIsTrue == Spec => []StatusFaithful
<1>1. Inv => StatusFaithful
  <2> SUFFICES ASSUME Inv, main.pc = "done" PROVE StatusFaithful
    BY Zenon DEF StatusFaithful
  <2>1. Stored(main.cstat)
    BY Zenon DEF Inv, StatusInv
  <2>2. main.cstat.type = "WSTATUS" /\ main.cstat.val # "early" => Happened(main.cstat)
    BY <2>1 DEF Stored, CS
  <2>3. main.cstat.type = "ERRNO" => Happened(main.cstat)
    BY <2>1 DEF Stored, CS
  <2> QED
    BY <2>2, <2>3, Zenon DEF StatusFaithful, Happened, MonitorEnded, MonitorLives
<1> QED
  BY <1>1, InvHolds, PTL

(* A monitor that ends by itself leaves no command behind, and it signals  *)
(* no process it has already waited for: deliver_signal() and the end of   *)
(* exec_monitor() look at cmnd_pid, which mon_handle_sigchld() resets.     *)
THEOREM NoCommandLeft == Spec => []CommandCollected
<1>1. Inv => CommandCollected
  BY Zenon DEF Inv, WaitInv, CommandCollected
<1> QED
  BY <1>1, InvHolds, PTL

(* Whenever sudo has stopped itself or has ended, the user's terminal has  *)
(* the mode it had before, unless a signal came before the monitor was     *)
(* forked: suspend_sudo_pty() and pty_cleanup() restore what               *)
(* resume_terminal() and exec_pty() changed.                               *)
THEOREM TerminalGivenBack == Spec => []TerminalRestoredAfterFork
<1>1. Inv => TerminalRestoredAfterFork
  BY Zenon DEF Inv, TermInv, TerminalRestoredAfterFork, TerminalRestored
<1> QED
  BY <1>1, InvHolds, PTL

=============================================================================
