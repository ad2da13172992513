--------------------------- MODULE ExecPtyInvariant ---------------------------
(***************************************************************************)
(* The invariant of running a command in a pseudo-terminal, for every      *)
(* configuration and any number of signals and stops, and that the steps   *)
(* of the main process and of the shell preserve it.                       *)
(***************************************************************************)
EXTENDS ExecPty, QueueProofs

(***************************************************************************)
(* The invariant                                                           *)
(***************************************************************************)
Forked == mon.pc # "none"

(* Before the fork there is no monitor, nothing in the backchannel and no  *)
(* active event; the event loop, and every stop but an early one, comes    *)
(* after it.                                                               *)
ForkInv ==
  /\ main.pc = "start" => ~Forked
  /\ main.pc \in MainLoop => Forked
  /\ main.pc \in {"suspended", "resuming"} => (main.why = "early" <=> ~Forked)
  /\ Forked \/ (sock.toMain = << >> /\ main.active = << >> /\ main.cstat.type # "ERRNO")

(* The main process is the only one that makes the terminal raw, and knows *)
(* it; the terminal is raw only while sudo is in the foreground.           *)
TermInv ==
  ~conf.early =>
    /\ main.pc = "start" => EarlySignals = {}
    /\ main.why # "early"
    /\ tty.raw /\ main.pc # "killed" => main.raw /\ tty.fg
    /\ main.pc \in {"suspended", "done"} => ~tty.raw

(* Up to the end of its loop the monitor knows whether it has waited for   *)
(* the command.                                                            *)
MonLoop == {"setup", "poll", "service", "after"}

WaitInv ==
  /\ ~env.stray
  /\ mon.pc \in {"none", "go"} => cmd.st = "none" /\ ~mon.cmnd
  /\ mon.pc = "finish" => cmd.st = "reaped"
  /\ mon.pc = "gone" => cmd.st \in {"none", "reaped"}
  /\ mon.pc \in MonLoop => (mon.cmnd <=> cmd.st # "reaped")

(* The child: what it has told its parent.                                 *)
ChildInv ==
  /\ cmd.report => cmd.stat \in StopStats
  /\ cmd.st \in {"none", "waiting", "starting", "failing"} => ~cmd.execd
  /\ err = "errno" => cmd.st \in {"failing", "zombie", "reaped"} /\ ~cmd.execd

(* A callback of a channel is active at most once.                         *)
IoOnce(q) ==
  \A i, j \in DOMAIN q : q[i][1] \in {"fwd", "back"} /\ q[i][1] = q[j][1] => i = j

Active(q, e) == \E i \in DOMAIN q : q[i][1] = e

(* An active callback has something to do.                                 *)
LoopInv ==
  /\ main.pc = "service" => main.active # << >>
  /\ IoOnce(main.active)
  /\ main.fwd \/ Active(main.active, "fwd") => main.msgs # << >>
  /\ Active(main.active, "back") => sock.toMain # << >> \/ ~MonitorLives
  /\ mon.pc = "service" => mon.active # << >>

(* What a status says did happen.  It stays true.                          *)
MonitorEnded == mon.pc \in {"gone", "killed"}

Happened(m) ==
  /\ m.type = "WSTATUS" => cmd.st = "reaped" /\ cmd.stat = m.val
  /\ m.type = "ERRNO" => /\ m.val = "EXEC" => err = "errno" /\ ~cmd.execd
                         /\ m.val = "FORK" => mon.pc = "gone" /\ cmd.st = "none"
                         /\ m.val \notin {"EXEC", "FORK"} => MonitorEnded

Sent(m) == Happened(m) \/ (m.type = "WSTATUS" /\ WIFSTOPPED(m.val))

Stored(m) == Happened(m) \/ m = CS("WSTATUS", "early")

(* What the monitor keeps is true, or will be when the monitor has ended.  *)
Keepable(m) ==
  /\ m.type = "WSTATUS" => Happened(m)
  /\ m.type = "ERRNO" => m.val = "ECONNRESET" \/ (m.val = "EXEC" /\ Happened(m))

KeptInv == Keepable(mon.cstat)

StatusInv ==
  /\ \A m \in Range(sock.toMain) : Sent(m)
  /\ Stored(main.cstat)
  /\ KeptInv

Inv == TypeOK /\ ForkInv /\ TermInv /\ WaitInv /\ ChildInv /\ LoopInv /\ StatusInv

(***************************************************************************)
(* Queues of events                                                        *)
(***************************************************************************)
(* Signals is what it lists.                                               *)
LEMMA SignalNames ==
  /\ SigOrder \in Seq(Signals)
  /\ Signals = {"HUP", "ALRM", "TERM", "CHLD", "CONT", "TSTP"}
BY DEF SigOrder, Signals

(* What signal_pipe_cb() activates are events of signals, with a sender,   *)
(* if the handler has noted any signal.                                    *)
LEMMA PendingType ==
  ASSUME TypeOK, NEW p \in {"main", "mon"}
  PROVE  /\ Pending(p) \in Seq(Signals \X Senders)
         /\ Noted(p) # {} => Pending(p) # << >>
<1> DEFINE t == [i \in DOMAIN SigOrder |-> <<SigOrder[i], caught[p][SigOrder[i]]>>]
           q == Filter(t, Signals \X Senders)
<1>1. /\ DOMAIN SigOrder = 1 .. 6 /\ \A i \in 1 .. 6 : SigOrder[i] \in Signals
      /\ \A s \in Signals : \E i \in 1 .. 6 : s = SigOrder[i]
  BY DEF SigOrder, Signals
<1>2. \A s \in Signals : caught[p][s] \in Senders \cup {"none"}
  BY DEF TypeOK
<1>3. t \in Seq(Signals \X (Senders \cup {"none"})) /\ DOMAIN t = 1 .. 6
      /\ \A i \in 1 .. 6 : t[i] = <<SigOrder[i], caught[p][SigOrder[i]]>>
  BY <1>1, <1>2
<1> HIDE DEF t
<1>4. q \in Seq(Signals \X (Senders \cup {"none"})) /\ Range(q) = Range(t) \cap (Signals \X Senders)
  BY <1>3, FilterProperties
<1>5. Pending(p) = q
  BY DEF Pending, q, t
<1> HIDE DEF q
<1>6. q \in Seq(Signals \X Senders)
  BY <1>4, RangeType
<1>7. ASSUME Noted(p) # {} PROVE q # << >>
  <2>1. PICK s \in Signals : caught[p][s] # "none"
    BY <1>7 DEF Noted
  <2>2. PICK i \in 1 .. 6 : s = SigOrder[i]
    BY <1>1
  <2>3. t[i] \in Range(t)
    BY <1>3, Zenon DEF Range
  <2>4. t[i] = <<s, caught[p][s]>>
    BY <1>3, <2>2, Zenon
  <2>5. caught[p][s] \in Senders
    BY <1>2, <2>1, Zenon
  <2> QED
    BY <1>4, <2>3, <2>4, <2>5, RangeType
<1> QED
  BY <1>5, <1>6, <1>7

(* The events of one scan are those that are ready, each once.             *)
LEMMA ScanType ==
  ASSUME NEW q \in Seq(Events), Once(q), NEW ready, ready \cap Range(q) # {}
  PROVE  LET t == Filter(q, ready)
             a == [i \in 1 .. Len(t) |-> Io(t[i])]
         IN  /\ a \in Queue /\ a # << >> /\ IoOnce(a)
             /\ \A e : Active(a, e) => e \in ready
<1> DEFINE t == Filter(q, ready)
           a == [i \in 1 .. Len(t) |-> Io(t[i])]
<1>1. t \in Seq(Events) /\ Range(t) = Range(q) \cap ready /\ Once(t)
  BY FilterProperties, FilterOnce, Zenon
<1>2. t # << >> /\ \A i \in 1 .. Len(t) : t[i] \in ready /\ t[i] \in Events
  BY <1>1, RangeType, Zenon
<1> HIDE DEF t
<1>3. Len(t) \in Nat /\ Len(t) > 0 /\ DOMAIN t = 1 .. Len(t)
  BY <1>1, <1>2
<1>4. a \in Queue /\ Len(a) = Len(t) /\ DOMAIN a = 1 .. Len(t)
  <2>1. a \in [1 .. Len(t) -> Events \X (Senders \cup {"io"})]
    BY <1>2, Zenon DEF Io
  <2> HIDE DEF a
  <2> QED
    BY <1>3, <2>1 DEF Queue
<1>5. \A i \in 1 .. Len(t) : a[i][1] = t[i]
  BY Zenon DEF Io
<1> HIDE DEF a
<1>6. a # << >>
  BY <1>3, <1>4
<1>7. IoOnce(a)
  BY <1>1, <1>3, <1>4, <1>5 DEF Once, IoOnce
<1>8. \A e : Active(a, e) => e \in ready
  BY <1>2, <1>4, <1>5, Zenon DEF Active
<1> QED
  BY <1>4, <1>6, <1>7, <1>8, Zenon DEF t, a

(* The events that draining the signal pipe appends.                       *)
LEMMA PendingQueue ==
  ASSUME TypeOK, NEW p \in {"main", "mon"}
  PROVE  /\ Pending(p) \in Queue
         /\ \A e \in {"fwd", "back"} : ~Active(Pending(p), e)
         /\ IoOnce(Pending(p))
         /\ Noted(p) # {} => Pending(p) # << >>
<1> DEFINE r == Pending(p)
<1>1. r \in Seq(Signals \X Senders) /\ (Noted(p) # {} => r # << >>)
  BY PendingType, Zenon
<1> HIDE DEF r
<1>2. \A i \in DOMAIN r : r[i][1] \in Signals
  BY <1>1
<1>3. r \in Queue
  BY <1>1 DEF Queue, Events
<1> QED
  BY <1>1, <1>2, <1>3, SignalNames, Zenon DEF r, Active, IoOnce

(* The callback that is called leaves the queue.                           *)
LEMMA TailActive ==
  ASSUME NEW q \in Queue, q # << >>, IoOnce(q)
  PROVE  /\ Tail(q) \in Queue /\ IoOnce(Tail(q))
         /\ \A e : Active(Tail(q), e) => Active(q, e)
         /\ \A e \in {"fwd", "back"} : q[1][1] = e => Active(q, e) /\ ~Active(Tail(q), e)
<1> DEFINE t == Tail(q)
<1>1. /\ Len(q) \in Nat /\ Len(q) > 0 /\ DOMAIN q = 1 .. Len(q)
      /\ t \in Queue /\ DOMAIN t = 1 .. (Len(q) - 1)
      /\ \A i \in 1 .. (Len(q) - 1) : t[i] = q[i + 1]
  BY DEF Queue
<1> HIDE DEF t
<1>2. IoOnce(t)
  BY <1>1 DEF IoOnce
<1>3. \A e : Active(t, e) => Active(q, e)
  <2>1. \A i \in DOMAIN t : i + 1 \in DOMAIN q /\ t[i] = q[i + 1]
    BY <1>1
  <2> QED
    BY <2>1, Zenon DEF Active
<1>4. ASSUME NEW e \in {"fwd", "back"}, q[1][1] = e PROVE Active(q, e) /\ ~Active(t, e)
  <2>1. 1 \in DOMAIN q
    BY <1>1
  <2>2. \A i \in DOMAIN t : i + 1 \in DOMAIN q /\ i + 1 # 1 /\ t[i] = q[i + 1]
    BY <1>1
  <2> QED
    BY <1>4, <2>1, <2>2, Zenon DEF Active, IoOnce
<1> QED
  BY <1>1, <1>2, <1>3, <1>4, Zenon DEF t

(* Signals are appended to the active queue.                               *)
LEMMA JoinActive ==
  ASSUME NEW q \in Queue, NEW r \in Queue, IoOnce(q),
         \A e \in {"fwd", "back"} : ~Active(r, e)
  PROVE  /\ q \o r \in Queue /\ IoOnce(q \o r)
         /\ \A e \in {"fwd", "back"} : Active(q \o r, e) => Active(q, e)
<1> DEFINE t == q \o r
<1>1. /\ Len(q) \in Nat /\ Len(r) \in Nat /\ t \in Queue /\ DOMAIN q = 1 .. Len(q)
      /\ DOMAIN r = 1 .. Len(r) /\ DOMAIN t = 1 .. (Len(q) + Len(r))
      /\ \A i \in DOMAIN t : t[i] = IF i <= Len(q) THEN q[i] ELSE r[i - Len(q)]
  BY DEF Queue
<1> HIDE DEF t
<1>2. \A i \in DOMAIN t : t[i][1] \in {"fwd", "back"} => i \in DOMAIN q /\ t[i] = q[i]
  <2> SUFFICES ASSUME NEW i \in DOMAIN t, ~(i <= Len(q)) PROVE t[i][1] \notin {"fwd", "back"}
    BY <1>1
  <2>1. i - Len(q) \in DOMAIN r /\ t[i] = r[i - Len(q)]
    BY <1>1
  <2> QED
    BY <2>1, Zenon DEF Active
<1> QED
  BY <1>1, <1>2, Zenon DEF t, IoOnce, Active

(***************************************************************************)
(* Closures                                                                *)
(***************************************************************************)
(* What the event loop changes of a closure: the loop's flag, where it is, *)
(* and the queue, which it may drop.                                       *)
LikeMain(p, q) ==
  /\ p \in MainType /\ q.monitor = p.monitor /\ q.cmnd = p.cmnd /\ q.cstat = p.cstat
  /\ q.msgs = p.msgs /\ q.fwd = p.fwd /\ q.foreground = p.foreground /\ q.raw = p.raw
  /\ q.why = p.why /\ q.active \in {p.active, << >>}

LikeMon(p, q) ==
  /\ p \in MonType /\ q.cmnd = p.cmnd /\ q.cstat = p.cstat /\ q.errsock = p.errsock
  /\ q.stop = p.stop /\ q.active \in {p.active, << >>}

LEMMA EmptyQueue == << >> \in Queue /\ IoOnce(<< >>) /\ \A e : ~Active(<< >>, e)
BY DEF Queue, IoOnce, Active

LEMMA SettleMain ==
  ASSUME NEW p \in MainType
  PROVE  LET q == Settle(p)
         IN  /\ q \in MainType /\ LikeMain(p, q) /\ q.pc \in {"after", "poll", "service"}
             /\ q.pc = "service" => q.active # << >>
<1>1. CASE p.flag = "break"
  BY <1>1, EmptyQueue, Zenon DEF Settle, MainType, MainLoop, LikeMain
<1>2. CASE p.flag = "cont"
  BY <1>2, EmptyQueue, Zenon DEF Settle, MainType, MainLoop, LikeMain
<1>3. CASE p.flag \notin {"break", "cont"}
  BY <1>3 DEF Settle, MainType, MainLoop, LikeMain
<1> QED
  BY <1>1, <1>2, <1>3, Zenon

LEMMA SettleMon ==
  ASSUME NEW p \in MonType
  PROVE  LET q == Settle(p)
         IN  /\ q \in MonType /\ LikeMon(p, q) /\ q.pc \in {"after", "poll", "service"}
             /\ q.pc = "service" => q.active # << >>
<1>1. CASE p.flag = "break"
  BY <1>1, EmptyQueue, Zenon DEF Settle, MonType, LikeMon
<1>2. CASE p.flag # "break"
  BY <1>2, Zenon DEF Settle, MonType, LikeMon
<1> QED
  BY <1>1, <1>2, Zenon

(***************************************************************************)
(* The command                                                             *)
(***************************************************************************)
(* What can become of a command: nothing, its end, a stop, or it goes on.  *)
CmdStep(c) ==
  \/ c = cmd
  \/ CmdLives /\ \E s \in ExitStats : c = Ended(s)
  \/ cmd.st \in {"starting", "running"} /\ \E s \in StopStats : c = Stopped(s)
  \/ cmd.st = "stopped" /\ c = Continued

(* What of it the monitor and the main process can rely on.                *)
CmdMoves ==
  /\ cmd' \in CmdType /\ err' \in {"empty", "errno", "eof"} /\ ChildInv'
  /\ cmd.st \in {"none", "reaped"} \/ cmd'.st \in {"none", "reaped"} => cmd' = cmd
  /\ err = "errno" /\ ~cmd.execd => err' = "errno" /\ ~cmd'.execd

(* What a status says stays true in a step of this kind.                   *)
Stable ==
  /\ cmd.st = "reaped" => cmd'.st = "reaped" /\ cmd'.stat = cmd.stat
  /\ err = "errno" /\ ~cmd.execd => err' = "errno" /\ ~cmd'.execd
  /\ mon.pc = "gone" => mon'.pc = "gone" /\ (cmd.st = "none" => cmd'.st = "none")
  /\ MonitorEnded => MonitorEnded'

LEMMA HappenedStays ==
  ASSUME Stable, NEW m
  PROVE  /\ Happened(m) => Happened(m)'
         /\ Sent(m) => Sent(m)'
         /\ Stored(m) => Stored(m)'
<1>1. Happened(m) => Happened(m)'
  BY Zenon DEF Stable, Happened
<1> QED
  BY <1>1, Zenon DEF Sent, Stored

LEMMA RaiseType ==
  ASSUME TypeOK, NEW p \in {"main", "mon"}, NEW s \in Signals, NEW from \in Senders
  PROVE  /\ Raise(caught, p, s, from) \in [{"main", "mon"} -> [Signals -> Senders \cup {"none"}]]
         /\ \A q \in {"main", "mon"} \ {p} : Raise(caught, p, s, from)[q] = caught[q]
BY Zenon DEF TypeOK, Raise

LEMMA DrainedType ==
  ASSUME TypeOK, NEW p \in {"main", "mon"}
  PROVE  /\ Drained(p) \in [{"main", "mon"} -> [Signals -> Senders \cup {"none"}]]
         /\ \A q \in {"main", "mon"} \ {p} : Drained(p)[q] = caught[q]
BY Zenon DEF TypeOK, Drained, NoSignals

(* The effects of signals, and of termination, are such steps.             *)
LEMMA TerminatedStep ==
  ASSUME NEW c \in Terminated
  PROVE  CmdStep(c)
BY Zenon DEF Terminated, CmdStep

LEMMA EffectsStep ==
  ASSUME NEW sig, NEW c \in Effects(sig)
  PROVE  CmdStep(c)
<1>1. ASSUME NEW g, c \in Reactions(g) PROVE CmdStep(c)
  BY <1>1, Zenon DEF Reactions, CmdStep, CmdLives, StopStats, ExitStats
<1> QED
  BY <1>1, TerminatedStep, Zenon DEF Effects

LEMMA CmdBecomesMoves ==
  ASSUME TypeOK, ChildInv, NEW c, CmdStep(c), CmdBecomes(c)
  PROVE  /\ CmdMoves
         /\ caught' \in [{"main", "mon"} -> [Signals -> Senders \cup {"none"}]]
         /\ caught'["main"] = caught["main"]
<1>1. cmd' = c /\ err' = IF c.st = "zombie" /\ err = "empty" THEN "eof" ELSE err
  BY Zenon DEF CmdBecomes
<1>2. "CHLD" \in Signals /\ "kernel" \in Senders
  BY SignalNames, Zenon DEF Senders
<1>3. /\ caught' \in [{"main", "mon"} -> [Signals -> Senders \cup {"none"}]]
      /\ caught'["main"] = caught["main"]
  BY <1>2, RaiseType DEF CmdBecomes, TypeOK
<1>4. CASE c = cmd
  BY <1>1, <1>3, <1>4, Zenon DEF TypeOK, CmdMoves, ChildInv
<1>5. ASSUME CmdLives, NEW s \in ExitStats, c = Ended(s) PROVE CmdMoves
  <2>1. c.st = "zombie" /\ c.stat = s /\ c.report = FALSE /\ c.execd = cmd.execd /\ c \in CmdType
    BY <1>5, Zenon DEF Ended, TypeOK, CmdType
  <2> QED
    BY <1>1, <1>5, <2>1, Zenon DEF TypeOK, CmdMoves, ChildInv, CmdLives
<1>6. ASSUME cmd.st \in {"starting", "running"}, NEW s \in StopStats, c = Stopped(s) PROVE CmdMoves
  <2>1. c.st = "stopped" /\ c.stat = s /\ c.report = TRUE /\ c.execd = cmd.execd /\ c \in CmdType
    BY <1>6, Zenon DEF Stopped, TypeOK, CmdType
  <2> QED
    BY <1>1, <1>6, <2>1, Zenon DEF TypeOK, CmdMoves, ChildInv
<1>7. CASE cmd.st = "stopped" /\ c = Continued
  <2>1. /\ c.st = IF cmd.execd THEN "running" ELSE "starting"
        /\ c.stat = cmd.stat /\ c.report = FALSE /\ c.execd = cmd.execd /\ c \in CmdType
    BY <1>7, Zenon DEF Continued, TypeOK, CmdType
  <2>2. c.st \in {"running", "starting"} /\ (c.st = "starting" => ~c.execd)
    BY <2>1, Zenon
  <2>3. err # "errno" /\ err' = err /\ err \in {"empty", "errno", "eof"}
    BY <1>1, <1>7, <2>2, Zenon DEF ChildInv, TypeOK
  <2>4. ChildInv'
    BY <1>1, <2>1, <2>2, <2>3, Zenon DEF ChildInv
  <2>5. cmd.st \notin {"none", "reaped"} /\ c.st \notin {"none", "reaped"}
    BY <1>7, <2>2, Zenon
  <2> QED
    BY <1>1, <1>3, <2>1, <2>3, <2>4, <2>5, Zenon DEF CmdMoves
<1> QED
  BY <1>3, <1>4, <1>5, <1>6, <1>7, Zenon DEF CmdStep

LEMMA CmdSame ==
  ASSUME TypeOK, ChildInv, cmd' = cmd, err' = err
  PROVE  CmdMoves
BY Zenon DEF TypeOK, CmdMoves, ChildInv

(* A step that leaves the monitor where it is.                             *)
MonSame ==
  /\ mon' \in MonType /\ mon'.pc = mon.pc /\ mon'.cmnd = mon.cmnd
  /\ mon'.cstat = mon.cstat /\ mon'.active = mon.active

LEMMA MonSameStable ==
  ASSUME Inv, MonSame, CmdMoves, env'.stray = env.stray
  PROVE  WaitInv' /\ Stable
<1>1. WaitInv'
  BY Zenon DEF Inv, MonSame, CmdMoves, WaitInv
<1>2. Stable
  BY Zenon DEF MonSame, CmdMoves, Stable, MonitorEnded
<1> QED
  BY <1>1, <1>2, Zenon

(* Main keeps or learns a status; the monitor keeps its own.               *)
LEMMA StatusKept ==
  ASSUME Inv, Stable, MonSame \/ mon'.cstat = mon.cstat, NEW c, main'.cstat = c, Stored(c) \/ Happened(c)',
         Range(sock'.toMain) \subseteq Range(sock.toMain)
  PROVE  StatusInv'
<1>1. \A m \in Range(sock'.toMain) : Sent(m)'
  BY HappenedStays, Zenon DEF Inv, StatusInv
<1>2. Stored(c)'
  BY HappenedStays, Zenon DEF Stored
<1>3. KeptInv'
  <2>1. PICK m : m = mon.cstat
    BY Zenon
  <2>2. mon'.cstat = m
    BY <2>1, Zenon DEF MonSame
  <2>3. Happened(m) => Happened(m)'
    BY HappenedStays, Zenon
  <2> QED
    BY <2>1, <2>2, <2>3, Zenon DEF Inv, StatusInv, KeptInv, Keepable
<1> QED
  BY <1>1, <1>2, <1>3, Zenon DEF StatusInv

(***************************************************************************)
(* The main process                                                        *)
(***************************************************************************)
(* In its loop, main goes on from a closure p.                             *)
LEMMA BackInLoop ==
  ASSUME Inv, NEW p \in MainType, main' = Settle(p) \/ main' = [p EXCEPT !.pc = "wait"],
         conf' = conf, Forked, MonSame, CmdMoves, env'.stray = env.stray,
         IoOnce(p.active),
         p.fwd \/ Active(p.active, "fwd") => p.msgs # << >>,
         Active(p.active, "back") => sock'.toMain # << >> \/ ~MonitorLives,
         ~conf.early => p.why # "early" /\ (tty'.raw => p.raw /\ tty'.fg),
         Stored(p.cstat) \/ Happened(p.cstat)',
         Range(sock'.toMain) \subseteq Range(sock.toMain)
  PROVE  /\ main' \in MainType
         /\ ForkInv' /\ TermInv' /\ WaitInv' /\ ChildInv' /\ LoopInv' /\ StatusInv'
<1>1. WaitInv' /\ Stable /\ ChildInv'
  BY MonSameStable, Zenon DEF CmdMoves
<1>2. /\ main' \in MainType /\ LikeMain(p, main')
      /\ main'.pc \in {"after", "poll", "service", "wait"}
      /\ main'.pc = "service" => main'.active # << >>
  <2>1. CASE main' = Settle(p)
    BY <2>1, SettleMain, Zenon
  <2>2. CASE main' = [p EXCEPT !.pc = "wait"]
    BY <2>2, Zenon DEF MainType, MainLoop, LikeMain
  <2> QED
    BY <2>1, <2>2, Zenon
<1>3. Forked' /\ (MonitorLives' <=> MonitorLives)
  BY Zenon DEF MonSame, Forked, MonitorLives
<1>4. ForkInv'
  BY <1>2, <1>3, Zenon DEF ForkInv, MainLoop
<1>5. TermInv'
  BY <1>2, Zenon DEF TermInv, LikeMain
<1>6. LoopInv'
  BY <1>2, <1>3, EmptyQueue, Zenon DEF Inv, LoopInv, LikeMain, MonSame
<1>7. StatusInv'
  <2>1. main'.cstat = p.cstat
    BY <1>2, Zenon DEF LikeMain
  <2> QED
    BY <1>1, <2>1, StatusKept, Zenon
<1> QED
  BY <1>1, <1>2, <1>4, <1>5, <1>6, <1>7, Zenon


SockType   == [toMon : Seq(ToMonitor), toMain : Seq(ToMain), reset : BOOLEAN]
CaughtType == [{"main", "mon"} -> [Signals -> Senders \cup {"none"}]]
TtyType    == [fg : BOOLEAN, raw : BOOLEAN]

LEMMA GoesOn ==
  ASSUME Inv, NEW p \in MainType, main' = Settle(p) \/ main' = [p EXCEPT !.pc = "wait"],
         conf' = conf, Forked, MonSame, CmdMoves, env' = env, pty' = pty,
         sock' \in SockType, caught' \in CaughtType, tty' \in TtyType,
         IoOnce(p.active),
         p.fwd \/ Active(p.active, "fwd") => p.msgs # << >>,
         Active(p.active, "back") => sock'.toMain # << >> \/ ~MonitorLives,
         ~conf.early => p.why # "early" /\ (tty'.raw => p.raw /\ tty'.fg),
         Stored(p.cstat) \/ Happened(p.cstat)',
         Range(sock'.toMain) \subseteq Range(sock.toMain)
  PROVE  Inv'
<1>1. /\ main' \in MainType
      /\ ForkInv' /\ TermInv' /\ WaitInv' /\ ChildInv' /\ LoopInv' /\ StatusInv'
  BY BackInLoop, Zenon
<1>2. TypeOK'
  BY <1>1, Zenon DEF Inv, TypeOK, MonSame, CmdMoves, SockType, CaughtType, TtyType
<1> QED
  BY <1>1, <1>2, Zenon DEF Inv

(* Main stops itself.                                                      *)
LEMMA StopsSelf ==
  ASSUME Inv, NEW p \in MainType, NEW why \in {"command", "monitor"}, StopSelf(p, why),
         main.pc # "killed", conf' = conf, Forked, MonSame, CmdMoves, env' = env, pty' = pty,
         sock' \in SockType, caught' \in CaughtType,
         IoOnce(p.active),
         p.fwd \/ Active(p.active, "fwd") => p.msgs # << >>,
         Active(p.active, "back") => sock'.toMain # << >> \/ ~MonitorLives,
         p.raw = main.raw, Stored(p.cstat),
         Range(sock'.toMain) \subseteq Range(sock.toMain)
  PROVE  Inv'
<1>1. WaitInv' /\ Stable /\ ChildInv'
  BY MonSameStable, Zenon DEF CmdMoves
<1> DEFINE q == [p EXCEPT !.pc = "suspended", !.raw = FALSE, !.why = why]
<1>2. /\ q \in MainType /\ q.pc = "suspended" /\ q.raw = FALSE /\ q.why = why
      /\ q.active = p.active /\ q.fwd = p.fwd /\ q.msgs = p.msgs /\ q.cstat = p.cstat
  BY Zenon DEF MainType
<1> HIDE DEF q
<1>3. main' = q /\ tty' = [fg |-> FALSE, raw |-> tty.raw /\ ~p.raw]
  BY Zenon DEF StopSelf, q
<1>4. Forked' /\ (MonitorLives' <=> MonitorLives)
  BY Zenon DEF MonSame, Forked, MonitorLives
<1>5. ForkInv'
  BY <1>2, <1>3, <1>4, Zenon DEF ForkInv, MainLoop
<1>6. TermInv' /\ tty' \in TtyType
  <2>1. tty' \in TtyType /\ (tty'.raw <=> tty.raw /\ ~p.raw)
    BY <1>3, Zenon DEF TtyType, Inv, TypeOK
  <2>2. ~conf.early => ~tty'.raw
    BY <2>1, Zenon DEF Inv, TermInv
  <2> QED
    BY <1>2, <1>3, <2>1, <2>2, Zenon DEF TermInv
<1>7. LoopInv'
  BY <1>2, <1>3, <1>4, Zenon DEF Inv, LoopInv, MonSame
<1>8. StatusInv'
  BY <1>1, <1>2, <1>3, StatusKept, Zenon
<1>9. TypeOK'
  BY <1>2, <1>3, <1>6, Zenon DEF Inv, TypeOK, MonSame, CmdMoves, SockType, CaughtType, TtyType
<1> QED
  BY <1>1, <1>5, <1>6, <1>7, <1>8, <1>9, Zenon DEF Inv

(* What a callback leaves of a closure unless it assigns it.               *)
SameData(p, q) ==
  /\ q.monitor = p.monitor /\ q.cmnd = p.cmnd /\ q.cstat = p.cstat /\ q.msgs = p.msgs
  /\ q.fwd = p.fwd /\ q.foreground = p.foreground /\ q.raw = p.raw /\ q.why = p.why

LEMMA PoppedMain ==
  ASSUME Inv, main.pc = "service"
  PROVE  LET p == Popped(main)
         IN  /\ p \in MainType /\ SameData(main, p) /\ p.active = Tail(main.active)
             /\ IoOnce(p.active) /\ \A e : Active(p.active, e) => Active(main.active, e)
             /\ \A e \in {"fwd", "back"} : main.active[1][1] = e =>
                  Active(main.active, e) /\ ~Active(p.active, e)
<1>1. main \in MainType /\ main.active \in Queue /\ main.active # << >> /\ IoOnce(main.active)
  BY Zenon DEF Inv, TypeOK, LoopInv, MainType
<1>2. Tail(main.active) \in Queue
  BY <1>1, TailActive, Zenon
<1>3. /\ Popped(main) \in MainType /\ SameData(main, Popped(main))
      /\ Popped(main).active = Tail(main.active)
  BY <1>1, <1>2, Zenon DEF Popped, MainType, SameData
<1> QED
  BY <1>1, <1>3, TailActive

LEMMA LoopFlags ==
  ASSUME NEW p \in MainType
  PROVE  /\ LoopExit(p) \in MainType /\ SameData(p, LoopExit(p)) /\ LoopExit(p).active = p.active
         /\ LoopBreak(p) \in MainType /\ SameData(p, LoopBreak(p)) /\ LoopBreak(p).active = p.active
<1>1. /\ LoopExit(p) \in MainType /\ SameData(p, LoopExit(p)) /\ LoopExit(p).active = p.active
  BY Zenon DEF LoopExit, MainType, SameData
<1>2. /\ LoopBreak(p) \in MainType /\ SameData(p, LoopBreak(p)) /\ LoopBreak(p).active = p.active
  BY Zenon DEF LoopBreak, MainType, SameData
<1> QED
  BY <1>1, <1>2, Zenon

LEMMA ScheduleType ==
  ASSUME NEW p \in MainType, NEW sig, CS("SIGNO", sig) \in ToMonitor
  PROVE  LET q == schedule_signal(p, sig)
         IN  /\ q \in MainType /\ q.active = p.active /\ q.msgs # << >> /\ q.why = p.why
             /\ q.cstat = p.cstat /\ q.raw = p.raw
<1> DEFINE q == [p EXCEPT !.msgs = Append(@, CS("SIGNO", sig)), !.fwd = TRUE]
<1>1. p.msgs \in Seq(ToMonitor)
  BY Zenon DEF MainType
<1>2. Append(p.msgs, CS("SIGNO", sig)) \in Seq(ToMonitor) /\ Append(p.msgs, CS("SIGNO", sig)) # << >>
  BY <1>1
<1>3. /\ q \in MainType /\ q.active = p.active /\ q.msgs # << >> /\ q.why = p.why
      /\ q.cstat = p.cstat /\ q.raw = p.raw
  BY <1>2, Zenon DEF MainType
<1> HIDE DEF q
<1>4. LET t == LoopContinue(q)
      IN  /\ t \in MainType /\ t.active = q.active /\ t.msgs = q.msgs /\ t.why = q.why
          /\ t.cstat = q.cstat /\ t.raw = q.raw
  BY ZenonT(30), <1>3 DEF LoopContinue, MainType
<1> QED
  BY <1>3, <1>4, Zenon DEF schedule_signal, q

LEMMA ResumedType ==
  ASSUME TypeOK, NEW p \in MainType
  PROVE  /\ Resumed(p) \in MainType /\ Resumed(p).active = p.active /\ Resumed(p).msgs = p.msgs
         /\ Resumed(p).fwd = p.fwd /\ Resumed(p).why = p.why /\ Resumed(p).cstat = p.cstat
         /\ Resumed(p).raw = tty.fg
<1>1. tty.fg \in BOOLEAN
  BY Zenon DEF TypeOK
<1> QED
  BY <1>1, Zenon DEF Resumed, MainType

(* resume_terminal() makes the terminal raw when sudo is in the foreground *)
(* and takes note of it.                                                   *)
LEMMA ResumedTty ==
  ASSUME Inv, main.pc # "killed"
  PROVE  /\ TtyAfterResume \in [fg : BOOLEAN, raw : BOOLEAN]
         /\ ~conf.early /\ TtyAfterResume.raw => TtyAfterResume.fg /\ tty.fg
BY Zenon DEF Inv, TypeOK, TermInv, TtyAfterResume

(* Steps of main change none of these but what they assign.                *)
LEMMA MainFrame ==
  ASSUME TypeOK, UNCHANGED <<mon, cmd, err, env>>, ChildInv
  PROVE  MonSame /\ CmdMoves /\ env'.stray = env.stray
<1>1. CmdMoves
  BY CmdSame, Zenon
<1> QED
  BY <1>1, Zenon DEF MonSame, TypeOK

LEMMA SignalPipeStep ==
  ASSUME Inv, MainSignalPipe
  PROVE  Inv'
<1>1. main.pc = "service" /\ conf' = conf /\ UNCHANGED <<mon, cmd, sock, err, tty, pty, env>>
  BY Zenon DEF MainSignalPipe, Running
<1>2. TypeOK /\ ChildInv /\ LoopInv /\ main \in MainType
  BY Zenon DEF Inv, TypeOK
<1> DEFINE t == Tail(main.active) \o Pending("main")
<1>3. /\ t \in Queue /\ IoOnce(t)
      /\ \A e \in {"fwd", "back"} : Active(t, e) => Active(main.active, e)
  <2>1. Pending("main") \in Queue /\ \A e \in {"fwd", "back"} : ~Active(Pending("main"), e)
    BY <1>2, PendingQueue, Zenon
  <2>2. /\ Tail(main.active) \in Queue /\ IoOnce(Tail(main.active))
        /\ \A e : Active(Tail(main.active), e) => Active(main.active, e)
    BY <1>1, <1>2, TailActive, Zenon DEF LoopInv, MainType
  <2> QED
    BY <2>1, <2>2, JoinActive
<1> HIDE DEF t
<1>4. PICK p \in MainType : p = [main EXCEPT !.active = t]
  BY <1>2, <1>3, Zenon DEF MainType
<1>5. p.active = t /\ SameData(main, p)
  BY <1>2, <1>4, Zenon DEF MainType, SameData
<1>6. main' = Settle(p)
  BY <1>4, Zenon DEF MainSignalPipe, t
<1>7. Forked /\ MonSame /\ CmdMoves /\ env'.stray = env.stray
  BY <1>1, <1>2, MainFrame, Zenon DEF Inv, ForkInv, MainLoop
<1>8. /\ main' \in MainType
      /\ ForkInv' /\ TermInv' /\ WaitInv' /\ ChildInv' /\ LoopInv' /\ StatusInv'
  BY <1>1, <1>3, <1>5, <1>6, <1>7, BackInLoop, Zenon
     DEF Inv, SameData, LoopInv, TermInv, StatusInv
<1>9. TypeOK'
  BY <1>1, <1>2, <1>8, DrainedType, Zenon DEF TypeOK, MainSignalPipe
<1> QED
  BY <1>8, <1>9, Zenon DEF Inv

LEMMA ForwardStep ==
  ASSUME Inv, fwdchannel_cb
  PROVE  Inv'
<1>1. /\ main.pc = "service" /\ main.active[1][1] = "fwd"
      /\ conf' = conf /\ UNCHANGED <<mon, cmd, err, caught, tty, pty, env>>
  BY Zenon DEF fwdchannel_cb, Running
<1>2. TypeOK /\ ChildInv /\ LoopInv /\ TermInv /\ StatusInv
  BY Zenon DEF Inv
<1>3. Forked /\ MonSame /\ CmdMoves /\ env'.stray = env.stray
  BY <1>1, <1>2, MainFrame, Zenon DEF Inv, ForkInv, MainLoop
<1>4. PICK o \in MainType : /\ o = Popped(main) /\ SameData(main, o) /\ IoOnce(o.active)
                            /\ ~Active(o.active, "fwd")
                            /\ Active(o.active, "back") => Active(main.active, "back")
  BY <1>1, PoppedMain, Zenon
<1>5. PICK p \in MainType : /\ p = [o EXCEPT !.fwd = FALSE] /\ p.active = o.active
                            /\ p.fwd = FALSE /\ p.msgs = o.msgs /\ p.cstat = o.cstat
                            /\ p.raw = o.raw /\ p.why = o.why
  <2> DEFINE q == [o EXCEPT !.fwd = FALSE]
  <2>1. /\ q \in MainType /\ q.active = o.active /\ q.fwd = FALSE /\ q.msgs = o.msgs
        /\ q.cstat = o.cstat /\ q.raw = o.raw /\ q.why = o.why
    BY Zenon DEF MainType
  <2> QED
    BY <2>1, Zenon
<1>6. /\ IoOnce(p.active) /\ ~Active(p.active, "fwd") /\ p.fwd = FALSE
      /\ Active(p.active, "back") => sock.toMain # << >> \/ ~MonitorLives
      /\ ~conf.early => p.why # "early" /\ (tty.raw => p.raw /\ tty.fg)
      /\ Stored(p.cstat)
  BY <1>1, <1>2, <1>4, <1>5, Zenon DEF SameData, LoopInv, TermInv, StatusInv
<1>7. /\ sock \in [toMon : Seq(ToMonitor), toMain : Seq(ToMain), reset : BOOLEAN]
      /\ p.msgs \in Seq(ToMonitor)
  BY <1>2, Zenon DEF TypeOK, MainType
<1>8. ASSUME NEW q \in MainType, main' = Settle(q),
             q.active = p.active, q.fwd = p.fwd, q.raw = p.raw, q.why = p.why,
             Stored(q.cstat) \/ Happened(q.cstat)',
             sock' \in [toMon : Seq(ToMonitor), toMain : Seq(ToMain), reset : BOOLEAN],
             sock'.toMain = sock.toMain
      PROVE  Inv'
  <2>1. /\ main' \in MainType
        /\ ForkInv' /\ TermInv' /\ WaitInv' /\ ChildInv' /\ LoopInv' /\ StatusInv'
    BY <1>1, <1>3, <1>6, <1>8, BackInLoop, Zenon
  <2>2. TypeOK'
    BY <1>1, <1>2, <1>8, <2>1, Zenon DEF TypeOK
  <2> QED
    BY <2>1, <2>2, Zenon DEF Inv
<1>9. CASE /\ main' = Settle([p EXCEPT !.msgs = << >>])
           /\ sock' = [sock EXCEPT !.toMon = @ \o p.msgs]
  <2>1. PICK q \in MainType : /\ q = [p EXCEPT !.msgs = << >>] /\ q.active = p.active
                              /\ q.fwd = p.fwd /\ q.raw = p.raw /\ q.why = p.why
                              /\ q.cstat = p.cstat
    <3>1. << >> \in Seq(ToMonitor)
      OBVIOUS
    <3> DEFINE r == [p EXCEPT !.msgs = << >>]
    <3>3. /\ r \in MainType /\ r.active = p.active /\ r.fwd = p.fwd /\ r.raw = p.raw
          /\ r.why = p.why /\ r.cstat = p.cstat
      BY <3>1, Zenon DEF MainType
    <3> QED
      BY <3>3, Zenon
  <2>2. sock.toMon \o p.msgs \in Seq(ToMonitor)
    BY <1>7
  <2>3. /\ sock' \in [toMon : Seq(ToMonitor), toMain : Seq(ToMain), reset : BOOLEAN]
        /\ sock'.toMain = sock.toMain
    BY <1>7, <1>9, <2>2, Zenon
  <2> QED
    BY <1>6, <1>8, <1>9, <2>1, <2>3, Zenon
<1>10. CASE /\ main' = Settle([p EXCEPT !.msgs = Tail(@)])
            /\ sock' = [sock EXCEPT !.reset = FALSE]
  <2>1. PICK q \in MainType : /\ q = [p EXCEPT !.msgs = Tail(@)] /\ q.active = p.active
                              /\ q.fwd = p.fwd /\ q.raw = p.raw /\ q.why = p.why
                              /\ q.cstat = p.cstat
    <3>1. p.msgs # << >>
      BY <1>1, <1>2, <1>4, <1>5, PoppedMain, Zenon DEF SameData, LoopInv
    <3>2. Tail(p.msgs) \in Seq(ToMonitor)
      BY <1>7, <3>1
    <3> DEFINE r == [p EXCEPT !.msgs = Tail(@)]
    <3>3. /\ r \in MainType /\ r.active = p.active /\ r.fwd = p.fwd /\ r.raw = p.raw
          /\ r.why = p.why /\ r.cstat = p.cstat
      BY <3>2, Zenon DEF MainType
    <3> QED
      BY <3>3, Zenon
  <2>2. /\ sock' \in [toMon : Seq(ToMonitor), toMain : Seq(ToMain), reset : BOOLEAN]
        /\ sock'.toMain = sock.toMain
    BY <1>7, <1>10, Zenon
  <2> QED
    BY <1>6, <1>8, <1>10, <2>1, <2>2, Zenon
<1>11. CASE /\ ~MonitorLives /\ UNCHANGED sock
            /\ main' = Settle(LoopBreak([p EXCEPT !.msgs = << >>,
                                                  !.cstat = CS("ERRNO", "EPIPE")]))
  <2>1. PICK r \in MainType : /\ r = [p EXCEPT !.msgs = << >>, !.cstat = CS("ERRNO", "EPIPE")]
                              /\ r.active = p.active /\ r.fwd = p.fwd /\ r.raw = p.raw
                              /\ r.why = p.why /\ r.cstat = CS("ERRNO", "EPIPE")
    <3>1. << >> \in Seq(ToMonitor) /\ CS("ERRNO", "EPIPE") \in Statuses
      BY DEF CS, Statuses, Errnos
    <3> DEFINE t == [p EXCEPT !.msgs = << >>, !.cstat = CS("ERRNO", "EPIPE")]
    <3>3. /\ t \in MainType /\ t.active = p.active /\ t.fwd = p.fwd /\ t.raw = p.raw
          /\ t.why = p.why /\ t.cstat = CS("ERRNO", "EPIPE")
      BY <3>1, Zenon DEF MainType
    <3> QED
      BY <3>3, Zenon
  <2>2. PICK q \in MainType : /\ q = LoopBreak(r) /\ SameData(r, q) /\ q.active = r.active
    BY LoopFlags, Zenon
  <2>3. q.cstat = CS("ERRNO", "EPIPE")
    BY <2>1, <2>2, Zenon DEF SameData
  <2>4. MonitorEnded'
    BY <1>3, <1>11, Zenon DEF MonSame, MonitorEnded, MonitorLives, Forked
  <2>5. Happened(q.cstat)'
    BY <2>3, <2>4 DEF Happened, CS
  <2> QED
    BY <1>7, <1>8, <1>11, <2>1, <2>2, <2>5, Zenon DEF SameData
<1> QED
  BY <1>4, <1>5, <1>9, <1>10, <1>11, Zenon DEF fwdchannel_cb

(* What holds of the closure a callback works on: its own event is not     *)
(* active any more.                                                        *)
Working(p) ==
  /\ p \in MainType /\ IoOnce(p.active) /\ Forked
  /\ p.fwd \/ Active(p.active, "fwd") => p.msgs # << >>
  /\ Active(p.active, "back") => sock'.toMain # << >> \/ ~MonitorLives
  /\ p.raw = main.raw /\ Stored(p.cstat)

LEMMA GivesTerminal ==
  ASSUME Inv, main.pc \in MainLoop, NEW p, Working(p), NEW why, GiveTerminal(p, why),
         ~conf.early => p.why # "early", conf' = conf, mon' = mon, pty' = pty, sock' \in SockType,
         Range(sock'.toMain) \subseteq Range(sock.toMain)
  PROVE  Inv'
<1>1. /\ main' = GoOn(schedule_signal([p EXCEPT !.foreground = TRUE, !.raw = @ \/ tty.fg],
                                      "CONT_FG"), why)
      /\ tty' = TtyAfterResume /\ UNCHANGED <<cmd, err, caught, env>>
  BY Zenon DEF GiveTerminal
<1>2. TypeOK /\ ChildInv /\ TermInv /\ tty \in TtyType /\ p \in MainType
  BY Zenon DEF Inv, TypeOK, TtyType, Working
<1>3. MonSame /\ CmdMoves
  BY <1>1, <1>2, CmdSame, Zenon DEF MonSame, TypeOK
<1>4. PICK o \in MainType : /\ o = [p EXCEPT !.foreground = TRUE, !.raw = @ \/ tty.fg]
                            /\ o.active = p.active /\ o.cstat = p.cstat /\ o.why = p.why
                            /\ (p.raw \/ tty.fg => o.raw)
  <2> DEFINE q == [p EXCEPT !.foreground = TRUE, !.raw = @ \/ tty.fg]
  <2>1. (p.raw \/ tty.fg) \in BOOLEAN
    BY <1>2, Zenon DEF MainType, TtyType
  <2>2. /\ q \in MainType /\ q.active = p.active /\ q.cstat = p.cstat /\ q.why = p.why
        /\ q.raw = (p.raw \/ tty.fg)
    BY <1>2, <2>1, Zenon DEF MainType
  <2> QED
    BY <2>2, Zenon
<1>5. PICK q \in MainType : /\ q = schedule_signal(o, "CONT_FG") /\ q.active = p.active
                            /\ q.msgs # << >> /\ q.why = p.why /\ q.cstat = p.cstat
                            /\ q.raw = o.raw
  <2>1. CS("SIGNO", "CONT_FG") \in ToMonitor
    BY Zenon DEF CS, ToMonitor
  <2>2. LET t == schedule_signal(o, "CONT_FG")
        IN  /\ t \in MainType /\ t.active = o.active /\ t.msgs # << >> /\ t.why = o.why
            /\ t.cstat = o.cstat /\ t.raw = o.raw
    BY <2>1, ScheduleType, Zenon
  <2> QED
    BY <1>4, <2>2, Zenon
<1>6. main' = Settle(q) \/ main' = [q EXCEPT !.pc = "wait"]
  BY <1>1, <1>4, <1>5, Zenon DEF GoOn
<1>7. /\ tty' \in TtyType /\ (tty'.raw <=> tty.raw \/ tty.fg) /\ tty'.fg = tty.fg
  BY <1>1, <1>2, Zenon DEF TtyAfterResume, TtyType
<1>8. ~conf.early => (tty'.raw => q.raw /\ tty'.fg)
  BY <1>2, <1>4, <1>5, <1>7, Zenon DEF TermInv, Working, MainLoop
<1>9. caught' \in CaughtType
  BY <1>1, <1>2, Zenon DEF TypeOK, CaughtType
<1> QED
  BY <1>1, <1>3, <1>5, <1>6, <1>7, <1>8, <1>9, GoesOn, Zenon DEF Working

LEMMA StopsOrKills ==
  ASSUME Inv, main.pc \in MainLoop, NEW p, Working(p), NEW why \in {"command", "monitor"},
         StopOrKill(p, why), ~conf.early => p.why # "early", conf' = conf, MonSame, pty' = pty,
         sock' \in SockType, Range(sock'.toMain) \subseteq Range(sock.toMain)
  PROVE  Inv'
<1>1. TypeOK /\ ChildInv /\ TermInv /\ tty \in TtyType /\ p \in MainType /\ main.pc # "killed"
  BY Zenon DEF Inv, TypeOK, TtyType, Working, MainLoop
<1>2. CASE StopSelf(p, why) /\ UNCHANGED <<cmd, err, caught, env>>
  <2>1. CmdMoves /\ caught' \in CaughtType
    BY <1>1, <1>2, CmdSame, Zenon DEF TypeOK, CaughtType
  <2> QED
    BY <1>1, <1>2, <2>1, StopsSelf, Zenon DEF Working
<1>3. CASE /\ main' = GoOn([p EXCEPT !.raw = FALSE, !.cmnd = FALSE], why)
           /\ tty' = [tty EXCEPT !.raw = @ /\ ~p.raw]
           /\ \E c \in IF p.cmnd THEN Terminated ELSE {cmd} : CmdBecomes(c)
           /\ UNCHANGED env
  <2>1. PICK c : CmdBecomes(c) /\ CmdStep(c)
    BY <1>3, TerminatedStep, Zenon DEF CmdStep
  <2>2. CmdMoves /\ caught' \in CaughtType
    BY <1>1, <2>1, CmdBecomesMoves, Zenon DEF CaughtType
  <2>3. PICK q \in MainType : /\ q = [p EXCEPT !.raw = FALSE, !.cmnd = FALSE]
                              /\ q.active = p.active /\ q.fwd = p.fwd /\ q.msgs = p.msgs
                              /\ q.why = p.why /\ q.cstat = p.cstat
    <3> DEFINE t == [p EXCEPT !.raw = FALSE, !.cmnd = FALSE]
    <3>1. /\ t \in MainType /\ t.active = p.active /\ t.fwd = p.fwd /\ t.msgs = p.msgs
          /\ t.why = p.why /\ t.cstat = p.cstat
      BY <1>1, Zenon DEF MainType
    <3> QED
      BY <3>1, Zenon
  <2>4. tty' \in TtyType /\ (tty'.raw <=> tty.raw /\ ~p.raw)
    BY <1>1, <1>3, Zenon DEF TtyType
  <2>5. ~conf.early => ~tty'.raw
    BY <1>1, <2>4, Zenon DEF TermInv, Working
  <2>6. main' = Settle(q) \/ main' = [q EXCEPT !.pc = "wait"]
    BY <1>3, <2>3, Zenon DEF GoOn
  <2> QED
    BY <1>3, <2>2, <2>3, <2>4, <2>5, <2>6, GoesOn, Zenon DEF Working
<1> QED
  BY <1>2, <1>3, Zenon DEF StopOrKill

LEMMA BackStep ==
  ASSUME Inv, backchannel_cb
  PROVE  Inv'
<1>1. /\ main.pc = "service" /\ main.active[1][1] = "back" /\ main.pc \in MainLoop
      /\ conf' = conf /\ mon' = mon /\ pty' = pty
  BY Zenon DEF backchannel_cb, Running, MainLoop
<1>2. TypeOK /\ ChildInv /\ LoopInv /\ TermInv /\ StatusInv /\ Forked
  BY <1>1, Zenon DEF Inv, ForkInv
<1>3. PICK o \in MainType : /\ o = Popped(main) /\ SameData(main, o) /\ IoOnce(o.active)
                            /\ ~Active(o.active, "back") /\ Active(main.active, "back")
                            /\ Active(o.active, "fwd") => Active(main.active, "fwd")
  BY <1>1, PoppedMain, Zenon
<1>4. MonSame /\ sock \in SockType
  BY <1>1, <1>2, Zenon DEF MonSame, TypeOK, SockType
<1>5. o.fwd \/ Active(o.active, "fwd") => o.msgs # << >>
  BY <1>2, <1>3, Zenon DEF LoopInv, SameData
<1>6. Working(o)
  BY <1>2, <1>3, <1>5, Zenon DEF SameData, Working, StatusInv
<1>7. ~conf.early => o.why # "early" /\ (tty.raw => o.raw /\ tty.fg)
  BY <1>1, <1>2, <1>3, Zenon DEF TermInv, SameData, MainLoop
<1>8. ~conf.early => o.why # "early"
  BY <1>7, Zenon
<1>9. ASSUME NEW q \in MainType, main' = Settle(q), q.active = o.active, q.fwd = o.fwd,
             q.msgs = o.msgs, q.raw = o.raw, q.why = o.why,
             UNCHANGED <<cmd, err, caught, tty, env>>, sock' \in SockType,
             Range(sock'.toMain) \subseteq Range(sock.toMain),
             Stored(q.cstat) \/ Happened(q.cstat)'
      PROVE  Inv'
  <2>1. CmdMoves /\ caught' \in CaughtType /\ tty' \in TtyType /\ env' = env
    BY <1>2, <1>9, CmdSame, Zenon DEF TypeOK, CaughtType, TtyType
  <2> QED
    BY <1>1, <1>2, <1>3, <1>4, <1>5, <1>7, <1>9, <2>1, GoesOn, Zenon
<1>10. CASE BackEnd(o)
  <2> DEFINE lost == CS("ERRNO", "ECONNRESET")
  <2>1. /\ sock.toMain = << >> /\ UNCHANGED <<cmd, err, caught, tty, env>>
        /\ sock' = [sock EXCEPT !.reset = FALSE]
    BY <1>10, Zenon DEF BackEnd
  <2>2. sock' \in SockType /\ sock'.toMain = sock.toMain
    BY <1>4, <2>1, Zenon DEF SockType
  <2>3. MonitorEnded'
    BY <1>1, <1>2, <1>3, <2>1, Zenon DEF LoopInv, MonitorEnded, MonitorLives, Forked
  <2>4. lost \in Statuses /\ Happened(lost)'
    BY <2>3, Zenon DEF Happened, CS, Statuses, Errnos
  <2> HIDE DEF lost
  <2>5. PICK r \in MainType : /\ r = [o EXCEPT !.cstat = lost] /\ r.cstat = lost
                              /\ r.active = o.active /\ r.fwd = o.fwd /\ r.msgs = o.msgs
                              /\ r.raw = o.raw /\ r.why = o.why
    <3> DEFINE t == [o EXCEPT !.cstat = lost]
    <3>1. /\ t \in MainType /\ t.cstat = lost /\ t.active = o.active /\ t.fwd = o.fwd
          /\ t.msgs = o.msgs /\ t.raw = o.raw /\ t.why = o.why
      BY <2>4, Zenon DEF MainType
    <3> QED
      BY <3>1, Zenon
  <2>6. PICK q : /\ main' = Settle(q) /\ q \in {o, LoopExit(o), LoopBreak(r), LoopExit(r)}
    <3>1. o = [o EXCEPT !.cstat = o.cstat]
      BY Zenon DEF MainType
    <3> QED
      BY <1>10, <2>5, <3>1, Zenon DEF BackEnd, lost
  <2>7. /\ q \in MainType /\ q.active = o.active /\ q.fwd = o.fwd /\ q.msgs = o.msgs
        /\ q.raw = o.raw /\ q.why = o.why /\ q.cstat \in {o.cstat, lost}
    <3>1. /\ q \in MainType
          /\ \/ SameData(o, q) /\ q.active = o.active
             \/ SameData(r, q) /\ q.active = r.active
      <4>1. SameData(o, o)
        BY Zenon DEF SameData
      <4>2. CASE q \in {o, LoopExit(o)}
        BY <4>1, <4>2, LoopFlags, Zenon
      <4>3. CASE q \in {LoopBreak(r), LoopExit(r)}
        BY <4>3, LoopFlags, Zenon
      <4> QED
        BY <2>6, <4>2, <4>3, Zenon
    <3>2. CASE SameData(o, q) /\ q.active = o.active
      BY <3>1, <3>2, Zenon DEF SameData
    <3>3. CASE SameData(r, q) /\ q.active = r.active
      BY <2>5, <3>1, <3>3, Zenon DEF SameData
    <3> QED
      BY <3>1, <3>2, <3>3, Zenon
  <2>8. Stored(q.cstat) \/ Happened(q.cstat)'
    BY <1>6, <2>4, <2>7, Zenon DEF Working
  <2> QED
    BY <1>9, <2>1, <2>2, <2>6, <2>7, <2>8, Zenon
<1>11. CASE /\ sock.toMain # << >> /\ BackStatus(o, Head(sock.toMain))
            /\ sock' = [sock EXCEPT !.toMain = Tail(@)]
  <2>1. sock.toMain \in Seq(ToMain) /\ sock.toMain # << >>
    BY <1>4, <1>11, Zenon DEF SockType
  <2>2. PICK m \in ToMain : m = Head(sock.toMain) /\ m \in Range(sock.toMain)
    BY <2>1 DEF Range
  <2>3. Tail(sock.toMain) \in Seq(ToMain) /\ Range(Tail(sock.toMain)) \subseteq Range(sock.toMain)
    BY <2>1, TailRange
  <2>4. sock' \in SockType /\ sock'.toMain = Tail(sock.toMain)
    BY <1>4, <1>11, <2>3, Zenon DEF SockType
  <2>5. Range(sock'.toMain) \subseteq Range(sock.toMain)
    BY <2>3, <2>4, Zenon
  <2>6. Sent(m)
    BY <1>2, <2>2, Zenon DEF StatusInv
  <2>7. m.type \in {"ERRNO", "WSTATUS"} => m \in Statuses
    BY DEF ToMain, CS
  <2>8. CASE m.type = "ERRNO" \/ (m.type = "WSTATUS" /\ ~WIFSTOPPED(m.val))
    <3>1. PICK r \in MainType : /\ r = [o EXCEPT !.cstat = m] /\ r.cstat = m
                                /\ r.active = o.active /\ r.fwd = o.fwd /\ r.msgs = o.msgs
                                /\ r.raw = o.raw /\ r.why = o.why
      <4> DEFINE t == [o EXCEPT !.cstat = m]
      <4>1. /\ t \in MainType /\ t.cstat = m /\ t.active = o.active /\ t.fwd = o.fwd
            /\ t.msgs = o.msgs /\ t.raw = o.raw /\ t.why = o.why
        BY <2>7, <2>8, Zenon DEF MainType
      <4> QED
        BY <4>1, Zenon
    <3>2. PICK q : main' = Settle(q) /\ q \in {LoopBreak(r), LoopExit(r)}
      BY <1>11, <2>2, <2>8, <3>1, Zenon DEF BackStatus
    <3>3. /\ q \in MainType /\ q.active = o.active /\ q.fwd = o.fwd /\ q.msgs = o.msgs
          /\ q.raw = o.raw /\ q.why = o.why /\ q.cstat = m
      <4>1. q \in MainType /\ SameData(r, q) /\ q.active = r.active
        BY <3>2, LoopFlags, Zenon
      <4> QED
        BY <3>1, <4>1, Zenon DEF SameData
    <3>4. Stored(q.cstat)
      BY <2>6, <2>8, <3>3, Zenon DEF Stored, Sent
    <3>5. UNCHANGED <<cmd, err, caught, tty, env>>
      BY <1>11, <2>2, <2>8, Zenon DEF BackStatus
    <3> QED
      BY <1>9, <2>4, <2>5, <3>2, <3>3, <3>4, <3>5, Zenon
  <2>9. CASE m.type = "PID"
    <3>1. PICK q \in MainType : /\ q = [o EXCEPT !.cmnd = TRUE] /\ q.cstat = o.cstat
                                /\ q.active = o.active /\ q.fwd = o.fwd /\ q.msgs = o.msgs
                                /\ q.raw = o.raw /\ q.why = o.why
      <4> DEFINE t == [o EXCEPT !.cmnd = TRUE]
      <4>1. /\ t \in MainType /\ t.cstat = o.cstat /\ t.active = o.active /\ t.fwd = o.fwd
            /\ t.msgs = o.msgs /\ t.raw = o.raw /\ t.why = o.why
        BY Zenon DEF MainType
      <4> QED
        BY <4>1, Zenon
    <3>2. main' = Settle(q) /\ UNCHANGED <<cmd, err, caught, tty, env>>
      BY <1>11, <2>2, <2>9, <3>1, Zenon DEF BackStatus
    <3> QED
      BY <1>6, <1>9, <2>4, <2>5, <3>1, <3>2, Zenon DEF Working
  <2>10. CASE suspend_sudo_pty(o, m.val, "command")
    <3>1. CASE GiveTerminal(o, "command")
      BY <1>1, <1>6, <1>8, <2>4, <2>5, <3>1, GivesTerminal, Zenon
    <3>2. CASE StopOrKill(o, "command")
      BY <1>1, <1>4, <1>6, <1>8, <2>4, <2>5, <3>2, StopsOrKills, Zenon
    <3> QED
      BY <2>10, <3>1, <3>2, Zenon DEF suspend_sudo_pty
  <2> QED
    BY <1>11, <2>2, <2>8, <2>9, <2>10, Zenon DEF BackStatus
<1> QED
  BY <1>3, <1>10, <1>11, Zenon DEF backchannel_cb

(* What every callback but those of the channels can start from.           *)
LEMMA LoopFacts ==
  ASSUME Inv, main.pc \in MainLoop \/ (Forked /\ main.pc # "killed"), UNCHANGED <<conf, sock>>
  PROVE  /\ TypeOK /\ ChildInv /\ LoopInv /\ Forked /\ sock' \in SockType
         /\ main \in MainType /\ tty \in TtyType /\ caught \in CaughtType
         /\ Range(sock'.toMain) \subseteq Range(sock.toMain)
         /\ ~conf.early => main.why # "early" /\ (tty.raw => main.raw /\ tty.fg)
         /\ Working(main)
<1>1. TypeOK /\ ChildInv /\ LoopInv /\ Forked /\ TermInv /\ StatusInv
  BY Zenon DEF Inv, ForkInv
<1>2. main \in MainType /\ tty \in TtyType /\ caught \in CaughtType /\ sock \in SockType
  BY <1>1, Zenon DEF TypeOK, TtyType, CaughtType, SockType
<1>3. ~conf.early => main.why # "early" /\ (tty.raw => main.raw /\ tty.fg)
  BY <1>1, Zenon DEF TermInv, MainLoop
<1>4. Working(main)
  BY <1>1, <1>2, Zenon DEF Working, LoopInv, StatusInv
<1> QED
  BY <1>1, <1>2, <1>3, <1>4, Zenon

LEMMA SignalStep ==
  ASSUME Inv, MainSignal
  PROVE  Inv'
<1>1. PICK s \in Signals, from \in Senders : signal_cb_pty(s, from)
  BY Zenon DEF MainSignal
<1>2. /\ main.pc = "service" /\ main.pc \in MainLoop /\ main.active[1] = <<s, from>>
      /\ conf' = conf /\ UNCHANGED <<mon, cmd, sock, err, caught, pty, env>>
  BY <1>1, Zenon DEF signal_cb_pty, MainLoop
<1>3. /\ TypeOK /\ ChildInv /\ LoopInv /\ Forked /\ sock' \in SockType /\ caught' \in CaughtType
      /\ tty \in TtyType /\ Range(sock'.toMain) \subseteq Range(sock.toMain)
      /\ ~conf.early => main.why # "early" /\ (tty.raw => main.raw /\ tty.fg)
      /\ Working(main)
  BY <1>2, LoopFacts, Zenon
<1>4. PICK p \in MainType : /\ p = Popped(main) /\ SameData(main, p) /\ IoOnce(p.active)
                            /\ \A e : Active(p.active, e) => Active(main.active, e)
  BY <1>2, PoppedMain, Zenon
<1>5. MonSame /\ CmdMoves /\ env' = env /\ pty' = pty
  BY <1>2, <1>3, MainFrame, Zenon
<1>6. ASSUME NEW q \in MainType, main' = Settle(q) \/ main' = [q EXCEPT !.pc = "wait"],
             q.active = p.active, q.cstat = p.cstat, q.why = p.why,
             q.msgs # << >> \/ (q.msgs = p.msgs /\ q.fwd = p.fwd), tty' \in TtyType,
             ~conf.early => (tty'.raw => q.raw /\ tty'.fg)
      PROVE  Inv'
  <2>1. q.fwd \/ Active(q.active, "fwd") => q.msgs # << >>
    BY <1>3, <1>4, <1>6, Zenon DEF Working, SameData
  <2>2. Active(q.active, "back") => sock'.toMain # << >> \/ ~MonitorLives
    BY <1>3, <1>4, <1>6, Zenon DEF Working
  <2>3. Stored(q.cstat) /\ (~conf.early => q.why # "early") /\ IoOnce(q.active)
    BY <1>3, <1>4, <1>6, Zenon DEF Working, SameData
  <2> QED
    BY <1>2, <1>3, <1>5, <1>6, <2>1, <2>2, <2>3, GoesOn, Zenon
<1>7. CASE (main' = Settle(p) \/ main' = [p EXCEPT !.pc = "wait"]) /\ UNCHANGED tty
  BY <1>3, <1>4, <1>6, <1>7, Zenon DEF SameData
<1>8. CASE main' = Settle(Resumed(p)) /\ tty' = TtyAfterResume
  <2>1. PICK q \in MainType : /\ q = Resumed(p) /\ q.active = p.active /\ q.msgs = p.msgs
                              /\ q.fwd = p.fwd /\ q.why = p.why /\ q.cstat = p.cstat
                              /\ q.raw = tty.fg
    BY <1>3, ResumedType, Zenon
  <2>2. tty' \in TtyType /\ (~conf.early => (tty'.raw => q.raw /\ tty'.fg))
    BY <1>2, <1>8, <2>1, ResumedTty, Zenon DEF TtyType
  <2> QED
    BY <1>6, <1>8, <2>1, <2>2, Zenon
<1>9. CASE s \notin {"CHLD", "CONT"} /\ main' = Settle(schedule_signal(p, s)) /\ UNCHANGED tty
  <2>1. CS("SIGNO", s) \in ToMonitor
    BY <1>9, Zenon DEF CS, ToMonitor
  <2>2. LET q == schedule_signal(p, s)
        IN  /\ q \in MainType /\ q.active = p.active /\ q.msgs # << >> /\ q.why = p.why
            /\ q.cstat = p.cstat /\ q.raw = p.raw
    BY <2>1, ScheduleType, Zenon
  <2>3. PICK q \in MainType : /\ q = schedule_signal(p, s) /\ q.active = p.active
                              /\ q.msgs # << >> /\ q.why = p.why /\ q.cstat = p.cstat
                              /\ q.raw = p.raw
    BY <2>2, Zenon
  <2>4. tty' \in TtyType /\ (~conf.early => (tty'.raw => q.raw /\ tty'.fg))
    BY <1>3, <1>4, <1>9, <2>3, Zenon DEF SameData
  <2> QED
    BY <1>6, <1>9, <2>3, <2>4, Zenon
<1> QED
  BY <1>1, <1>4, <1>7, <1>8, <1>9, Zenon DEF signal_cb_pty

LEMMA MonitorStatusStep ==
  ASSUME Inv, handle_sigchld_pty
  PROVE  Inv'
<1>1. main.pc = "wait" /\ main.pc \in MainLoop /\ UNCHANGED <<conf, sock>> /\ pty' = pty
  BY Zenon DEF handle_sigchld_pty, MainLoop
<1>2. /\ TypeOK /\ ChildInv /\ LoopInv /\ Forked /\ sock' \in SockType /\ main \in MainType
      /\ tty \in TtyType /\ caught \in CaughtType
      /\ Range(sock'.toMain) \subseteq Range(sock.toMain)
      /\ ~conf.early => main.why # "early" /\ (tty.raw => main.raw /\ tty.fg)
      /\ Working(main)
  BY <1>1, LoopFacts, Zenon
<1>3. PICK p \in MainType : p = main
  BY <1>2, Zenon
<1>4. CASE /\ StopOrKill(main, "monitor")
           /\ mon' = [mon EXCEPT !.stop = IF conf.leader THEN "told" ELSE "no"]
  <2>1. MonSame
    BY <1>2, <1>4, Zenon DEF TypeOK, MonType, MonSame
  <2>2. /\ Working(p) /\ StopOrKill(p, "monitor") /\ conf' = conf
        /\ ~conf.early => p.why # "early"
    BY <1>1, <1>2, <1>3, <1>4, Zenon
  <2> QED
    BY <1>1, <1>2, <2>1, <2>2, StopsOrKills, Zenon
<1>5. CASE /\ main' = Settle([main EXCEPT !.monitor = @ /\ MonitorLives])
           /\ UNCHANGED <<mon, cmd, err, caught, tty, env>>
  <2>1. MonSame /\ CmdMoves /\ caught' \in CaughtType /\ tty' \in TtyType
    BY <1>2, <1>5, MainFrame, Zenon
  <2>2. PICK b \in BOOLEAN : b = (main.monitor /\ MonitorLives)
    BY <1>2, Zenon DEF MainType
  <2>3. PICK q \in MainType : /\ q = [p EXCEPT !.monitor = b] /\ q.active = p.active
                              /\ q.cstat = p.cstat /\ q.why = p.why /\ q.msgs = p.msgs
                              /\ q.fwd = p.fwd /\ q.raw = p.raw
    <3> DEFINE t == [p EXCEPT !.monitor = b]
    <3>1. /\ t \in MainType /\ t.active = p.active /\ t.cstat = p.cstat /\ t.why = p.why
          /\ t.msgs = p.msgs /\ t.fwd = p.fwd /\ t.raw = p.raw
      BY Zenon DEF MainType
    <3> QED
      BY <3>1, Zenon
  <2>4. main' = Settle(q)
    BY <1>3, <1>5, <2>2, <2>3, Zenon
  <2>5. /\ IoOnce(q.active) /\ (q.fwd \/ Active(q.active, "fwd") => q.msgs # << >>)
        /\ Active(q.active, "back") => sock'.toMain # << >> \/ ~MonitorLives
        /\ ~conf.early => q.why # "early" /\ (tty'.raw => q.raw /\ tty'.fg)
        /\ Stored(q.cstat)
    BY <1>2, <1>3, <1>5, <2>3, Zenon DEF Working
  <2> QED
    BY <1>1, <1>2, <1>5, <2>1, <2>4, <2>5, GoesOn, Zenon
<1> QED
  BY <1>4, <1>5, Zenon DEF handle_sigchld_pty

LEMMA ResumeStep ==
  ASSUME Inv, MainResumes
  PROVE  Inv'
<1>1. /\ main.pc = "resuming" /\ main.why # "early" /\ UNCHANGED <<conf, sock>> /\ pty' = pty
      /\ env' = env /\ UNCHANGED <<cmd, err, caught>>
      /\ main' = GoOn(AfterStop([main EXCEPT !.why = "none"]), main.why)
      /\ tty' = IF main.cmnd THEN TtyAfterResume ELSE tty
      /\ mon' = IF main.why = "monitor" THEN [mon EXCEPT !.stop = "no"] ELSE mon
  BY Zenon DEF MainResumes
<1>2. Forked /\ main.pc # "killed"
  BY <1>1, Zenon DEF Inv, ForkInv
<1>3. /\ TypeOK /\ ChildInv /\ LoopInv /\ Forked /\ sock' \in SockType /\ main \in MainType
      /\ tty \in TtyType /\ caught \in CaughtType
      /\ Range(sock'.toMain) \subseteq Range(sock.toMain)
      /\ ~conf.early => main.why # "early" /\ (tty.raw => main.raw /\ tty.fg)
      /\ Working(main)
  BY <1>1, <1>2, LoopFacts, Zenon
<1>4. MonSame /\ CmdMoves
  <2>1. MonSame
    BY <1>1, <1>3, Zenon DEF TypeOK, MonType, MonSame
  <2> QED
    BY <1>1, <1>3, <2>1, CmdSame, Zenon
<1>5. PICK o \in MainType : /\ o = [main EXCEPT !.why = "none"] /\ o.active = main.active
                            /\ o.msgs = main.msgs /\ o.fwd = main.fwd /\ o.raw = main.raw
                            /\ o.cstat = main.cstat /\ o.why = "none" /\ o.cmnd = main.cmnd
  <2> DEFINE t == [main EXCEPT !.why = "none"]
  <2>1. /\ t \in MainType /\ t.active = main.active
        /\ t.msgs = main.msgs /\ t.fwd = main.fwd /\ t.raw = main.raw
        /\ t.cstat = main.cstat /\ t.why = "none" /\ t.cmnd = main.cmnd
    BY <1>3, Zenon DEF MainType
  <2> QED
    BY <2>1, Zenon
<1>6. ASSUME NEW q \in MainType, main' = GoOn(q, main.why), q.active = o.active,
             q.cstat = o.cstat, q.why = o.why,
             q.msgs # << >> \/ (q.msgs = o.msgs /\ q.fwd = o.fwd), tty' \in TtyType,
             ~conf.early => (tty'.raw => q.raw /\ tty'.fg)
      PROVE  Inv'
  <2>1. q.fwd \/ Active(q.active, "fwd") => q.msgs # << >>
    BY <1>3, <1>5, <1>6, Zenon DEF Working
  <2>2. Active(q.active, "back") => sock'.toMain # << >> \/ ~MonitorLives
    BY <1>3, <1>5, <1>6, Zenon DEF Working
  <2>3. Stored(q.cstat) /\ q.why # "early" /\ IoOnce(q.active)
    BY <1>3, <1>5, <1>6, Zenon DEF Working
  <2>4. main' = Settle(q) \/ main' = [q EXCEPT !.pc = "wait"]
    BY <1>6, Zenon DEF GoOn
  <2>5. caught' \in CaughtType
    BY <1>1, <1>3, Zenon
  <2> QED
    BY <1>1, <1>3, <1>4, <1>6, <2>1, <2>2, <2>3, <2>4, <2>5, GoesOn, Zenon
<1>7. CASE ~main.cmnd
  <2>1. main' = GoOn(o, main.why) /\ tty' = tty
    BY <1>1, <1>5, <1>7, Zenon DEF AfterStop
  <2> QED
    BY <1>3, <1>5, <1>6, <2>1, Zenon
<1>8. CASE main.cmnd
  <2>1. PICK p \in MainType : /\ p = Resumed(o) /\ p.active = o.active /\ p.msgs = o.msgs
                              /\ p.fwd = o.fwd /\ p.why = o.why /\ p.cstat = o.cstat
                              /\ p.raw = tty.fg
    BY <1>3, ResumedType, Zenon
  <2>2. PICK sig \in {"CONT_FG", "CONT_BG"} : sig = IF tty.fg THEN "CONT_FG" ELSE "CONT_BG"
    BY Zenon
  <2>3. CS("SIGNO", sig) \in ToMonitor
    BY Zenon DEF CS, ToMonitor
  <2>4. LET t == schedule_signal(p, sig)
        IN  /\ t \in MainType /\ t.active = p.active /\ t.msgs # << >> /\ t.why = p.why
            /\ t.cstat = p.cstat /\ t.raw = p.raw
    BY <2>3, ScheduleType, Zenon
  <2>5. PICK q \in MainType : /\ q = schedule_signal(p, sig) /\ q.active = o.active
                              /\ q.msgs # << >> /\ q.why = o.why /\ q.cstat = o.cstat
                              /\ q.raw = tty.fg
    BY <2>1, <2>4, Zenon
  <2>6. main' = GoOn(q, main.why) /\ tty' = TtyAfterResume
    BY <1>1, <1>5, <1>8, <2>1, <2>2, <2>5, Zenon DEF AfterStop
  <2>7. tty' \in TtyType /\ (~conf.early => (tty'.raw => q.raw /\ tty'.fg))
    BY <1>2, <2>5, <2>6, ResumedTty, Zenon DEF TtyType
  <2> QED
    BY <1>6, <2>5, <2>6, <2>7, Zenon
<1> QED
  BY <1>7, <1>8, Zenon

(* Steps of main that move nothing else.                                   *)
LEMMA MainMoves ==
  ASSUME Inv, main' \in MainType, UNCHANGED <<conf, mon, cmd, sock, err, pty, env>>,
         caught' \in CaughtType, tty' \in TtyType, ForkInv', TermInv',
         main'.cstat \in {main.cstat, CS("WSTATUS", "early")},
         main'.pc = "service" => main'.active # << >>, IoOnce(main'.active),
         main'.fwd \/ Active(main'.active, "fwd") => main'.msgs # << >>,
         Active(main'.active, "back") => sock.toMain # << >> \/ ~MonitorLives
  PROVE  Inv'
<1>1. MonSame /\ CmdMoves /\ env'.stray = env.stray
  BY MainFrame, Zenon DEF Inv
<1>2. WaitInv' /\ Stable /\ ChildInv'
  BY <1>1, MonSameStable, Zenon DEF CmdMoves
<1>3. LoopInv'
  BY Zenon DEF Inv, LoopInv, MonitorLives
<1>4. PICK c : c = main.cstat
  BY Zenon
<1>5. StatusInv'
  <2>1. CASE main'.cstat = main.cstat
    BY <1>1, <1>2, <1>4, <2>1, StatusKept, Zenon DEF Inv, StatusInv
  <2>2. CASE main'.cstat = CS("WSTATUS", "early")
    BY <1>1, <1>2, <2>2, StatusKept, Zenon DEF Stored
  <2> QED
    BY <2>1, <2>2, Zenon
<1>6. TypeOK'
  BY Zenon DEF Inv, TypeOK, CaughtType, TtyType
<1> QED
  BY <1>2, <1>3, <1>5, <1>6, Zenon DEF Inv

LEMMA PollStep ==
  ASSUME Inv, MainPoll
  PROVE  Inv'
<1> DEFINE list  == <<"fwd", "sigpipe", "back">>
           ready == {e \in {"fwd", "sigpipe", "back"} : MainReady(e)}
           f == Filter(list, ready)
           a == [i \in 1 .. Len(f) |-> Io(f[i])]
<1>1. /\ main.pc = "poll" /\ ready # {} /\ main' = Scan(main, f)
      /\ UNCHANGED <<conf, mon, cmd, sock, err, caught, tty, pty, env>>
  BY Zenon DEF MainPoll
<1>2. list \in Seq(Events) /\ Once(list) /\ ready \cap Range(list) = ready
  <2>1. list \in Seq(Events) /\ Once(list)
    BY DEF Events, Once
  <2>2. \A e \in {"fwd", "sigpipe", "back"} : e \in Range(list)
    BY DEF Range
  <2> QED
    BY <2>1, <2>2, Zenon
<1>3. /\ a \in Queue /\ a # << >> /\ IoOnce(a)
      /\ \A e : Active(a, e) => e \in ready
  <2> HIDE DEF list, ready
  <2> QED
    BY <1>1, <1>2, ScanType, Zenon
<1>4. \A e : Active(a, e) => /\ e = "fwd" => main.fwd
                             /\ e = "back" => sock.toMain # << >> \/ ~MonitorLives
  <2>1. /\ MainReady("fwd") => main.fwd
        /\ MainReady("back") => sock.toMain # << >> \/ ~MonitorLives
    BY Zenon DEF MainReady
  <2> HIDE DEF a
  <2> QED
    BY <1>3, <2>1, Zenon
<1> HIDE DEF a
<1>5. /\ TypeOK /\ LoopInv /\ TermInv /\ ForkInv /\ main \in MainType
  BY Zenon DEF Inv, TypeOK
<1>6. /\ main' \in MainType /\ main'.active = a /\ SameData(main, main') /\ main'.pc = "service"
  <2>1. main' = [main EXCEPT !.pc = "service", !.active = a]
    BY <1>1, Zenon DEF Scan, a
  <2> QED
    BY <1>3, <1>5, <2>1, Zenon DEF MainType, MainLoop, SameData
<1>7. caught' \in CaughtType /\ tty' \in TtyType
  BY <1>1, <1>5, Zenon DEF TypeOK, CaughtType, TtyType
<1>8. ForkInv' /\ TermInv'
  BY <1>1, <1>5, <1>6, Zenon DEF ForkInv, Forked, TermInv, MainLoop, SameData
<1>9. /\ IoOnce(main'.active) /\ main'.active # << >>
      /\ main'.fwd \/ Active(main'.active, "fwd") => main'.msgs # << >>
      /\ Active(main'.active, "back") => sock.toMain # << >> \/ ~MonitorLives
  BY <1>3, <1>4, <1>5, <1>6, Zenon DEF SameData, LoopInv
<1> QED
  BY <1>1, <1>6, <1>7, <1>8, <1>9, MainMoves, Zenon DEF SameData

LEMMA InterruptedStep ==
  ASSUME Inv, MainPollInterrupted
  PROVE  Inv'
<1>1. /\ main.pc = "poll" /\ Noted("main") # {}
      /\ main' = [main EXCEPT !.pc = "service", !.active = Pending("main")]
      /\ caught' = Drained("main") /\ UNCHANGED <<conf, mon, cmd, sock, err, tty, pty, env>>
  BY Zenon DEF MainPollInterrupted
<1>2. /\ TypeOK /\ LoopInv /\ TermInv /\ ForkInv /\ main \in MainType
  BY Zenon DEF Inv, TypeOK
<1>3. PICK a \in Queue : /\ a = Pending("main") /\ IoOnce(a) /\ a # << >>
                         /\ ~Active(a, "fwd") /\ ~Active(a, "back")
  BY <1>1, <1>2, PendingQueue, Zenon
<1>4. /\ main' \in MainType /\ main'.active = a /\ SameData(main, main') /\ main'.pc = "service"
  BY <1>1, <1>2, <1>3, Zenon DEF MainType, MainLoop, SameData
<1>5. caught' \in CaughtType /\ tty' \in TtyType
  BY <1>1, <1>2, DrainedType, Zenon DEF TypeOK, CaughtType, TtyType
<1>6. ForkInv' /\ TermInv'
  BY <1>1, <1>2, <1>4, Zenon DEF ForkInv, Forked, TermInv, MainLoop, SameData
<1>7. /\ IoOnce(main'.active) /\ main'.active # << >>
      /\ main'.fwd \/ Active(main'.active, "fwd") => main'.msgs # << >>
      /\ Active(main'.active, "back") => sock.toMain # << >> \/ ~MonitorLives
  BY <1>1, <1>2, <1>3, <1>4, Zenon DEF SameData, LoopInv
<1> QED
  BY <1>1, <1>4, <1>5, <1>6, <1>7, MainMoves, Zenon DEF SameData

(* Steps that keep what is active, or drop it.                             *)
LEMMA MainRests ==
  ASSUME Inv, main' \in MainType, UNCHANGED <<conf, mon, cmd, sock, err, pty, env>>,
         caught' \in CaughtType, tty' \in TtyType, ForkInv', TermInv',
         main'.cstat \in {main.cstat, CS("WSTATUS", "early")},
         main'.pc = "service" => main.pc = "service" /\ main'.active = main.active,
         main'.active \in {main.active, << >>}, main'.fwd = main.fwd, main'.msgs = main.msgs
  PROVE  Inv'
<1>1. LoopInv
  BY Zenon DEF Inv
<1>2. /\ IoOnce(main'.active) /\ (main'.pc = "service" => main'.active # << >>)
      /\ main'.fwd \/ Active(main'.active, "fwd") => main'.msgs # << >>
      /\ Active(main'.active, "back") => sock.toMain # << >> \/ ~MonitorLives
  BY <1>1, EmptyQueue, Zenon DEF LoopInv
<1> QED
  BY <1>2, MainMoves, Zenon

LEMMA FinishStep ==
  ASSUME Inv, MainFinish
  PROVE  Inv'
<1>1. /\ TypeOK /\ TermInv /\ ForkInv /\ main \in MainType /\ tty \in TtyType
  BY Zenon DEF Inv, TypeOK, TtyType
<1>2. /\ main.pc = "after" /\ main' = [main EXCEPT !.pc = "done", !.raw = @ /\ ~tty.fg]
      /\ tty' = [tty EXCEPT !.raw = @ /\ ~(main.raw /\ tty.fg)]
      /\ UNCHANGED <<conf, mon, cmd, sock, err, caught, pty, env>>
  BY Zenon DEF MainFinish
<1>3. (main.raw /\ ~tty.fg) \in BOOLEAN /\ (tty.raw /\ ~(main.raw /\ tty.fg)) \in BOOLEAN
  BY Zenon
<1>4. /\ main' \in MainType /\ main'.pc = "done" /\ main'.active = main.active
      /\ main'.fwd = main.fwd /\ main'.msgs = main.msgs /\ main'.cstat = main.cstat
      /\ main'.why = main.why
  BY <1>1, <1>2, <1>3, Zenon DEF MainType
<1>5. tty' \in TtyType /\ tty'.raw = (tty.raw /\ ~(main.raw /\ tty.fg)) /\ tty'.fg = tty.fg
  BY <1>1, <1>2, <1>3, Zenon DEF TtyType
<1>6. ForkInv'
  BY <1>1, <1>2, <1>4, Zenon DEF ForkInv, Forked, MainLoop
<1>7. TermInv'
  BY <1>1, <1>2, <1>4, <1>5, Zenon DEF TermInv
<1>8. caught' \in CaughtType
  BY <1>1, <1>2, Zenon DEF TypeOK, CaughtType
<1> QED
  BY <1>2, <1>4, <1>5, <1>6, <1>7, <1>8, MainRests, Zenon

LEMMA EarlyStep ==
  ASSUME Inv, EarlyExit \/ EarlyStop
  PROVE  Inv'
<1>1. /\ TypeOK /\ TermInv /\ ForkInv /\ main \in MainType /\ tty \in TtyType
  BY Zenon DEF Inv, TypeOK, TtyType
<1>2. conf.early
  BY <1>1, Zenon DEF EarlyExit, EarlyStop, TermInv
<1>3. CASE EarlyExit
  <2>1. /\ main.pc = "start" /\ main' = [main EXCEPT !.pc = "done", !.cstat = CS("WSTATUS", "early")]
        /\ UNCHANGED <<conf, mon, cmd, sock, err, caught, tty, pty, env>>
    BY <1>3, Zenon DEF EarlyExit
  <2>2. CS("WSTATUS", "early") \in Statuses /\ CS("WSTATUS", "early").type # "ERRNO"
    BY Zenon DEF CS, Statuses
  <2>3. /\ main' \in MainType /\ main'.pc = "done" /\ main'.active = main.active
        /\ main'.fwd = main.fwd /\ main'.msgs = main.msgs /\ main'.cstat = CS("WSTATUS", "early")
    BY <1>1, <2>1, <2>2, Zenon DEF MainType
  <2>4. ForkInv'
    BY <1>1, <2>1, <2>2, <2>3, Zenon DEF ForkInv, Forked, MainLoop
  <2>5. TermInv'
    BY <1>2, <2>1, Zenon DEF TermInv
  <2>6. caught' \in CaughtType /\ tty' \in TtyType
    BY <1>1, <2>1, Zenon DEF TypeOK, CaughtType
  <2> QED
    BY <2>1, <2>3, <2>4, <2>5, <2>6, MainRests, Zenon
<1>4. CASE EarlyStop
  <2>1. /\ main.pc = "start" /\ main' = [main EXCEPT !.pc = "suspended", !.why = "early"]
        /\ tty' = [tty EXCEPT !.fg = FALSE] /\ caught' = Drained("main")
        /\ UNCHANGED <<conf, mon, cmd, sock, err, pty, env>>
    BY <1>4, Zenon DEF EarlyStop
  <2>2. /\ main' \in MainType /\ main'.pc = "suspended" /\ main'.active = main.active
        /\ main'.fwd = main.fwd /\ main'.msgs = main.msgs /\ main'.cstat = main.cstat
        /\ main'.why = "early"
    BY <1>1, <2>1, Zenon DEF MainType
  <2>3. ForkInv'
    BY <1>1, <2>1, <2>2, Zenon DEF ForkInv, Forked, MainLoop
  <2>4. TermInv'
    BY <1>2, <2>1, Zenon DEF TermInv
  <2>5. caught' \in CaughtType /\ tty' \in TtyType
    BY <1>1, <2>1, DrainedType, Zenon DEF CaughtType, TtyType
  <2> QED
    BY <2>1, <2>2, <2>3, <2>4, <2>5, MainRests, Zenon
<1> QED
  BY <1>3, <1>4, Zenon

LEMMA ForkStep ==
  ASSUME Inv, ForkMonitor
  PROVE  Inv'
<1>1. /\ main.pc = "start" \/ (main.pc = "resuming" /\ main.why = "early")
      /\ main' = [main EXCEPT !.pc = "poll", !.monitor = TRUE, !.why = "none"]
      /\ mon' = [mon EXCEPT !.pc = "go"]
      /\ sock' = [sock EXCEPT !.toMon = <<CS("SIGNO", "0")>>]
      /\ UNCHANGED <<conf, cmd, err, caught, tty, pty, env>>
  BY Zenon DEF ForkMonitor
<1>2. /\ TypeOK /\ TermInv /\ ForkInv /\ WaitInv /\ ChildInv /\ LoopInv /\ StatusInv
      /\ main \in MainType /\ mon \in MonType /\ sock \in SockType
  BY Zenon DEF Inv, TypeOK, SockType
<1>3. mon.pc = "none" /\ main.active = << >> /\ sock.toMain = << >>
  BY <1>1, <1>2, Zenon DEF ForkInv, Forked
<1>4. /\ main' \in MainType /\ main'.pc = "poll" /\ main'.active = main.active
      /\ main'.fwd = main.fwd /\ main'.msgs = main.msgs /\ main'.cstat = main.cstat
      /\ main'.why = "none" /\ main'.raw = main.raw
  BY <1>1, <1>2, Zenon DEF MainType, MainLoop
<1>5. /\ mon' \in MonType /\ mon'.pc = "go" /\ mon'.cmnd = mon.cmnd /\ mon'.cstat = mon.cstat
  BY <1>1, <1>2, Zenon DEF MonType
<1>6. <<CS("SIGNO", "0")>> \in Seq(ToMonitor)
  BY DEF CS, ToMonitor
<1>7. sock' \in SockType /\ sock'.toMain = sock.toMain
  BY <1>1, <1>2, <1>6, Zenon DEF SockType
<1>8. ForkInv'
  BY <1>4, <1>5, Zenon DEF ForkInv, Forked, MainLoop
<1>9. TermInv'
  BY <1>1, <1>2, <1>4, Zenon DEF TermInv
<1>10. WaitInv'
  BY <1>1, <1>2, <1>3, <1>5, Zenon DEF WaitInv, MonLoop
<1>11. ChildInv'
  BY <1>1, <1>2, Zenon DEF ChildInv
<1>12. LoopInv'
  BY <1>2, <1>3, <1>4, <1>5, EmptyQueue, Zenon DEF LoopInv
<1>13. StatusInv'
  <2>1. Stable
    BY <1>1, <1>3, Zenon DEF Stable, MonitorEnded
  <2>2. PICK c : c = main.cstat
    BY Zenon
  <2>3. Range(sock'.toMain) \subseteq Range(sock.toMain) /\ main'.cstat = c /\ Stored(c)
    BY <1>2, <1>4, <1>7, <2>2, Zenon DEF StatusInv
  <2> QED
    BY <1>5, <2>1, <2>3, StatusKept, Zenon
<1>14. TypeOK'
  BY <1>1, <1>2, <1>4, <1>5, <1>7, Zenon DEF TypeOK, SockType
<1> QED
  BY <1>8, <1>9, <1>10, <1>11, <1>12, <1>13, <1>14, Zenon DEF Inv

LEMMA ShellStep ==
  ASSUME Inv, ShellContinues \/ ShellForegrounds \/ KillMain
  PROVE  Inv'
<1>1. /\ TypeOK /\ TermInv /\ ForkInv /\ main \in MainType /\ tty \in TtyType
      /\ caught \in CaughtType
  BY Zenon DEF Inv, TypeOK, TtyType, CaughtType
<1>2. CASE ShellContinues
  <2>1. /\ main.pc = "suspended" /\ main' = [main EXCEPT !.pc = "resuming"]
        /\ UNCHANGED <<conf, mon, cmd, sock, err, caught, pty, env>>
    BY <1>2, Zenon DEF ShellContinues
  <2>2. tty' \in TtyType /\ tty'.raw = tty.raw
    BY <1>1, <1>2, Zenon DEF TtyType, ShellContinues
  <2>3. /\ main' \in MainType /\ main'.pc = "resuming" /\ main'.active = main.active
        /\ main'.fwd = main.fwd /\ main'.msgs = main.msgs /\ main'.cstat = main.cstat
        /\ main'.why = main.why /\ main'.raw = main.raw
    BY <1>1, <2>1, Zenon DEF MainType
  <2>4. ForkInv'
    BY <1>1, <2>1, <2>3, Zenon DEF ForkInv, Forked, MainLoop
  <2>5. TermInv'
    BY <1>1, <2>1, <2>2, <2>3, Zenon DEF TermInv
  <2> QED
    BY <1>1, <2>1, <2>2, <2>3, <2>4, <2>5, MainRests, Zenon
<1>3. CASE ShellForegrounds
  <2>1. /\ main.pc \in MainLoop /\ tty' = [tty EXCEPT !.fg = TRUE]
        /\ caught' = Raise(caught, "main", "CONT", "user")
        /\ UNCHANGED <<conf, main, mon, cmd, sock, err, pty, env>>
    BY <1>3, Zenon DEF ShellForegrounds
  <2>2. tty' \in TtyType /\ tty'.raw = tty.raw /\ tty'.fg = TRUE
    BY <1>1, <2>1, Zenon DEF TtyType
  <2>3. caught' \in CaughtType
    <3>1. "CONT" \in Signals /\ "user" \in Senders
      BY SignalNames, Zenon DEF Senders
    <3> QED
      BY <1>1, <2>1, <3>1, RaiseType, Zenon DEF CaughtType
  <2>4. ForkInv'
    BY <1>1, <2>1, Zenon DEF ForkInv, Forked, MainLoop
  <2>5. TermInv'
    BY <1>1, <2>1, <2>2, Zenon DEF TermInv, MainLoop
  <2> QED
    BY <1>1, <2>1, <2>2, <2>3, <2>4, <2>5, MainRests, Zenon
<1>4. CASE KillMain
  <2>1. /\ main' = [main EXCEPT !.pc = "killed", !.active = << >>]
        /\ UNCHANGED <<conf, mon, cmd, sock, err, caught, tty, pty, env>>
    BY <1>4, Zenon DEF KillMain
  <2>2. /\ main' \in MainType /\ main'.pc = "killed" /\ main'.active = << >>
        /\ main'.fwd = main.fwd /\ main'.msgs = main.msgs /\ main'.cstat = main.cstat
        /\ main'.why = main.why
    BY <1>1, <2>1, EmptyQueue, Zenon DEF MainType
  <2>3. ForkInv'
    BY <1>1, <2>1, <2>2, Zenon DEF ForkInv, Forked, MainLoop
  <2>4. TermInv'
    BY <1>1, <2>1, <2>2, Zenon DEF TermInv
  <2> QED
    BY <1>1, <2>1, <2>2, <2>3, <2>4, MainRests, Zenon
<1> QED
  BY <1>2, <1>3, <1>4, Zenon
=============================================================================
