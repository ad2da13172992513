----------------------------- MODULE EventLoop -----------------------------
(***************************************************************************)
(* The event loop of lib/util/event.c on the poll(2) backend: one event    *)
(* base, the signal handler that interrupts it, and callbacks that add and *)
(* delete events and ask the loop to stop or to start over.                *)
(*                                                                         *)
(* An event waits for a file descriptor, a timeout (or both) or a signal.  *)
(* Signals reach the loop through a pipe, whose event is SigPipe.          *)
(***************************************************************************)
EXTENDS EventPoll, Queues

CONSTANTS
  SigPipe,    \* base->signal_event, one of IoEvents
  Timers,     \* events with neither a file descriptor nor a signal
  SigEvents,  \* events with SUDO_EV_SIGNAL or SUDO_EV_SIGINFO
  NSig,       \* signals are 1 .. NSig
  SigOf,      \* the signal of each of SigEvents
  Persist,    \* events with SUDO_EV_PERSIST
  Adds,       \* calls of sudo_ev_add() to consider: <<event, timeout, tohead>>
  Modes,      \* flags of sudo_ev_loop() to consider: subsets of {"ONCE", "NONBLOCK"}
  Requests,   \* what callbacks ask for: subset of {"exit", "break", "continue"}
  MaxCalls,   \* bound: calls of the API, and failures of poll(2)
  MaxSent,    \* bound: signals sent and descriptors becoming ready
  MaxClock    \* bound: value of the clock

VARIABLES
  events,        \* base->events: what is registered, signals apart
  signals,       \* base->signals: the events of each signal
  timeouts,      \* base->timeouts: sorted by deadline
  deadline,      \* ev->timeout
  active,        \* base->active: callbacks to run before the next poll
  flags,         \* ev->flags
  base,          \* base->flags
  num_handlers,  \* signals with a handler installed
  pending,       \* base->signal_pending
  caught,        \* base->signal_caught
  pipe,          \* the signal pipe holds a byte
  pc, cur,       \* control point of sudo_ev_loop(), event being serviced
  nonblock,      \* the flag SUDO_EVLOOP_NONBLOCK of this call
  timedout,      \* revents is SUDO_EV_TIMEOUT for the whole active queue
  rc,            \* what sudo_ev_loop() returned last
  ready, now,    \* events whose descriptor is ready; CLOCK_MONOTONIC
  calls, sent,   \* bounded counters
  owed,          \* history: events whose signal came since their last callback
  armed,         \* history: events whose timeout has yet to be reported
  dropped,       \* history: events taken off the active queue unserviced
  asked          \* history: who asked the loop to end, and how

queues  == <<events, signals, timeouts, deadline, active, flags, num_handlers>>
sigs    == <<pending, caught, pipe>>
control == <<base, pc, cur, nonblock, timedout, rc, asked>>
world   == <<ready, now, calls, sent>>
hist    == <<owed, armed, dropped>>
vars    == <<poll, queues, sigs, control, world, hist>>

None == "none"
NoTimeout == -1
UserIo == IoEvents \ {SigPipe}
Events == IoEvents \cup Timers \cup SigEvents

ASSUME EventsAssumption ==
  /\ None \notin Events /\ SigPipe \in IoEvents /\ SigPipe \in Persist
  /\ IoEvents \cap SigEvents = {} /\ Timers \cap (IoEvents \cup SigEvents) = {}
  /\ NSig \in Nat /\ SigOf \in [SigEvents -> 1 .. NSig]
  /\ Adds \subseteq (Events \ {SigPipe}) \X (Nat \cup {NoTimeout}) \X BOOLEAN
  /\ \A a \in Adds : a[1] \in SigEvents => a[2] = NoTimeout

Inserted(e) == "INSERTED" \in flags[e]

Init ==
  /\ PollInit
  /\ events = << >> /\ timeouts = << >> /\ active = << >>
  /\ signals = [s \in 1 .. NSig |-> << >>]
  /\ deadline = [e \in Events |-> 0] /\ flags = [e \in Events |-> {}]
  /\ num_handlers = 0
  /\ pending = [s \in 1 .. NSig |-> FALSE] /\ caught = FALSE /\ pipe = FALSE
  /\ base = {} /\ pc = "idle" /\ cur = None /\ nonblock = FALSE
  /\ timedout = FALSE /\ rc = 0 /\ asked = "no"
  /\ ready = {} /\ now = 0 /\ calls = 0 /\ sent = 0
  /\ owed = {} /\ armed = {} /\ dropped = {}

(***************************************************************************)
(* The API, called by callbacks and while the loop is not running.         *)
(***************************************************************************)
Caller == pc \in {"idle", "callback"} /\ calls < MaxCalls /\ calls' = calls + 1

Put(q, e, tohead) == IF tohead THEN <<e>> \o q ELSE Append(q, e)

(* Insert e with deadline d in order of the deadlines, after equal ones.   *)
InsertTimeout(q, e, d) == InsertBefore(q, First(q, {f \in Events : d < deadline[f]}), e)

(* The last part of sudo_ev_add(): set, change or drop the timeout.  fl is *)
(* the event's flags so far.                                               *)
SetTimeout(e, timo, fl) ==
  LET q == Without(timeouts, {e})
  IN  /\ now + timo <= MaxClock
      /\ dropped' = IF e \in SigEvents THEN dropped ELSE dropped \ {e}
      /\ IF timo = NoTimeout
         THEN /\ timeouts' = q /\ UNCHANGED deadline
              /\ flags' = [flags EXCEPT ![e] = fl \ {"TIMEOUTS"}]
              /\ armed' = armed \ {e}
         ELSE /\ timeouts' = InsertTimeout(q, e, now + timo)
              /\ deadline' = [deadline EXCEPT ![e] = now + timo]
              /\ flags' = [flags EXCEPT ![e] = fl \cup {"TIMEOUTS"}]
              /\ armed' = armed \cup {e}

(* The return value of the call that adds SigPipe is ignored.              *)
sudo_ev_add_signal(e, tohead) ==
  LET s == SigOf[e]
      first == signals[s] = << >>
      on == [flags EXCEPT ![e] = {"INSERTED"}]
  IN  /\ num_handlers' = IF first THEN num_handlers + 1 ELSE num_handlers
      /\ signals' = [signals EXCEPT ![s] = Put(@, e, tohead)]
      /\ IF Inserted(SigPipe) \/ TableFull
         THEN flags' = on /\ UNCHANGED <<events, poll>>
         ELSE /\ flags' = [on EXCEPT ![SigPipe] = {"INSERTED"}]
              /\ events' = Put(events, SigPipe, TRUE)
              /\ sudo_ev_add_impl(SigPipe)
      /\ UNCHANGED <<timeouts, deadline, hist>>

sudo_ev_add(e, timo, tohead) ==
  /\ Caller
  /\ \/ /\ Inserted(e)
        /\ SetTimeout(e, timo, flags[e])
        /\ UNCHANGED <<events, signals, num_handlers, poll, owed>>
     \/ /\ ~ Inserted(e) /\ e \in SigEvents
        /\ sudo_ev_add_signal(e, tohead)
     \/ /\ ~ Inserted(e) /\ e \in IoEvents /\ TableFull
        /\ UNCHANGED <<events, signals, num_handlers, poll, timeouts, deadline,
                       flags, hist>>
     \/ /\ ~ Inserted(e) /\ e \notin SigEvents
        /\ IF e \in IoEvents THEN sudo_ev_add_impl(e) ELSE UNCHANGED poll
        /\ events' = Put(events, e, tohead)
        /\ SetTimeout(e, timo, {"INSERTED"})
        /\ UNCHANGED <<signals, num_handlers, owed>>
  /\ UNCHANGED <<active, sigs, control, ready, now, sent>>

(* Unlink the events D, at most one of which has a descriptor.             *)
Unlink_KeepActive(D) ==
  /\ events' = Without(events, D)
  /\ timeouts' = Without(timeouts, D)
  /\ active' = active
  /\ flags' = [f \in Events |-> IF f \in D THEN {} ELSE flags[f]]
  /\ IF D \cap IoEvents = {} THEN UNCHANGED poll
     ELSE \E e \in D \cap IoEvents : sudo_ev_del_impl(e)
Unlink(D) ==
  /\ events' = Without(events, D)
  /\ timeouts' = Without(timeouts, D)
  /\ active' = Without(active, D)
  /\ flags' = [f \in Events |-> IF f \in D THEN {} ELSE flags[f]]
  /\ IF D \cap IoEvents = {} THEN UNCHANGED poll
     ELSE \E e \in D \cap IoEvents : sudo_ev_del_impl(e)

(* The last signal event takes the internal event with it.                 *)
DelSignal(e) ==
  LET s == SigOf[e]
      q == Without(signals[s], {e})
      n == IF q = << >> THEN num_handlers - 1 ELSE num_handlers
  IN  /\ signals' = [signals EXCEPT ![s] = q]
      /\ num_handlers' = n
      /\ Unlink({e} \cup IF n = 0 /\ Inserted(SigPipe) THEN {SigPipe} ELSE {})

sudo_ev_del(e) ==
  /\ Caller /\ Inserted(e)
  /\ IF e \in SigEvents THEN DelSignal(e)
     ELSE Unlink({e}) /\ UNCHANGED <<signals, num_handlers>>
  /\ owed' = owed \ {e} /\ armed' = armed \ {e} /\ dropped' = dropped \ {e}
  /\ UNCHANGED <<deadline, sigs, control, ready, now, sent>>

Ask(r) == IF pc = "callback" THEN asked' = r ELSE UNCHANGED asked

sudo_ev_loopexit ==
  /\ Caller
  /\ IF "BREAK" \in base THEN UNCHANGED <<base, asked>>
     ELSE base' = (base \ {"CONT"}) \cup {"EXIT", "ONCE"} /\ Ask("exit")
  /\ UNCHANGED <<poll, queues, sigs, pc, cur, nonblock, timedout, rc, ready, now, sent, hist>>

sudo_ev_loopbreak ==
  /\ Caller
  /\ base' = (base \ {"CONT", "EXIT", "ONCE"}) \cup {"BREAK"} /\ Ask("break")
  /\ UNCHANGED <<poll, queues, sigs, pc, cur, nonblock, timedout, rc, ready, now, sent, hist>>

sudo_ev_loopcontinue ==
  /\ Caller
  /\ base' = IF base \cap {"ONCE", "BREAK"} = {} THEN base \cup {"CONT"} ELSE base
  /\ UNCHANGED <<poll, queues, sigs, pc, cur, nonblock, timedout, rc, asked, ready, now, sent, hist>>

(***************************************************************************)
(* sudo_ev_loop().                                                         *)
(***************************************************************************)
Enter_KeepFlags(m) ==
  /\ pc = "idle" /\ calls < MaxCalls /\ calls' = calls + 1
  /\ base' = base \cup (m \cap {"ONCE"})
  /\ nonblock' = ("NONBLOCK" \in m)
  /\ asked' = IF "EXIT" \in base THEN "before" ELSE "no"
  /\ pc' = "scan"
  /\ UNCHANGED <<poll, queues, sigs, cur, timedout, rc, ready, now, sent, hist>>
Enter(m) ==
  /\ pc = "idle" /\ calls < MaxCalls /\ calls' = calls + 1
  /\ base' = (base \cup (m \cap {"ONCE"})) \cap {"EXIT", "ONCE"}
  /\ nonblock' = ("NONBLOCK" \in m)
  /\ asked' = IF "EXIT" \in base THEN "before" ELSE "no"
  /\ pc' = "scan"
  /\ UNCHANGED <<poll, queues, sigs, cur, timedout, rc, ready, now, sent, hist>>

(* The label done, with the flags b the base has then.                     *)
Done(r, b) ==
  /\ pc' = "idle" /\ rc' = r
  /\ base' = b \cap {"GOT_EXIT", "GOT_BREAK"}
  /\ cur' = None /\ timedout' = FALSE /\ nonblock' = FALSE
  /\ UNCHANGED asked

Goto(l) == pc' = l /\ UNCHANGED <<base, cur, nonblock, timedout, rc, asked>>

(* sudo_ev_deactivate_all().                                               *)
DeactivateAll ==
  /\ active' = << >>
  /\ flags' = [e \in Events |-> flags[e] \ {"ACTIVE"}]
  /\ dropped' = dropped \cup Range(active)

Scan ==
  /\ pc = "scan"
  /\ IF events = << >> THEN Done(1, base) ELSE Goto("poll")
  /\ UNCHANGED <<poll, queues, sigs, world, hist>>

(* The events that poll(2) reports: their slot is in the table.            *)
IsReady(e) ==
  /\ e \in IoEvents /\ pfd_idx[e] # -1
  /\ IF e = SigPipe THEN pipe ELSE e \in ready

Activate(q) ==
  /\ active' = active \o q
  /\ flags' = [e \in Events |-> IF e \in Range(q) THEN flags[e] \cup {"ACTIVE"} ELSE flags[e]]

PollReady ==
  /\ pc = "poll" /\ \E e \in Range(events) : IsReady(e)
  /\ Activate(Filter(events, {e \in Events : IsReady(e)}))
  /\ Goto("service")
  /\ UNCHANGED <<poll, events, signals, timeouts, deadline, num_handlers, sigs, world, hist>>

(* poll(2) returned 0, because the first deadline has passed or because    *)
(* there is none and the call must not block.                              *)
Expired(e) == deadline[e] <= now
PollTimeout ==
  LET k == First(timeouts, {e \in Events : ~ Expired(e)}) - 1
      q == SubSeq(timeouts, 1, k)
  IN  /\ pc = "poll" /\ ~ \E e \in Range(events) : IsReady(e)
      /\ IF timeouts = << >> THEN nonblock ELSE Expired(Head(timeouts))
      /\ IF q = << >>
         THEN Done(0, base) /\ UNCHANGED <<active, flags, timeouts>>
         ELSE /\ timeouts' = SubSeq(timeouts, k + 1, Len(timeouts))
              /\ active' = q
              /\ flags' = [e \in Events |-> IF e \in Range(q)
                             THEN (flags[e] \ {"TIMEOUTS"}) \cup {"ACTIVE"}
                             ELSE flags[e]]
              /\ pc' = "service" /\ timedout' = TRUE
              /\ UNCHANGED <<base, cur, nonblock, rc, asked>>
      /\ UNCHANGED <<poll, events, signals, deadline, num_handlers, sigs, world, hist>>

(* ENOMEM or EAGAIN; any other error ends the loop.                        *)
PollError ==
  /\ pc = "poll" /\ calls < MaxCalls /\ calls' = calls + 1
  /\ Goto("scan") \/ Done(-1, base)
  /\ UNCHANGED <<poll, queues, sigs, ready, now, sent, hist>>

(* Take the first event off the active queue and run its callback.         *)
Service ==
  LET e == Head(active)
  IN  /\ pc = "service" /\ active # << >>
      /\ IF e \in Persist \cup SigEvents \/ ~ Inserted(e)
         THEN /\ active' = Tail(active)
              /\ flags' = [flags EXCEPT ![e] = @ \ {"ACTIVE"}]
              /\ UNCHANGED <<events, timeouts, poll>>
         ELSE Unlink({e})
      /\ pc' = IF e = SigPipe THEN "drain" ELSE "callback"
      /\ cur' = IF e = SigPipe THEN None ELSE e
      /\ owed' = owed \ {e}
      /\ dropped' = dropped \ {e}
      /\ armed' = IF e \in Persist /\ "TIMEOUTS" \in flags[e] THEN armed ELSE armed \ {e}
      /\ UNCHANGED <<signals, deadline, num_handlers, sigs, base, nonblock,
                     timedout, rc, asked, world>>

(* signal_pipe_cb() drains the pipe; sudo_ev_activate_sigevents() then     *)
(* runs with all signals blocked.                                          *)
Drain ==
  /\ pc = "drain"
  /\ pipe' = FALSE
  /\ Goto("activate")
  /\ UNCHANGED <<poll, queues, pending, caught, world, hist>>

Pending(s) == IF pending[s] THEN signals[s] ELSE << >>
Activate_sigevents_First ==
  /\ pc = "activate"
  /\ caught' = FALSE /\ pending' = [s \in 1 .. NSig |-> FALSE]
  /\ \E s \in 1 .. NSig :
       /\ \A r \in 1 .. s - 1 : ~ pending[r]
       /\ pending[s] \/ s = NSig
       /\ Activate(Pending(s))
  /\ Goto("service")
  /\ UNCHANGED <<poll, events, signals, timeouts, deadline, num_handlers, pipe, world, hist>>
Activate_sigevents ==
  /\ pc = "activate"
  /\ caught' = FALSE /\ pending' = [s \in 1 .. NSig |-> FALSE]
  /\ Activate(Concat([s \in 1 .. NSig |-> Pending(s)]))
  /\ Goto("service")
  /\ UNCHANGED <<poll, events, signals, timeouts, deadline, num_handlers, pipe, world, hist>>

(* A callback may handle all that made its descriptor ready.               *)
Consume ==
  /\ pc = "callback" /\ cur \in ready
  /\ ready' = ready \ {cur}
  /\ UNCHANGED <<poll, queues, sigs, control, now, calls, sent, hist>>

Return ==
  /\ pc = "callback"
  /\ IF "BREAK" \in base
     THEN DeactivateAll /\ Done(0, base \cup {"GOT_BREAK"})
     ELSE IF "CONT" \in base
     THEN /\ DeactivateAll
          /\ pc' = "scan" /\ base' = base \ {"CONT"} /\ cur' = None /\ timedout' = FALSE
          /\ UNCHANGED <<nonblock, rc, asked>>
     ELSE /\ pc' = "service" /\ cur' = None
          /\ UNCHANGED <<active, flags, dropped, base, nonblock, timedout, rc, asked>>
  /\ UNCHANGED <<poll, events, signals, timeouts, deadline, num_handlers, sigs, world,
                 owed, armed>>

(* The active queue is empty: poll again unless this is the last round.    *)
Round ==
  /\ pc = "service" /\ active = << >>
  /\ IF "ONCE" \in base
     THEN Done(0, IF "EXIT" \in base THEN base \cup {"GOT_EXIT"} ELSE base)
     ELSE pc' = "scan" /\ timedout' = FALSE /\ UNCHANGED <<base, cur, nonblock, rc, asked>>
  /\ UNCHANGED <<poll, queues, sigs, world, hist>>

(***************************************************************************)
(* The rest of the world.                                                  *)
(***************************************************************************)
(* sudo_ev_handler().  A signal that arrives during poll(2) may also end   *)
(* it with EINTR, on which the loop runs signal_pipe_cb() itself.          *)
Signal_NoWake(s) ==
  /\ signals[s] # << >> /\ sent < MaxSent /\ sent' = sent + 1
  /\ pending' = [pending EXCEPT ![s] = TRUE] /\ caught' = TRUE
  /\ owed' = owed \cup Range(signals[s])
  /\ dropped' = dropped \ Range(signals[s])
  /\ \/ UNCHANGED control
     \/ pc = "poll" /\ Goto("drain")
  /\ UNCHANGED <<poll, queues, pipe, ready, now, calls, armed>>
Signal(s) ==
  /\ signals[s] # << >> /\ sent < MaxSent /\ sent' = sent + 1
  /\ pending' = [pending EXCEPT ![s] = TRUE] /\ caught' = TRUE /\ pipe' = TRUE
  /\ owed' = owed \cup Range(signals[s])
  /\ dropped' = dropped \ Range(signals[s])
  /\ \/ UNCHANGED control
     \/ pc = "poll" /\ Goto("drain")
  /\ UNCHANGED <<poll, queues, ready, now, calls, armed>>

IoReady(e) ==
  /\ e \notin ready /\ sent < MaxSent /\ sent' = sent + 1
  /\ ready' = ready \cup {e}
  /\ UNCHANGED <<poll, queues, sigs, control, now, calls, hist>>

Tick ==
  /\ now < MaxClock /\ now' = now + 1
  /\ UNCHANGED <<poll, queues, sigs, control, ready, calls, sent, hist>>

Loop == \/ Scan \/ PollReady \/ PollTimeout \/ Service \/ Drain
        \/ Activate_sigevents \/ Return \/ Round

Call ==
  \/ \E a \in Adds : sudo_ev_add(a[1], a[2], a[3])
  \/ \E a \in Adds : sudo_ev_del(a[1])
  \/ "exit" \in Requests /\ sudo_ev_loopexit
  \/ "break" \in Requests /\ sudo_ev_loopbreak
  \/ "continue" \in Requests /\ sudo_ev_loopcontinue
  \/ \E m \in Modes : Enter(m)

Next ==
  \/ Loop \/ Call \/ Consume \/ PollError
  \/ \E s \in 1 .. NSig : Signal(s)
  \/ \E e \in UserIo : IoReady(e)
  \/ Tick

Spec == Init /\ [][Next]_vars

(* The loop keeps running, callbacks return, and time passes.              *)
FairSpec == Spec /\ WF_vars(Loop) /\ WF_vars(Tick)

(***************************************************************************)
(* Properties.                                                             *)
(***************************************************************************)
(* The variables hold what struct sudo_event_base keeps in them;           *)
(* num_handlers counts the signals whose handler is installed.             *)
TypeOK ==
  /\ events \in Seq(IoEvents \cup Timers) /\ active \in Seq(Events)
  /\ timeouts \in Seq(IoEvents \cup Timers)
  /\ signals \in [1 .. NSig -> Seq(SigEvents)]
  /\ deadline \in [Events -> Nat]
  /\ flags \in [Events -> SUBSET {"INSERTED", "ACTIVE", "TIMEOUTS"}]
  /\ base \subseteq {"ONCE", "EXIT", "BREAK", "CONT", "GOT_EXIT", "GOT_BREAK"}
  /\ num_handlers = Cardinality({s \in 1 .. NSig : signals[s] # << >>})
  /\ pending \in [1 .. NSig -> BOOLEAN] /\ caught \in BOOLEAN /\ pipe \in BOOLEAN
  /\ pc \in {"idle", "scan", "poll", "service", "callback", "drain", "activate"}
  /\ cur \in Events \cup {None} /\ (cur # None <=> pc = "callback")
  /\ rc \in {-1, 0, 1} /\ asked \in {"no", "before", "exit", "break"}
  /\ ready \subseteq UserIo /\ owed \subseteq SigEvents
  /\ armed \subseteq Events /\ dropped \subseteq Events

(* An event's flags say which queues it is on, it is on each at most once, *)
(* and an event on the active or the timeouts queue is registered: then    *)
(* sudo_ev_free(), which unlinks registered events only, never frees one   *)
(* that sudo_ev_loop() will still look at.  The internal event is there    *)
(* for the signals that have a handler.  The timeouts queue is sorted by   *)
(* deadline, so that looking at its head is enough to know how long to     *)
(* poll and what has expired.                                              *)
QueuesAgree ==
  /\ TypeOK
  /\ Once(events) /\ Once(timeouts) /\ Once(active)
  /\ \A s \in 1 .. NSig : Once(signals[s])
  /\ \A e \in Events :
       /\ Inserted(e) <=> IF e \in SigEvents THEN e \in Range(signals[SigOf[e]])
                          ELSE e \in Range(events)
       /\ "ACTIVE" \in flags[e] <=> e \in Range(active)
       /\ "TIMEOUTS" \in flags[e] <=> e \in Range(timeouts)
       /\ flags[e] # {} => Inserted(e)
  /\ \A e \in IoEvents : Inserted(e) <=> pfd_idx[e] # -1
  /\ Inserted(SigPipe) => num_handlers > 0
  /\ \A i, j \in DOMAIN timeouts : i < j => deadline[timeouts[i]] <= deadline[timeouts[j]]

(* A signal whose handler ran is not forgotten before the callbacks of all *)
(* its events have run, unless another callback of the same round made the *)
(* loop break off or start over.  The same holds for timeouts, which leave *)
(* the timeouts queue when they expire.                                    *)
NothingForgotten ==
  /\ \A e \in owed : pending[SigOf[e]] \/ e \in Range(active) \/ e \in dropped
  /\ \A e \in armed : e \in Range(timeouts) \/ e \in Range(active) \/ e \in dropped

(* Once a callback has asked for the end of the loop, the loop does not    *)
(* poll again, whatever later callbacks of the round ask for, and          *)
(* sudo_ev_got_break() and sudo_ev_got_exit() tell how the last loop ended.*)
EndsAsAsked ==
  /\ pc \in {"scan", "poll"} => asked \in {"no", "before"}
  /\ pc = "idle" =>
       /\ "GOT_BREAK" \in base <=> asked = "break"
       /\ asked = "exit" => "GOT_EXIT" \in base
       /\ "GOT_EXIT" \in base => asked \in {"exit", "before"}

(* While the loop runs, a caught signal is eventually reported, however    *)
(* busy the descriptors are, and so is a timeout if in the end no          *)
(* descriptor stays ready.                                                 *)
EventsReported ==
  /\ \A e \in SigEvents :
       e \in owed ~> e \notin owed \/ e \in dropped \/ pc = "idle"
  /\ <>[](ready = {}) =>
       \A e \in Timers : e \in armed ~> e \notin armed \/ e \in dropped \/ pc = "idle"
=============================================================================
