--------------------------- MODULE EventLoopProofs ---------------------------
(***************************************************************************)
(* The event loop for any events, signals and bounds: how it ends, what    *)
(* its queues and flags hold, and that it forgets no signal and no timeout.*)
(***************************************************************************)
EXTENDS EventQueueProofs

Pcs == {"idle", "scan", "poll", "service", "callback", "drain", "activate"}

(* While the loop runs, base->flags tell what callbacks have asked for:    *)
(* BREAK is the last word, EXIT makes the round the last one (ONCE), and   *)
(* CONT is only there if none of these is.  BREAK and CONT are dealt with  *)
(* as soon as the callback returns.                                        *)
EndInv ==
  /\ pc \in Pcs /\ asked \in {"no", "before", "exit", "break"}
  /\ EndsAsAsked
  /\ "EXIT" \in base => "ONCE" \in base
  /\ pc # "idle" =>
       /\ base \cap {"GOT_EXIT", "GOT_BREAK"} = {}
       /\ "BREAK" \in base <=> asked = "break"
       /\ "BREAK" \in base => pc = "callback"
       /\ "EXIT" \in base <=> asked \in {"exit", "before"}
       /\ "CONT" \in base => pc = "callback" /\ asked # "break" /\ "ONCE" \notin base

(* The steps that call the loop or ask it to end keep the invariant.       *)
LEMMA EndCalls ==
  ASSUME EndInv, NEW m,
         sudo_ev_loopexit \/ sudo_ev_loopbreak \/ sudo_ev_loopcontinue \/ Enter(m)
  PROVE  EndInv'
<1>1. CASE sudo_ev_loopexit
  BY <1>1 DEF sudo_ev_loopexit, Caller, Ask, EndInv, EndsAsAsked, Pcs
<1>2. CASE sudo_ev_loopbreak
  BY <1>2, Zenon DEF sudo_ev_loopbreak, Caller, Ask, EndInv, EndsAsAsked, Pcs
<1>3. CASE sudo_ev_loopcontinue
  BY <1>3, Zenon DEF sudo_ev_loopcontinue, Caller, EndInv, EndsAsAsked, Pcs
<1>4. CASE Enter(m)
  BY <1>4, Zenon DEF Enter, EndInv, EndsAsAsked, Pcs
<1> QED
  BY <1>1, <1>2, <1>3, <1>4, Zenon

(* So do the steps of the loop.                                            *)
LEMMA EndLoop ==
  ASSUME EndInv, Loop \/ PollError
  PROVE  EndInv'
<1>1. CASE Scan
  BY <1>1, Zenon DEF Scan, Done, Goto, EndInv, EndsAsAsked, Pcs
<1>2. CASE PollReady
  BY <1>2, Zenon DEF PollReady, Goto, EndInv, EndsAsAsked, Pcs
<1>3. CASE PollTimeout
  <2>1. pc = "poll" /\ (Done(0, base) \/ (pc' = "service" /\ UNCHANGED <<base, asked>>))
    BY <1>3, Zenon DEF PollTimeout
  <2> QED
    BY <2>1, Zenon DEF Done, EndInv, EndsAsAsked, Pcs
<1>4. CASE PollError
  BY <1>4, Zenon DEF PollError, Done, Goto, EndInv, EndsAsAsked, Pcs
<1>5. CASE Service
  <2>1. pc = "service" /\ pc' \in {"drain", "callback"} /\ UNCHANGED <<base, asked>>
    BY <1>5, Zenon DEF Service
  <2> QED
    BY <2>1, Zenon DEF EndInv, EndsAsAsked, Pcs
<1>6. CASE Drain \/ Activate_sigevents
  <2>1. pc \in {"drain", "activate"} /\ pc' \in {"activate", "service"} /\ UNCHANGED <<base, asked>>
    BY <1>6, Zenon DEF Drain, Activate_sigevents, Goto
  <2> QED
    BY <2>1, Zenon DEF EndInv, EndsAsAsked, Pcs
<1>7. CASE Return
  <2>1. pc = "callback"
    BY <1>7, Zenon DEF Return
  <2>2. CASE "BREAK" \in base
    BY <1>7, <2>1, <2>2 DEF Return, Done, EndInv, EndsAsAsked, Pcs
  <2>3. CASE "BREAK" \notin base /\ "CONT" \in base
    <3>1. pc' = "scan" /\ base' = base \ {"CONT"} /\ asked' = asked
      BY <1>7, <2>1, <2>3, Zenon DEF Return
    <3> QED
      BY <2>1, <2>3, <3>1, Zenon DEF EndInv, EndsAsAsked, Pcs
  <2>4. CASE "BREAK" \notin base /\ "CONT" \notin base
    <3>1. pc' = "service" /\ base' = base /\ asked' = asked
      BY <1>7, <2>1, <2>4, Zenon DEF Return
    <3> QED
      BY <2>1, <2>4, <3>1, Zenon DEF EndInv, EndsAsAsked, Pcs
  <2> QED
    BY <2>2, <2>3, <2>4, Zenon
<1>8. CASE Round
  <2>1. CASE "ONCE" \in base
    BY <1>8, <2>1, Zenon DEF Round, Done, EndInv, EndsAsAsked, Pcs
  <2>2. CASE "ONCE" \notin base
    BY <1>8, <2>2, Zenon DEF Round, EndInv, EndsAsAsked, Pcs
  <2> QED
    BY <2>1, <2>2, Zenon
<1> QED
  BY <1>1, <1>2, <1>3, <1>4, <1>5, <1>6, <1>7, <1>8, Zenon DEF Loop

LEMMA EndStep == EndInv /\ [Next]_vars => EndInv'
<1> SUFFICES ASSUME EndInv, [Next]_vars PROVE EndInv'
  BY Zenon
<1>1. CASE Loop \/ PollError
  BY <1>1, EndLoop, Zenon
<1>2. CASE sudo_ev_loopexit \/ sudo_ev_loopbreak \/ sudo_ev_loopcontinue \/ \E m \in Modes : Enter(m)
  BY <1>2, EndCalls, Zenon
<1>3. CASE \E s \in 1 .. NSig : Signal(s)
  <2>1. UNCHANGED <<pc, base, asked>> \/ (pc = "poll" /\ pc' = "drain" /\ UNCHANGED <<base, asked>>)
    BY <1>3, Zenon DEF Signal, Goto, control
  <2> QED
    BY <2>1, Zenon DEF EndInv, EndsAsAsked, Pcs
<1>4. CASE \/ \E a \in Adds : sudo_ev_add(a[1], a[2], a[3])
           \/ \E a \in Adds : sudo_ev_del(a[1])
           \/ Consume \/ (\E e \in UserIo : IoReady(e)) \/ Tick \/ UNCHANGED vars
  <2>1. UNCHANGED <<pc, base, asked>>
    BY <1>4, Zenon DEF sudo_ev_add, sudo_ev_del, Consume, IoReady, Tick, vars, control
  <2> QED
    BY <2>1, Zenon DEF EndInv, EndsAsAsked
<1> QED
  BY <1>1, <1>2, <1>3, <1>4, Zenon DEF Next, Call

(* However callbacks use sudo_ev_loopexit(), sudo_ev_loopbreak() and       *)
(* sudo_ev_loopcontinue(), a loop that was asked to end does not poll      *)
(* again, and sudo_ev_got_exit() and sudo_ev_got_break() tell the truth.   *)
THEOREM LoopEndsAsAsked == Spec => []EndsAsAsked
<1>1. Init => EndInv
  BY Zenon DEF Init, EndInv, EndsAsAsked, Pcs
<1>2. EndInv => EndsAsAsked
  BY Zenon DEF EndInv
<1> QED
  BY <1>1, <1>2, EndStep, PTL DEF Spec

-----------------------------------------------------------------------------
(* The other variables, and the round: the active queue is empty when the  *)
(* loop polls, and signals are only put on it by the internal event, after *)
(* it has left it.                                                         *)
LoopTypes ==
  /\ base \subseteq {"ONCE", "EXIT", "BREAK", "CONT", "GOT_EXIT", "GOT_BREAK"}
  /\ pending \in [1 .. NSig -> BOOLEAN] /\ caught \in BOOLEAN /\ pipe \in BOOLEAN
  /\ pc \in Pcs
  /\ cur \in Events \cup {None} /\ (cur # None <=> pc = "callback")
  /\ rc \in {-1, 0, 1} /\ asked \in {"no", "before", "exit", "break"}
  /\ ready \subseteq UserIo /\ owed \subseteq SigEvents
  /\ armed \subseteq Events /\ dropped \subseteq Events
  /\ now \in Nat

RoundOK ==
  /\ pc \in {"idle", "scan", "poll"} => active = << >>
  /\ SigPipe \in Range(active) \/ pc \in {"drain", "activate"} =>
       Range(active) \cap SigEvents = {}
  /\ pc \in {"drain", "activate"} => SigPipe \notin Range(active)

QueueInv == SlotInv /\ Linked /\ LoopTypes /\ RoundOK

(* The invariant says what the run checks of the queues.                   *)
LEMMA InvQueuesAgree == QueueInv => QueuesAgree
<1> SUFFICES ASSUME QueueInv PROVE QueuesAgree
  BY Zenon
<1>1. /\ FlagsOK(flags) /\ EventsOK(events, flags) /\ SignalsOK(signals, flags)
      /\ ActiveOK(active, flags) /\ TimeoutsOK(timeouts, deadline, flags)
      /\ HandlersOK(signals, num_handlers) /\ (Inserted(SigPipe) => num_handlers > 0)
      /\ LoopTypes /\ SlotInv
  BY Zenon DEF QueueInv, Linked
<1>2. TypeOK
  BY <1>1, Zenon DEF TypeOK, LoopTypes, FlagsOK, EventsOK, SignalsOK, ActiveOK, TimeoutsOK, HandlersOK,
              AllFlags, Queued, Pcs
<1>3. /\ Once(events) /\ Once(timeouts) /\ Once(active) /\ \A s \in 1 .. NSig : Once(signals[s])
  BY <1>1, Zenon DEF EventsOK, SignalsOK, ActiveOK, TimeoutsOK
<1>4. ASSUME NEW e \in Events
      PROVE  /\ Inserted(e) <=> IF e \in SigEvents THEN e \in Range(signals[SigOf[e]])
                                ELSE e \in Range(events)
             /\ "ACTIVE" \in flags[e] <=> e \in Range(active)
             /\ "TIMEOUTS" \in flags[e] <=> e \in Range(timeouts)
             /\ flags[e] # {} => Inserted(e)
  <2>1. e \in SigEvents \/ e \in Queued
    BY EventKinds, Zenon
  <2> QED
    BY <1>1, <2>1, Zenon DEF FlagsOK, EventsOK, SignalsOK, ActiveOK, TimeoutsOK, Inserted
<1>5. \A e \in IoEvents : Inserted(e) <=> pfd_idx[e] # -1
  BY <1>1, Zenon DEF SlotInv
<1>6. \A i, j \in DOMAIN timeouts : i < j => deadline[timeouts[i]] <= deadline[timeouts[j]]
  BY <1>1, Zenon DEF TimeoutsOK, InOrder, Sooner
<1> QED
  BY <1>1, <1>2, <1>3, <1>4, <1>5, <1>6, Zenon DEF QueuesAgree

(* Steps that leave the queues alone.                                      *)
LEMMA SameQueues == Linked /\ UNCHANGED queues => Linked'
BY Zenon DEF Linked, queues, Inserted

(* Steps that put nothing on the active queue and let no signal in.        *)
LEMMA SameRound ==
  ASSUME RoundOK, Range(active') \subseteq Range(active),
         pc' \in {"drain", "activate"} => pc \in {"drain", "activate"},
         pc' \in {"idle", "scan", "poll"} => active' = << >>
  PROVE  RoundOK'
BY Zenon DEF RoundOK

(* The types of the other variables.                                       *)
LEMMA TypesLoop ==
  ASSUME LoopTypes, Linked, Loop \/ PollError
  PROVE  LoopTypes'
<1>1. active \in Seq(Events)
  BY Zenon DEF Linked, ActiveOK
<1>2. Range(active) \subseteq Events /\ (active # << >> => Head(active) \in Events)
  BY <1>1, RangeType
<1>3. None \notin Events
  BY EventKinds, Zenon
<1>4. CASE Scan
  BY <1>4, Zenon DEF Scan, Done, Goto, LoopTypes, Pcs, sigs, world, hist
<1>5. CASE PollReady
  BY <1>5, Zenon DEF PollReady, Goto, LoopTypes, Pcs, sigs, world, hist
<1>6. CASE PollTimeout
  <2>1. /\ pc = "poll" /\ UNCHANGED <<sigs, world, hist>>
        /\ Done(0, base) \/ (pc' = "service" /\ UNCHANGED <<base, cur, rc, asked>>)
    BY <1>6, Zenon DEF PollTimeout
  <2> QED
    BY <2>1, Zenon DEF Done, LoopTypes, Pcs, sigs, world, hist
<1>7. CASE PollError
  BY <1>7, Zenon DEF PollError, Done, Goto, LoopTypes, Pcs, sigs, hist
<1>8. CASE Service
  <2>1. /\ pc' = (IF Head(active) = SigPipe THEN "drain" ELSE "callback")
        /\ cur' = (IF Head(active) = SigPipe THEN None ELSE Head(active))
        /\ owed' \subseteq owed /\ armed' \subseteq armed /\ dropped' \subseteq dropped
        /\ UNCHANGED <<sigs, base, rc, asked, world>> /\ active # << >>
    BY <1>8, Zenon DEF Service
  <2> QED
    BY <1>2, <1>3, <2>1, Zenon DEF LoopTypes, Pcs, sigs, world
<1>9. CASE Drain
  BY <1>9, Zenon DEF Drain, Goto, LoopTypes, Pcs, world, hist
<1>10. CASE Activate_sigevents
  BY <1>10, Zenon DEF Activate_sigevents, Goto, LoopTypes, Pcs, world, hist
<1>11. CASE Return
  <2>1. /\ pc = "callback" /\ pc' # "callback" /\ cur' = None /\ pc' \in Pcs
        /\ base' \subseteq base \cup {"GOT_BREAK"} /\ rc' \in {rc, 0} /\ asked' = asked
        /\ dropped' \subseteq dropped \cup Range(active)
        /\ UNCHANGED <<sigs, world, owed, armed>>
    BY <1>11, Zenon DEF Return, Done, DeactivateAll, Pcs
  <2> QED
    BY <1>2, <2>1, Zenon DEF LoopTypes, sigs, world
<1>12. CASE Round
  BY <1>12, Zenon DEF Round, Done, LoopTypes, Pcs, sigs, world, hist
<1> QED
  BY <1>4, <1>5, <1>6, <1>7, <1>8, <1>9, <1>10, <1>11, <1>12, Zenon DEF Loop

LEMMA TypesStep == LoopTypes /\ Linked /\ [Next]_vars => LoopTypes'
<1> SUFFICES ASSUME LoopTypes, Linked, [Next]_vars PROVE LoopTypes'
  BY Zenon
<1>1. CASE Loop \/ PollError
  BY <1>1, TypesLoop, Zenon
<1>2. ASSUME NEW a \in Adds, sudo_ev_add(a[1], a[2], a[3]) PROVE LoopTypes'
  <2>1. a[1] \in Events
    BY EventsAssumption, Zenon
  <2>2. /\ owed' \subseteq owed /\ armed' \subseteq armed \cup {a[1]} /\ dropped' \subseteq dropped
        /\ UNCHANGED <<sigs, control, ready, now>>
    BY <1>2, Zenon DEF sudo_ev_add, SetTimeout, sudo_ev_add_signal, hist
  <2> QED
    BY <2>1, <2>2, Zenon DEF LoopTypes, sigs, control
<1>3. CASE \E a \in Adds : sudo_ev_del(a[1])
  BY <1>3, Zenon DEF sudo_ev_del, LoopTypes, sigs, control
<1>4. CASE sudo_ev_loopexit
  BY <1>4, Zenon DEF sudo_ev_loopexit, Ask, LoopTypes, sigs, hist
<1>5. CASE sudo_ev_loopbreak
  BY <1>5, Zenon DEF sudo_ev_loopbreak, Ask, LoopTypes, sigs, hist
<1>6. CASE sudo_ev_loopcontinue
  BY <1>6, Zenon DEF sudo_ev_loopcontinue, LoopTypes, sigs, hist
<1>7. CASE \E m \in Modes : Enter(m)
  BY <1>7, Zenon DEF Enter, LoopTypes, Pcs, sigs, hist
<1>8. ASSUME NEW s \in 1 .. NSig, Signal(s) PROVE LoopTypes'
  <2>1. Range(signals[s]) \subseteq SigEvents
    BY RangeType, Zenon DEF Linked, SignalsOK
  <2> QED
    BY <1>8, <2>1, Zenon DEF Signal, Goto, control, LoopTypes, Pcs
<1>9. CASE Consume \/ (\E e \in UserIo : IoReady(e)) \/ Tick
  <2>1. ready' \subseteq UserIo /\ now' \in Nat
    BY <1>9 DEF Consume, IoReady, Tick, LoopTypes
  <2>2. UNCHANGED sigs /\ UNCHANGED control /\ UNCHANGED hist
    BY <1>9, Zenon DEF Consume, IoReady, Tick
  <2> QED
    BY <2>1, <2>2, Zenon DEF LoopTypes, sigs, control, hist
<1>10. CASE UNCHANGED vars
  BY <1>10, Zenon DEF vars, LoopTypes, sigs, control, world, hist
<1> QED
  BY <1>1, <1>2, <1>3, <1>4, <1>5, <1>6, <1>7, <1>8, <1>9, <1>10, Zenon DEF Next, Call

-----------------------------------------------------------------------------
(* The steps of the loop.  What PollReady() puts on the empty active queue *)
(* is a part of the events queue.                                          *)
LEMMA PollReadyLinked ==
  ASSUME Linked, RoundOK, PollReady
  PROVE  Linked' /\ RoundOK'
<1> DEFINE q == Filter(events, {e \in Events : IsReady(e)})
<1>1. /\ FlagsOK(flags) /\ EventsOK(events, flags) /\ SignalsOK(signals, flags)
      /\ ActiveOK(active, flags) /\ TimeoutsOK(timeouts, deadline, flags)
      /\ HandlersOK(signals, num_handlers) /\ (Inserted(SigPipe) => num_handlers > 0)
  BY Zenon DEF Linked
<1>2. /\ active = << >> /\ Activate(q) /\ pc' = "service"
      /\ UNCHANGED <<events, signals, timeouts, deadline, num_handlers>>
  BY Zenon DEF PollReady, RoundOK, Goto
<1>3. /\ events \in Seq(Queued) /\ Once(events)
      /\ \A e \in Queued : "INSERTED" \in flags[e] <=> e \in Range(events)
  BY <1>1, Zenon DEF EventsOK
<1>4. q \in Seq(Queued) /\ Range(q) \subseteq Range(events) /\ Once(q)
  BY <1>3, FilterProperties, FilterOnce
<1>5. Range(q) \subseteq Queued
  BY <1>4, RangeType, Zenon
<1>6. Queued \subseteq Events /\ SigEvents \subseteq Events /\ SigPipe \in Events /\ Queued \cap SigEvents = {}
  BY EventKinds, Zenon
<1> HIDE DEF q
<1>7. q \in Seq(Events) /\ Range(active) = {}
  BY <1>2, <1>4, <1>6 DEF Range
<1>8. \A f \in Range(q) : "INSERTED" \in flags[f]
  BY <1>3, <1>4, <1>5, Zenon
<1>9. /\ FlagsOK(flags') /\ ActiveOK(active', flags')
      /\ \A f \in Events : /\ "INSERTED" \in flags'[f] <=> "INSERTED" \in flags[f]
                           /\ "TIMEOUTS" \in flags'[f] <=> "TIMEOUTS" \in flags[f]
      /\ Range(active') = Range(active) \cup Range(q)
  BY <1>1, <1>2, <1>4, <1>7, <1>8, ActivateLinked, Zenon
<1>10. Linked'
  BY <1>1, <1>2, <1>6, <1>9, SameFlag, Zenon DEF Linked, Inserted
<1>11. RoundOK'
  BY <1>2, <1>5, <1>6, <1>7, <1>9, Zenon DEF RoundOK
<1> QED
  BY <1>10, <1>11, Zenon

LEMMA PollTimeoutLinked ==
  ASSUME Linked, RoundOK, PollTimeout
  PROVE  Linked' /\ RoundOK' /\ Range(timeouts) \subseteq Range(active') \cup Range(timeouts')
<1> DEFINE n == First(timeouts, {e \in Events : ~ Expired(e)})
           k == n - 1
<1>1. /\ FlagsOK(flags) /\ EventsOK(events, flags) /\ SignalsOK(signals, flags)
      /\ ActiveOK(active, flags) /\ TimeoutsOK(timeouts, deadline, flags)
      /\ HandlersOK(signals, num_handlers) /\ (Inserted(SigPipe) => num_handlers > 0)
  BY Zenon DEF Linked
<1>2. active = << >> /\ UNCHANGED <<events, signals, deadline, num_handlers>>
  BY Zenon DEF PollTimeout, RoundOK
<1>3. timeouts \in Seq(Queued)
  BY <1>1, Zenon DEF TimeoutsOK
<1>4. n \in 1 .. Len(timeouts) + 1 /\ Len(timeouts) \in Nat
  BY <1>3, FirstProperties
<1>5. \/ UNCHANGED <<active, flags, timeouts>> /\ pc' = "idle"
      \/ /\ timeouts' = SubSeq(timeouts, k + 1, Len(timeouts))
         /\ active' = SubSeq(timeouts, 1, k)
         /\ flags' = [e \in Events |-> IF e \in Range(SubSeq(timeouts, 1, k))
                        THEN (flags[e] \ {"TIMEOUTS"}) \cup {"ACTIVE"} ELSE flags[e]]
         /\ pc' = "service"
  BY Zenon DEF PollTimeout, Done
<1> HIDE DEF n
<1>6. k \in 0 .. Len(timeouts)
  BY <1>4
<1> HIDE DEF k
<1>7. Queued \subseteq Events /\ SigEvents \subseteq Events /\ SigPipe \in Events /\ Queued \cap SigEvents = {}
  BY EventKinds, Zenon
<1>8. CASE UNCHANGED <<active, flags, timeouts>> /\ pc' = "idle"
  BY <1>1, <1>2, <1>8, Zenon DEF Linked, Inserted, RoundOK
<1>9. CASE /\ timeouts' = SubSeq(timeouts, k + 1, Len(timeouts))
           /\ active' = SubSeq(timeouts, 1, k)
           /\ flags' = [e \in Events |-> IF e \in Range(SubSeq(timeouts, 1, k))
                          THEN (flags[e] \ {"TIMEOUTS"}) \cup {"ACTIVE"} ELSE flags[e]]
           /\ pc' = "service"
  <2>1. \A f \in Events : "ACTIVE" \notin flags[f]
    BY <1>1, <1>2 DEF ActiveOK, Range
  <2>2. /\ FlagsOK(flags') /\ ActiveOK(active', flags') /\ TimeoutsOK(timeouts', deadline, flags')
        /\ \A f \in Events : "INSERTED" \in flags'[f] <=> "INSERTED" \in flags[f]
        /\ Range(timeouts) = Range(active') \cup Range(timeouts')
    BY <1>1, <1>6, <1>9, <2>1, ExpireLinked, Zenon
  <2>3. Linked'
    BY <1>1, <1>2, <1>7, <2>2, SameFlag, Zenon DEF Linked, Inserted
  <2>4. Range(timeouts) \subseteq Queued
    BY <1>3, RangeType, Zenon
  <2>5. RoundOK'
    BY <1>7, <1>9, <2>2, <2>4, Zenon DEF RoundOK
  <2> QED
    BY <2>2, <2>3, <2>5, Zenon
<1> QED
  BY <1>5, <1>8, <1>9, Zenon

LEMMA ServiceLinked ==
  ASSUME Linked, RoundOK, Service
  PROVE  /\ Linked' /\ RoundOK' /\ Range(active') = Range(active) \ {Head(active)}
         /\ Head(active) \in Events
         /\ \A f \in Events : "TIMEOUTS" \in flags[f] =>
               "TIMEOUTS" \in flags'[f] \/ (f = Head(active) /\ f \notin Persist)
<1> DEFINE e == Head(active)
<1>1. /\ FlagsOK(flags) /\ EventsOK(events, flags) /\ SignalsOK(signals, flags)
      /\ ActiveOK(active, flags) /\ TimeoutsOK(timeouts, deadline, flags)
      /\ HandlersOK(signals, num_handlers) /\ (Inserted(SigPipe) => num_handlers > 0)
  BY Zenon DEF Linked
<1>2. active \in Seq(Events) /\ active # << >> /\ pc = "service"
  BY <1>1, Zenon DEF ActiveOK, Service
<1>3. e \in Range(active) /\ e \in Events
  BY <1>2, TailRange, Zenon
<1>4. /\ UNCHANGED <<signals, deadline, num_handlers>>
      /\ pc' = (IF e = SigPipe THEN "drain" ELSE "callback")
      /\ \/ /\ active' = Tail(active) /\ flags' = [flags EXCEPT ![e] = @ \ {"ACTIVE"}]
            /\ UNCHANGED <<events, timeouts>>
         \/ e \notin Persist /\ e \notin SigEvents /\ Unlink({e})
  BY Zenon DEF Service
<1>5. Queued \subseteq Events /\ SigEvents \subseteq Events /\ SigPipe \in Events
  BY EventKinds, Zenon
<1>6. /\ Linked' /\ Range(active') = Range(active) \ {e}
      /\ \A f \in Events : "TIMEOUTS" \in flags[f] =>
            "TIMEOUTS" \in flags'[f] \/ (f = e /\ f \notin Persist)
  <2>1. CASE active' = Tail(active) /\ flags' = [flags EXCEPT ![e] = @ \ {"ACTIVE"}]
             /\ UNCHANGED <<events, timeouts>>
    <3>1. /\ FlagsOK(flags') /\ ActiveOK(active', flags')
          /\ \A f \in Events : /\ "INSERTED" \in flags'[f] <=> "INSERTED" \in flags[f]
                               /\ "TIMEOUTS" \in flags'[f] <=> "TIMEOUTS" \in flags[f]
          /\ Range(active') = Range(active) \ {e}
      BY <1>1, <1>2, <2>1, DequeueLinked, Zenon
    <3>2. Linked'
      BY <1>1, <1>4, <1>5, <2>1, <3>1, SameFlag, Zenon DEF Linked, Inserted
    <3> QED
      BY <3>1, <3>2, Zenon
  <2>2. CASE e \notin Persist /\ e \notin SigEvents /\ Unlink({e})
    <3> HIDE DEF e
    <3>1. PICK D : D = {e}
      BY Zenon
    <3>2. D \subseteq Events /\ Unlink(D)
      BY <1>3, <2>2, <3>1, Zenon
    <3>3. FlagsOK(flags') /\ EventsOK(events', flags') /\ ActiveOK(active', flags')
          /\ TimeoutsOK(timeouts', deadline, flags')
          /\ \A f \in Events : flags'[f] = (IF f \in D THEN {} ELSE flags[f])
      BY <1>1, <3>2, UnlinkLinked, Zenon DEF Unlink
    <3>4. SigPipe # e
      BY <2>2, EventsAssumption, Zenon
    <3>5. /\ \A f \in SigEvents : "INSERTED" \in flags'[f] <=> "INSERTED" \in flags[f]
          /\ Inserted(SigPipe)' => Inserted(SigPipe)
      BY <1>5, <2>2, <3>1, <3>3, <3>4, Zenon DEF Inserted
    <3>6. SignalsOK(signals, flags')
      BY <1>1, <3>5, SameFlag, Zenon
    <3>7. Linked'
      BY <1>1, <1>4, <3>3, <3>5, <3>6, Zenon DEF Linked
    <3>8. Range(active') = Range(active) \ {e}
      BY <1>2, <3>1, <3>2, WithoutProperties, Zenon DEF Unlink
    <3>9. \A f \in Events : "TIMEOUTS" \in flags[f] =>
            "TIMEOUTS" \in flags'[f] \/ (f = e /\ f \notin Persist)
      BY <2>2, <3>1, <3>3, Zenon
    <3> QED
      BY <3>7, <3>8, <3>9, Zenon
  <2> QED
    BY <1>4, <2>1, <2>2, Zenon
<1>7. RoundOK'
  BY <1>3, <1>4, <1>6, Zenon DEF RoundOK
<1> QED
  BY <1>3, <1>6, <1>7, Zenon

(* The events of all pending signals are put on the active queue at once;  *)
(* an event waits for one signal, so it is put there once.                 *)
LEMMA ActivateSignalsLinked ==
  ASSUME Linked, RoundOK, LoopTypes, Activate_sigevents
  PROVE  /\ Linked' /\ RoundOK'
         /\ \A f \in SigEvents : f \in Range(active) => f \in Range(active')
         /\ \A f \in Events : f \in Range(active) => f \in Range(active')
         /\ \A f \in SigEvents : pending[SigOf[f]] /\ f \in Range(signals[SigOf[f]]) =>
               f \in Range(active')
<1> DEFINE ss == [s \in 1 .. NSig |-> Pending(s)]
           q == Concat(ss)
<1>1. /\ FlagsOK(flags) /\ EventsOK(events, flags) /\ SignalsOK(signals, flags)
      /\ ActiveOK(active, flags) /\ TimeoutsOK(timeouts, deadline, flags)
      /\ HandlersOK(signals, num_handlers) /\ (Inserted(SigPipe) => num_handlers > 0)
  BY Zenon DEF Linked
<1>2. /\ Activate(q) /\ pc = "activate" /\ pc' = "service"
      /\ UNCHANGED <<events, signals, timeouts, deadline, num_handlers>>
  BY Zenon DEF Activate_sigevents, Goto
<1>3. Range(active) \cap SigEvents = {} /\ SigPipe \notin Range(active)
  BY <1>2, Zenon DEF RoundOK
<1>4. /\ Events = Queued \cup SigEvents /\ Queued \cap SigEvents = {}
      /\ SigPipe \in Events /\ SigPipe \notin SigEvents /\ NSig \in Nat
      /\ SigOf \in [SigEvents -> 1 .. NSig]
  BY EventKinds, Zenon
<1>5. /\ signals \in [1 .. NSig -> Seq(SigEvents)]
      /\ \A s \in 1 .. NSig : Once(signals[s]) /\ \A e \in Range(signals[s]) : SigOf[e] = s
      /\ \A e \in SigEvents : "INSERTED" \in flags[e] <=> e \in Range(signals[SigOf[e]])
  BY <1>1, Zenon DEF SignalsOK
<1>6. Once(<< >>) /\ Range(<< >>) = {} /\ << >> \in Seq(SigEvents)
  BY DEF Once, Range
<1>7. \A s \in 1 .. NSig : /\ Pending(s) \in Seq(SigEvents) /\ Once(Pending(s))
                           /\ Range(Pending(s)) \subseteq Range(signals[s])
                           /\ pending[s] => Range(Pending(s)) = Range(signals[s])
  BY <1>5, <1>6, Zenon DEF Pending
<1>8. /\ ss \in [1 .. NSig -> Seq(SigEvents)] /\ \A s \in 1 .. NSig : ss[s] = Pending(s)
  BY <1>7, Zenon
<1> HIDE DEF ss
<1>9. \A i, j \in 1 .. NSig : i # j => Range(ss[i]) \cap Range(ss[j]) = {}
  BY <1>5, <1>7, <1>8
<1>10. \A i \in 1 .. NSig : Once(ss[i])
  BY <1>7, <1>8, Zenon
<1>11. /\ q \in Seq(SigEvents) /\ Once(q)
       /\ \A x : x \in Range(q) <=> \E i \in 1 .. NSig : x \in Range(ss[i])
  BY <1>4, <1>8, <1>9, <1>10, ConcatAllRange, Zenon
<1> HIDE DEF q
<1>12. q \in Seq(Events) /\ Range(q) \subseteq SigEvents
  <2>1. Range(q) \subseteq SigEvents
    BY <1>11, RangeType, Zenon
  <2>2. SigEvents \subseteq Events
    BY <1>4, Zenon
  <2>3. q \in Seq(Events)
    BY ONLY <1>11, <2>2
  <2> QED
    BY <2>1, <2>3, Zenon
<1>13. \A f \in Range(q) : "INSERTED" \in flags[f]
  <2> TAKE f \in Range(q)
  <2>1. PICK i \in 1 .. NSig : f \in Range(ss[i])
    BY <1>11, Zenon
  <2>2. f \in Range(signals[i]) /\ SigOf[f] = i
    BY <1>5, <1>7, <1>8, <2>1, Zenon
  <2> QED
    BY <1>5, <1>12, <2>2, Zenon
<1>14. /\ FlagsOK(flags') /\ ActiveOK(active', flags')
       /\ \A f \in Events : /\ "INSERTED" \in flags'[f] <=> "INSERTED" \in flags[f]
                            /\ "TIMEOUTS" \in flags'[f] <=> "TIMEOUTS" \in flags[f]
       /\ Range(active') = Range(active) \cup Range(q)
  <2>1. Range(active) \cap Range(q) = {}
    BY <1>3, <1>12, Zenon
  <2> QED
    BY <1>1, <1>2, <1>11, <1>12, <1>13, <2>1, ActivateLinked, Zenon
<1>15. Linked'
  BY <1>1, <1>2, <1>4, <1>14, SameFlag, Zenon DEF Linked, Inserted
<1>16. RoundOK'
  BY <1>2, <1>3, <1>4, <1>12, <1>14, Zenon DEF RoundOK
<1>17. \A f \in SigEvents : pending[SigOf[f]] /\ f \in Range(signals[SigOf[f]]) => f \in Range(q)
  BY <1>4, <1>7, <1>8, <1>11, Zenon
<1> QED
  BY <1>14, <1>15, <1>16, <1>17, Zenon

(* A callback that made the loop break off or start over empties the       *)
(* active queue.                                                           *)
LEMMA ReturnLinked ==
  ASSUME Linked, RoundOK, Return
  PROVE  /\ Linked' /\ RoundOK' /\ UNCHANGED <<timeouts, signals, pending, owed, armed>>
         /\ (UNCHANGED active /\ UNCHANGED dropped) \/ dropped' = dropped \cup Range(active)
<1>1. /\ FlagsOK(flags) /\ EventsOK(events, flags) /\ SignalsOK(signals, flags)
      /\ ActiveOK(active, flags) /\ TimeoutsOK(timeouts, deadline, flags)
      /\ HandlersOK(signals, num_handlers) /\ (Inserted(SigPipe) => num_handlers > 0)
  BY Zenon DEF Linked
<1>2. /\ UNCHANGED <<events, signals, timeouts, deadline, num_handlers, pending, owed, armed>>
      /\ \/ DeactivateAll /\ pc' \in {"idle", "scan"}
         \/ UNCHANGED <<active, flags, dropped>> /\ pc' = "service"
  BY Zenon DEF Return, Done, sigs
<1>3. CASE DeactivateAll /\ pc' \in {"idle", "scan"}
  <2>1. /\ FlagsOK(flags') /\ ActiveOK(active', flags') /\ active' = << >>
        /\ \A f \in Events : /\ "INSERTED" \in flags'[f] <=> "INSERTED" \in flags[f]
                             /\ "TIMEOUTS" \in flags'[f] <=> "TIMEOUTS" \in flags[f]
    BY <1>1, <1>3, DeactivateLinked, Zenon
  <2>2. dropped' = dropped \cup Range(active)
    BY <1>3, Zenon DEF DeactivateAll
  <2>3. Queued \subseteq Events /\ SigEvents \subseteq Events /\ SigPipe \in Events
    BY EventKinds, Zenon
  <2>4. Linked'
    BY <1>1, <1>2, <2>1, <2>3, SameFlag, Zenon DEF Linked, Inserted
  <2>5. RoundOK'
    BY <1>3, <2>1 DEF RoundOK, Range
  <2> QED
    BY <1>2, <2>2, <2>4, <2>5, Zenon
<1>4. CASE UNCHANGED <<active, flags, dropped>> /\ pc' = "service"
  <2>1. Linked'
    BY <1>1, <1>2, <1>4, Zenon DEF Linked, Inserted
  <2>2. RoundOK'
    BY <1>4, Zenon DEF RoundOK
  <2> QED
    BY <1>2, <1>4, <2>1, <2>2, Zenon
<1> QED
  BY <1>2, <1>3, <1>4, Zenon

(* Every step of the program keeps the queues in order.                    *)
LEMMA LinkedStep ==
  ASSUME Linked, LoopTypes, RoundOK, [Next]_vars
  PROVE  Linked' /\ RoundOK'
<1>1. CASE Scan
  <2>1. UNCHANGED queues /\ pc = "scan" /\ pc' \in {"idle", "poll"}
    BY <1>1, Zenon DEF Scan, Done, Goto
  <2>2. Linked' /\ active' = << >>
    BY <2>1, SameQueues, Zenon DEF RoundOK, queues
  <2> QED
    BY <2>1, <2>2, Zenon DEF RoundOK, Range
<1>2. CASE PollReady
  BY <1>2, PollReadyLinked, Zenon
<1>3. CASE PollTimeout
  BY <1>3, PollTimeoutLinked, Zenon
<1>4. CASE PollError
  <2>1. UNCHANGED queues /\ pc = "poll" /\ pc' \in {"idle", "scan"}
    BY <1>4, Zenon DEF PollError, Done, Goto
  <2>2. Linked' /\ active' = << >>
    BY <2>1, SameQueues, Zenon DEF RoundOK, queues
  <2> QED
    BY <2>1, <2>2, Zenon DEF RoundOK, Range
<1>5. CASE Service
  BY <1>5, ServiceLinked, Zenon
<1>6. CASE Drain
  <2>1. UNCHANGED queues /\ pc = "drain" /\ pc' = "activate"
    BY <1>6, Zenon DEF Drain, Goto
  <2>2. Linked' /\ active' = active
    BY <2>1, SameQueues, Zenon DEF queues
  <2> QED
    BY <2>1, <2>2, SameRound, Zenon
<1>7. CASE Activate_sigevents
  BY <1>7, ActivateSignalsLinked, Zenon
<1>8. CASE Return
  BY <1>8, ReturnLinked, Zenon
<1>9. CASE Round
  <2>1. UNCHANGED queues /\ active = << >> /\ pc' \in {"idle", "scan"}
    BY <1>9, Zenon DEF Round, Done
  <2>2. Linked' /\ active' = << >>
    BY <2>1, SameQueues, Zenon DEF queues
  <2> QED
    BY <2>1, <2>2, Zenon DEF RoundOK, Range
<1>10. ASSUME NEW a \in Adds, sudo_ev_add(a[1], a[2], a[3]) PROVE Linked' /\ RoundOK'
  <2>1. now \in Nat
    BY Zenon DEF LoopTypes
  <2>2. Linked'
    BY <1>10, <2>1, AddLinked, Zenon
  <2>3. UNCHANGED active /\ UNCHANGED pc
    BY <1>10, Zenon DEF sudo_ev_add, control
  <2> QED
    BY <2>2, <2>3, Zenon DEF RoundOK
<1>11. ASSUME NEW a \in Adds, sudo_ev_del(a[1]) PROVE Linked' /\ RoundOK'
  <2>1. a[1] \in Events /\ a[1] # SigPipe
    BY EventsAssumption, Zenon
  <2>2. Linked' /\ \E D \in SUBSET {a[1], SigPipe} : Unlink(D)
    BY <1>11, <2>1, DelLinked, Zenon
  <2>3. UNCHANGED pc /\ pc \in {"idle", "callback"}
    BY <1>11, Zenon DEF sudo_ev_del, Caller, control
  <2>4. active \in Seq(Events)
    BY Zenon DEF Linked, ActiveOK
  <2>5. active' \in Seq(Events) /\ Range(active') \subseteq Range(active)
    BY <2>2, <2>4, WithoutProperties DEF Unlink
  <2>6. ASSUME active = << >> PROVE active' = << >>
    <3>1. Range(active) = {}
      BY <2>6 DEF Range
    <3>2. Range(active') = {}
      BY <2>5, <3>1, Zenon
    <3> QED
      BY ONLY <2>5, <3>2, RangeType, Zenon
  <2> QED
    BY <2>2, <2>3, <2>5, <2>6, SameRound, Zenon DEF RoundOK
<1>12. CASE sudo_ev_loopexit \/ sudo_ev_loopbreak \/ sudo_ev_loopcontinue
  <2>1. UNCHANGED queues /\ UNCHANGED pc
    BY <1>12, Zenon DEF sudo_ev_loopexit, sudo_ev_loopbreak, sudo_ev_loopcontinue
  <2> QED
    BY <2>1, SameQueues, Zenon DEF RoundOK, queues
<1>13. CASE \E m \in Modes : Enter(m)
  <2>1. UNCHANGED queues /\ pc = "idle" /\ pc' = "scan"
    BY <1>13, Zenon DEF Enter
  <2> QED
    BY <2>1, SameQueues, Zenon DEF RoundOK, queues
<1>14. CASE \E s \in 1 .. NSig : Signal(s)
  <2>1. UNCHANGED queues /\ (UNCHANGED pc \/ (pc = "poll" /\ pc' = "drain"))
    BY <1>14, Zenon DEF Signal, Goto, control
  <2>2. Linked' /\ active' = active
    BY <2>1, SameQueues, Zenon DEF queues
  <2> QED
    BY <2>1, <2>2 DEF RoundOK, Range
<1>15. CASE Consume \/ (\E e \in UserIo : IoReady(e)) \/ Tick \/ UNCHANGED vars
  <2>1. UNCHANGED queues /\ UNCHANGED control
    BY <1>15, Zenon DEF Consume, IoReady, Tick, vars
  <2> QED
    BY <2>1, SameQueues, Zenon DEF RoundOK, queues, control
<1> QED
  BY <1>1, <1>2, <1>3, <1>4, <1>5, <1>6, <1>7, <1>8, <1>9, <1>10, <1>11, <1>12, <1>13,
     <1>14, <1>15, Zenon DEF Next, Loop, Call

LEMMA QueueInit == Init => QueueInv
<1> SUFFICES ASSUME Init PROVE QueueInv
  BY Zenon
<1>1. SlotInv
  BY SlotInit, Zenon
<1>2. Once(<< >>) /\ Range(<< >>) = {} /\ \A A : << >> \in Seq(A)
  BY DEF Once, Range
<1>3. NSig \in Nat /\ SigPipe \in Events /\ SigEvents \subseteq Events /\ Queued \subseteq Events
      /\ SigOf \in [SigEvents -> 1 .. NSig]
  BY EventKinds, Zenon
<1>4. flags = [e \in Events |-> {}] /\ deadline = [e \in Events |-> 0] /\ events = << >>
      /\ timeouts = << >> /\ active = << >> /\ signals = [s \in 1 .. NSig |-> << >>]
      /\ num_handlers = 0
  BY Zenon DEF Init
<1>5. FlagsOK(flags) /\ EventsOK(events, flags) /\ ActiveOK(active, flags)
  BY <1>2, <1>3, <1>4, Zenon DEF FlagsOK, EventsOK, ActiveOK
<1>6. TimeoutsOK(timeouts, deadline, flags)
  BY <1>2, <1>4 DEF TimeoutsOK, InOrder
<1>7. SignalsOK(signals, flags)
  BY <1>2, <1>3, <1>4, Zenon DEF SignalsOK
<1>8. HandlersOK(signals, num_handlers)
  <2>1. {s \in 1 .. NSig : signals[s] # << >>} = {}
    BY <1>4, Zenon
  <2> QED
    BY <1>4, <2>1, FS_EmptySet, Zenon DEF HandlersOK
<1>9. Linked
  BY <1>3, <1>4, <1>5, <1>6, <1>7, <1>8, Zenon DEF Linked, Inserted
<1>10. LoopTypes /\ RoundOK
  BY <1>2, Zenon DEF Init, LoopTypes, Pcs, RoundOK
<1> QED
  BY <1>1, <1>9, <1>10, Zenon DEF QueueInv

LEMMA QueueStep == QueueInv /\ [Next]_vars => QueueInv'
BY SlotStep, TypesStep, LinkedStep, Zenon DEF QueueInv

(* Whatever callbacks add, delete and ask for, and whenever signals come,  *)
(* the flags of an event say on which queues of the event base it is, it   *)
(* is on each at most once, only registered events are on them, and the    *)
(* timeouts are sorted by deadline.                                        *)
THEOREM QueuesConsistent == Spec => []QueuesAgree
<1>1. QueueInv => QueuesAgree
  BY InvQueuesAgree, Zenon
<1> QED
  BY <1>1, QueueInit, QueueStep, PTL DEF Spec

-----------------------------------------------------------------------------
(* What was promised: nothing is forgotten, only user events have          *)
(* timeouts, and an event whose signal came is still registered.           *)
Promised ==
  /\ \A e \in owed : pending[SigOf[e]] \/ e \in Range(active) \/ e \in dropped
  /\ \A e \in armed : "TIMEOUTS" \in flags[e] \/ e \in Range(active) \/ e \in dropped
  /\ armed \cap (SigEvents \cup {SigPipe}) = {}
  /\ \A e \in owed : e \in Range(signals[SigOf[e]])

(* A step that leaves alone what was promised.                             *)
LEMMA PromiseSame ==
  Promised /\ UNCHANGED <<pending, active, flags, signals, owed, armed, dropped>> => Promised'
BY Zenon DEF Promised

LEMMA PromiseAdd ==
  ASSUME Promised, LoopTypes, Linked, NEW a \in Adds, sudo_ev_add(a[1], a[2], a[3])
  PROVE  Promised'
<1> DEFINE e == a[1]
           timo == a[2]
           tohead == a[3]
<1>1. e \in Events /\ e # SigPipe /\ (e \in SigEvents => timo = NoTimeout)
  BY EventsAssumption, Zenon
<1>2. sudo_ev_add(e, timo, tohead)
  BY Zenon
<1> HIDE DEF e, timo, tohead
<1>3. active' = active /\ pending' = pending
  BY <1>2, Zenon DEF sudo_ev_add, sigs
<1>4. owed \subseteq SigEvents /\ armed \subseteq Events /\ SigEvents \subseteq Events
  BY EventKinds, Zenon DEF LoopTypes
<1>5. flags \in [Events -> SUBSET AllFlags]
  BY Zenon DEF Linked, FlagsOK
<1>6. ASSUME NEW fl, SetTimeout(e, timo, fl), UNCHANGED <<signals, owed>> PROVE Promised'
  <2>1. /\ dropped' = (IF e \in SigEvents THEN dropped ELSE dropped \ {e})
        /\ \/ timo = NoTimeout /\ armed' = armed \ {e} /\ flags' = [flags EXCEPT ![e] = fl \ {"TIMEOUTS"}]
           \/ /\ timo # NoTimeout /\ armed' = armed \cup {e}
              /\ flags' = [flags EXCEPT ![e] = fl \cup {"TIMEOUTS"}]
    BY <1>6, Zenon DEF SetTimeout
  <2>2. \A f \in Events : f # e => flags'[f] = flags[f]
    BY <1>5, <2>1, Zenon
  <2>3. timo # NoTimeout => "TIMEOUTS" \in flags'[e] /\ e \notin SigEvents
    BY <1>1, <1>5, <2>1, Zenon
  <2>4. \A f \in armed' : f = e => timo # NoTimeout
    BY <2>1, Zenon
  <2>5. \A f \in armed' : f # e => f \in armed /\ f \in Events
    BY <1>4, <2>1, Zenon
  <2>6. \A f \in owed : f \in dropped => f \in dropped'
    BY <1>4, <2>1, Zenon
  <2>7. \A f \in armed' : "TIMEOUTS" \in flags'[f] \/ f \in Range(active) \/ f \in dropped'
    <3> TAKE f \in armed'
    <3>1. CASE f = e
      BY <2>3, <2>4, <3>1, Zenon
    <3>2. CASE f # e
      BY <2>1, <2>2, <2>5, <3>2, Zenon DEF Promised
    <3> QED
      BY <3>1, <3>2, Zenon
  <2>8. armed' \cap (SigEvents \cup {SigPipe}) = {}
    BY <1>1, <2>1, Zenon DEF Promised
  <2> QED
    BY <1>3, <1>6, <2>6, <2>7, <2>8, Zenon DEF Promised
<1>7. ASSUME ~ Inserted(e), e \in SigEvents, sudo_ev_add_signal(e, tohead) PROVE Promised'
  <2>1. \A s \in 1 .. NSig : Range(signals[s]) \subseteq Range(signals'[s])
    BY <1>3, <1>7, AddSignalLinked, Zenon
  <2>2. UNCHANGED <<timeouts, deadline, owed, armed, dropped>>
    BY <1>7, Zenon DEF sudo_ev_add_signal, hist
  <2>3. \/ flags' = [flags EXCEPT ![e] = {"INSERTED"}]
        \/ flags' = [[flags EXCEPT ![e] = {"INSERTED"}] EXCEPT ![SigPipe] = {"INSERTED"}]
    BY <1>7, Zenon DEF sudo_ev_add_signal
  <2>4. \A f \in Events : f # e /\ f # SigPipe => flags'[f] = flags[f]
    BY <1>5, <2>3, Zenon
  <2>5. \A f \in armed : f \in Events /\ f # e /\ f # SigPipe
    BY <1>4, <1>7, Zenon DEF Promised
  <2>6. \A f \in owed : SigOf[f] \in 1 .. NSig
    BY <1>4, EventKinds, Zenon
  <2> QED
    BY <1>3, <2>1, <2>2, <2>4, <2>5, <2>6, Zenon DEF Promised
<1>8. ASSUME UNCHANGED <<events, signals, num_handlers, poll, timeouts, deadline, flags, hist>>
      PROVE  Promised'
  BY <1>3, <1>8, PromiseSame, Zenon DEF hist
<1> QED
  BY <1>2, <1>6, <1>7, <1>8, Zenon DEF sudo_ev_add

LEMMA PromiseDel ==
  ASSUME Promised, LoopTypes, Linked, NEW e \in Events, e # SigPipe, sudo_ev_del(e)
  PROVE  Promised'
<1>1. /\ \A f \in SigEvents : f # e =>
            (f \in Range(signals'[SigOf[f]]) <=> f \in Range(signals[SigOf[f]]))
      /\ \E D \in SUBSET {e, SigPipe} : e \in D /\ Unlink(D)
  BY DelLinked, Zenon
<1>2. PICK D \in SUBSET {e, SigPipe} : e \in D /\ Unlink(D)
  BY <1>1, Zenon
<1>3. /\ owed' = owed \ {e} /\ armed' = armed \ {e} /\ dropped' = dropped \ {e}
      /\ pending' = pending
  BY Zenon DEF sudo_ev_del, sigs
<1>4. owed \subseteq SigEvents /\ armed \subseteq Events /\ SigEvents \subseteq Events /\ SigPipe \notin SigEvents
  BY EventKinds, Zenon DEF LoopTypes
<1>5. /\ \A f \in Events : flags'[f] = IF f \in D THEN {} ELSE flags[f]
      /\ Range(active') = Range(active) \ D
  BY <1>2, UnlinkLinked, Zenon DEF Linked
<1>6. \A f \in owed' : f \in owed /\ f # e /\ f \notin D /\ f \in SigEvents
  BY <1>2, <1>3, <1>4, Zenon
<1>7. \A f \in armed' : f \in armed /\ f # e /\ f \notin D /\ f \in Events
  BY <1>2, <1>3, <1>4, Zenon DEF Promised
<1>8. \A f \in owed' : (pending'[SigOf[f]] \/ f \in Range(active') \/ f \in dropped')
                       /\ f \in Range(signals'[SigOf[f]])
  BY <1>1, <1>3, <1>5, <1>6, Zenon DEF Promised
<1>9. \A f \in armed' : "TIMEOUTS" \in flags'[f] \/ f \in Range(active') \/ f \in dropped'
  BY <1>3, <1>5, <1>7, Zenon DEF Promised
<1> QED
  BY <1>3, <1>8, <1>9, Zenon DEF Promised

(* The steps of the loop.                                                  *)
LEMMA PromiseLoop ==
  ASSUME Promised, LoopTypes, Linked, RoundOK, Loop
  PROVE  Promised'
<1>1. owed \subseteq SigEvents /\ armed \subseteq Events /\ SigEvents \subseteq Events
  BY EventKinds, Zenon DEF LoopTypes
<1>2. /\ \A f \in Events : "TIMEOUTS" \in flags[f] <=> f \in Range(timeouts)
      /\ \A f \in Events : "ACTIVE" \in flags[f] <=> f \in Range(active)
  BY Zenon DEF Linked, TimeoutsOK, ActiveOK
<1>3. CASE Scan \/ Drain \/ Round
  BY <1>3, PromiseSame, Zenon DEF Scan, Drain, Round, queues, sigs, hist
<1>4. CASE PollReady
  <2>1. active = << >> /\ UNCHANGED <<signals, timeouts, pending, owed, armed, dropped>>
    BY <1>4, Zenon DEF PollReady, RoundOK, sigs, hist
  <2>2. Range(active) = {}
    BY <2>1 DEF Range
  <2>3. \A f \in Events : "TIMEOUTS" \in flags'[f] <=> f \in Range(timeouts')
    BY <1>4, PollReadyLinked, Zenon DEF Linked, TimeoutsOK
  <2> QED
    BY <1>1, <1>2, <2>1, <2>2, <2>3, Zenon DEF Promised
<1>5. CASE PollTimeout
  <2>1. active = << >> /\ UNCHANGED <<signals, pending, owed, armed, dropped>>
    BY <1>5, Zenon DEF PollTimeout, RoundOK, sigs, hist
  <2>2. Range(active) = {}
    BY <2>1 DEF Range
  <2>3. Linked' /\ Range(timeouts) \subseteq Range(active') \cup Range(timeouts')
    BY <1>5, PollTimeoutLinked, Zenon
  <2>4. \A f \in Events : "TIMEOUTS" \in flags'[f] <=> f \in Range(timeouts')
    BY <2>3, Zenon DEF Linked, TimeoutsOK
  <2>5. \A f \in armed : "TIMEOUTS" \in flags'[f] \/ f \in Range(active') \/ f \in dropped'
    BY <1>1, <1>2, <2>1, <2>2, <2>3, <2>4, Zenon DEF Promised
  <2> QED
    BY <2>1, <2>2, <2>5, Zenon DEF Promised
<1>6. CASE Service
  <2> DEFINE e == Head(active)
  <2>1. /\ Range(active') = Range(active) \ {e} /\ e \in Events
        /\ \A f \in Events : "TIMEOUTS" \in flags[f] =>
              "TIMEOUTS" \in flags'[f] \/ (f = e /\ f \notin Persist)
    BY <1>6, ServiceLinked, Zenon
  <2>2. /\ owed' = owed \ {e} /\ dropped' = dropped \ {e} /\ UNCHANGED <<signals, pending>>
        /\ armed' = IF e \in Persist /\ "TIMEOUTS" \in flags[e] THEN armed ELSE armed \ {e}
    BY <1>6, Zenon DEF Service, sigs
  <2> HIDE DEF e
  <2>3. ASSUME NEW f \in armed'
        PROVE  "TIMEOUTS" \in flags'[f] \/ f \in Range(active') \/ f \in dropped'
    <3>1. f \in armed /\ f \in Events
      BY <1>1, <2>2, Zenon
    <3>2. CASE f = e
      BY <2>1, <2>2, <3>1, <3>2, Zenon
    <3>3. CASE f # e
      BY <2>1, <2>2, <3>1, <3>3, Zenon DEF Promised
    <3> QED
      BY <3>2, <3>3, Zenon
  <2>4. \A f \in owed' : (pending'[SigOf[f]] \/ f \in Range(active') \/ f \in dropped')
                         /\ f \in Range(signals'[SigOf[f]])
    BY <2>1, <2>2, Zenon DEF Promised
  <2>5. armed' \subseteq armed
    BY <2>2, Zenon
  <2> QED
    BY <2>3, <2>4, <2>5, Zenon DEF Promised
<1>7. CASE Activate_sigevents
  <2>1. /\ Linked'
        /\ \A f \in Events : f \in Range(active) => f \in Range(active')
        /\ \A f \in SigEvents : pending[SigOf[f]] /\ f \in Range(signals[SigOf[f]]) =>
              f \in Range(active')
    BY <1>7, ActivateSignalsLinked, Zenon
  <2>2. UNCHANGED <<signals, timeouts, owed, armed, dropped>>
    BY <1>7, Zenon DEF Activate_sigevents, hist
  <2>3. \A f \in Events : "TIMEOUTS" \in flags'[f] <=> f \in Range(timeouts')
    BY <2>1, Zenon DEF Linked, TimeoutsOK
  <2>4. \A f \in owed : f \in Range(active') \/ f \in dropped
    BY <1>1, <2>1, Zenon DEF Promised
  <2>5. \A f \in armed : "TIMEOUTS" \in flags'[f] \/ f \in Range(active') \/ f \in dropped
    BY <1>1, <1>2, <2>1, <2>2, <2>3, Zenon DEF Promised
  <2> QED
    BY <2>2, <2>4, <2>5, Zenon DEF Promised
<1>8. CASE Return
  <2>1. /\ Linked' /\ UNCHANGED <<timeouts, signals, pending, owed, armed>>
        /\ (UNCHANGED active /\ UNCHANGED dropped) \/ dropped' = dropped \cup Range(active)
    BY <1>8, ReturnLinked, Zenon
  <2>2. \A f \in Events : "TIMEOUTS" \in flags'[f] <=> f \in Range(timeouts')
    BY <2>1, Zenon DEF Linked, TimeoutsOK
  <2>3. \A f : f \in Range(active) \/ f \in dropped => f \in Range(active') \/ f \in dropped'
    BY <2>1, Zenon
  <2> QED
    BY <1>1, <1>2, <2>1, <2>2, <2>3, Zenon DEF Promised
<1> QED
  BY <1>3, <1>4, <1>5, <1>6, <1>7, <1>8, Zenon DEF Loop

LEMMA PromiseStep ==
  ASSUME Promised, LoopTypes, Linked, RoundOK, [Next]_vars
  PROVE  Promised'
<1>1. CASE Loop
  BY <1>1, PromiseLoop, Zenon
<1>2. ASSUME NEW a \in Adds, sudo_ev_add(a[1], a[2], a[3]) PROVE Promised'
  BY <1>2, PromiseAdd, Zenon
<1>3. ASSUME NEW a \in Adds, sudo_ev_del(a[1]) PROVE Promised'
  <2>1. a[1] \in Events /\ a[1] # SigPipe
    BY EventsAssumption, Zenon
  <2> QED
    BY <1>3, <2>1, PromiseDel, Zenon
<1>4. CASE sudo_ev_loopexit \/ sudo_ev_loopbreak \/ sudo_ev_loopcontinue \/ \E m \in Modes : Enter(m)
  <2>1. UNCHANGED queues /\ UNCHANGED sigs /\ UNCHANGED hist
    BY <1>4, Zenon DEF sudo_ev_loopexit, sudo_ev_loopbreak, sudo_ev_loopcontinue, Enter
  <2> QED
    BY <2>1, PromiseSame, Zenon DEF queues, sigs, hist
<1>5. CASE Consume \/ PollError \/ (\E e \in UserIo : IoReady(e)) \/ Tick \/ UNCHANGED vars
  <2>1. UNCHANGED queues /\ UNCHANGED sigs /\ UNCHANGED hist
    BY <1>5, Zenon DEF Consume, PollError, IoReady, Tick, vars
  <2> QED
    BY <2>1, PromiseSame, Zenon DEF queues, sigs, hist
<1>6. ASSUME NEW s \in 1 .. NSig, Signal(s) PROVE Promised'
  <2>1. /\ pending' = [pending EXCEPT ![s] = TRUE] /\ owed' = owed \cup Range(signals[s])
        /\ dropped' = dropped \ Range(signals[s])
        /\ UNCHANGED <<active, flags, signals, armed>>
    BY <1>6, Zenon DEF Signal, queues
  <2>2. pending \in [1 .. NSig -> BOOLEAN] /\ owed \subseteq SigEvents
    BY Zenon DEF LoopTypes
  <2>3. Range(signals[s]) \subseteq SigEvents /\ \A f \in Range(signals[s]) : SigOf[f] = s
    BY RangeType, Zenon DEF Linked, SignalsOK
  <2>4. \A f \in SigEvents : SigOf[f] \in 1 .. NSig
    BY EventKinds, Zenon
  <2>5. \A f \in Range(signals[s]) : pending'[SigOf[f]]
    BY <2>1, <2>2, <2>3, Zenon
  <2>6. \A f \in SigEvents : pending[SigOf[f]] => pending'[SigOf[f]]
    BY <2>1, <2>2, <2>4, Zenon
  <2>7. \A f \in owed' : pending'[SigOf[f]] \/ f \in Range(active) \/ f \in dropped'
    <3> TAKE f \in owed'
    <3>1. CASE f \in Range(signals[s])
      BY <2>5, <3>1, Zenon
    <3>2. CASE f \notin Range(signals[s])
      BY <2>1, <2>2, <2>6, <3>2, Zenon DEF Promised
    <3> QED
      BY <3>1, <3>2, Zenon
  <2>8. \A f \in armed : f \in dropped => f \in dropped'
    BY <2>1, <2>3, Zenon DEF Promised
  <2>9. \A f \in owed' : f \in Range(signals[SigOf[f]])
    BY <2>1, <2>3, Zenon DEF Promised
  <2> QED
    BY <2>1, <2>7, <2>8, <2>9, Zenon DEF Promised
<1> QED
  BY <1>1, <1>2, <1>3, <1>4, <1>5, <1>6, Zenon DEF Next, Call

(* However signals, timeouts, callbacks and calls of the API interleave,   *)
(* a caught signal or an expired timeout is on its way to its callback     *)
(* until it is serviced or a callback made the loop break off or restart.  *)
THEOREM SignalsAndTimeoutsKept == Spec => []NothingForgotten
<1>1. Init => QueueInv /\ Promised
  BY QueueInit, Zenon DEF Init, Promised
<1>2. (QueueInv /\ Promised) /\ [Next]_vars => (QueueInv /\ Promised)'
  BY QueueStep, PromiseStep, Zenon DEF QueueInv
<1>3. QueueInv /\ Promised => NothingForgotten
  <2> SUFFICES ASSUME QueueInv, Promised PROVE NothingForgotten
    BY Zenon
  <2>1. armed \subseteq Events /\ \A f \in Events : "TIMEOUTS" \in flags[f] <=> f \in Range(timeouts)
    BY Zenon DEF QueueInv, LoopTypes, Linked, TimeoutsOK
  <2> QED
    BY <2>1, Zenon DEF Promised, NothingForgotten
<1> QED
  BY <1>1, <1>2, <1>3, PTL DEF Spec
=============================================================================
