-------------------------- MODULE EventQueueProofs --------------------------
(***************************************************************************)
(* What the operations of the event loop do to its table and its queues,   *)
(* for any events, signals and bounds.  The table of poll(2) slots stays   *)
(* consistent for any limit on open files that is at least its initial     *)
(* size; and linking and unlinking an event keeps the flags, the queues    *)
(* and the signal handlers in agreement.                                   *)
(***************************************************************************)
EXTENDS EventLoop, QueueProofs, FiniteSetTheorems

(* An event has a slot exactly while it is registered, which is what lets  *)
(* sudo_ev_del() pass its index to the backend.                            *)
SlotInv ==
  /\ TableOK
  /\ flags \in [Events -> SUBSET {"INSERTED", "ACTIVE", "TIMEOUTS"}]
  /\ \A e \in IoEvents : Inserted(e) <=> pfd_idx[e] # -1

(* A table of the initial size is consistent.                              *)
LEMMA PollInitOK == PollInit => TableOK
BY TableAssumption DEF PollInit, TableOK, IsHighest, IsNextFree, NoFd

(* Where sudo_ev_add_impl() leaves the table.                              *)
LEMMA GrownOK ==
  ASSUME TableOK, ~ TableFull,
         NEW m, m = IF pfd_free < pfd_max THEN pfd_max ELSE NewMax
  PROVE  /\ m \in PfdInit .. NofileMax /\ pfd_max <= m /\ pfd_free \in 0 .. m - 1
         /\ Grown \in [0 .. m - 1 -> Nat \cup {NoFd}]
         /\ \A s \in 0 .. m - 1 : Grown[s] = IF s < pfd_max THEN pfds[s] ELSE NoFd
<1>1. /\ pfd_max \in PfdInit .. NofileMax /\ pfd_max \in Nat /\ pfd_free \in 0 .. pfd_max
      /\ PfdInit \in Nat /\ NofileMax \in Nat /\ PfdInit > 0
  BY TableAssumption DEF TableOK, IsNextFree
<1>2. /\ m \in PfdInit .. NofileMax /\ pfd_max <= m /\ pfd_free \in 0 .. m - 1
  BY <1>1 DEF TableFull, NewMax
<1>3. CASE pfd_free < pfd_max
  BY <1>1, <1>2, <1>3 DEF Grown, TableOK
<1>4. CASE ~ (pfd_free < pfd_max)
  <2>1. pfd_free = pfd_max /\ m = NewMax
    BY <1>1, <1>4
  <2>2. Grown = [s \in 0 .. m - 1 |-> IF s < pfd_free THEN pfds[s] ELSE NoFd]
    BY <1>4, <2>1, Zenon DEF Grown
  <2>3. QED
    BY <1>1, <1>2, <2>1, <2>2 DEF TableOK
<1>5. QED
  BY <1>3, <1>4, Zenon

(* IsHighest without intervals.                                            *)
LEMMA HighestIff ==
  ASSUME NEW t, NEW s \in Int, NEW n
  PROVE  IsHighest(t, s, n) <=>
           /\ n \in Int /\ -1 <= n /\ n <= s
           /\ n >= 0 => t[n] # NoFd
           /\ \A j \in Int : n < j /\ j <= s => t[j] = NoFd
BY DEF IsHighest

(* A slot of a range lies below, at or above a given slot.                 *)
LEMMA BelowAtAbove ==
  ASSUME NEW a \in Int, NEW b \in Int, NEW j \in 0 .. b - 1
  PROVE  j \in 0 .. a - 1 \/ j = a \/ j \in a + 1 .. b - 1
  OBVIOUS

(* Adding an event that has no slot keeps the table consistent.            *)
LEMMA AddOK ==
  ASSUME TableOK, NEW e \in IoEvents, pfd_idx[e] = -1, sudo_ev_add_impl(e)
  PROVE  TableOK' /\ pfd_idx' = [pfd_idx EXCEPT ![e] = pfd_free] /\ pfd_free >= 0
<1> DEFINE m == IF pfd_free < pfd_max THEN pfd_max ELSE NewMax
<1>1. /\ ~ TableFull
      /\ pfds' = [Grown EXCEPT ![pfd_free] = FdOf[e]] /\ pfd_max' = m
      /\ pfd_idx' = [pfd_idx EXCEPT ![e] = pfd_free]
      /\ pfd_high' = IF pfd_free > pfd_high THEN pfd_free ELSE pfd_high
      /\ IsNextFree(pfds', m, pfd_free + 1, pfd_free')
  BY Zenon DEF sudo_ev_add_impl
<1>2. /\ m \in PfdInit .. NofileMax /\ pfd_max <= m /\ pfd_free \in 0 .. m - 1
      /\ Grown \in [0 .. m - 1 -> Nat \cup {NoFd}]
      /\ \A s \in 0 .. m - 1 : Grown[s] = IF s < pfd_max THEN pfds[s] ELSE NoFd
  BY <1>1, GrownOK, Zenon
<1>3. /\ PfdInit \in Nat \ {0} /\ NofileMax \in Nat /\ FdOf[e] \in Nat /\ NoFd = -1
      /\ pfd_max \in Nat /\ m \in Nat
  BY <1>2, TableAssumption DEF TableOK, NoFd
<1> HIDE DEF m
<1>4. /\ pfd_high \in -1 .. pfd_max - 1 /\ pfd_free \in 0 .. pfd_max
      /\ pfd_idx \in [IoEvents -> -1 .. pfd_high]
  BY <1>3, Zenon DEF TableOK, IsHighest, IsNextFree
<1>5. /\ pfds' \in [0 .. m - 1 -> Nat \cup {NoFd}] /\ pfds'[pfd_free] = FdOf[e]
      /\ \A s \in 0 .. m - 1 : s # pfd_free =>
           pfds'[s] = IF s < pfd_max THEN pfds[s] ELSE NoFd
  BY <1>1, <1>2, <1>3, Zenon
<1>6. /\ pfd_high' \in pfd_high .. m - 1 /\ pfd_free <= pfd_high'
      /\ pfd_idx' \in [IoEvents -> -1 .. pfd_high'] /\ pfd_idx'[e] = pfd_free
      /\ \A f \in IoEvents : f # e => pfd_idx'[f] = pfd_idx[f]
  BY <1>1, <1>2, <1>3, <1>4
<1>7. \A f \in IoEvents : pfd_idx[f] # pfd_free
  <2>1. SUFFICES ASSUME NEW f \in IoEvents, pfd_idx[f] = pfd_free PROVE FALSE
    BY Zenon
  <2>2. pfds[pfd_free] = FdOf[f] /\ FdOf[f] \in Nat /\ pfd_free \in 0 .. pfd_max - 1
    BY <1>3, <1>4, <2>1, TableAssumption DEF TableOK
  <2>3. QED
    BY <1>3, <2>2 DEF TableOK, IsNextFree
<1>8. \A f, g \in IoEvents : pfd_idx'[f] = pfd_idx'[g] /\ pfd_idx'[f] >= 0 => f = g
  BY <1>6, <1>7 DEF TableOK
<1>9. \A f \in IoEvents : pfd_idx'[f] >= 0 => pfds'[pfd_idx'[f]] = FdOf[f]
  <2>1. SUFFICES ASSUME NEW f \in IoEvents, f # e, pfd_idx[f] >= 0
                 PROVE  pfds'[pfd_idx[f]] = FdOf[f]
    BY <1>5, <1>6, Zenon
  <2>2. pfd_idx[f] \in 0 .. pfd_max - 1 /\ pfds[pfd_idx[f]] = FdOf[f]
    BY <1>3, <1>4, <2>1 DEF TableOK
  <2>3. QED
    BY <1>2, <1>3, <1>5, <1>7, <2>2
<1>10. \A s \in 0 .. m - 1 : pfds'[s] # NoFd => \E f \in IoEvents : pfd_idx'[f] = s
  <2>1. SUFFICES ASSUME NEW s \in 0 .. m - 1, s # pfd_free, pfds'[s] # NoFd
                 PROVE  \E f \in IoEvents : pfd_idx'[f] = s
    BY <1>6, Zenon
  <2>2. s \in 0 .. pfd_max - 1 /\ pfds[s] # NoFd
    BY <1>2, <1>3, <1>5, <2>1
  <2>3. PICK f \in IoEvents : pfd_idx[f] = s
    BY <2>2, Zenon DEF TableOK
  <2>4. f # e
    BY <1>3, <2>2, <2>3
  <2>5. QED
    BY <1>6, <2>3, <2>4, Zenon
<1>11. IsHighest(pfds', m - 1, pfd_high')
  <2>1. pfd_high' \in -1 .. m - 1
    BY <1>2, <1>3, <1>4, <1>6
  <2>2. pfd_high' >= 0 => pfds'[pfd_high'] # NoFd
    <3>1. CASE pfd_high' = pfd_free
      BY <1>3, <1>5, <3>1
    <3>2. CASE pfd_high' # pfd_free
      <4>1. pfd_high' = pfd_high /\ pfd_high \in 0 .. pfd_max - 1
        BY <1>1, <1>2, <1>3, <1>4, <3>2
      <4>2. QED
        BY <1>2, <1>3, <1>5, <3>2, <4>1 DEF TableOK, IsHighest
    <3>3. QED
      BY <3>1, <3>2, Zenon
  <2>3. ASSUME NEW j \in Int, pfd_high' < j, j <= m - 1 PROVE pfds'[j] = NoFd
    <3>1. /\ pfd_high \in Int /\ pfd_high' \in Int /\ m \in Int /\ pfd_free \in Int
          /\ -1 <= pfd_high /\ pfd_high <= pfd_high' /\ pfd_free <= pfd_high'
      BY <1>2, <1>3, <1>4, <1>6
    <3>2. j \in 0 .. m - 1 /\ j # pfd_free /\ j \in pfd_high + 1 .. m - 1
      BY <2>3, <3>1
    <3>3. QED
      BY <1>2, <1>3, <1>5, <3>2 DEF TableOK, IsHighest
  <2>4. m - 1 \in Int /\ pfd_high' \in Int /\ -1 <= pfd_high' /\ pfd_high' <= m - 1
    BY <1>3, <2>1
  <2>5. QED
    BY <2>2, <2>3, <2>4, HighestIff, Zenon
<1>12. IsNextFree(pfds', m, 0, pfd_free')
  <2>1. pfd_free' \in pfd_free + 1 .. m /\ (pfd_free' < m => pfds'[pfd_free'] = NoFd)
        /\ \A j \in pfd_free + 1 .. pfd_free' - 1 : pfds'[j] # NoFd
    BY ZenonT(40), <1>1, Zenon DEF IsNextFree
  <2>2. ASSUME NEW j \in 0 .. pfd_free - 1 PROVE pfds'[j] # NoFd
    BY <1>2, <1>3, <1>4, <1>5, <2>2 DEF TableOK, IsNextFree
  <2>3. pfds'[pfd_free] # NoFd
    BY <1>3, <1>5
  <2>4. pfd_free' \in 0 .. m /\ \A j \in 0 .. pfd_free' - 1 : pfds'[j] # NoFd
    <3>1. pfd_free' \in 0 .. m /\ pfd_free' \in Int /\ pfd_free \in Int
      BY <1>2, <1>3, <2>1
    <3>2. ASSUME NEW j \in 0 .. pfd_free' - 1 PROVE pfds'[j] # NoFd
      <4>1. j \in 0 .. pfd_free - 1 \/ j = pfd_free \/ j \in pfd_free + 1 .. pfd_free' - 1
        BY <3>1, <3>2, BelowAtAbove, Zenon
      <4>2. QED
        BY ZenonT(40), <2>1, <2>2, <2>3, <4>1, Zenon
    <3>3. QED
      BY <3>1, <3>2, Zenon
  <2>5. QED
    BY ZenonT(40), <2>1, <2>4, Zenon DEF IsNextFree
<1>13. TableOK'
  BY ZenonT(40), <1>1, <1>2, <1>5, <1>6, <1>8, <1>9, <1>10, <1>11, <1>12, Zenon
  DEF TableOK, IsHighest, IsNextFree, NoFd
<1>14. QED
  BY <1>1, <1>4, <1>13

(* Deleting an event that has a slot keeps the table consistent.           *)
LEMMA DelOK ==
  ASSUME TableOK, NEW e \in IoEvents, pfd_idx[e] # -1, sudo_ev_del_impl(e)
  PROVE  TableOK' /\ pfd_idx' = [pfd_idx EXCEPT ![e] = -1]
<1>1. /\ pfds' = [pfds EXCEPT ![pfd_idx[e]] = NoFd] /\ pfd_max' = pfd_max
      /\ pfd_free' = IF pfd_idx[e] < pfd_free THEN pfd_idx[e] ELSE pfd_free
      /\ IsHighest(pfds', pfd_high, pfd_high')
      /\ pfd_idx' = [pfd_idx EXCEPT ![e] = -1]
  BY Zenon DEF sudo_ev_del_impl
<1>2. /\ PfdInit \in Nat \ {0} /\ NofileMax \in Nat /\ NoFd = -1
      /\ pfd_max \in PfdInit .. NofileMax /\ pfd_max \in Nat
      /\ \A f \in IoEvents : FdOf[f] \in Nat
      /\ pfd_high \in -1 .. pfd_max - 1 /\ pfd_free \in 0 .. pfd_max
      /\ pfd_idx \in [IoEvents -> -1 .. pfd_high]
      /\ pfd_idx[e] \in 0 .. pfd_high /\ pfds[pfd_idx[e]] # NoFd
  BY SMTT(30), TableAssumption DEF TableOK, IsHighest, IsNextFree, NoFd
<1>3. /\ pfds' \in [0 .. pfd_max - 1 -> Nat \cup {NoFd}] /\ pfds'[pfd_idx[e]] = NoFd
      /\ \A s \in 0 .. pfd_max - 1 : s # pfd_idx[e] => pfds'[s] = pfds[s]
  BY <1>1, <1>2 DEF TableOK
<1>4. /\ (pfd_high' >= 0 => pfds'[pfd_high'] # NoFd)
      /\ \A j \in Int : pfd_high' < j /\ j <= pfd_high => pfds'[j] = NoFd
      /\ pfd_high \in Int /\ pfd_high' \in Int /\ -1 <= pfd_high' /\ pfd_high' <= pfd_high
  <2>1. pfd_high \in Int
    BY <1>2
  <2>2. QED
    BY ZenonT(40), <1>1, <2>1, HighestIff, Zenon
<1>5. \A f \in IoEvents : f # e => pfd_idx'[f] = pfd_idx[f] /\ pfd_idx[f] # pfd_idx[e]
  BY <1>1, <1>2 DEF TableOK
<1>6. pfd_idx'[e] = -1
  BY <1>1, <1>2, Zenon
<1>7. \A f \in IoEvents : pfd_idx'[f] >= 0 => pfds'[pfd_idx'[f]] = FdOf[f]
  <2>1. SUFFICES ASSUME NEW f \in IoEvents, f # e, pfd_idx[f] >= 0
                 PROVE  pfds'[pfd_idx[f]] = FdOf[f]
    BY <1>5, <1>6
  <2>2. pfd_idx[f] \in 0 .. pfd_max - 1 /\ pfds[pfd_idx[f]] = FdOf[f]
    BY <1>2, <2>1 DEF TableOK
  <2>3. QED
    BY <1>3, <1>5, <2>1, <2>2, Zenon
<1>8. pfd_idx' \in [IoEvents -> -1 .. pfd_high']
  <2>1. SUFFICES ASSUME NEW f \in IoEvents, pfd_idx'[f] >= 0 PROVE pfd_idx'[f] <= pfd_high'
    BY <1>1, <1>2, <1>4
  <2>2. pfds'[pfd_idx'[f]] # NoFd /\ pfd_idx'[f] \in 0 .. pfd_high
    BY <1>2, <1>5, <1>6, <1>7, <2>1
  <2>3. QED
    BY <1>4, <2>2
<1>9. \A f, g \in IoEvents : pfd_idx'[f] = pfd_idx'[g] /\ pfd_idx'[f] >= 0 => f = g
  BY <1>5, <1>6 DEF TableOK
<1>10. \A s \in 0 .. pfd_max - 1 : pfds'[s] # NoFd => \E f \in IoEvents : pfd_idx'[f] = s
  <2>1. SUFFICES ASSUME NEW s \in 0 .. pfd_max - 1, pfds'[s] # NoFd
                 PROVE  \E f \in IoEvents : pfd_idx'[f] = s
    BY Zenon
  <2>2. s # pfd_idx[e] /\ pfds[s] # NoFd
    BY <1>3, <2>1, Zenon
  <2>3. PICK f \in IoEvents : pfd_idx[f] = s
    BY <2>2, Zenon DEF TableOK
  <2>4. QED
    BY <1>5, <2>2, <2>3, Zenon
<1>11. IsHighest(pfds', pfd_max - 1, pfd_high')
  <2>1. ASSUME NEW j \in Int, pfd_high' < j, j <= pfd_max - 1 PROVE pfds'[j] = NoFd
    <3>1. CASE j <= pfd_high
      BY <1>4, <2>1, <3>1, Zenon
    <3>2. CASE j > pfd_high
      BY <1>2, <1>3, <1>4, <2>1, <3>2 DEF TableOK, IsHighest
    <3>3. QED
      BY <1>2, <1>4, <2>1, <3>1, <3>2
  <2>2. pfd_max - 1 \in Int /\ pfd_high' <= pfd_max - 1
    BY <1>2, <1>4
  <2>3. QED
    BY <1>4, <2>1, <2>2, HighestIff, Zenon
<1>12. IsNextFree(pfds', pfd_max, 0, pfd_free')
  BY <1>1, <1>2, <1>3 DEF TableOK, IsNextFree
<1>13. QED
  BY ZenonT(40), <1>1, <1>2, <1>3, <1>7, <1>8, <1>9, <1>10, <1>11, <1>12, Zenon
  DEF TableOK, IsHighest, IsNextFree, NoFd

FlagSet == {"INSERTED", "ACTIVE", "TIMEOUTS"}

(* Activating, servicing and timing out events leaves the slots alone.     *)
LEMMA SameSlots ==
  ASSUME SlotInv, UNCHANGED poll, flags' \in [Events -> SUBSET FlagSet],
         \A e \in Events : "INSERTED" \in flags'[e] <=> "INSERTED" \in flags[e]
  PROVE  SlotInv'
<1>1. TableOK'
  BY Zenon DEF SlotInv, TableOK, IsHighest, IsNextFree, NoFd, poll
<1>2. ASSUME NEW e \in IoEvents PROVE (Inserted(e) <=> pfd_idx[e] # -1)'
  <2>1. e \in Events /\ pfd_idx' = pfd_idx
    BY <1>2, Zenon DEF Events, poll
  <2>2. QED
    BY <1>2, <2>1, Zenon DEF SlotInv, Inserted
<1>3. QED
  BY <1>1, <1>2, Zenon DEF SlotInv, FlagSet

(* Registering an event in a free slot.                                    *)
LEMMA AddSlot ==
  ASSUME SlotInv, NEW e \in IoEvents, ~ Inserted(e), sudo_ev_add_impl(e),
         flags' \in [Events -> SUBSET FlagSet], "INSERTED" \in flags'[e],
         \A f \in IoEvents \ {e} : "INSERTED" \in flags'[f] <=> "INSERTED" \in flags[f]
  PROVE  SlotInv'
<1>1. pfd_idx[e] = -1 /\ TableOK
  BY Zenon DEF SlotInv
<1>2. TableOK' /\ pfd_idx' = [pfd_idx EXCEPT ![e] = pfd_free] /\ pfd_free >= 0
  BY <1>1, AddOK, Zenon
<1>3. DOMAIN pfd_idx = IoEvents /\ pfd_free \in Int
  BY <1>1 DEF TableOK, IsNextFree
<1>4. pfd_idx'[e] # -1
  BY <1>2, <1>3
<1>5. ASSUME NEW f \in IoEvents PROVE (Inserted(f) <=> pfd_idx[f] # -1)'
  <2>1. CASE f = e
    BY <1>4, <2>1, Zenon DEF Inserted
  <2>2. CASE f # e
    BY <1>2, <1>3, <1>5, <2>2, Zenon DEF Inserted, SlotInv
  <2>3. QED
    BY <2>1, <2>2, Zenon
<1>6. QED
  BY <1>2, <1>5, Zenon DEF SlotInv, FlagSet

(* Unlinking registered events, one of which may have a slot.              *)
LEMMA UnlinkSlot ==
  ASSUME SlotInv, NEW D \in SUBSET Events, Unlink(D), \A e \in D : Inserted(e),
         \A e, f \in D \cap IoEvents : e = f
  PROVE  SlotInv'
<1>1. /\ flags' = [f \in Events |-> IF f \in D THEN {} ELSE flags[f]]
      /\ IF D \cap IoEvents = {} THEN UNCHANGED poll
         ELSE \E e \in D \cap IoEvents : sudo_ev_del_impl(e)
  BY Zenon DEF Unlink
<1>2. /\ flags' \in [Events -> SUBSET FlagSet] /\ IoEvents \subseteq Events
      /\ \A f \in Events : flags'[f] = IF f \in D THEN {} ELSE flags[f]
  BY <1>1, Zenon DEF SlotInv, FlagSet, Events
<1>3. CASE D \cap IoEvents = {}
  <2>1. TableOK' /\ pfd_idx' = pfd_idx
    BY <1>1, <1>3, Zenon DEF SlotInv, TableOK, IsHighest, IsNextFree, NoFd, poll
  <2>2. ASSUME NEW e \in IoEvents PROVE (Inserted(e) <=> pfd_idx[e] # -1)'
    BY <1>2, <1>3, <2>1, <2>2, Zenon DEF SlotInv, Inserted
  <2>3. QED
    BY <1>2, <2>1, <2>2, Zenon DEF SlotInv, FlagSet
<1>4. CASE D \cap IoEvents # {}
  <2>1. PICK e \in D \cap IoEvents : sudo_ev_del_impl(e)
    BY <1>1, <1>4, Zenon
  <2>2. pfd_idx[e] # -1 /\ TableOK
    BY <2>1, Zenon DEF SlotInv
  <2>3. TableOK' /\ pfd_idx' = [pfd_idx EXCEPT ![e] = -1]
    BY <2>1, <2>2, DelOK, Zenon
  <2>4. DOMAIN pfd_idx = IoEvents
    BY <2>2, Zenon DEF TableOK
  <2>5. ASSUME NEW f \in IoEvents PROVE (Inserted(f) <=> pfd_idx[f] # -1)'
    <3>1. CASE f = e
      BY <1>2, <2>1, <2>3, <2>4, <3>1, Zenon DEF Inserted
    <3>2. CASE f # e
      <4>1. f \notin D
        BY <2>1, <2>5, <3>2, Zenon
      <4>2. flags'[f] = flags[f] /\ pfd_idx'[f] = pfd_idx[f]
        BY <1>2, <2>3, <2>4, <2>5, <3>2, <4>1, Zenon
      <4>3. QED
        BY <2>5, <4>2, Zenon DEF SlotInv, Inserted
    <3>3. QED
      BY <3>1, <3>2, Zenon
  <2>6. QED
    BY <1>2, <2>3, <2>5, Zenon DEF SlotInv, FlagSet
<1>5. QED
  BY <1>3, <1>4, Zenon

(* Every step of the loop, of a caller or of the world keeps the slots.    *)
LEMMA SlotStep == SlotInv /\ [Next]_vars => SlotInv'
<1> SUFFICES ASSUME SlotInv, [Next]_vars PROVE SlotInv'
  BY Zenon
<1>0. /\ flags \in [Events -> SUBSET FlagSet] /\ IoEvents \subseteq Events
      /\ SigEvents \subseteq Events /\ SigPipe \in IoEvents /\ IoEvents \cap SigEvents = {}
      /\ \A a \in Adds : a[1] \in Events \ {SigPipe}
  BY EventsAssumption, Zenon DEF SlotInv, FlagSet, Events
<1>1. ASSUME UNCHANGED <<poll, flags>> PROVE SlotInv'
  BY <1>0, <1>1, SameSlots, Zenon
<1>2. ASSUME NEW e \in Events, NEW fl \in SUBSET FlagSet,
             flags' = [flags EXCEPT ![e] = fl],
             UNCHANGED poll, "INSERTED" \in fl <=> Inserted(e)
      PROVE  SlotInv'
  BY <1>0, <1>2, SameSlots, Zenon DEF Inserted
<1>3. ASSUME NEW a \in Adds, sudo_ev_add(a[1], a[2], a[3]) PROVE SlotInv'
  <2> DEFINE e == a[1]
  <2>1. CASE /\ Inserted(e) /\ SetTimeout(e, a[2], flags[e])
             /\ UNCHANGED <<events, signals, num_handlers, poll, owed>>
    <3>1. \E fl \in SUBSET FlagSet :
            flags' = [flags EXCEPT ![e] = fl] /\ "INSERTED" \in fl
      <4>1. flags[e] \in SUBSET FlagSet /\ "INSERTED" \in flags[e]
        BY <1>0, <1>3, <2>1, Zenon DEF Inserted
      <4>2. \/ flags' = [flags EXCEPT ![e] = flags[e] \ {"TIMEOUTS"}]
            \/ flags' = [flags EXCEPT ![e] = flags[e] \cup {"TIMEOUTS"}]
        BY <2>1, Zenon DEF SetTimeout
      <4>3. QED
        BY <4>1, <4>2 DEF FlagSet
    <3>2. QED
      BY ZenonT(40), <1>0, <1>2, <1>3, <2>1, <3>1, Zenon
  <2>2. CASE ~ Inserted(e) /\ e \in SigEvents /\ sudo_ev_add_signal(e, a[3])
    <3>1. CASE Inserted(SigPipe) \/ TableFull
      <4>1. flags' = [flags EXCEPT ![e] = {"INSERTED"}] /\ UNCHANGED poll
        BY ZenonT(40), <2>2, <3>1, Zenon DEF sudo_ev_add_signal
      <4>2. /\ TableOK'
            /\ flags' \in [Events -> SUBSET FlagSet] /\ pfd_idx' = pfd_idx
            /\ \A f \in IoEvents : flags'[f] = flags[f]
        BY <1>0, <1>3, <2>2, <4>1, Zenon
        DEF SlotInv, TableOK, IsHighest, IsNextFree, NoFd, poll, FlagSet
      <4>3. QED
        BY <4>2, Zenon DEF SlotInv, Inserted, FlagSet
    <3>2. CASE ~ (Inserted(SigPipe) \/ TableFull)
      <4>1. /\ flags' = [flags EXCEPT ![e] = {"INSERTED"}, ![SigPipe] = {"INSERTED"}]
            /\ sudo_ev_add_impl(SigPipe)
        BY <2>2, <3>2, Zenon DEF sudo_ev_add_signal
      <4>2. /\ flags' \in [Events -> SUBSET FlagSet] /\ "INSERTED" \in flags'[SigPipe]
            /\ \A f \in IoEvents \ {SigPipe} : flags'[f] = flags[f]
        BY <1>0, <1>3, <2>2, <4>1, Zenon DEF FlagSet
      <4>3. QED
        BY <1>0, <3>2, <4>1, <4>2, AddSlot, Zenon
    <3>3. QED
      BY <3>1, <3>2, Zenon
  <2>3. CASE UNCHANGED <<poll, flags>>
    BY <1>1, <2>3, Zenon
  <2>4. CASE /\ ~ Inserted(e) /\ e \notin SigEvents
             /\ IF e \in IoEvents THEN sudo_ev_add_impl(e) ELSE UNCHANGED poll
             /\ SetTimeout(e, a[2], {"INSERTED"})
    <3>1. PICK fl \in SUBSET FlagSet :
            flags' = [flags EXCEPT ![e] = fl] /\ "INSERTED" \in fl
      <4>1. \/ flags' = [flags EXCEPT ![e] = {"INSERTED"} \ {"TIMEOUTS"}]
            \/ flags' = [flags EXCEPT ![e] = {"INSERTED"} \cup {"TIMEOUTS"}]
        BY <2>4, Zenon DEF SetTimeout
      <4>2. QED
        BY ZenonT(40), <4>1, Zenon DEF FlagSet
    <3>2. flags' \in [Events -> SUBSET FlagSet] /\ "INSERTED" \in flags'[e]
          /\ \A f \in IoEvents \ {e} : flags'[f] = flags[f]
      BY <1>0, <1>3, <3>1, Zenon
    <3>3. CASE e \in IoEvents
      BY <2>4, <3>2, <3>3, AddSlot, Zenon
    <3>4. CASE e \notin IoEvents
      <4>1. TableOK' /\ pfd_idx' = pfd_idx
        BY <2>4, <3>4 DEF SlotInv, TableOK, IsHighest, IsNextFree, NoFd, poll
      <4>2. QED
        BY <3>2, <3>4, <4>1, Zenon DEF SlotInv, Inserted, FlagSet
    <3>5. QED
      BY <3>3, <3>4, Zenon
  <2>5. QED
    BY <1>3, <2>1, <2>2, <2>3, <2>4, Zenon DEF sudo_ev_add
<1>4. ASSUME NEW a \in Adds, sudo_ev_del(a[1]) PROVE SlotInv'
  <2> DEFINE e == a[1]
  <2>1. Inserted(e) /\ e \in Events
    BY <1>0, <1>4, Zenon DEF sudo_ev_del
  <2>2. CASE e \in SigEvents
    <3>1. PICK D \in SUBSET {e, SigPipe} :
            /\ Unlink(D) /\ e \in D /\ (SigPipe \in D => Inserted(SigPipe))
      <4>1. DelSignal(e) /\ e # SigPipe
        BY <1>0, <1>4, <2>2, Zenon DEF sudo_ev_del
      <4>2. \/ Unlink({e} \cup {SigPipe}) /\ Inserted(SigPipe)
            \/ Unlink({e} \cup {})
        BY ZenonT(40), <4>1, Zenon DEF DelSignal
      <4>3. CASE Unlink({e} \cup {SigPipe}) /\ Inserted(SigPipe)
        BY <4>3, Zenon
      <4>4. CASE Unlink({e} \cup {})
        BY <4>1, <4>4
      <4>5. QED
        BY <4>2, <4>3, <4>4, Zenon
    <3>2. /\ D \in SUBSET Events /\ \A f \in D : Inserted(f)
          /\ \A f, g \in D \cap IoEvents : f = g
      BY <1>0, <2>1, <2>2, <3>1, Zenon
    <3>3. QED
      BY <3>1, <3>2, UnlinkSlot, Zenon
  <2>3. CASE e \notin SigEvents
    <3>1. Unlink({e})
      BY <1>4, <2>3, Zenon DEF sudo_ev_del
    <3>2. QED
      BY <2>1, <3>1, UnlinkSlot, Zenon
  <2>4. QED
    BY <2>2, <2>3, Zenon
<1>5. CASE PollReady
  <2>1. PICK q : Activate(q)
    BY <1>5, Zenon DEF PollReady
  <2>2. QED
    BY <1>0, <1>5, <2>1, SameSlots DEF PollReady, Activate, FlagSet
<1>6. CASE Activate_sigevents
  <2>1. PICK q : Activate(q)
    BY <1>6, Zenon DEF Activate_sigevents
  <2>2. QED
    BY <1>0, <1>6, <2>1, SameSlots DEF Activate_sigevents, Activate, FlagSet
<1>7. CASE PollTimeout
  <2>1. /\ UNCHANGED poll
        /\ \/ UNCHANGED flags
           \/ \E S : flags' = [e \in Events |-> IF e \in S
                 THEN (flags[e] \ {"TIMEOUTS"}) \cup {"ACTIVE"} ELSE flags[e]]
    BY ZenonT(40), <1>7, Zenon DEF PollTimeout
  <2>2. QED
    BY <1>0, <1>1, <2>1, SameSlots DEF FlagSet
<1>8. CASE Return
  <2>1. /\ UNCHANGED poll
        /\ \/ UNCHANGED flags
           \/ flags' = [e \in Events |-> flags[e] \ {"ACTIVE"}]
    BY <1>8, Zenon DEF Return, DeactivateAll
  <2>2. QED
    BY <1>0, <1>1, <2>1, SameSlots, Zenon
<1>9. CASE Service
  <2> DEFINE e == Head(active)
  <2>1. \/ /\ flags' = [flags EXCEPT ![e] = @ \ {"ACTIVE"}]
           /\ UNCHANGED poll
        \/ Inserted(e) /\ Unlink({e})
    BY <1>9, Zenon DEF Service
  <2> HIDE DEF e
  <2>2. CASE e \in Events
    <3>1. CASE Inserted(e) /\ Unlink({e})
      BY <2>2, <3>1, UnlinkSlot, Zenon
    <3>2. CASE flags' = [flags EXCEPT ![e] = @ \ {"ACTIVE"}] /\ UNCHANGED poll
      <4>1. flags[e] \ {"ACTIVE"} \in SUBSET FlagSet
        BY <1>0, <2>2, Zenon
      <4>2. QED
        BY ZenonT(40), <1>2, <2>2, <3>2, <4>1, Zenon DEF Inserted
    <3>3. QED
      BY <2>1, <3>1, <3>2, Zenon
  <2>3. CASE e \notin Events
    BY <1>0, <1>1, <2>1, <2>3 DEF Unlink
  <2>4. QED
    BY <2>2, <2>3, Zenon
<1>10. CASE Scan \/ Drain \/ Round \/ Consume \/ PollError \/ Tick
  BY <1>1, <1>10, Zenon DEF Scan, Drain, Round, Consume, PollError, Tick, queues
<1>11. CASE sudo_ev_loopexit \/ sudo_ev_loopbreak \/ sudo_ev_loopcontinue
  BY <1>1, <1>11, Zenon DEF sudo_ev_loopexit, sudo_ev_loopbreak, sudo_ev_loopcontinue, queues
<1>12. CASE \E m \in Modes : Enter(m)
  BY <1>1, <1>12, Zenon DEF Enter, queues
<1>13. CASE (\E s \in 1 .. NSig : Signal(s)) \/ (\E e \in UserIo : IoReady(e))
  BY <1>1, <1>13, Zenon DEF Signal, IoReady, queues
<1>14. CASE UNCHANGED vars
  BY <1>1, <1>14, Zenon DEF vars, queues
<1>15. QED
  BY <1>3, <1>4, <1>5, <1>6, <1>7, <1>8, <1>9, <1>10, <1>11, <1>12, <1>13, <1>14, Zenon
  DEF Next, Loop, Call

(* The base starts with an empty table.                                    *)
LEMMA SlotInit == Init => SlotInv
<1>1. SUFFICES ASSUME Init PROVE SlotInv
  BY Zenon
<1>2. TableOK /\ pfd_idx = [e \in IoEvents |-> -1] /\ flags = [e \in Events |-> {}]
  BY <1>1, PollInitOK, Zenon DEF Init, PollInit
<1>3. QED
  BY <1>2, Zenon DEF SlotInv, Inserted, Events

(* The poll table is consistent in every state of the event loop: every    *)
(* registered event has a slot of its own below pfd_high, and pfd_free is  *)
(* the first slot not in use.                                              *)
THEOREM PollTableConsistent == Spec => []TableOK
<1>1. SlotInv => TableOK
  BY Zenon DEF SlotInv
<1>2. QED
  BY <1>1, SlotInit, SlotStep, PTL DEF Spec

-----------------------------------------------------------------------------
(* The queues and the flags, each queue for itself.                        *)
AllFlags == {"INSERTED", "ACTIVE", "TIMEOUTS"}
Queued   == IoEvents \cup Timers

FlagsOK(fl) ==
  /\ fl \in [Events -> SUBSET AllFlags]
  /\ \A e \in Events : fl[e] # {} => "INSERTED" \in fl[e]

EventsOK(q, fl) ==
  /\ q \in Seq(Queued) /\ Once(q)
  /\ \A e \in Queued : "INSERTED" \in fl[e] <=> e \in Range(q)

SignalsOK(sg, fl) ==
  /\ sg \in [1 .. NSig -> Seq(SigEvents)]
  /\ \A s \in 1 .. NSig : Once(sg[s]) /\ \A e \in Range(sg[s]) : SigOf[e] = s
  /\ \A e \in SigEvents : "INSERTED" \in fl[e] <=> e \in Range(sg[SigOf[e]])

ActiveOK(q, fl) ==
  /\ q \in Seq(Events) /\ Once(q)
  /\ \A e \in Events : "ACTIVE" \in fl[e] <=> e \in Range(q)

Sooner(dl) == {p \in Queued \X Queued : dl[p[1]] <= dl[p[2]]}

TimeoutsOK(q, dl, fl) ==
  /\ q \in Seq(Queued) /\ Once(q) /\ InOrder(q, Sooner(dl)) /\ dl \in [Events -> Nat]
  /\ \A e \in Events : "TIMEOUTS" \in fl[e] <=> e \in Range(q)

HandlersOK(sg, n) == n = Cardinality({s \in 1 .. NSig : sg[s] # << >>})

Linked ==
  /\ FlagsOK(flags) /\ EventsOK(events, flags) /\ SignalsOK(signals, flags)
  /\ ActiveOK(active, flags) /\ TimeoutsOK(timeouts, deadline, flags)
  /\ HandlersOK(signals, num_handlers)
  /\ Inserted(SigPipe) => num_handlers > 0

(* What kinds of events there are.                                         *)
LEMMA EventKinds ==
  /\ Events = Queued \cup SigEvents /\ Queued \cap SigEvents = {}
  /\ SigPipe \in Queued /\ SigPipe \in Events /\ SigPipe \notin SigEvents
  /\ NSig \in Nat /\ SigOf \in [SigEvents -> 1 .. NSig] /\ None \notin Events
BY EventsAssumption, Zenon DEF Events, Queued

(* What a queue's predicate says only depends on its own flag.             *)
LEMMA SameFlag ==
  ASSUME NEW fl, NEW g, NEW q, NEW sg, NEW dl
  PROVE  /\ EventsOK(q, fl) /\ (\A e \in Queued : "INSERTED" \in g[e] <=> "INSERTED" \in fl[e])
              => EventsOK(q, g)
         /\ SignalsOK(sg, fl) /\ (\A e \in SigEvents : "INSERTED" \in g[e] <=> "INSERTED" \in fl[e])
              => SignalsOK(sg, g)
         /\ ActiveOK(q, fl) /\ (\A e \in Events : "ACTIVE" \in g[e] <=> "ACTIVE" \in fl[e])
              => ActiveOK(q, g)
         /\ TimeoutsOK(q, dl, fl) /\ (\A e \in Events : "TIMEOUTS" \in g[e] <=> "TIMEOUTS" \in fl[e])
              => TimeoutsOK(q, dl, g)
<1>1. ASSUME EventsOK(q, fl), \A e \in Queued : "INSERTED" \in g[e] <=> "INSERTED" \in fl[e]
      PROVE  EventsOK(q, g)
  BY <1>1, Zenon DEF EventsOK
<1>2. ASSUME SignalsOK(sg, fl), \A e \in SigEvents : "INSERTED" \in g[e] <=> "INSERTED" \in fl[e]
      PROVE  SignalsOK(sg, g)
  BY <1>2, Zenon DEF SignalsOK
<1>3. ASSUME ActiveOK(q, fl), \A e \in Events : "ACTIVE" \in g[e] <=> "ACTIVE" \in fl[e]
      PROVE  ActiveOK(q, g)
  BY <1>3, Zenon DEF ActiveOK
<1>4. ASSUME TimeoutsOK(q, dl, fl), \A e \in Events : "TIMEOUTS" \in g[e] <=> "TIMEOUTS" \in fl[e]
      PROVE  TimeoutsOK(q, dl, g)
  BY <1>4, Zenon DEF TimeoutsOK
<1> QED
  BY <1>1, <1>2, <1>3, <1>4, Zenon

(* The set of signals with a handler when one signal's queue changes.      *)
LEMMA HandlersChange ==
  ASSUME NEW sg, NEW n, HandlersOK(sg, n), sg \in [1 .. NSig -> Seq(SigEvents)],
         NEW s \in 1 .. NSig, NEW q \in Seq(SigEvents)
  PROVE  /\ n \in Nat /\ (sg[s] # << >> => n > 0)
         /\ HandlersOK([sg EXCEPT ![s] = q],
              IF sg[s] = << >> /\ q # << >> THEN n + 1
              ELSE IF sg[s] # << >> /\ q = << >> THEN n - 1 ELSE n)
<1> DEFINE H == {r \in 1 .. NSig : sg[r] # << >>}
           sg2 == [sg EXCEPT ![s] = q]
           H2 == {r \in 1 .. NSig : sg2[r] # << >>}
<1>1. NSig \in Nat
  BY EventKinds, Zenon
<1>2. IsFiniteSet(H) /\ IsFiniteSet(1 .. NSig)
  BY <1>1, FS_Interval, FS_Subset
<1>3. n = Cardinality(H) /\ Cardinality(H) \in Nat
  BY <1>2, FS_CardinalityType, Zenon DEF HandlersOK
<1>4. \A r \in 1 .. NSig : sg2[r] = IF r = s THEN q ELSE sg[r]
  BY Zenon
<1> HIDE DEF sg2
<1>5. H2 = IF q = << >> THEN H \ {s} ELSE H \cup {s}
  BY <1>4, Zenon
<1>6. sg[s] # << >> <=> s \in H
  BY Zenon
<1> HIDE DEF H, H2
<1>7. /\ Cardinality(H \cup {s}) = IF s \in H THEN Cardinality(H) ELSE Cardinality(H) + 1
      /\ Cardinality(H \ {s}) = IF s \in H THEN Cardinality(H) - 1 ELSE Cardinality(H)
  BY <1>2, FS_AddElement, FS_RemoveElement, Zenon
<1>8. s \in H => n > 0
  <2>1. s \in H => H # {}
    BY Zenon
  <2> QED
    BY <1>2, <1>3, <2>1, FS_EmptySet
<1>9. Cardinality(H2) = IF sg[s] = << >> /\ q # << >> THEN n + 1
                        ELSE IF sg[s] # << >> /\ q = << >> THEN n - 1 ELSE n
  BY <1>3, <1>5, <1>6, <1>7, Zenon
<1> QED
  BY <1>3, <1>6, <1>8, <1>9, Zenon DEF HandlersOK, H2, sg2

(* Adding at the head or at the end of a queue.                            *)
LEMMA PutRange ==
  ASSUME NEW A, NEW q \in Seq(A), NEW e \in A, NEW tohead, Once(q), e \notin Range(q)
  PROVE  LET t == Put(q, e, tohead)
         IN  t \in Seq(A) /\ Once(t) /\ Range(t) = Range(q) \cup {e} /\ t # << >>
<1>1. <<e>> \in Seq(A) /\ Range(<<e>>) = {e} /\ Once(<<e>>)
  <2>1. <<e>> \in Seq(A) /\ <<e>>[1] = e /\ DOMAIN <<e>> = {1}
    OBVIOUS
  <2> QED
    BY <2>1, Zenon DEF Range, Once
<1>2. Append(q, e) = q \o <<e>>
  OBVIOUS
<1>3. Range(q) \cap {e} = {} /\ {e} \cap Range(q) = {}
  BY Zenon
<1>4. /\ q \o <<e>> \in Seq(A) /\ Once(q \o <<e>>) /\ Range(q \o <<e>>) = Range(q) \cup {e}
      /\ <<e>> \o q \in Seq(A) /\ Once(<<e>> \o q) /\ Range(<<e>> \o q) = Range(q) \cup {e}
  <2> DEFINE s == <<e>>
  <2>1. s \in Seq(A) /\ Range(s) = {e} /\ Once(s)
    BY <1>1, Zenon
  <2> HIDE DEF s
  <2>2. q \o s \in Seq(A) /\ Once(q \o s) /\ Range(q \o s) = Range(q) \cup {e}
    BY ONLY <2>1, <1>3, q \in Seq(A), Once(q), ConcatRange
  <2>3. s \o q \in Seq(A) /\ Once(s \o q) /\ Range(s \o q) = {e} \cup Range(q)
    BY ONLY <2>1, <1>3, q \in Seq(A), Once(q), ConcatRange
  <2>4. {e} \cup Range(q) = Range(q) \cup {e}
    BY Zenon
  <2> QED
    BY <2>2, <2>3, <2>4, Zenon DEF s
<1>5. Put(q, e, tohead) = q \o <<e>> \/ Put(q, e, tohead) = <<e>> \o q
  BY <1>2, Zenon DEF Put
<1> DEFINE t == Put(q, e, tohead)
<1> HIDE DEF t
<1>6. t \in Seq(A) /\ Once(t) /\ Range(t) = Range(q) \cup {e}
  BY <1>4, <1>5, Zenon DEF t
<1>7. t # << >>
  <2>1. Range(t) # {}
    BY <1>6, Zenon
  <2> QED
    BY <1>6, <2>1, RangeType, Zenon
<1> QED
  BY <1>6, <1>7, Zenon DEF t

(* A timeout is inserted where it keeps the queue sorted.                  *)
LEMMA InsertSorted ==
  ASSUME NEW q \in Seq(Queued), Once(q), NEW e \in Queued, e \notin Range(q), NEW d \in Nat,
         deadline \in [Events -> Nat], InOrder(q, Sooner(deadline))
  PROVE  LET t == InsertTimeout(q, e, d)
             dl == [deadline EXCEPT ![e] = d]
         IN  /\ t \in Seq(Queued) /\ Once(t) /\ Range(t) = Range(q) \cup {e}
             /\ dl \in [Events -> Nat] /\ InOrder(t, Sooner(dl))
<1> DEFINE later == {f \in Events : d < deadline[f]}
           k == First(q, later)
           t == InsertTimeout(q, e, d)
           dl == [deadline EXCEPT ![e] = d]
<1>1. /\ Len(q) \in Nat /\ DOMAIN q = 1 .. Len(q)
      /\ \A i \in 1 .. Len(q) : q[i] \in Range(q) /\ q[i] \in Queued /\ q[i] # e
  BY RangeType
<1>2. /\ k \in 1 .. Len(q) + 1 /\ (k <= Len(q) => q[k] \in later)
      /\ \A i \in 1 .. k - 1 : q[i] \notin later
  <2> HIDE DEF later
  <2> QED
    BY FirstProperties, Zenon
<1>3. t = InsertBefore(q, k, e)
  BY Zenon DEF InsertTimeout
<1> HIDE DEF k, t
<1>4. k \in 1 .. Len(q) + 1 /\ \A i \in 1 .. Len(q) : q[i] \in Events /\ deadline[q[i]] \in Nat
  BY <1>1, <1>2, EventKinds, Zenon
<1>13. \A i, j \in 1 .. Len(q) : i < j => deadline[q[i]] <= deadline[q[j]]
  BY <1>1, Zenon DEF InOrder, Sooner
<1>5. ASSUME NEW i \in 1 .. Len(q)
      PROVE  IF i < k THEN deadline[q[i]] <= d ELSE d < deadline[q[i]]
  <2>1. CASE i < k
    <3>1. i \in 1 .. k - 1
      BY <1>1, <1>4, <2>1
    <3>2. ~ (d < deadline[q[i]])
      BY <1>2, <1>4, <3>1, Zenon
    <3> QED
      BY <1>4, <2>1, <3>2
  <2>2. CASE ~ (i < k)
    <3>1. k \in 1 .. Len(q) /\ (i = k \/ k < i)
      BY <1>1, <1>4, <2>2
    <3>2. d < deadline[q[k]]
      BY <1>2, <3>1
    <3>3. deadline[q[k]] <= deadline[q[i]]
      BY <1>4, <1>13, <3>1
    <3> QED
      BY <1>4, <2>2, <3>1, <3>2, <3>3
  <2> QED
    BY <2>1, <2>2, Zenon
<1>6. /\ t \in Seq(Queued) /\ DOMAIN t = 1 .. Len(q) + 1 /\ Range(t) = Range(q) \cup {e}
      /\ \A i \in 1 .. Len(q) + 1 :
            t[i] = IF i < k THEN q[i] ELSE IF i = k THEN e ELSE q[i - 1]
      /\ Once(t)
  <2> DEFINE u == InsertBefore(q, k, e)
  <2>0. q \in Seq(Queued) /\ e \in Queued /\ k \in 1 .. Len(q) + 1
    BY <1>4, Zenon
  <2>1. /\ u \in Seq(Queued) /\ DOMAIN u = 1 .. Len(q) + 1 /\ Range(u) = Range(q) \cup {e}
        /\ \A i \in 1 .. Len(q) + 1 :
              u[i] = IF i < k THEN q[i] ELSE IF i = k THEN e ELSE q[i - 1]
        /\ Once(q) /\ e \notin Range(q) => Once(u)
    BY ONLY <2>0, InsertRange
  <2> HIDE DEF u
  <2>2. t = u
    BY <1>3, Zenon DEF u
  <2> QED
    BY <2>1, <2>2, Zenon
<1>7. e \in Events /\ \A i \in 1 .. Len(q) : q[i] \in Events
  BY <1>1, EventKinds, Zenon
<1>8. /\ dl \in [Events -> Nat] /\ dl[e] = d
      /\ \A i \in 1 .. Len(q) : dl[q[i]] = deadline[q[i]] /\ dl[q[i]] \in Nat
  BY <1>1, <1>7, Zenon
<1> HIDE DEF dl
<1>9. \A i, j \in 1 .. Len(q) : i < j => dl[q[i]] <= dl[q[j]]
  BY <1>1, <1>8, Zenon DEF InOrder, Sooner
<1>10. ASSUME NEW i \in 1 .. Len(q) + 1, NEW j \in 1 .. Len(q) + 1, i < j
       PROVE  dl[t[i]] <= dl[t[j]]
  <2>1. CASE j < k
    <3>1. i \in 1 .. Len(q) /\ j \in 1 .. Len(q) /\ t[i] = q[i] /\ t[j] = q[j]
      BY SMTT(30), <1>1, <1>4, <1>6, <1>10, <2>1
    <3> QED
      BY <1>9, <1>10, <3>1, Zenon
  <2>2. CASE j = k
    <3>1. i \in 1 .. Len(q) /\ i < k /\ t[i] = q[i] /\ t[j] = e
      BY SMTT(30), <1>1, <1>4, <1>6, <1>10, <2>2
    <3> QED
      BY <1>5, <1>8, <3>1
  <2>3. CASE k < j
    <3>1. j - 1 \in 1 .. Len(q) /\ ~ (j - 1 < k) /\ t[j] = q[j - 1]
      BY SMTT(30), <1>1, <1>4, <1>6, <2>3
    <3>2. d <= dl[t[j]]
      BY SMTT(30), <1>5, <1>8, <3>1
    <3>3. CASE i < k
      <4>1. i \in 1 .. Len(q) /\ t[i] = q[i]
        BY SMTT(30), <1>1, <1>4, <1>6, <3>3
      <4> QED
        BY SMTT(30), <1>5, <1>8, <3>1, <3>2, <3>3, <4>1
    <3>4. CASE i = k
      BY <1>6, <1>8, <3>2, <3>4
    <3>5. CASE k < i
      <4>1. i - 1 \in 1 .. Len(q) /\ i - 1 < j - 1 /\ t[i] = q[i - 1]
        BY SMTT(30), <1>1, <1>4, <1>6, <1>10, <3>5
      <4> QED
        BY <1>9, <3>1, <4>1, Zenon
    <3> QED
      BY <1>4, <3>3, <3>4, <3>5
  <2> QED
    BY <1>4, <2>1, <2>2, <2>3
<1>11. \A i \in 1 .. Len(q) + 1 : t[i] \in Queued
  BY <1>6
<1>12. InOrder(t, Sooner(dl))
  BY <1>6, <1>10, <1>11, Zenon DEF InOrder, Sooner
<1> QED
  BY <1>6, <1>8, <1>12, Zenon DEF t, dl

-----------------------------------------------------------------------------
(* What the parts of the operations do to the queues.                      *)

(* The last part of sudo_ev_add().                                         *)
LEMMA SetTimeoutLinked ==
  ASSUME FlagsOK(flags), TimeoutsOK(timeouts, deadline, flags), now \in Nat,
         NEW e \in Events, NEW timo \in Nat \cup {NoTimeout}, e \in SigEvents => timo = NoTimeout,
         NEW fl \in SUBSET AllFlags, "INSERTED" \in fl,
         "ACTIVE" \in fl <=> "ACTIVE" \in flags[e],
         SetTimeout(e, timo, fl)
  PROVE  /\ FlagsOK(flags') /\ TimeoutsOK(timeouts', deadline', flags')
         /\ \A f \in Events : "ACTIVE" \in flags'[f] <=> "ACTIVE" \in flags[f]
         /\ \A f \in Events : f # e => flags'[f] = flags[f]
         /\ "INSERTED" \in flags'[e]
<1> DEFINE q == Without(timeouts, {e})
<1>1. /\ timeouts \in Seq(Queued) /\ Once(timeouts) /\ InOrder(timeouts, Sooner(deadline))
      /\ deadline \in [Events -> Nat]
      /\ \A f \in Events : "TIMEOUTS" \in flags[f] <=> f \in Range(timeouts)
  BY Zenon DEF TimeoutsOK
<1>2. q \in Seq(Queued) /\ Range(q) = Range(timeouts) \ {e} /\ Once(q) /\ InOrder(q, Sooner(deadline))
  BY <1>1, WithoutProperties, Zenon
<1>3. flags \in [Events -> SUBSET AllFlags]
  BY Zenon DEF FlagsOK
<1>4. ASSUME NEW F \in SUBSET AllFlags, "INSERTED" \in F, "ACTIVE" \in F <=> "ACTIVE" \in fl,
             flags' = [flags EXCEPT ![e] = F]
      PROVE  /\ FlagsOK(flags') /\ flags'[e] = F
             /\ \A f \in Events : f # e => flags'[f] = flags[f]
             /\ \A f \in Events : "ACTIVE" \in flags'[f] <=> "ACTIVE" \in flags[f]
  <2>1. /\ flags' \in [Events -> SUBSET AllFlags] /\ flags'[e] = F
        /\ \A f \in Events : f # e => flags'[f] = flags[f]
    BY <1>3, <1>4, Zenon
  <2> QED
    BY <1>4, <2>1, Zenon DEF FlagsOK
<1> HIDE DEF q
<1>5. CASE timo = NoTimeout
  <2>1. timeouts' = q /\ deadline' = deadline /\ flags' = [flags EXCEPT ![e] = fl \ {"TIMEOUTS"}]
    BY <1>5, Zenon DEF SetTimeout, q
  <2>2. /\ fl \ {"TIMEOUTS"} \in SUBSET AllFlags /\ "INSERTED" \in fl \ {"TIMEOUTS"}
        /\ "ACTIVE" \in fl \ {"TIMEOUTS"} <=> "ACTIVE" \in fl
        /\ "TIMEOUTS" \notin fl \ {"TIMEOUTS"}
    BY Zenon
  <2> DEFINE F == fl \ {"TIMEOUTS"}
  <2> HIDE DEF F
  <2>3. /\ FlagsOK(flags') /\ flags'[e] = F
        /\ \A f \in Events : f # e => flags'[f] = flags[f]
        /\ \A f \in Events : "ACTIVE" \in flags'[f] <=> "ACTIVE" \in flags[f]
    BY <1>4, <2>1, <2>2, Zenon DEF F
  <2>4. \A f \in Events : "TIMEOUTS" \in flags'[f] <=> f \in Range(q)
    BY <1>1, <1>2, <2>2, <2>3, Zenon DEF F
  <2>5. TimeoutsOK(timeouts', deadline', flags')
    BY <1>1, <1>2, <2>1, <2>4, Zenon DEF TimeoutsOK
  <2> QED
    BY <2>2, <2>3, <2>5, Zenon DEF F
<1>6. CASE timo # NoTimeout
  <2>1. /\ timeouts' = InsertTimeout(q, e, now + timo)
        /\ deadline' = [deadline EXCEPT ![e] = now + timo]
        /\ flags' = [flags EXCEPT ![e] = fl \cup {"TIMEOUTS"}]
    BY <1>6, Zenon DEF SetTimeout, q
  <2>2. now + timo \in Nat /\ e \in Queued /\ e \notin Range(q)
    BY <1>2, <1>6, EventKinds
  <2>3. /\ fl \cup {"TIMEOUTS"} \in SUBSET AllFlags /\ "INSERTED" \in fl \cup {"TIMEOUTS"}
        /\ "ACTIVE" \in fl \cup {"TIMEOUTS"} <=> "ACTIVE" \in fl
        /\ "TIMEOUTS" \in fl \cup {"TIMEOUTS"}
    BY Zenon DEF AllFlags
  <2> DEFINE F == fl \cup {"TIMEOUTS"}
             d == now + timo
             t == InsertTimeout(q, e, d)
             dl == [deadline EXCEPT ![e] = d]
  <2>4. /\ t \in Seq(Queued) /\ Once(t) /\ Range(t) = Range(q) \cup {e}
        /\ dl \in [Events -> Nat] /\ InOrder(t, Sooner(dl))
    <3>1. d \in Nat
      BY <2>2, Zenon
    <3> HIDE DEF d
    <3> QED
      BY <1>1, <1>2, <2>2, <3>1, InsertSorted, Zenon
  <2> HIDE DEF F, t, dl
  <2>5. timeouts' = t /\ deadline' = dl
    BY <2>1, Zenon DEF t, dl
  <2>6. /\ FlagsOK(flags') /\ flags'[e] = F
        /\ \A f \in Events : f # e => flags'[f] = flags[f]
        /\ \A f \in Events : "ACTIVE" \in flags'[f] <=> "ACTIVE" \in flags[f]
    BY <1>4, <2>1, <2>3, Zenon DEF F
  <2>7. \A f \in Events : "TIMEOUTS" \in flags'[f] <=> f \in Range(t)
    BY <1>1, <1>2, <2>3, <2>4, <2>6, Zenon DEF F
  <2>8. TimeoutsOK(timeouts', deadline', flags')
    BY <2>4, <2>5, <2>7, Zenon DEF TimeoutsOK
  <2> QED
    BY <2>3, <2>6, <2>8, Zenon DEF F
<1> QED
  BY <1>5, <1>6, Zenon

(* sudo_ev_del() and the loop take events off every queue they are on.     *)
LEMMA UnlinkLinked ==
  ASSUME FlagsOK(flags), EventsOK(events, flags), ActiveOK(active, flags),
         TimeoutsOK(timeouts, deadline, flags), NEW D, Unlink(D)
  PROVE  /\ FlagsOK(flags') /\ EventsOK(events', flags') /\ ActiveOK(active', flags')
         /\ TimeoutsOK(timeouts', deadline, flags')
         /\ \A f \in Events : flags'[f] = IF f \in D THEN {} ELSE flags[f]
         /\ Range(active') = Range(active) \ D
         /\ Range(timeouts') = Range(timeouts) \ D
<1>1. /\ flags \in [Events -> SUBSET AllFlags] /\ \A f \in Events : flags[f] # {} => "INSERTED" \in flags[f]
      /\ events \in Seq(Queued) /\ Once(events)
      /\ \A f \in Queued : "INSERTED" \in flags[f] <=> f \in Range(events)
      /\ active \in Seq(Events) /\ Once(active)
      /\ \A f \in Events : "ACTIVE" \in flags[f] <=> f \in Range(active)
      /\ timeouts \in Seq(Queued) /\ Once(timeouts) /\ InOrder(timeouts, Sooner(deadline))
      /\ deadline \in [Events -> Nat]
      /\ \A f \in Events : "TIMEOUTS" \in flags[f] <=> f \in Range(timeouts)
  BY Zenon DEF FlagsOK, EventsOK, ActiveOK, TimeoutsOK
<1>2. /\ events' = Without(events, D) /\ active' = Without(active, D) /\ timeouts' = Without(timeouts, D)
      /\ flags' = [f \in Events |-> IF f \in D THEN {} ELSE flags[f]]
  BY Zenon DEF Unlink
<1>3. /\ flags' \in [Events -> SUBSET AllFlags]
      /\ \A f \in Events : flags'[f] = IF f \in D THEN {} ELSE flags[f]
  BY <1>1, <1>2, Zenon
<1>4. events' \in Seq(Queued) /\ Once(events') /\ Range(events') = Range(events) \ D
  BY <1>1, <1>2, WithoutProperties, Zenon
<1>5. active' \in Seq(Events) /\ Once(active') /\ Range(active') = Range(active) \ D
  BY <1>1, <1>2, WithoutProperties, Zenon
<1>6. /\ timeouts' \in Seq(Queued) /\ Once(timeouts') /\ Range(timeouts') = Range(timeouts) \ D
      /\ InOrder(timeouts', Sooner(deadline))
  BY <1>1, <1>2, WithoutProperties, Zenon
<1>7. FlagsOK(flags')
  BY <1>1, <1>3, Zenon DEF FlagsOK
<1>8. EventsOK(events', flags')
  <2>1. \A f \in Queued : "INSERTED" \in flags'[f] <=> f \in Range(events')
    BY <1>1, <1>3, <1>4, EventKinds, Zenon
  <2> QED
    BY <1>4, <2>1, Zenon DEF EventsOK
<1>9. ActiveOK(active', flags')
  <2>1. \A f \in Events : "ACTIVE" \in flags'[f] <=> f \in Range(active')
    BY <1>1, <1>3, <1>5, Zenon
  <2> QED
    BY <1>5, <2>1, Zenon DEF ActiveOK
<1>10. TimeoutsOK(timeouts', deadline, flags')
  <2>1. \A f \in Events : "TIMEOUTS" \in flags'[f] <=> f \in Range(timeouts')
    BY <1>1, <1>3, <1>6, Zenon
  <2> QED
    BY <1>1, <1>6, <2>1, Zenon DEF TimeoutsOK
<1> QED
  BY <1>3, <1>5, <1>6, <1>7, <1>8, <1>9, <1>10, Zenon

(* Registered events that are not on the active queue are put there.       *)
LEMMA ActivateLinked ==
  ASSUME FlagsOK(flags), ActiveOK(active, flags), NEW q \in Seq(Events), Once(q),
         Range(active) \cap Range(q) = {}, \A f \in Range(q) : "INSERTED" \in flags[f],
         Activate(q)
  PROVE  /\ FlagsOK(flags') /\ ActiveOK(active', flags')
         /\ \A f \in Events : /\ "INSERTED" \in flags'[f] <=> "INSERTED" \in flags[f]
                              /\ "TIMEOUTS" \in flags'[f] <=> "TIMEOUTS" \in flags[f]
         /\ Range(active') = Range(active) \cup Range(q)
<1>1. /\ flags \in [Events -> SUBSET AllFlags] /\ \A f \in Events : flags[f] # {} => "INSERTED" \in flags[f]
      /\ active \in Seq(Events) /\ Once(active)
      /\ \A f \in Events : "ACTIVE" \in flags[f] <=> f \in Range(active)
  BY Zenon DEF FlagsOK, ActiveOK
<1>2. /\ active' = active \o q
      /\ flags' = [e \in Events |-> IF e \in Range(q) THEN flags[e] \cup {"ACTIVE"} ELSE flags[e]]
  BY Zenon DEF Activate
<1>3. active' \in Seq(Events) /\ Once(active') /\ Range(active') = Range(active) \cup Range(q)
  BY <1>1, <1>2, ConcatRange
<1>4. /\ flags' \in [Events -> SUBSET AllFlags]
      /\ \A f \in Events : flags'[f] = IF f \in Range(q) THEN flags[f] \cup {"ACTIVE"} ELSE flags[f]
  BY <1>1, <1>2, Zenon DEF AllFlags
<1>5. \A f \in Events : /\ "INSERTED" \in flags'[f] <=> "INSERTED" \in flags[f]
                        /\ "TIMEOUTS" \in flags'[f] <=> "TIMEOUTS" \in flags[f]
                        /\ "ACTIVE" \in flags'[f] <=> f \in Range(active')
                        /\ flags'[f] # {} => "INSERTED" \in flags'[f]
  BY <1>1, <1>3, <1>4
<1>6. FlagsOK(flags') /\ ActiveOK(active', flags')
  BY <1>3, <1>4, <1>5, Zenon DEF FlagsOK, ActiveOK
<1> QED
  BY <1>3, <1>5, <1>6, Zenon

(* The timeouts that have expired move to the active queue, which is empty.*)
LEMMA ExpireLinked ==
  ASSUME FlagsOK(flags), TimeoutsOK(timeouts, deadline, flags), NEW k \in 0 .. Len(timeouts),
         \A f \in Events : "ACTIVE" \notin flags[f],
         timeouts' = SubSeq(timeouts, k + 1, Len(timeouts)),
         active' = SubSeq(timeouts, 1, k),
         flags' = [e \in Events |-> IF e \in Range(SubSeq(timeouts, 1, k))
                     THEN (flags[e] \ {"TIMEOUTS"}) \cup {"ACTIVE"} ELSE flags[e]]
  PROVE  /\ FlagsOK(flags') /\ ActiveOK(active', flags') /\ TimeoutsOK(timeouts', deadline, flags')
         /\ \A f \in Events : "INSERTED" \in flags'[f] <=> "INSERTED" \in flags[f]
         /\ Range(timeouts) = Range(active') \cup Range(timeouts')
<1>1. /\ flags \in [Events -> SUBSET AllFlags] /\ \A f \in Events : flags[f] # {} => "INSERTED" \in flags[f]
      /\ timeouts \in Seq(Queued) /\ Once(timeouts) /\ InOrder(timeouts, Sooner(deadline))
      /\ deadline \in [Events -> Nat]
      /\ \A f \in Events : "TIMEOUTS" \in flags[f] <=> f \in Range(timeouts)
  BY Zenon DEF FlagsOK, TimeoutsOK
<1>2. /\ active' \in Seq(Queued) /\ timeouts' \in Seq(Queued) /\ Once(active') /\ Once(timeouts')
      /\ Range(timeouts) = Range(active') \cup Range(timeouts')
      /\ Range(active') \cap Range(timeouts') = {}
      /\ InOrder(timeouts', Sooner(deadline))
  BY <1>1, CutRange, Zenon
<1>3. active' \in Seq(Events)
  BY <1>2, EventKinds
<1>4. flags' = [e \in Events |-> IF e \in Range(active')
                  THEN (flags[e] \ {"TIMEOUTS"}) \cup {"ACTIVE"} ELSE flags[e]]
  BY Zenon
<1>5. /\ flags' \in [Events -> SUBSET AllFlags]
      /\ \A f \in Events : flags'[f] = IF f \in Range(active')
            THEN (flags[f] \ {"TIMEOUTS"}) \cup {"ACTIVE"} ELSE flags[f]
  BY <1>1, <1>4 DEF AllFlags
<1>6. \A f \in Events : /\ "INSERTED" \in flags'[f] <=> "INSERTED" \in flags[f]
                        /\ "TIMEOUTS" \in flags'[f] <=> f \in Range(timeouts')
                        /\ "ACTIVE" \in flags'[f] <=> f \in Range(active')
                        /\ flags'[f] # {} => "INSERTED" \in flags'[f]
  BY <1>1, <1>2, <1>5, Zenon
<1>7. FlagsOK(flags') /\ ActiveOK(active', flags') /\ TimeoutsOK(timeouts', deadline, flags')
  BY <1>1, <1>2, <1>3, <1>5, <1>6, Zenon DEF FlagsOK, ActiveOK, TimeoutsOK
<1> QED
  BY <1>2, <1>6, <1>7, Zenon

(* An event's callback is run: it leaves the active queue only.            *)
LEMMA DequeueLinked ==
  ASSUME FlagsOK(flags), ActiveOK(active, flags), active # << >>, NEW e, e = Head(active),
         active' = Tail(active), flags' = [flags EXCEPT ![e] = @ \ {"ACTIVE"}]
  PROVE  /\ FlagsOK(flags') /\ ActiveOK(active', flags')
         /\ \A f \in Events : /\ "INSERTED" \in flags'[f] <=> "INSERTED" \in flags[f]
                              /\ "TIMEOUTS" \in flags'[f] <=> "TIMEOUTS" \in flags[f]
         /\ Range(active') = Range(active) \ {e}
<1>1. /\ flags \in [Events -> SUBSET AllFlags] /\ \A f \in Events : flags[f] # {} => "INSERTED" \in flags[f]
      /\ active \in Seq(Events) /\ Once(active)
      /\ \A f \in Events : "ACTIVE" \in flags[f] <=> f \in Range(active)
  BY Zenon DEF FlagsOK, ActiveOK
<1>2. /\ active' \in Seq(Events) /\ Once(active') /\ e \in Events /\ e \in Range(active)
      /\ Range(active) = {e} \cup Range(active') /\ e \notin Range(active')
  BY <1>1, TailRange, Zenon
<1>3. Range(active') = Range(active) \ {e}
  BY <1>2, Zenon
<1>4. /\ flags' \in [Events -> SUBSET AllFlags]
      /\ \A f \in Events : flags'[f] = IF f = e THEN flags[f] \ {"ACTIVE"} ELSE flags[f]
  BY <1>1, <1>2, Zenon
<1>5. "INSERTED" \in flags[e]
  BY <1>1, <1>2, Zenon
<1>6. \A f \in Events : /\ "INSERTED" \in flags'[f] <=> "INSERTED" \in flags[f]
                        /\ "TIMEOUTS" \in flags'[f] <=> "TIMEOUTS" \in flags[f]
                        /\ "ACTIVE" \in flags'[f] <=> f \in Range(active')
                        /\ flags'[f] # {} => "INSERTED" \in flags'[f]
  BY <1>1, <1>3, <1>4, <1>5, Zenon
<1>7. FlagsOK(flags') /\ ActiveOK(active', flags')
  BY <1>2, <1>4, <1>6, Zenon DEF FlagsOK, ActiveOK
<1> QED
  BY <1>3, <1>6, <1>7, Zenon

(* sudo_ev_deactivate_all().                                               *)
LEMMA DeactivateLinked ==
  ASSUME FlagsOK(flags), ActiveOK(active, flags), DeactivateAll
  PROVE  /\ FlagsOK(flags') /\ ActiveOK(active', flags') /\ active' = << >>
         /\ \A f \in Events : /\ "INSERTED" \in flags'[f] <=> "INSERTED" \in flags[f]
                              /\ "TIMEOUTS" \in flags'[f] <=> "TIMEOUTS" \in flags[f]
<1>1. /\ flags \in [Events -> SUBSET AllFlags] /\ \A f \in Events : flags[f] # {} => "INSERTED" \in flags[f]
      /\ \A f \in Events : "ACTIVE" \in flags[f] <=> f \in Range(active)
  BY Zenon DEF FlagsOK, ActiveOK
<1>2. /\ active' = << >> /\ flags' = [e \in Events |-> flags[e] \ {"ACTIVE"}]
  BY Zenon DEF DeactivateAll
<1>3. << >> \in Seq(Events) /\ Once(<< >>)
  BY DEF Once
<1>4. Range(<< >>) = {}
  BY <1>3, RangeType, Zenon
<1>5. /\ flags' \in [Events -> SUBSET AllFlags]
      /\ \A f \in Events : flags'[f] = flags[f] \ {"ACTIVE"}
  BY <1>1, <1>2, Zenon
<1>6. \A f \in Events : /\ "INSERTED" \in flags'[f] <=> "INSERTED" \in flags[f]
                        /\ "TIMEOUTS" \in flags'[f] <=> "TIMEOUTS" \in flags[f]
                        /\ "ACTIVE" \in flags'[f] <=> f \in {}
                        /\ flags'[f] # {} => "INSERTED" \in flags'[f]
  BY <1>1, <1>5, Zenon
<1>7. FlagsOK(flags') /\ ActiveOK(active', flags')
  BY <1>2, <1>3, <1>4, <1>5, <1>6, Zenon DEF FlagsOK, ActiveOK
<1> QED
  BY <1>2, <1>6, <1>7, Zenon

(* A new signal event, with the internal event of the signal pipe.         *)
LEMMA AddSignalLinked ==
  ASSUME Linked, NEW e \in SigEvents, NEW tohead, ~ Inserted(e), sudo_ev_add_signal(e, tohead),
         UNCHANGED active
  PROVE  Linked' /\ Range(signals'[SigOf[e]]) = Range(signals[SigOf[e]]) \cup {e}
                 /\ \A s \in 1 .. NSig : Range(signals[s]) \subseteq Range(signals'[s])
<1> DEFINE s == SigOf[e]
           q == Put(signals[s], e, tohead)
           on == [flags EXCEPT ![e] = {"INSERTED"}]
           both == ~ (Inserted(SigPipe) \/ TableFull)
<1>1. /\ flags \in [Events -> SUBSET AllFlags] /\ \A f \in Events : flags[f] # {} => "INSERTED" \in flags[f]
      /\ events \in Seq(Queued) /\ Once(events)
      /\ \A f \in Queued : "INSERTED" \in flags[f] <=> f \in Range(events)
      /\ signals \in [1 .. NSig -> Seq(SigEvents)]
      /\ \A r \in 1 .. NSig : Once(signals[r]) /\ \A f \in Range(signals[r]) : SigOf[f] = r
      /\ \A f \in SigEvents : "INSERTED" \in flags[f] <=> f \in Range(signals[SigOf[f]])
      /\ HandlersOK(signals, num_handlers)
      /\ ActiveOK(active, flags) /\ TimeoutsOK(timeouts, deadline, flags)
  BY Zenon DEF Linked, FlagsOK, EventsOK, SignalsOK
<1>2. e \in Events /\ s \in 1 .. NSig /\ SigPipe \in Events /\ SigPipe \in Queued /\ e # SigPipe
  BY EventKinds, Zenon
<1>3. e \notin Range(signals[s]) /\ flags[e] = {} /\ signals[s] \in Seq(SigEvents) /\ Once(signals[s])
  BY <1>1, <1>2, Zenon DEF Inserted
<1>4. q \in Seq(SigEvents) /\ Once(q) /\ Range(q) = Range(signals[s]) \cup {e} /\ q # << >>
  BY <1>3, PutRange, Zenon
<1>5. /\ num_handlers' = IF signals[s] = << >> THEN num_handlers + 1 ELSE num_handlers
      /\ signals' = [signals EXCEPT ![s] = q]
      /\ timeouts' = timeouts /\ deadline' = deadline
      /\ IF both THEN flags' = [on EXCEPT ![SigPipe] = {"INSERTED"}] /\ events' = Put(events, SigPipe, TRUE)
                 ELSE flags' = on /\ events' = events
  BY Zenon DEF sudo_ev_add_signal
<1> HIDE DEF q, both
<1>6. \A r \in 1 .. NSig : signals'[r] = IF r = s THEN q ELSE signals[r]
  BY <1>1, <1>2, <1>5
<1>7. signals' \in [1 .. NSig -> Seq(SigEvents)]
  BY <1>1, <1>2, <1>4, <1>5, Zenon
<1>8. num_handlers' \in Nat /\ num_handlers' > 0 /\ HandlersOK(signals', num_handlers')
  <2>1. /\ num_handlers \in Nat /\ (signals[s] # << >> => num_handlers > 0)
        /\ HandlersOK([signals EXCEPT ![s] = q],
             IF signals[s] = << >> /\ q # << >> THEN num_handlers + 1
             ELSE IF signals[s] # << >> /\ q = << >> THEN num_handlers - 1 ELSE num_handlers)
    BY <1>1, <1>2, <1>4, HandlersChange, Zenon
  <2>2. num_handlers' = IF signals[s] = << >> /\ q # << >> THEN num_handlers + 1
             ELSE IF signals[s] # << >> /\ q = << >> THEN num_handlers - 1 ELSE num_handlers
    BY <1>4, <1>5, Zenon
  <2>3. HandlersOK(signals', num_handlers')
    BY <1>5, <2>1, <2>2, Zenon
  <2> QED
    BY <1>5, <2>1, <2>3
<1>9. both => "INSERTED" \notin flags[SigPipe] /\ flags[SigPipe] = {} /\ SigPipe \notin Range(events)
  BY <1>1, <1>2, Zenon DEF both, Inserted
<1>10. /\ flags' \in [Events -> SUBSET AllFlags]
       /\ \A f \in Events : flags'[f] = IF f = e \/ (both /\ f = SigPipe) THEN {"INSERTED"} ELSE flags[f]
  <2>1. on \in [Events -> SUBSET AllFlags] /\ \A f \in Events : on[f] = IF f = e THEN {"INSERTED"} ELSE flags[f]
    BY <1>1, <1>2 DEF AllFlags
  <2> HIDE DEF on
  <2>2. CASE both
    BY <1>2, <1>5, <2>1, <2>2, Zenon DEF AllFlags
  <2>3. CASE ~ both
    BY <1>5, <2>1, <2>3, Zenon
  <2> QED
    BY <2>2, <2>3, Zenon
<1> HIDE DEF on
<1>11. /\ events' \in Seq(Queued) /\ Once(events')
       /\ Range(events') = IF both THEN Range(events) \cup {SigPipe} ELSE Range(events)
  <2>1. CASE both
    <3> DEFINE h == TRUE
               t == Put(events, SigPipe, h)
    <3>1. events' = t /\ SigPipe \notin Range(events)
      BY <1>5, <1>9, <2>1, Zenon
    <3>2. events \in Seq(Queued) /\ Once(events) /\ SigPipe \in Queued
      BY <1>1, <1>2, Zenon
    <3> HIDE DEF h
    <3>3. t \in Seq(Queued) /\ Once(t) /\ Range(t) = Range(events) \cup {SigPipe}
      BY ONLY <3>1, <3>2, PutRange
    <3> QED
      BY <2>1, <3>1, <3>3, Zenon
  <2>2. CASE ~ both
    BY <1>1, <1>5, <2>2, Zenon
  <2> QED
    BY <2>1, <2>2, Zenon
<1>12. \A f \in Events : "ACTIVE" \in flags'[f] <=> "ACTIVE" \in flags[f]
  BY SMTT(30), <1>3, <1>9, <1>10
<1>13. \A f \in Events : "TIMEOUTS" \in flags'[f] <=> "TIMEOUTS" \in flags[f]
  BY <1>3, <1>9, <1>10
<1>14. ActiveOK(active', flags') /\ TimeoutsOK(timeouts', deadline', flags')
  BY <1>1, <1>5, <1>12, <1>13, SameFlag, Zenon
<1>15. FlagsOK(flags')
  BY <1>1, <1>10, Zenon DEF FlagsOK
<1>16. EventsOK(events', flags')
  <2>1. \A f \in Queued : "INSERTED" \in flags'[f] <=> f \in Range(events')
    <3>1. ASSUME NEW f \in Queued PROVE "INSERTED" \in flags'[f] <=> f \in Range(events')
      <4>1. f \in Events /\ f # e
        BY EventKinds, Zenon
      <4>2. "INSERTED" \in flags[f] <=> f \in Range(events)
        BY <1>1, Zenon
      <4>3. flags'[f] = IF both /\ f = SigPipe THEN {"INSERTED"} ELSE flags[f]
        BY <1>10, <4>1, Zenon
      <4> QED
        BY <1>11, <4>2, <4>3, Zenon
    <3> QED
      BY <3>1, Zenon
  <2> QED
    BY <1>11, <2>1, Zenon DEF EventsOK
<1>17. SignalsOK(signals', flags')
  <2>1. \A r \in 1 .. NSig : Once(signals'[r]) /\ \A f \in Range(signals'[r]) : SigOf[f] = r
    BY <1>1, <1>4, <1>6, Zenon
  <2>2. ASSUME NEW f \in SigEvents PROVE "INSERTED" \in flags'[f] <=> f \in Range(signals'[SigOf[f]])
    <3>1. f \in Events /\ SigOf[f] \in 1 .. NSig /\ f # SigPipe
      BY EventKinds, Zenon
    <3>2. CASE f = e
      BY <1>2, <1>4, <1>6, <1>10, <3>2, Zenon
    <3>3. CASE f # e
      <4>1. "INSERTED" \in flags'[f] <=> f \in Range(signals[SigOf[f]])
        BY <1>1, <1>10, <3>1, <3>3, Zenon
      <4>2. f \in Range(signals'[SigOf[f]]) <=> f \in Range(signals[SigOf[f]])
        BY <1>4, <1>6, <3>1, <3>3, Zenon
      <4> QED
        BY <4>1, <4>2, Zenon
    <3> QED
      BY <3>2, <3>3, Zenon
  <2> QED
    BY <1>7, <2>1, <2>2, Zenon DEF SignalsOK
<1>18. Linked'
  BY <1>8, <1>14, <1>15, <1>16, <1>17, Zenon DEF Linked
<1>19. /\ Range(signals'[s]) = Range(signals[s]) \cup {e}
       /\ \A r \in 1 .. NSig : Range(signals[r]) \subseteq Range(signals'[r])
  BY <1>2, <1>4, <1>6, Zenon
<1> QED
  BY <1>18, <1>19, Zenon

(* A signal event that is not the last one, or that takes the internal     *)
(* event with it.                                                          *)
LEMMA DelSignalLinked ==
  ASSUME Linked, NEW e \in SigEvents, Inserted(e), DelSignal(e), UNCHANGED deadline
  PROVE  /\ Linked'
         /\ \A f \in SigEvents : f # e =>
               (f \in Range(signals'[SigOf[f]]) <=> f \in Range(signals[SigOf[f]]))
         /\ \E D \in SUBSET {e, SigPipe} : e \in D /\ Unlink(D)
<1> DEFINE s == SigOf[e]
           q == Without(signals[s], {e})
           n == IF q = << >> THEN num_handlers - 1 ELSE num_handlers
           D == {e} \cup IF n = 0 /\ Inserted(SigPipe) THEN {SigPipe} ELSE {}
<1>1. /\ FlagsOK(flags) /\ EventsOK(events, flags) /\ ActiveOK(active, flags)
      /\ TimeoutsOK(timeouts, deadline, flags) /\ HandlersOK(signals, num_handlers)
      /\ Inserted(SigPipe) => num_handlers > 0
  BY Zenon DEF Linked
<1>2. /\ signals \in [1 .. NSig -> Seq(SigEvents)]
      /\ \A r \in 1 .. NSig : Once(signals[r]) /\ \A f \in Range(signals[r]) : SigOf[f] = r
      /\ \A f \in SigEvents : "INSERTED" \in flags[f] <=> f \in Range(signals[SigOf[f]])
  BY Zenon DEF Linked, SignalsOK
<1>3. e \in Events /\ s \in 1 .. NSig /\ SigPipe \in Events /\ SigPipe \in Queued /\ SigPipe \notin SigEvents
  BY EventKinds, Zenon
<1>4. e \in Range(signals[s]) /\ signals[s] \in Seq(SigEvents) /\ Once(signals[s])
  BY <1>2, <1>3, Zenon DEF Inserted
<1>5. signals[s] # << >>
  BY <1>4, RangeType, Zenon
<1>6. q \in Seq(SigEvents) /\ Once(q) /\ Range(q) = Range(signals[s]) \ {e}
  BY <1>4, WithoutProperties, Zenon
<1>7. signals' = [signals EXCEPT ![s] = q] /\ num_handlers' = n /\ Unlink(D)
  BY Zenon DEF DelSignal
<1> HIDE DEF q
<1>8. signals' \in [1 .. NSig -> Seq(SigEvents)] /\ \A r \in 1 .. NSig : signals'[r] = IF r = s THEN q ELSE signals[r]
  BY SMTT(30), <1>2, <1>3, <1>6, <1>7
<1>9. n \in Nat /\ HandlersOK(signals', num_handlers')
  <2>1. /\ num_handlers \in Nat /\ (signals[s] # << >> => num_handlers > 0)
        /\ HandlersOK([signals EXCEPT ![s] = q],
             IF signals[s] = << >> /\ q # << >> THEN num_handlers + 1
             ELSE IF signals[s] # << >> /\ q = << >> THEN num_handlers - 1 ELSE num_handlers)
    BY <1>1, <1>2, <1>3, <1>6, HandlersChange, Zenon
  <2>2. n = IF signals[s] = << >> /\ q # << >> THEN num_handlers + 1
             ELSE IF signals[s] # << >> /\ q = << >> THEN num_handlers - 1 ELSE num_handlers
    BY <1>5, Zenon
  <2>3. HandlersOK(signals', num_handlers')
    BY <1>7, <2>1, <2>2, Zenon
  <2> QED
    BY <1>5, <2>1, <2>3
<1> HIDE DEF n
<1>10. D \in SUBSET {e, SigPipe} /\ e \in D /\ (SigPipe \in D <=> n = 0 /\ Inserted(SigPipe))
  BY <1>3, Zenon
<1> HIDE DEF D
<1>11. /\ FlagsOK(flags') /\ EventsOK(events', flags') /\ ActiveOK(active', flags')
       /\ TimeoutsOK(timeouts', deadline, flags')
       /\ \A f \in Events : flags'[f] = IF f \in D THEN {} ELSE flags[f]
  BY <1>1, <1>7, UnlinkLinked, Zenon
<1>12. ASSUME NEW f \in SigEvents, f # e
       PROVE  /\ f \in Range(signals'[SigOf[f]]) <=> f \in Range(signals[SigOf[f]])
              /\ flags'[f] = flags[f]
  <2>1. f \in Events /\ SigOf[f] \in 1 .. NSig /\ f \notin D
    BY <1>3, <1>10, <1>12, EventKinds, Zenon
  <2> QED
    BY <1>6, <1>8, <1>11, <1>12, <2>1, Zenon
<1>13. SignalsOK(signals', flags')
  <2>1. \A r \in 1 .. NSig : Once(signals'[r]) /\ \A f \in Range(signals'[r]) : SigOf[f] = r
    BY <1>2, <1>6, <1>8, Zenon
  <2>2. "INSERTED" \notin flags'[e] /\ e \notin Range(signals'[SigOf[e]])
    BY ZenonT(30), <1>3, <1>6, <1>8, <1>10, <1>11
  <2>3. \A f \in SigEvents : "INSERTED" \in flags'[f] <=> f \in Range(signals'[SigOf[f]])
    BY SMTT(30), <1>2, <1>12, <2>2
  <2> QED
    BY <1>8, <2>1, <2>3, Zenon DEF SignalsOK
<1>14. "INSERTED" \in flags'[SigPipe] => num_handlers' > 0
  BY <1>3, <1>7, <1>9, <1>10, <1>11 DEF Inserted
<1>15. Linked'
  BY <1>9, <1>11, <1>13, <1>14, Zenon DEF Linked, Inserted
<1> QED
  BY <1>7, <1>10, <1>12, <1>15, Zenon

(* sudo_ev_add() keeps the queues in order.                                *)
LEMMA AddLinked ==
  ASSUME Linked, now \in Nat, NEW a \in Adds, sudo_ev_add(a[1], a[2], a[3])
  PROVE  Linked'
<1> DEFINE e == a[1]
           timo == a[2]
           tohead == a[3]
<1>1. e \in Events /\ e # SigPipe /\ timo \in Nat \cup {NoTimeout} /\ (e \in SigEvents => timo = NoTimeout)
  BY EventsAssumption, Zenon
<1>2. sudo_ev_add(e, timo, tohead)
  BY Zenon
<1> HIDE DEF e, timo, tohead
<1>3. active' = active
  BY <1>2, Zenon DEF sudo_ev_add
<1>4. /\ FlagsOK(flags) /\ EventsOK(events, flags) /\ ActiveOK(active, flags)
      /\ SignalsOK(signals, flags)
      /\ TimeoutsOK(timeouts, deadline, flags) /\ HandlersOK(signals, num_handlers)
      /\ "INSERTED" \in flags[SigPipe] => num_handlers > 0
  BY Zenon DEF Linked, Inserted
<1>5. /\ flags \in [Events -> SUBSET AllFlags]
      /\ \A f \in Events : flags[f] # {} => "INSERTED" \in flags[f]
  BY <1>4, Zenon DEF FlagsOK
<1>6. ASSUME Inserted(e), SetTimeout(e, timo, flags[e]),
             UNCHANGED <<events, signals, num_handlers, poll, owed>>
      PROVE  Linked'
  <2>1. /\ flags[e] \in SUBSET AllFlags /\ "INSERTED" \in flags[e]
    BY <1>1, <1>5, <1>6, Zenon DEF Inserted
  <2>2. /\ FlagsOK(flags') /\ TimeoutsOK(timeouts', deadline', flags')
        /\ \A f \in Events : "ACTIVE" \in flags'[f] <=> "ACTIVE" \in flags[f]
        /\ \A f \in Events : f # e => flags'[f] = flags[f]
        /\ "INSERTED" \in flags'[e]
    BY <1>1, <1>4, <1>6, <2>1, SetTimeoutLinked, Zenon
  <2>3. \A f \in Events : "INSERTED" \in flags'[f] <=> "INSERTED" \in flags[f]
    BY <2>1, <2>2, Zenon
  <2>4. EventsOK(events, flags') /\ SignalsOK(signals, flags') /\ ActiveOK(active, flags')
    BY <1>4, <2>2, <2>3, SameFlag, EventKinds, Zenon
  <2>5. "INSERTED" \in flags'[SigPipe] => num_handlers > 0
    BY <1>1, <1>4, <2>2, EventKinds, Zenon
  <2> QED
    BY <1>3, <1>4, <1>6, <2>2, <2>4, <2>5, Zenon DEF Linked, Inserted
<1>7. ASSUME ~ Inserted(e), e \in SigEvents, sudo_ev_add_signal(e, tohead) PROVE Linked'
  BY <1>3, <1>7, AddSignalLinked, Zenon
<1>8. ASSUME UNCHANGED <<events, signals, num_handlers, poll, timeouts, deadline, flags, hist>>
      PROVE  Linked'
  BY <1>3, <1>4, <1>8, Zenon DEF Linked, Inserted
<1>9. ASSUME ~ Inserted(e), e \notin SigEvents, events' = Put(events, e, tohead),
             SetTimeout(e, timo, {"INSERTED"}), UNCHANGED <<signals, num_handlers, owed>>
      PROVE  Linked'
  <2>1. flags[e] = {} /\ {"INSERTED"} \in SUBSET AllFlags /\ e \in Queued
    BY <1>1, <1>5, <1>9, EventKinds, Zenon DEF Inserted, AllFlags
  <2>2. /\ FlagsOK(flags') /\ TimeoutsOK(timeouts', deadline', flags')
        /\ \A f \in Events : "ACTIVE" \in flags'[f] <=> "ACTIVE" \in flags[f]
        /\ \A f \in Events : f # e => flags'[f] = flags[f]
        /\ "INSERTED" \in flags'[e]
    <3> DEFINE fl == {"INSERTED"}
    <3>1. fl \in SUBSET AllFlags /\ "INSERTED" \in fl /\ ("ACTIVE" \in fl <=> "ACTIVE" \in flags[e])
      BY <2>1, Zenon
    <3>2. SetTimeout(e, timo, fl)
      BY <1>9, Zenon
    <3> HIDE DEF fl
    <3> QED
      BY <1>1, <1>4, <1>9, <3>1, <3>2, SetTimeoutLinked, Zenon
  <2>3. /\ events \in Seq(Queued) /\ Once(events)
        /\ \A f \in Queued : "INSERTED" \in flags[f] <=> f \in Range(events)
    BY <1>4, Zenon DEF EventsOK
  <2>4. e \notin Range(events)
    BY <2>1, <2>3, Zenon
  <2>5. events' \in Seq(Queued) /\ Once(events') /\ Range(events') = Range(events) \cup {e}
    <3> DEFINE t == Put(events, e, tohead)
    <3>1. events' = t
      BY <1>9, Zenon
    <3>2. t \in Seq(Queued) /\ Once(t) /\ Range(t) = Range(events) \cup {e}
      BY ONLY <2>1, <2>3, <2>4, PutRange
    <3> QED
      BY <3>1, <3>2, Zenon
  <2>6. EventsOK(events', flags')
    <3>1. ASSUME NEW f \in Queued PROVE "INSERTED" \in flags'[f] <=> f \in Range(events')
      <4>1. f \in Events
        BY EventKinds, Zenon
      <4> QED
        BY <2>2, <2>3, <2>5, <4>1, Zenon
    <3> QED
      BY <2>5, <3>1, Zenon DEF EventsOK
  <2>7. ActiveOK(active, flags')
    BY <1>4, <2>2, SameFlag, Zenon
  <2>8. SignalsOK(signals, flags')
    <3>1. \A f \in SigEvents : f \in Events /\ f # e
      BY <2>1, EventKinds, Zenon
    <3>2. \A f \in SigEvents : "INSERTED" \in flags'[f] <=> "INSERTED" \in flags[f]
      BY <2>2, <3>1, Zenon
    <3> QED
      BY <1>4, <3>2, SameFlag, Zenon
  <2>9. "INSERTED" \in flags'[SigPipe] => num_handlers > 0
    BY <1>1, <1>4, <2>2, EventKinds, Zenon
  <2> QED
    BY <1>3, <1>4, <1>9, <2>2, <2>6, <2>7, <2>8, <2>9, Zenon DEF Linked, Inserted
<1> QED
  BY <1>2, <1>6, <1>7, <1>8, <1>9, Zenon DEF sudo_ev_add

(* sudo_ev_del() keeps the queues in order, and takes nothing but the event *)
(* and the internal one off them.                                          *)
LEMMA DelLinked ==
  ASSUME Linked, NEW e \in Events, e # SigPipe, sudo_ev_del(e)
  PROVE  /\ Linked'
         /\ \A f \in SigEvents : f # e =>
               (f \in Range(signals'[SigOf[f]]) <=> f \in Range(signals[SigOf[f]]))
         /\ \E D \in SUBSET {e, SigPipe} : e \in D /\ Unlink(D)
<1>1. Inserted(e) /\ deadline' = deadline
  BY Zenon DEF sudo_ev_del
<1>2. CASE e \in SigEvents
  BY <1>1, <1>2, DelSignalLinked, Zenon DEF sudo_ev_del
<1>3. CASE e \notin SigEvents
  <2>1. Unlink({e}) /\ UNCHANGED <<signals, num_handlers>>
    BY <1>3, Zenon DEF sudo_ev_del
  <2>2. /\ FlagsOK(flags) /\ EventsOK(events, flags) /\ ActiveOK(active, flags)
        /\ SignalsOK(signals, flags)
        /\ TimeoutsOK(timeouts, deadline, flags) /\ HandlersOK(signals, num_handlers)
        /\ "INSERTED" \in flags[SigPipe] => num_handlers > 0
    BY Zenon DEF Linked, Inserted
  <2>3. /\ FlagsOK(flags') /\ EventsOK(events', flags') /\ ActiveOK(active', flags')
        /\ TimeoutsOK(timeouts', deadline, flags')
        /\ \A f \in Events : flags'[f] = IF f \in {e} THEN {} ELSE flags[f]
    BY <2>1, <2>2, UnlinkLinked, Zenon
  <2>4. \A f \in SigEvents : f \in Events /\ f # e
    BY <1>3, EventKinds, Zenon
  <2>5. \A f \in SigEvents : "INSERTED" \in flags'[f] <=> "INSERTED" \in flags[f]
    BY <2>3, <2>4, Zenon
  <2>6. SignalsOK(signals, flags')
    BY <2>2, <2>5, SameFlag, Zenon
  <2>7. flags'[SigPipe] = flags[SigPipe]
    BY <2>3, EventKinds, Zenon
  <2>8. Linked'
    BY <1>1, <2>1, <2>2, <2>3, <2>6, <2>7, Zenon DEF Linked, Inserted
  <2>9. {e} \in SUBSET {e, SigPipe} /\ e \in {e}
    BY Zenon
  <2> QED
    BY <2>1, <2>8, <2>9, Zenon
<1> QED
  BY <1>2, <1>3, Zenon

=============================================================================
