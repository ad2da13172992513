----------------------------- MODULE EventPoll -----------------------------
(***************************************************************************)
(* The poll(2) backend of sudo's event loop (lib/util/event_poll.c): the   *)
(* table of struct pollfd that sudo_ev_add() and sudo_ev_del() maintain.   *)
(*                                                                         *)
(* Slots are numbered from 0.  Several events may wait for the same file   *)
(* descriptor; each has a slot of its own.                                 *)
(***************************************************************************)
EXTENDS Integers, FiniteSets

CONSTANTS
  IoEvents,   \* events with SUDO_EV_READ or SUDO_EV_WRITE
  FdOf,       \* the file descriptor of each of them
  PfdInit,    \* size of a new table, 32 in the code
  NofileMax   \* RLIMIT_NOFILE when the first event was added

VARIABLES
  pfds,      \* base->pfds: the file descriptor in each slot, or NoFd
  pfd_max,   \* size of the table
  pfd_high,  \* highest slot in use, or -1
  pfd_free,  \* lowest free slot, or pfd_max
  pfd_idx    \* each event's slot, or -1

poll == <<pfds, pfd_max, pfd_high, pfd_free, pfd_idx>>

NoFd == -1

(* The code reallocates the table to the smaller of twice its size and the *)
(* limit: it relies on the limit not being below the initial size.  A slot *)
(* number is kept in a short.                                              *)
ASSUME TableAssumption ==
  /\ FdOf \in [IoEvents -> Nat]
  /\ PfdInit \in Nat \ {0}
  /\ NofileMax \in PfdInit .. 32768

(* sudo_ev_base_alloc_impl().                                              *)
PollInit ==
  /\ pfds = [s \in 0 .. PfdInit - 1 |-> NoFd]
  /\ pfd_max = PfdInit /\ pfd_high = -1 /\ pfd_free = 0
  /\ pfd_idx = [e \in IoEvents |-> -1]

NewMax == IF 2 * pfd_max > NofileMax THEN NofileMax ELSE 2 * pfd_max

(* The table is full and cannot grow: sudo_ev_add() returns -1.            *)
TableFull == pfd_free = pfd_max /\ pfd_free = NewMax

(* The table after it has grown, if it has to.                             *)
Grown ==
  IF pfd_free < pfd_max THEN pfds
  ELSE [s \in 0 .. NewMax - 1 |-> IF s < pfd_free THEN pfds[s] ELSE NoFd]

(* The next free slot of table t from slot s on, or the table's size m.    *)
IsNextFree(t, m, s, n) ==
  /\ n \in s .. m
  /\ n < m => t[n] = NoFd
  /\ \A j \in s .. n - 1 : t[j] # NoFd

sudo_ev_add_impl(e) ==
  LET m == IF pfd_free < pfd_max THEN pfd_max ELSE NewMax
      t == [Grown EXCEPT ![pfd_free] = FdOf[e]]
  IN  /\ ~ TableFull
      /\ pfds' = t /\ pfd_max' = m
      /\ pfd_idx' = [pfd_idx EXCEPT ![e] = pfd_free]
      /\ pfd_high' = IF pfd_free > pfd_high THEN pfd_free ELSE pfd_high
      /\ \E n \in pfd_free + 1 .. m :
           IsNextFree(t, m, pfd_free + 1, n) /\ pfd_free' = n

(* The highest slot in use of table t, at most s.                          *)
IsHighest(t, s, n) ==
  /\ n \in -1 .. s
  /\ n >= 0 => t[n] # NoFd
  /\ \A j \in n + 1 .. s : t[j] = NoFd

(* The index itself is reset by sudo_ev_del().                             *)
sudo_ev_del_impl_KeepFree(e) ==
  LET t == [pfds EXCEPT ![pfd_idx[e]] = NoFd]
  IN  /\ pfds' = t
      /\ pfd_free' = pfd_free
      /\ \E n \in -1 .. pfd_high : IsHighest(t, pfd_high, n) /\ pfd_high' = n
      /\ pfd_idx' = [pfd_idx EXCEPT ![e] = -1]
      /\ UNCHANGED pfd_max
sudo_ev_del_impl(e) ==
  LET t == [pfds EXCEPT ![pfd_idx[e]] = NoFd]
  IN  /\ pfds' = t
      /\ pfd_free' = IF pfd_idx[e] < pfd_free THEN pfd_idx[e] ELSE pfd_free
      /\ \E n \in -1 .. pfd_high : IsHighest(t, pfd_high, n) /\ pfd_high' = n
      /\ pfd_idx' = [pfd_idx EXCEPT ![e] = -1]
      /\ UNCHANGED pfd_max

(* What the two operations rely on and promise: every event with a slot    *)
(* has one of its own that poll(2) is told of, pfd_high is the last slot   *)
(* in use, and pfd_free the first one that is not.                         *)
TableOK ==
  /\ pfd_max \in PfdInit .. NofileMax
  /\ pfds \in [0 .. pfd_max - 1 -> Nat \cup {NoFd}]
  /\ pfd_idx \in [IoEvents -> -1 .. pfd_high]
  /\ \A e, f \in IoEvents : pfd_idx[e] = pfd_idx[f] /\ pfd_idx[e] >= 0 => e = f
  /\ \A e \in IoEvents : pfd_idx[e] >= 0 => pfds[pfd_idx[e]] = FdOf[e]
  /\ \A s \in 0 .. pfd_max - 1 :
       pfds[s] # NoFd => \E e \in IoEvents : pfd_idx[e] = s
  /\ IsHighest(pfds, pfd_max - 1, pfd_high)
  /\ IsNextFree(pfds, pfd_max, 0, pfd_free)
=============================================================================
