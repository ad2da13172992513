------------------------------- MODULE Queues -------------------------------
(***************************************************************************)
(* Tail queues (include/sudo_queue.h) as sequences, and what the loops     *)
(* over them do.  The operators that take several elements out or put      *)
(* several queues together are recursive functions, about which induction  *)
(* proves something for queues of any length (QueueProofs).                *)
(***************************************************************************)
EXTENDS Integers, Sequences, Functions

(* For each n, what a loop that keeps the elements of S has kept of the    *)
(* first n elements of the queue q.                                        *)
Keeping(q, S) ==
  LET kept[n \in 0 .. Len(q)] ==
        IF n = 0 THEN << >>
        ELSE IF q[n] \in S THEN Append(kept[n - 1], q[n]) ELSE kept[n - 1]
  IN  kept

Filter(q, S) == Keeping(q, S)[Len(q)]

(* TAILQ_REMOVE of the elements D.                                         *)
Without(q, D) == Filter(q, Range(q) \ D)

(* For each n, the first n of the queues ss one after the other.           *)
Joining(ss) ==
  LET joined[n \in 0 .. Len(ss)] == IF n = 0 THEN << >> ELSE joined[n - 1] \o ss[n]
  IN  joined

Concat(ss) == Joining(ss)[Len(ss)]

(* Where a search for an element of S ends: at its position, or past the   *)
(* end of the queue.                                                       *)
First(q, S) ==
  CHOOSE n \in 1 .. Len(q) + 1 :
    /\ n <= Len(q) => q[n] \in S
    /\ \A i \in 1 .. n - 1 : q[i] \notin S

(* TAILQ_INSERT_BEFORE the n-th element, or TAILQ_INSERT_TAIL.             *)
InsertBefore(q, n, e) == SubSeq(q, 1, n - 1) \o <<e>> \o SubSeq(q, n, Len(q))

(* An element is linked into a tail queue at most once.                    *)
Once(q) == \A i, j \in DOMAIN q : q[i] = q[j] => i = j

(* Elements that come one after the other are related by R.                *)
InOrder(q, R) == \A i, j \in DOMAIN q : i < j => <<q[i], q[j]>> \in R
=============================================================================
