----------------------------- MODULE LogService -----------------------------
(***************************************************************************)
(* What a log client is promised about a command's I/O, whether the server *)
(* it talks to stores the log or relays it.  There are "logged" records so *)
(* far; the first "stored" of them are where no crash of a server can lose *)
(* them; the client was told so about the first "acked" of those; and it   *)
(* reports success ("sent") only when it was told so about all of them.    *)
(*                                                                         *)
(* The promise is suspended while the log is "exposed".  A write that      *)
(* fails exposes it, for good: the server does not notice and goes on      *)
(* acknowledging.  So does copying the log, until the copy is on disk.     *)
(***************************************************************************)
EXTENDS Naturals

VARIABLES logged, stored, acked, sent, exposed

vars == <<logged, stored, acked, sent, exposed>>

Init == logged \in Nat /\ stored = 0 /\ acked = 0 /\ sent = FALSE /\ exposed = FALSE

Log ==
  /\ ~sent
  /\ logged' = logged + 1
  /\ UNCHANGED <<stored, acked, sent, exposed>>

Store ==
  /\ stored' \in (stored + 1)..logged
  /\ UNCHANGED <<logged, acked, sent, exposed>>

(* A session is resumed from what was acknowledged; what was stored beyond *)
(* that may be stored anew.                                                *)
Rewind ==
  /\ stored' \in (IF exposed THEN 0 ELSE acked)..stored
  /\ UNCHANGED <<logged, acked, sent, exposed>>

Acknowledge ==
  /\ ~sent
  /\ acked' \in (acked + 1)..(IF exposed THEN logged ELSE stored)
  /\ UNCHANGED <<logged, stored, sent, exposed>>

Expose ==
  /\ exposed' = TRUE
  /\ stored' \in 0..stored
  /\ UNCHANGED <<logged, acked, sent>>

(* The copy is on disk, with all that was acknowledged.                    *)
Secure ==
  /\ exposed' = FALSE
  /\ stored' \in acked..logged
  /\ UNCHANGED <<logged, acked, sent>>

Report ==
  /\ acked = logged
  /\ sent' = TRUE
  /\ UNCHANGED <<logged, stored, acked, exposed>>

Next == Log \/ Store \/ Rewind \/ Acknowledge \/ Expose \/ Secure \/ Report

Spec == Init /\ [][Next]_vars
=============================================================================
