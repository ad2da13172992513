------------------------------- MODULE MCLog -------------------------------
(* Instances of LogSystem for TLC.                                         *)
EXTENDS LogSystem

MCDelays == <<1, 2>>

Base == [mode |-> "local", flush |-> TRUE, compress |-> FALSE, client |-> "sudo",
         job |-> "io", ignore |-> FALSE, faults |-> 0, runs |-> 1, kinds |-> {}]

Faulty(c, k, n) == [c EXCEPT !.faults = n, !.kinds = k]

(* Safety: any one fault of any kind, with sudo_sendlog run up to twice;   *)
(* two faults of a kind that makes it resume, with up to three runs.       *)
SafetyConfs ==
  {Faulty([Base EXCEPT !.flush = f, !.compress = z, !.client = k, !.runs = 2], Kinds, 1) :
     f \in BOOLEAN, z \in BOOLEAN, k \in {"sudo", "sendlog"}}
  \cup {Faulty([Base EXCEPT !.mode = m, !.client = k, !.runs = 2], Kinds, 1) :
     m \in {"relay", "journal"}, k \in {"sudo", "sendlog"}}
  \cup {Faulty([Base EXCEPT !.mode = m, !.job = j], Kinds, 1) :
     m \in {"local", "relay", "journal"}, j \in {"quiet", "reject", "alert"}}
  \cup {Faulty([Base EXCEPT !.mode = m, !.client = "sendlog", !.job = j], Kinds, 1) :
     m \in {"local", "relay", "journal"}, j \in {"quiet", "reject"}}
  \cup {[Base EXCEPT !.mode = m, !.job = "sub"] : m \in {"local", "relay", "journal"}}
  \cup {Faulty([Base EXCEPT !.ignore = TRUE], {"drop_client", "timeout"}, 1)}
  \cup {Faulty([Base EXCEPT !.flush = f, !.compress = z, !.client = "sendlog", !.runs = 3],
               {"drop_client", "crash_edge", "disk"}, 2) : f \in BOOLEAN, z \in BOOLEAN}

(* Liveness.                                                               *)
LiveConfs ==
  {[Base EXCEPT !.mode = m] : m \in {"local", "journal"}}
  \cup {Faulty([Base EXCEPT !.mode = m], Kinds, 1) : m \in {"local"}}
  \cup {Faulty([Base EXCEPT !.mode = "relay"], {"drop_relay", "refused"}, 1)}
  \cup {Faulty([Base EXCEPT !.mode = "journal"], {"unreachable", "crash_edge", "term_edge"}, 1),
        Faulty([Base EXCEPT !.mode = "journal"], {"unreachable", "lock"}, 2)}

(* A journal and a connection to the relay host that breaks.               *)
RetransmitConfs == {Faulty([Base EXCEPT !.mode = "journal"], {"drop_relay"}, 1)}
=============================================================================
