-------------------------- MODULE TimestampProofs --------------------------
(***************************************************************************)
(* Time stamp files, for any number of processes, inodes, sessions, auth   *)
(* users and configurations, and every value of the bounds.  The first     *)
(* part shows that every variable keeps its type; the second is about the  *)
(* locking protocol of timestamp_lock(): on files whose first record is    *)
(* intact, a session's record stays where it was found and belongs to one  *)
(* process at a time.                                                      *)
(***************************************************************************)
EXTENDS Timestamp, TLAPS

(***************************************************************************)
(* Type correctness                                                        *)
(***************************************************************************)
(* Control points at which the process has the time stamp file open.       *)
Opened == {"lockexcl", "first", "lockwrite", "find", "append", "findglobal",
           "appendglobal", "lockrec", "status", "disable", "klock", "kdisable"}

(* What the control point of a process says of its other fields.           *)
Shape(r) ==
  /\ r.pc \in Opened => r.fd \in Inodes
  /\ r.pc \in {"prompt", "approve"} /\ r.stat # "error" => r.fd \in Inodes
  /\ r.pc \in {"idle", "open", "unlink", "reopen", "stopped"} => r.fd = None
  /\ r.pc # "idle" => r.ses \in Sessions
  /\ r.pc \notin {"idle", "klock", "kdisable", "close"} =>
       r.auth \in Auths

TypeInv == TypeOK /\ \A p \in Procs : Shape(proc[p])

LEMMA BlankType ==
  ASSUME NEW sz \in {"v2", "v1", "zero"}, NEW ty \in Types
  PROVE  Blank(sz, ty) \in Record
BY Zenon DEF Blank, Record, Sids, Times, Devs

LEMMA HoleType == Hole \in Record /\ LockRec \in Record
BY BlankType, Zenon DEF Hole, LockRec, Types

(* A key made for a session and an auth user is a record.                  *)
LEMMA KeyType ==
  ASSUME NEW s \in Sessions, NEW a \in Auths \cup {None},
         NEW ty \in {"tty", "ppid", "global"}
  PROVE  ts_init_key(s, a, ty) \in Record
BY Zenon DEF ts_init_key, Blank, Record, Sids, Times, Devs, Types

LEMMA WriteType ==
  ASSUME NEW f \in Seq(Record), NEW m \in Nat, NEW e \in Record
  PROVE  ts_write(f, m, e) \in Seq(Record)
BY HoleType DEF ts_write

LEMMA TruncateType ==
  ASSUME NEW f \in Seq(Record), NEW m \in Int
  PROVE  ftruncate(f, m) \in Seq(Record)
<1>1. CASE m \in Nat
  BY <1>1, HoleType DEF ftruncate
<1>2. CASE m < 0
  <2>1. 1 .. m = {}
    BY <1>2
  <2>2. ftruncate(f, m) = << >>
    BY <2>1 DEF ftruncate
  <2>3. QED
    BY <2>2
<1>3. QED
  BY <1>1, <1>2

LEMMA ScopeInScopes ==
  ASSUME NEW u \in conf.users
  PROVE  Scope(u[1], u[2]) \in Scopes
BY Zenon DEF Scopes

(* Keys of a process that runs check_user().                               *)
LEMMA ProcKeyType ==
  ASSUME TypeOK, NEW p \in Procs, proc[p].ses \in Sessions, proc[p].auth \in Auths
  PROVE  LockKey(p) \in Record /\ TicketKey(p) \in Record
<1>1. conf.type \in {"tty", "ppid", "global"}
  BY ConstantsAssumption, Zenon DEF TypeOK, Config
<1>2. LockKey(p) \in Record
  BY <1>1, KeyType, Zenon DEF LockKey, ts_init_key_nonglobal
<1>3. QED
  BY <1>2, Zenon DEF TicketKey, Record, Types

LEMMA IdleType == IdleProc \in ProcState
BY HoleType, Zenon DEF IdleProc, ProcState, PCs

LEMMA InitType == Init => TypeInv
<1> SUFFICES ASSUME Init PROVE TypeInv
  BY Zenon
<1> USE DEF Init
<1>1. conf \in Config
  BY ConstantsAssumption, Zenon
<1>2. file \in [Inodes -> Seq(Record)]
  BY <1>1 DEF Config
<1>3. TypeOK
  BY <1>2, IdleType, Zenon DEF TypeOK, Never
<1>4. ASSUME NEW p \in Procs PROVE Shape(proc[p])
  BY Zenon DEF Shape, Opened, IdleProc
<1>5. QED
  BY <1>3, <1>4, Zenon DEF TypeInv

(* conf never changes, and so neither do the scopes of tickets.            *)
LEMMA ScopesSame == ASSUME conf' = conf PROVE Scopes' = Scopes
BY DEF Scopes, Scope, ts_init_key

(* A process moves to the state r: it may drop locks, and take locks on    *)
(* the file that r has open.                                               *)
ProcMoves(p, r) ==
  /\ conf' = conf
  /\ proc' = [proc EXCEPT ![p] = r]
  /\ r \in ProcState /\ Shape(r)
  /\ \/ locks' \subseteq LocksWithout(p)
     \/ r.fd = proc[p].fd /\ locks' \subseteq locks
     \/ /\ r.fd = proc[p].fd /\ r.fd \in Inodes
        /\ \E n \in Nat : locks' \subseteq locks \cup {<<r.fd, n, p>>}

Moves(p) == \E r \in ProcState : ProcMoves(p, r)

LEMMA MoveType ==
  ASSUME TypeInv, NEW p \in Procs, NEW r, ProcMoves(p, r)
  PROVE  /\ proc' \in [Procs -> ProcState]
         /\ locks' \subseteq Inodes \X Nat \X Procs
         /\ \A l \in locks' : proc'[l[3]].fd = l[1]
         /\ \A q \in Procs : Shape(proc[q])'
<1> USE DEF TypeInv, ProcMoves
<1>1. proc' \in [Procs -> ProcState]
  BY Zenon DEF TypeOK
<1>2. locks' \subseteq Inodes \X Nat \X Procs
  BY DEF TypeOK, LocksWithout
<1>3. \A l \in locks' : proc'[l[3]].fd = l[1]
  BY DEF TypeOK, LocksWithout
<1>4. \A q \in Procs : Shape(proc[q])'
  BY Zenon DEF TypeOK, Shape
<1>5. QED
  BY <1>1, <1>2, <1>3, <1>4, Zenon

(* The file system part of the types.                                      *)
DiskType == /\ name' \in Inodes \cup {None}
            /\ file' \in [Inodes -> Seq(Record)]
            /\ mtime' \in [Inodes -> Nat]

LEMMA SameDisk == ASSUME TypeInv, UNCHANGED disk PROVE DiskType
BY Zenon DEF TypeInv, TypeOK, DiskType, disk

LEMMA KeptDisk ==
  ASSUME TypeInv, name' \in Inodes \cup {None}, file' = Kept(file), mtime' = mtime
  PROVE  DiskType
BY DEF TypeInv, TypeOK, DiskType, Kept

LEMMA WriteDisk ==
  ASSUME TypeInv, NEW i \in Inodes, NEW f \in Seq(Record), Write(i, f),
         name' \in Inodes \cup {None}
  PROVE  DiskType
BY Zenon DEF TypeInv, TypeOK, DiskType, Write

(* Everything but the file system and the moving process is trivial.       *)
LEMMA StepType ==
  ASSUME TypeInv, NEW p \in Procs, Moves(p), DiskType,
         boot' \in Nat, now' \in Nat, runs' \in Nat,
         proven' \in [Scopes -> Nat \cup {Never}],
         revoked' \in [Scopes -> {"no", "quiet", "raced"}]
  PROVE  TypeInv'
<1>1. conf' = conf /\ Scopes' = Scopes
  BY ScopesSame, Zenon DEF ProcMoves, Moves
<1>2. QED
  BY Zenon, <1>1, MoveType, Zenon DEF TypeInv, TypeOK, DiskType, ProcMoves, Moves


LEMMA FieldType ==
  ASSUME TypeInv, NEW p \in Procs
  PROVE  /\ proc[p] \in ProcState /\ Shape(proc[p])
         /\ proc[p].pc \in PCs /\ proc[p].fd \in Inodes \cup {None}
         /\ proc[p].off \in Nat /\ proc[p].lpos \in Nat /\ proc[p].pos \in Nat
         /\ proc[p].seen \in Record
BY Zenon DEF TypeInv, TypeOK, ProcState

(* The locks of a step that keeps the file open.                           *)
LocksMove(p) ==
  \/ locks' \subseteq locks
  \/ /\ proc[p].fd \in Inodes
     /\ \E n \in Nat : locks' \subseteq locks \cup {<<proc[p].fd, n, p>>}

(* A step to a control point that asks for nothing new.                    *)
LEMMA GotoMoves ==
  ASSUME TypeInv, NEW p \in Procs, NEW l \in PCs, Goto(p, l), conf' = conf,
         Shape([proc[p] EXCEPT !.pc = l]), LocksMove(p)
  PROVE  Moves(p)
<1> DEFINE r == [proc[p] EXCEPT !.pc = l]
<1>1. r \in ProcState /\ r.fd = proc[p].fd
  BY FieldType, Zenon DEF ProcState
<1>2. QED
  BY Zenon, <1>1, Zenon DEF Moves, ProcMoves, Goto, LocksMove

LEMMA GiveUpMoves ==
  ASSUME TypeInv, NEW p \in Procs, GiveUp(p), conf' = conf, locks' = locks,
         proc[p].pc \notin {"idle", "klock", "kdisable", "close"}
  PROVE  Moves(p)
<1> DEFINE r == [proc[p] EXCEPT
                   !.pc   = IF proc[p].stat = "none" THEN "prompt" ELSE "close",
                   !.stat = IF proc[p].stat = "none" THEN "error" ELSE @]
<1>0. proc[p] \in ProcState
  BY FieldType, Zenon
<1>1. r \in ProcState /\ r.fd = proc[p].fd
  <2>1. CASE proc[p].stat = "none"
    BY Zenon, <1>0, <2>1 DEF ProcState, PCs
  <2>2. CASE proc[p].stat # "none"
    BY ZenonT(40), <1>0, <2>2 DEF ProcState, PCs
  <2>3. QED
    BY <2>1, <2>2, Zenon
<1>2. Shape(r)
  BY FieldType, Zenon DEF Shape, Opened, ProcState
<1>3. QED
  BY Zenon, <1>1, <1>2, Zenon DEF Moves, ProcMoves, GiveUp

LEMMA ExitMoves ==
  ASSUME TypeInv, NEW p \in Procs, proc' = [proc EXCEPT ![p] = IdleProc],
         locks' = LocksWithout(p), conf' = conf
  PROVE  Moves(p)
<1>1. Shape(IdleProc)
  BY Zenon DEF Shape, Opened, IdleProc
<1>2. QED
  BY Zenon, <1>1, IdleType, Zenon DEF Moves, ProcMoves

LEMMA UpdateType ==
  ASSUME NEW r \in ProcState, NEW l \in PCs, NEW m \in Nat, NEW n \in Nat,
         NEW fd \in Inodes \cup {None}, NEW st \in {"none", "current", "old", "error"},
         NEW e \in Record
  PROVE  /\ [r EXCEPT !.pc = l, !.off = m] \in ProcState
         /\ [r EXCEPT !.pc = l, !.lpos = m] \in ProcState
         /\ [r EXCEPT !.pc = l, !.pos = m] \in ProcState
         /\ [r EXCEPT !.pc = l, !.lpos = m, !.pos = n] \in ProcState
         /\ [r EXCEPT !.pc = l, !.fd = fd, !.pos = m] \in ProcState
         /\ [r EXCEPT !.pc = l, !.stat = st] \in ProcState
         /\ [r EXCEPT !.pc = l, !.stat = st, !.via = "ticket"] \in ProcState
         /\ [r EXCEPT !.pc = l, !.stat = st, !.seen = e] \in ProcState
<1>1. [r EXCEPT !.pc = l, !.off = m] \in ProcState
  BY Zenon DEF ProcState
<1>2. [r EXCEPT !.pc = l, !.lpos = m] \in ProcState
  BY Zenon DEF ProcState
<1>3. [r EXCEPT !.pc = l, !.pos = m] \in ProcState
  BY Zenon DEF ProcState
<1>4. [r EXCEPT !.pc = l, !.lpos = m, !.pos = n] \in ProcState
  BY Zenon DEF ProcState
<1>5. [r EXCEPT !.pc = l, !.fd = fd, !.pos = m] \in ProcState
  BY Zenon DEF ProcState
<1>6. [r EXCEPT !.pc = l, !.stat = st] \in ProcState
  BY Zenon DEF ProcState
<1>7. [r EXCEPT !.pc = l, !.stat = st, !.via = "ticket"] \in ProcState
  BY Zenon DEF ProcState
<1>8. [r EXCEPT !.pc = l, !.stat = st, !.seen = e] \in ProcState
  BY Zenon DEF ProcState
<1>9. QED
  BY <1>1, <1>2, <1>3, <1>4, <1>5, <1>6, <1>7, <1>8, Zenon

(* Writing one record to the file a process has open.                      *)
LEMMA RecordDisk ==
  ASSUME TypeInv, NEW p \in Procs, proc[p].fd \in Inodes, NEW m \in Nat, NEW e \in Record,
         Write(proc[p].fd, ts_write(file[proc[p].fd], m, e)), name' = name
  PROVE  DiskType
<1>1. ts_write(file[proc[p].fd], m, e) \in Seq(Record)
  BY WriteType, Zenon DEF TypeInv, TypeOK
<1>2. QED
  BY <1>1, WriteDisk, Zenon DEF TypeInv, TypeOK

(* The first steps of a sudo process.                                      *)
LEMMA NoOpenLocks ==
  ASSUME TypeInv, NEW p \in Procs, proc[p].pc \in {"idle", "open", "reopen"}
  PROVE  locks \subseteq LocksWithout(p)
<1>1. proc[p].fd = None
  BY FieldType, Zenon DEF Shape
<1>2. \A l \in locks : l[1] \in Inodes /\ proc[l[3]].fd = l[1]
  BY Zenon DEF TypeInv, TypeOK
<1>3. QED
  BY <1>1, <1>2, ConstantsAssumption, Zenon DEF LocksWithout

LEMMA StartType ==
  ASSUME TypeInv, NEW p \in Procs, NEW s \in Sessions, NEW a \in Auths,
         NEW st \in ProcState, st.pc \in {"open", "approve", "prompt"},
         st.pc # "open" => st.stat = "error", st.fd = None, Start(p, s, a, st)
  PROVE  TypeInv'
<1> DEFINE r == [st EXCEPT !.ses = s, !.auth = a]
<1>1. r \in ProcState
  BY Zenon DEF ProcState
<1>2. Shape(r)
  BY Zenon DEF Shape, Opened, ProcState
<1>3. Moves(p)
  BY Zenon, <1>1, <1>2, NoOpenLocks, Zenon DEF Start, Moves, ProcMoves
<1>4. runs' \in Nat
  BY DEF Start, TypeInv, TypeOK
<1>5. DiskType
  BY SameDisk, Zenon DEF Start
<1>6. QED
  BY Zenon, <1>3, <1>4, <1>5, StepType, Zenon DEF Start, TypeInv, TypeOK, hist

LEMMA SettleMoves ==
  ASSUME TypeInv, NEW p \in Procs, NEW m \in Nat, Settle(p, m), conf' = conf,
         proc[p].pc \in {"find", "append"}
  PROVE  Moves(p)
<1> DEFINE r == IF conf.type = "global"
                THEN [proc[p] EXCEPT !.pc = "findglobal", !.lpos = m]
                ELSE [proc[p] EXCEPT !.pc = "lockrec", !.lpos = m, !.pos = m]
<1>0. "findglobal" \in PCs /\ "lockrec" \in PCs
  BY Zenon DEF PCs
<1>1. r \in ProcState
  <2>1. CASE conf.type = "global"
    BY ZenonT(40), <1>0, <2>1, FieldType, UpdateType, Zenon
  <2>2. CASE conf.type # "global"
    BY Zenon, <1>0, <2>2, FieldType, UpdateType, Zenon
  <2>3. QED
    BY <2>1, <2>2, Zenon
<1>2. r.fd = proc[p].fd /\ Shape(r)
  BY FieldType, Zenon DEF Shape, Opened, ProcState
<1>3. locks' \subseteq locks
  BY Zenon DEF Settle
<1>4. proc' = [proc EXCEPT ![p] = r]
  BY Zenon DEF Settle
<1>5. QED
  BY Zenon, <1>1, <1>2, <1>3, <1>4, Zenon DEF Moves, ProcMoves

(* Opening the file by its name, or creating it.                           *)
LEMMA OpenNameType ==
  ASSUME TypeInv, NEW p \in Procs, proc[p].pc \in {"open", "reopen"}, name # None,
         OpenName(p), locks' = locks, UNCHANGED env, UNCHANGED hist
  PROVE  TypeInv'
<1> DEFINE r == [proc[p] EXCEPT !.pc = "lockexcl", !.fd = name, !.pos = 0]
<1>1. name \in Inodes
  BY Zenon DEF TypeInv, TypeOK
<1>0. "lockexcl" \in PCs /\ 0 \in Nat
  BY Zenon DEF PCs
<1>2. r \in ProcState
  BY Zenon, <1>0, <1>1, FieldType, UpdateType, Zenon
<1>3. Shape(r)
  BY <1>1, FieldType, Zenon DEF Shape, Opened, ProcState
<1>4. locks' \subseteq LocksWithout(p)
  BY NoOpenLocks, Zenon
<1>5. Moves(p)
  BY Zenon, <1>2, <1>3, <1>4, Zenon DEF OpenName, Moves, ProcMoves, env
<1>6. QED
  BY ZenonT(40), <1>5, SameDisk, StepType, Zenon DEF OpenName, TypeInv, TypeOK, env, hist

LEMMA CreateType ==
  ASSUME TypeInv, NEW p \in Procs, proc[p].pc \in {"open", "reopen"},
         Create(p), locks' = locks, UNCHANGED env, UNCHANGED hist
  PROVE  TypeInv'
<1> PICK i \in Inodes :
      /\ name' = i
      /\ proc' = [proc EXCEPT ![p].pc = "lockexcl", ![p].fd = i, ![p].pos = 0]
      /\ Write(i, << >>)
  BY Zenon DEF Create
<1> DEFINE r == [proc[p] EXCEPT !.pc = "lockexcl", !.fd = i, !.pos = 0]
<1>0. "lockexcl" \in PCs /\ 0 \in Nat
  BY Zenon DEF PCs
<1>2. r \in ProcState
  BY Zenon, <1>0, FieldType, UpdateType, Zenon
<1>3. Shape(r)
  BY FieldType, Zenon DEF Shape, Opened, ProcState
<1>4. locks' \subseteq LocksWithout(p)
  BY NoOpenLocks, Zenon
<1>5. Moves(p)
  BY Zenon, <1>2, <1>3, <1>4, Zenon DEF Moves, ProcMoves, env
<1>6. DiskType
  <2>1. << >> \in Seq(Record)
    OBVIOUS
  <2>2. QED
    BY Zenon, <2>1, WriteDisk, Zenon
<1>7. QED
  BY Zenon, <1>5, <1>6, StepType, Zenon DEF TypeInv, TypeOK, env, hist

LEMMA TypeStep == TypeInv /\ [Next]_vars => TypeInv'
<1> SUFFICES ASSUME TypeInv, [Next]_vars PROVE TypeInv'
  BY Zenon
<1>1. ASSUME NEW p \in Procs, OpenUnlink(p) PROVE TypeInv'
  <2>1. Moves(p)
    BY <1>1, FieldType, GotoMoves DEF OpenUnlink, Shape, Opened, PCs, ProcState, LocksMove, env
  <2>2. DiskType
    BY <1>1, FieldType, KeptDisk, Zenon DEF OpenUnlink
  <2>3. QED
    BY Zenon, <1>1, <2>1, <2>2, StepType, Zenon DEF OpenUnlink, TypeInv, TypeOK, env, hist
<1>2. ASSUME NEW p \in Procs, OpenFail(p) PROVE TypeInv'
  <2>1. Moves(p)
    BY <1>2, GiveUpMoves, Zenon DEF OpenFail, env
  <2>2. DiskType
    BY <1>2, FieldType, SameDisk, Zenon DEF OpenFail
  <2>3. QED
    BY <1>2, <2>1, <2>2, StepType, Zenon DEF OpenFail, TypeInv, TypeOK, env, hist
<1>3. ASSUME NEW p \in Procs, LockExcl(p) PROVE TypeInv'
  <2>1. Moves(p)
    BY ZenonT(40), <1>3, FieldType, GotoMoves DEF LockExcl, LockRecord, Shape, Opened, PCs, ProcState, LocksMove, env
  <2>2. DiskType
    BY <1>3, FieldType, SameDisk, Zenon DEF LockExcl, LockRecord
  <2>3. QED
    BY Zenon, <1>3, <2>1, <2>2, StepType, Zenon DEF LockExcl, LockRecord, TypeInv, TypeOK, env, hist
<1>4. ASSUME NEW p \in Procs, timestamp_lock_write(p) PROVE TypeInv'
  <2> DEFINE r == [proc[p] EXCEPT !.pc = "find", !.off = @ + 1]
  <2>1. proc[p].off + 1 \in Nat /\ "find" \in PCs
    BY FieldType DEF PCs
  <2>2. r \in ProcState
    BY Zenon, <2>1, FieldType, UpdateType, Zenon
  <2>3. Shape(r) /\ r.fd = proc[p].fd
    BY <1>4, FieldType, Zenon DEF timestamp_lock_write, Shape, Opened, ProcState
  <2>4. Moves(p)
    BY Zenon, <1>4, <2>2, <2>3, Zenon DEF timestamp_lock_write, Moves, ProcMoves, env
  <2>5. DiskType
    BY <1>4, FieldType, RecordDisk, HoleType, Zenon DEF timestamp_lock_write, Shape, Opened
  <2>6. QED
    BY Zenon, <1>4, <2>4, <2>5, StepType, Zenon DEF timestamp_lock_write, TypeInv, TypeOK, env, hist
<1>5. ASSUME NEW p \in Procs, AppendRecord(p) PROVE TypeInv'
  <2>1. Moves(p)
    BY <1>5, FieldType, SettleMoves, Zenon DEF AppendRecord, env, Shape, Opened
  <2>2. DiskType
    BY <1>5, FieldType, RecordDisk, ProcKeyType, Zenon DEF AppendRecord, TypeInv, Shape, Opened
  <2>3. QED
    BY Zenon, <1>5, <2>1, <2>2, StepType, Zenon DEF AppendRecord, TypeInv, TypeOK, env, hist
<1>6. ASSUME NEW p \in Procs, AppendGlobal(p) PROVE TypeInv'
  <2>1. Moves(p)
    BY SMTT(40), <1>6, FieldType, GotoMoves DEF AppendGlobal, Shape, Opened, PCs, ProcState, LocksMove, env
  <2>2. DiskType
    BY <1>6, FieldType, RecordDisk, ProcKeyType, Zenon DEF AppendGlobal, Shape, Opened, TypeInv
  <2>3. QED
    BY Zenon, <1>6, <2>1, <2>2, StepType, Zenon DEF AppendGlobal, TypeInv, TypeOK, env, hist
<1>7. ASSUME NEW p \in Procs, WriteFail(p) PROVE TypeInv'
  <2>1. Moves(p)
    BY <1>7, GiveUpMoves, Zenon DEF WriteFail, env
  <2>2. DiskType
    <3> DEFINE i  == proc[p].fd
               at == IF proc[p].pc = "lockwrite" THEN proc[p].off
                     ELSE IF proc[p].pc = "append" THEN proc[p].lpos
                     ELSE proc[p].pos
    <3>1. i \in Inodes /\ at - 1 \in Int /\ file[i] \in Seq(Record)
      BY SMTT(30), <1>7, FieldType DEF WriteFail, TypeInv, TypeOK, Shape, Opened
    <3>2. ftruncate(file[i], at - 1) \in Seq(Record)
      BY Zenon, <3>1, TruncateType, Zenon
    <3>3. QED
      BY Zenon, <1>7, <3>1, <3>2, WriteDisk, SameDisk, Zenon DEF WriteFail, TypeInv, TypeOK, disk
  <2>3. QED
    BY Zenon, <1>7, <2>1, <2>2, StepType, Zenon DEF WriteFail, TypeInv, TypeOK, env, hist
<1>8. ASSUME NEW p \in Procs, LockSession(p) PROVE TypeInv'
  <2>1. Moves(p)
    BY SMTT(40), <1>8, FieldType, GotoMoves DEF LockSession, LockRecord, Shape, Opened, PCs, ProcState, LocksMove, env
  <2>2. DiskType
    BY <1>8, FieldType, SameDisk, Zenon DEF LockSession, LockRecord
  <2>3. QED
    BY Zenon, <1>8, <2>1, <2>2, StepType, Zenon DEF LockSession, LockRecord, TypeInv, TypeOK, env, hist
<1>9. ASSUME NEW p \in Procs, LockFail(p) PROVE TypeInv'
  <2>1. Moves(p)
    BY <1>9, GiveUpMoves, Zenon DEF LockFail, env
  <2>2. DiskType
    BY <1>9, FieldType, SameDisk, Zenon DEF LockFail
  <2>3. QED
    BY <1>9, <2>1, <2>2, StepType, Zenon DEF LockFail, TypeInv, TypeOK, env, hist
<1>10. ASSUME NEW p \in Procs, StatusDisable(p) PROVE TypeInv'
  <2> DEFINE r == [proc[p] EXCEPT !.pc = "prompt", !.seen = Hole]
  <2>1. r \in ProcState
    BY ZenonT(40), FieldType, HoleType DEF ProcState, PCs
  <2>2. Shape(r) /\ r.fd = proc[p].fd
    BY <1>10, FieldType, Zenon DEF StatusDisable, Shape, Opened, ProcState
  <2>3. Moves(p)
    BY Zenon, <1>10, <2>1, <2>2, Zenon DEF StatusDisable, Moves, ProcMoves, env
  <2>4. DiskType
    BY <1>10, FieldType, RecordDisk, Zenon DEF StatusDisable, Shape, Opened
  <2>5. QED
    BY <1>10, <2>3, <2>4, StepType, Zenon DEF StatusDisable, TypeInv, TypeOK, env, hist
<1>11. ASSUME NEW p \in Procs, Authenticate(p) PROVE TypeInv'
  <2> DEFINE r == [proc[p] EXCEPT !.pc = "approve", !.via = "password"]
  <2>1. r \in ProcState
    BY ZenonT(40), FieldType DEF ProcState, PCs
  <2>2. Shape(r) /\ r.fd = proc[p].fd
    BY <1>11, FieldType, Zenon DEF Authenticate, Shape, Opened, ProcState
  <2>3. Moves(p)
    BY Zenon, <1>11, <2>1, <2>2, Zenon DEF Authenticate, Moves, ProcMoves, env
  <2>4. DiskType
    BY <1>11, FieldType, SameDisk, Zenon DEF Authenticate
  <2>5. QED
    BY Zenon, <1>11, <2>3, <2>4, StepType, Zenon DEF Authenticate, TypeInv, TypeOK, env, hist
<1>12. ASSUME NEW p \in Procs, AuthFail(p) PROVE TypeInv'
  <2>1. Moves(p)
    BY <1>12, FieldType, GotoMoves DEF AuthFail, Shape, Opened, PCs, ProcState, LocksMove, env
  <2>2. DiskType
    BY <1>12, FieldType, SameDisk, Zenon DEF AuthFail
  <2>3. QED
    BY Zenon, <1>12, <2>1, <2>2, StepType, Zenon DEF AuthFail, TypeInv, TypeOK, env, hist
<1>13. ASSUME NEW p \in Procs, getpass_resume(p) PROVE TypeInv'
  <2>1. Moves(p)
    BY <1>13, FieldType, GotoMoves DEF getpass_resume, Shape, Opened, PCs, ProcState, LocksMove, env
  <2>2. DiskType
    BY <1>13, FieldType, SameDisk, Zenon DEF getpass_resume
  <2>3. QED
    BY Zenon, <1>13, <2>1, <2>2, StepType, Zenon DEF getpass_resume, TypeInv, TypeOK, env, hist
<1>14. ASSUME NEW p \in Procs, NoUpdate(p) PROVE TypeInv'
  <2>1. Moves(p)
    BY <1>14, FieldType, GotoMoves DEF NoUpdate, Shape, Opened, PCs, ProcState, LocksMove, env
  <2>2. DiskType
    BY <1>14, FieldType, SameDisk, Zenon DEF NoUpdate
  <2>3. QED
    BY <1>14, <2>1, <2>2, StepType, Zenon DEF NoUpdate, TypeInv, TypeOK, env, hist
<1>15. ASSUME NEW p \in Procs, timestamp_close(p) PROVE TypeInv'
  <2>1. Moves(p)
    BY Zenon, <1>15, ExitMoves, Zenon DEF timestamp_close, Exit, env
  <2>2. DiskType
    BY <1>15, FieldType, KeptDisk, Zenon DEF timestamp_close, Exit, TypeInv, TypeOK
  <2>3. QED
    BY <1>15, <2>1, <2>2, StepType, Zenon DEF timestamp_close, Exit, TypeInv, TypeOK, env, hist
<1>16. ASSUME NEW p \in Procs, Kill(p) PROVE TypeInv'
  <2>1. Moves(p)
    BY Zenon, <1>16, ExitMoves, Zenon DEF Kill, Exit, env
  <2>2. DiskType
    BY <1>16, FieldType, KeptDisk, Zenon DEF Kill, Exit, TypeInv, TypeOK
  <2>3. QED
    BY Zenon, <1>16, <2>1, <2>2, StepType, Zenon DEF Kill, Exit, TypeInv, TypeOK, env, hist
<1>17. ASSUME NEW p \in Procs, RemoveLock(p) PROVE TypeInv'
  <2>1. Moves(p)
    BY SMTT(30), <1>17, FieldType, GotoMoves DEF RemoveLock, LockRecord, Shape, Opened, PCs, ProcState, LocksMove, env
  <2>2. DiskType
    BY <1>17, FieldType, SameDisk, Zenon DEF RemoveLock, LockRecord
  <2>3. QED
    BY Zenon, <1>17, <2>1, <2>2, StepType, Zenon DEF RemoveLock, LockRecord, TypeInv, TypeOK, env, hist
<1>18. ASSUME NEW p \in Procs, RemoveLockFail(p) PROVE TypeInv'
  <2>1. Moves(p)
    BY <1>18, FieldType, GotoMoves DEF RemoveLockFail, Shape, Opened, PCs, ProcState, LocksMove, env
  <2>2. DiskType
    BY <1>18, FieldType, SameDisk, Zenon DEF RemoveLockFail
  <2>3. QED
    BY Zenon, <1>18, <2>1, <2>2, StepType, Zenon DEF RemoveLockFail, TypeInv, TypeOK, env, hist
<1>19. ASSUME NEW p \in Procs, NEW s \in Sessions, NEW a \in Auths, CheckUser(p, s, a)
       PROVE  TypeInv'
  <2> DEFINE r == [IdleProc EXCEPT !.pc = "open"]
  <2>1. r \in ProcState
    BY HoleType, Zenon DEF IdleProc, ProcState, PCs
  <2>2. r.pc = "open" /\ r.fd = None
    BY Zenon DEF IdleProc
  <2> HIDE DEF r
  <2>3. QED
    BY Zenon, <1>19, <2>1, <2>2, StartType, Zenon DEF CheckUser, r
<1>20. ASSUME NEW p \in Procs, NEW s \in Sessions, NEW a \in Auths, CheckUserExempt(p, s, a)
       PROVE  TypeInv'
  <2> DEFINE r == [IdleProc EXCEPT !.pc = "approve", !.stat = "error", !.via = "exempt"]
  <2>1. r \in ProcState
    BY Zenon, HoleType, Zenon DEF IdleProc, ProcState, PCs
  <2>2. r.pc = "approve" /\ r.stat = "error" /\ r.fd = None
    BY Zenon DEF IdleProc
  <2> HIDE DEF r
  <2>3. QED
    BY Zenon, <1>20, <2>1, <2>2, StartType, Zenon DEF CheckUserExempt, r
<1>21. ASSUME NEW p \in Procs, NEW s \in Sessions, NEW a \in Auths, CheckUserIgnoreTicket(p, s, a)
       PROVE  TypeInv'
  <2> DEFINE r == [IdleProc EXCEPT !.pc = "prompt", !.stat = "error"]
  <2>1. r \in ProcState
    BY Zenon, HoleType, Zenon DEF IdleProc, ProcState, PCs
  <2>2. r.pc = "prompt" /\ r.stat = "error" /\ r.fd = None
    BY Zenon DEF IdleProc
  <2> HIDE DEF r
  <2>3. QED
    BY Zenon, <1>21, <2>1, <2>2, StartType, Zenon DEF CheckUserIgnoreTicket, r
<1>22. ASSUME NEW p \in Procs, getpass_suspend(p) PROVE TypeInv'
  <2> DEFINE r == [proc[p] EXCEPT !.pc = "stopped", !.fd = None, !.off = 0,
                                  !.lpos = 0, !.pos = 0]
  <2>1. r \in ProcState
    BY ZenonT(40), FieldType DEF ProcState, PCs
  <2>2. Shape(r)
    BY <1>22, FieldType, Zenon DEF getpass_suspend, Shape, Opened, ProcState
  <2>3. Moves(p)
    BY Zenon, <1>22, <2>1, <2>2, Zenon DEF getpass_suspend, Moves, ProcMoves
  <2>4. DiskType
    BY <1>22, KeptDisk, Zenon DEF getpass_suspend, TypeInv, TypeOK
  <2>5. runs' \in Nat
    BY <1>22 DEF getpass_suspend, TypeInv, TypeOK
  <2>6. QED
    BY Zenon, <1>22, <2>3, <2>4, <2>5, StepType, Zenon DEF getpass_suspend, TypeInv, TypeOK, hist
<1>23. ASSUME NEW p \in Procs, NEW s \in Sessions, RemoveOpen(p, s) PROVE TypeInv'
  <2> DEFINE r == [IdleProc EXCEPT !.pc = "klock", !.ses = s, !.fd = name]
  <2>1. r \in ProcState /\ Shape(r)
    BY Zenon, <1>23, IdleType, Zenon DEF RemoveOpen, ProcState, PCs, Shape, Opened, IdleProc, TypeInv, TypeOK
  <2>2. locks' \subseteq LocksWithout(p)
    BY <1>23, NoOpenLocks, Zenon DEF RemoveOpen
  <2>3. Moves(p)
    BY Zenon, <1>23, <2>1, <2>2, Zenon DEF RemoveOpen, Moves, ProcMoves
  <2>4. runs' \in Nat /\ DiskType
    BY SMTT(30), <1>23, SameDisk DEF RemoveOpen, TypeInv, TypeOK
  <2>5. QED
    BY Zenon, <1>23, <2>3, <2>4, StepType, Zenon DEF RemoveOpen, TypeInv, TypeOK, hist
<1>24. CASE RemoveUnlink
  BY SMTT(30), <1>24, KeptDisk, ScopesSame DEF RemoveUnlink, DiskType, TypeInv, TypeOK, Shape, hist
<1>25. CASE Tick
  BY <1>25, ScopesSame DEF Tick, TypeInv, TypeOK, Shape, hist, disk
<1>26. CASE Reboot
  BY <1>26, KeptDisk, ScopesSame, IdleType DEF Reboot, DiskType, TypeInv, TypeOK, Shape, Opened, IdleProc
<1>27. ASSUME NEW p \in Procs, timestamp_open(p) PROVE TypeInv'
  <2>1. CASE conf.timeout = 0
    <3>1. GiveUp(p) /\ UNCHANGED disk
      BY <1>27, <2>1, Zenon DEF timestamp_open
    <3>2. Moves(p)
      BY <1>27, <3>1, GiveUpMoves, Zenon DEF timestamp_open, env
    <3>3. QED
      BY Zenon, <1>27, <3>1, <3>2, SameDisk, StepType, Zenon DEF timestamp_open, TypeInv, TypeOK, env, hist
  <2>2. CASE conf.timeout # 0 /\ name = None
    BY <1>27, <2>2, CreateType, Zenon DEF timestamp_open
  <2>3. CASE conf.timeout # 0 /\ name # None /\ Stale(name)
    <3>1. Goto(p, "unlink") /\ UNCHANGED disk
      BY <1>27, <2>3, Zenon DEF timestamp_open
    <3>2. Moves(p)
      BY <1>27, <3>1, FieldType, GotoMoves DEF timestamp_open, Shape, Opened, PCs, ProcState, LocksMove, env
    <3>3. QED
      BY Zenon, <1>27, <3>1, <3>2, SameDisk, StepType, Zenon DEF timestamp_open, TypeInv, TypeOK, env, hist
  <2>4. CASE conf.timeout # 0 /\ name # None /\ ~ Stale(name)
    BY <1>27, <2>4, OpenNameType, Zenon DEF timestamp_open
  <2>5. QED
    BY <2>1, <2>2, <2>3, <2>4, Zenon
<1>28. ASSUME NEW p \in Procs, OpenRetry(p) PROVE TypeInv'
  BY <1>28, CreateType, OpenNameType, Zenon DEF OpenRetry
<1>29. ASSUME NEW p \in Procs, ReadFirst(p) PROVE TypeInv'
  <2> DEFINE i == proc[p].fd
             r(l, o) == [proc[p] EXCEPT !.pc = l, !.off = o]
  <2>1. i \in Inodes /\ file[i] \in Seq(Record)
    BY <1>29, FieldType, Zenon DEF ReadFirst, Shape, Opened, TypeInv, TypeOK
  <2>2. \E l \in {"lockwrite", "find"}, o \in {1, 2} : proc' = [proc EXCEPT ![p] = r(l, o)]
    BY ZenonT(40), <1>29, Zenon DEF ReadFirst
  <2>3. PICK l \in {"lockwrite", "find"}, o \in {1, 2} : proc' = [proc EXCEPT ![p] = r(l, o)]
    BY Zenon, <2>2, Zenon
  <2>4. r(l, o) \in ProcState
    <3>1. l \in PCs /\ o \in Nat
      BY DEF PCs
    <3>2. QED
      BY ZenonT(40), <3>1, FieldType, UpdateType
  <2>5. Shape(r(l, o)) /\ r(l, o).fd = proc[p].fd
    BY <1>29, FieldType, Zenon DEF ReadFirst, Shape, Opened, ProcState
  <2>6. Moves(p)
    BY Zenon, <1>29, <2>3, <2>4, <2>5, Zenon DEF ReadFirst, Moves, ProcMoves, env
  <2>7. ts_write(file[i], 1, Blank("v1", "lockexcl")) \in Seq(Record)
    BY Zenon, <2>1, WriteType, BlankType, Zenon DEF Types
  <2>8. \/ UNCHANGED <<file, mtime>>
        \/ \E f \in Seq(Record) : Write(i, f)
    <3>1. << >> \in Seq(Record)
      OBVIOUS
    <3>2. QED
      BY Zenon, <1>29, <2>7, <3>1, Zenon DEF ReadFirst
  <2>9. DiskType
    BY <1>29, <2>1, <2>8, WriteDisk, SameDisk, Zenon DEF ReadFirst, TypeInv, TypeOK, disk
  <2>10. QED
    BY Zenon, <1>29, <2>6, <2>9, StepType, Zenon DEF ReadFirst, TypeInv, TypeOK, env, hist
<1>30. ASSUME NEW p \in Procs, FindRecord(p) PROVE TypeInv'
  <2> DEFINE r(m) == [proc[p] EXCEPT !.pc = "append", !.lpos = m]
  <2>1. PICK m \in 1 .. Len(file[proc[p].fd]) + 1 :
          \/ Settle(p, m)
          \/ /\ proc' = [proc EXCEPT ![p].pc = "append", ![p].lpos = m]
             /\ UNCHANGED locks
    BY <1>30, Zenon DEF FindRecord
  <2>2. m \in Nat
    BY <1>30, FieldType DEF FindRecord, Shape, Opened, TypeInv, TypeOK
  <2>3. CASE Settle(p, m)
    <3>1. Moves(p)
      BY <1>30, <2>2, <2>3, SettleMoves, Zenon DEF FindRecord, env
    <3>2. QED
      BY Zenon, <1>30, <3>1, SameDisk, StepType, Zenon DEF FindRecord, TypeInv, TypeOK, env, hist
  <2>4. CASE /\ proc' = [proc EXCEPT ![p].pc = "append", ![p].lpos = m]
             /\ UNCHANGED locks
    <3>1. r(m) \in ProcState
      BY ZenonT(40), <2>2, FieldType, UpdateType DEF PCs
    <3>2. Shape(r(m)) /\ r(m).fd = proc[p].fd
      BY <1>30, FieldType, Zenon DEF FindRecord, Shape, Opened, ProcState
    <3>3. Moves(p)
      BY ZenonT(40), <1>30, <2>4, <3>1, <3>2 DEF FindRecord, Moves, ProcMoves, env
    <3>4. QED
      BY Zenon, <1>30, <3>3, SameDisk, StepType, Zenon DEF FindRecord, TypeInv, TypeOK, env, hist
  <2>5. QED
    BY <2>1, <2>3, <2>4, Zenon
<1>31. ASSUME NEW p \in Procs, FindGlobal(p) PROVE TypeInv'
  <2> DEFINE r(l, m) == [proc[p] EXCEPT !.pc = l, !.pos = m]
  <2>1. PICK l \in {"lockrec", "appendglobal"}, m \in 1 .. Len(file[proc[p].fd]) + 1 :
          proc' = [proc EXCEPT ![p] = r(l, m)] /\ locks' \subseteq locks
    BY ZenonT(40), <1>31 DEF FindGlobal
  <2>2. m \in Nat
    BY <1>31, FieldType DEF FindGlobal, Shape, Opened, TypeInv, TypeOK
  <2>3. r(l, m) \in ProcState
    <3>1. l \in PCs
      BY Zenon DEF PCs
    <3>2. QED
      BY Zenon, <2>2, <3>1, FieldType, UpdateType, Zenon
  <2>4. Shape(r(l, m)) /\ r(l, m).fd = proc[p].fd
    BY <1>31, FieldType, Zenon DEF FindGlobal, Shape, Opened, ProcState
  <2>5. Moves(p)
    BY Zenon, <1>31, <2>1, <2>3, <2>4, Zenon DEF FindGlobal, Moves, ProcMoves, env
  <2>6. QED
    BY Zenon, <1>31, <2>5, SameDisk, StepType, Zenon DEF FindGlobal, TypeInv, TypeOK, env, hist
<1>32. ASSUME NEW p \in Procs, timestamp_status(p) PROVE TypeInv'
  <2> DEFINE i == proc[p].fd
             n == proc[p].pos
             v == IF n \in DOMAIN file[i] THEN Judge(file[i][n], proc[p].ses) ELSE "error"
             r1 == [proc[p] EXCEPT !.pc = "approve", !.stat = v, !.via = "ticket"]
             r2 == [proc[p] EXCEPT !.pc = "prompt", !.stat = v]
             r3 == [proc[p] EXCEPT !.pc = "disable", !.stat = "old",
                                   !.seen = WriteBack(p, file[i][n])]
  <2>1. v \in {"current", "old", "error", "future"}
    BY Zenon DEF Judge, Expiry
  <2>2. i \in Inodes
    BY Zenon, <1>32, FieldType, Zenon DEF timestamp_status, Shape, Opened
  <2>3. "approve" \in PCs /\ "prompt" \in PCs /\ "disable" \in PCs
    BY Zenon DEF PCs
  <2>4. CASE v = "current" /\ proc' = [proc EXCEPT ![p] = r1]
    <3>1. r1 \in ProcState
      <4> HIDE DEF v
      <4>1. v \in {"none", "current", "old", "error"}
        BY <2>4, Zenon
      <4>2. QED
        BY ZenonT(40), <2>3, <4>1, FieldType, UpdateType
    <3>2. Shape(r1) /\ r1.fd = proc[p].fd
      BY ZenonT(40), <1>32, <2>2, FieldType DEF timestamp_status, Shape, Opened, ProcState
    <3>3. Moves(p)
      BY ZenonT(40), <1>32, <2>4, <3>1, <3>2, Zenon DEF timestamp_status, Moves, ProcMoves, env
    <3>4. QED
      BY Zenon, <1>32, <3>3, SameDisk, StepType, Zenon DEF timestamp_status, TypeInv, TypeOK, env, hist
  <2>5. CASE v # "future" /\ proc' = [proc EXCEPT ![p] = r2]
    <3>1. r2 \in ProcState
      <4> HIDE DEF v
      <4>1. v \in {"none", "current", "old", "error"}
        BY <2>1, <2>5, Zenon
      <4>2. QED
        BY ZenonT(40), <2>3, <4>1, FieldType, UpdateType
    <3>2. Shape(r2) /\ r2.fd = proc[p].fd
      BY ZenonT(40), <1>32, <2>2, FieldType, Zenon DEF timestamp_status, Shape, Opened, ProcState
    <3>3. Moves(p)
      BY Zenon, <1>32, <2>5, <3>1, <3>2, Zenon DEF timestamp_status, Moves, ProcMoves, env
    <3>4. QED
      BY Zenon, <1>32, <3>3, SameDisk, StepType, Zenon DEF timestamp_status, TypeInv, TypeOK, env, hist
  <2>6. CASE v = "future" /\ proc' = [proc EXCEPT ![p] = r3]
    <3>1. n \in DOMAIN file[i] /\ file[i] \in Seq(Record)
      BY <2>2, <2>6, Zenon DEF TypeInv, TypeOK
    <3>2. file[i][n] \in Record
      BY <3>1
    <3>3. WriteBack(p, file[i][n]) \in Record
      BY Zenon, <3>2, Zenon DEF WriteBack, Record
    <3>4. r3 \in ProcState
      <4> DEFINE e == WriteBack(p, file[i][n])
      <4>1. e \in Record
        BY <3>3, Zenon
      <4> HIDE DEF e
      <4>2. [proc[p] EXCEPT !.pc = "disable", !.stat = "old", !.seen = e] \in ProcState
        BY ZenonT(40), <2>3, <4>1, FieldType, UpdateType, Zenon
      <4>3. QED
        BY <4>2, Zenon DEF e
    <3>5. Shape(r3) /\ r3.fd = proc[p].fd
      BY ZenonT(40), <1>32, <2>2, FieldType DEF timestamp_status, Shape, Opened, ProcState
    <3>6. Moves(p)
      BY Zenon, <1>32, <2>6, <3>4, <3>5, Zenon DEF timestamp_status, Moves, ProcMoves, env
    <3>7. QED
      BY Zenon, <1>32, <3>6, SameDisk, StepType, Zenon DEF timestamp_status, TypeInv, TypeOK, env, hist
  <2>7. QED
    BY ZenonT(40), <1>32, <2>4, <2>5, <2>6, Zenon DEF timestamp_status
<1>33. ASSUME NEW p \in Procs, timestamp_update(p) PROVE TypeInv'
  <2> DEFINE e == [TicketKey(p) EXCEPT !.disabled = FALSE, !.ts = now]
  <2>1. Moves(p)
    BY SMTT(40), <1>33, FieldType, GotoMoves DEF timestamp_update, Shape, Opened, PCs, ProcState, LocksMove, env
  <2>2. TicketKey(p) \in Record /\ now \in Nat
    BY Zenon, <1>33, FieldType, ProcKeyType, Zenon DEF timestamp_update, Shape, TypeInv, TypeOK
  <2>3. e \in Record
    BY Zenon, <2>2, Zenon DEF Record
  <2>4. DiskType
    BY <1>33, <2>3, FieldType, RecordDisk, Zenon DEF timestamp_update, Shape
  <2>5. proven' \in [Scopes -> Nat \cup {Never}] /\ revoked' \in [Scopes -> {"no", "quiet", "raced"}]
    BY Zenon, <1>33, Zenon DEF timestamp_update, TypeInv, TypeOK
  <2>6. QED
    BY Zenon, <1>33, <2>1, <2>4, <2>5, StepType, Zenon DEF timestamp_update, TypeInv, TypeOK, env
<1>34. ASSUME NEW p \in Procs, RemoveDisable(p) PROVE TypeInv'
  <2> DEFINE i == proc[p].fd
             f == file[i]
             hit == {m \in Matching(f, RemoveKey(proc[p].ses)) : ~ f[m].disabled}
             g == [m \in DOMAIN f |-> IF m \in hit THEN [f[m] EXCEPT !.disabled = TRUE]
                                      ELSE f[m]]
  <2>1. Moves(p)
    BY SMTT(40), <1>34, FieldType, GotoMoves DEF RemoveDisable, Shape, Opened, PCs, ProcState, LocksMove, env
  <2>2. i \in Inodes /\ f \in Seq(Record)
    BY <1>34, FieldType, Zenon DEF RemoveDisable, Shape, Opened, TypeInv, TypeOK
  <2>3. \A m \in DOMAIN f : f[m] \in Record /\ [f[m] EXCEPT !.disabled = TRUE] \in Record
    <3>1. ASSUME NEW e \in Record PROVE [e EXCEPT !.disabled = TRUE] \in Record
      BY Zenon DEF Record
    <3>2. \A m \in DOMAIN f : f[m] \in Record
      BY <2>2
    <3>3. QED
      BY <3>1, <3>2, Zenon
  <2>4. g \in Seq(Record)
    <3> HIDE DEF hit, f
    <3>1. g \in [1 .. Len(f) -> Record]
      BY <2>2, <2>3
    <3>2. QED
      BY <2>2, <3>1
  <2>5. DiskType
    BY <1>34, <2>2, <2>4, WriteDisk, SameDisk, Zenon DEF RemoveDisable, TypeInv, TypeOK, disk
  <2>6. revoked' \in [Scopes -> {"no", "quiet", "raced"}]
    BY <1>34, Zenon DEF RemoveDisable, TypeInv, TypeOK
  <2>7. QED
    BY Zenon, <1>34, <2>1, <2>5, <2>6, StepType, Zenon DEF RemoveDisable, TypeInv, TypeOK, env
<1>35. CASE UNCHANGED vars
  BY <1>35, ScopesSame, Zenon DEF vars, TypeInv, TypeOK, Shape
<1>36. ASSUME NEW p \in Procs, Run(p) \/ Fail(p) PROVE TypeInv'
  BY <1>36, <1>1, <1>2, <1>3, <1>4, <1>5, <1>6, <1>7, <1>8, <1>9, <1>10, <1>11,
     <1>12, <1>14, <1>15, <1>16, <1>17, <1>18, <1>27, <1>28, <1>29, <1>30, <1>31,
     <1>32, <1>33, <1>34, Zenon DEF Run, Fail
<1>37. ASSUME NEW p \in Procs, User(p) PROVE TypeInv'
  <2>1. conf.users \subseteq Sessions \X Auths
    BY ConstantsAssumption, Zenon DEF TypeInv, TypeOK, Config
  <2>2. QED
    BY <1>37, <2>1, <1>13, <1>19, <1>20, <1>21, <1>22, <1>23, Zenon DEF User
<1>38. QED
  BY <1>24, <1>25, <1>26, <1>35, <1>36, <1>37, Zenon DEF Next

(* Every variable keeps the type TypeOK gives it; in particular a record   *)
(* lock is never held on a file its owner does not have open, whatever     *)
(* path timestamp_open(), timestamp_lock(), the suspend and resume         *)
(* callbacks and timestamp_close() take.                                   *)
THEOREM TypeCorrect == Spec => []TypeOK
<1>1. TypeInv => TypeOK
  BY Zenon DEF TypeInv
<1>2. QED
  BY <1>1, InitType, TypeStep, PTL DEF Spec

(***************************************************************************)
(* The locking protocol                                                    *)
(***************************************************************************)
(* A file as timestamp_lock() leaves it, or as an older version did.       *)
Intact(f) ==
  /\ \A j \in DOMAIN f : f[j].size # "zero"
  /\ f # << >> => f[1].type = "lockexcl" \/ f[1].size = "v1"

IntactConfigs == \A c \in Configs : Intact(c.file)

(* Records that the same keys match.                                       *)
SameId(e, d) ==
  /\ e.size = d.size
  /\ e.size = "v2" =>
       /\ e.type = d.type /\ e.auth = d.auth
       /\ e.type # "global" => e.dev = d.dev /\ e.start = d.start

(* g is f with records rewritten in place or appended.                     *)
Grows(f, g) ==
  /\ Len(f) <= Len(g)
  /\ \A j \in DOMAIN f : SameId(f[j], g[j])
  /\ f # << >> /\ f[1].type = "lockexcl" => g[1].type = "lockexcl"

(* The same record, but for the flag TS_DISABLED.                          *)
Disable(e) == [e EXCEPT !.disabled = TRUE]
SameButDisabled(e, d) == Disable(e) = Disable(d)

(* Control points between locking and unlocking the TS_LOCKEXCL record.    *)
Searching == {"first", "lockwrite", "find", "append", "findglobal",
              "appendglobal", "kdisable"}

(* Control points at which the session's record has been found.            *)
Settled(p) == proc[p].pc \in {"findglobal", "appendglobal", "lockrec"} \/ InSession(p)

(* The record of p's terminal or parent is the first one that matches.     *)
FirstMatch(f, k, m) ==
  /\ m \in 2 .. Len(f)
  /\ ts_match_record(k, f[m])
  /\ \A j \in 2 .. m - 1 : ~ ts_match_record(k, f[j])

(* What p relies on between two of its steps.                              *)
Relies(p) ==
  LET r == proc[p]
      f == file[r.fd]
  IN  /\ r.pc \in Searching => <<r.fd, 1, p>> \in locks
      /\ r.pc = "lockwrite" => r.off = 1 /\ f = << >>
      /\ r.pc \in {"find", "append"} \/ Settled(p) =>
           f # << >> /\ f[1].type = "lockexcl"
      /\ r.pc = "find" => r.off = 2
      /\ r.pc = "append" =>
           /\ r.lpos = Len(f) + 1
           /\ \A j \in 2 .. Len(f) : ~ ts_match_record(LockKey(p), f[j])
      /\ Settled(p) => FirstMatch(f, LockKey(p), r.lpos)
      /\ r.pc \in {"findglobal", "appendglobal"} => conf.type = "global"
      /\ r.pc = "appendglobal" => r.pos = Len(f) + 1
      /\ r.pc = "lockrec" \/ InSession(p) =>
           /\ r.pos \in DOMAIN f /\ ts_match_record(TicketKey(p), f[r.pos])
           /\ conf.type # "global" => r.pos = r.lpos
      /\ InSession(p) => <<r.fd, r.lpos, p>> \in locks
      /\ r.pc \in {"status", "disable"} => r.stat # "error"
      /\ r.pc = "disable" => ts_match_record(TicketKey(p), r.seen)
      /\ r.pc = "disable" /\ conf.type # "global" => r.seen = Disable(f[r.lpos])

(* No two processes lock the same record of a file.                        *)
LocksExclusive ==
  \A l, m \in locks : l[1] = m[1] /\ l[2] = m[2] => l[3] = m[3]

Inv == /\ TypeInv
       /\ \A i \in Inodes : Intact(file[i])
       /\ LocksExclusive
       /\ \A p \in Procs : Relies(p)

(***************************************************************************)
(* Records and files.                                                      *)
(***************************************************************************)
LEMMA SameMatches ==
  ASSUME NEW k, NEW e, NEW d, SameId(e, d)
  PROVE  ts_match_record(k, e) <=> ts_match_record(k, d)
BY Zenon DEF SameId, ts_match_record, MatchAnyUid

LEMMA MatchesSame ==
  ASSUME NEW k, NEW e, NEW d, ts_match_record(k, e), ts_match_record(k, d)
  PROVE  SameId(e, d)
BY Zenon DEF SameId, ts_match_record, MatchAnyUid

LEMMA GrowsRefl == ASSUME NEW f \in Seq(Record) PROVE Grows(f, f)
BY DEF Grows, SameId

(* Rewriting a record in place, with one that the same keys match.         *)
LEMMA RewriteGrows ==
  ASSUME NEW f \in Seq(Record), NEW m \in DOMAIN f, NEW e \in Record, SameId(f[m], e),
         m = 1 /\ f[1].type = "lockexcl" => e.type = "lockexcl"
  PROVE  /\ Grows(f, ts_write(f, m, e))
         /\ Len(ts_write(f, m, e)) = Len(f)
<1> DEFINE g == ts_write(f, m, e)
<1>1. g = [j \in 1 .. Len(f) |-> IF j = m THEN e ELSE f[j]]
  BY DEF ts_write
<1>2. Len(g) = Len(f) /\ \A j \in DOMAIN f : g[j] = IF j = m THEN e ELSE f[j]
  BY <1>1
<1>3. \A j \in DOMAIN f : SameId(f[j], g[j])
  BY <1>2, Zenon DEF SameId
<1>4. f # << >> /\ f[1].type = "lockexcl" => g[1].type = "lockexcl"
  BY <1>2
<1>5. QED
  BY <1>2, <1>3, <1>4 DEF Grows

LEMMA AppendGrows ==
  ASSUME NEW f \in Seq(Record), NEW e \in Record, NEW m \in Nat, m = Len(f) + 1
  PROVE  /\ ts_write(f, m, e) \in Seq(Record) /\ Grows(f, ts_write(f, m, e))
         /\ Len(ts_write(f, m, e)) = m /\ ts_write(f, m, e)[m] = e
         /\ \A j \in DOMAIN f : ts_write(f, m, e)[j] = f[j]
<1> DEFINE g == ts_write(f, m, e)
<1>1. g = [j \in 1 .. m |-> IF j = m THEN e ELSE f[j]]
  BY DEF ts_write
<1>2. /\ g \in Seq(Record) /\ Len(g) = m /\ g[m] = e
      /\ \A j \in DOMAIN f : g[j] = f[j]
  BY <1>1
<1>3. \A j \in DOMAIN f : SameId(f[j], g[j])
  BY <1>2, Zenon DEF SameId
<1>4. f # << >> /\ f[1].type = "lockexcl" => g[1].type = "lockexcl"
  BY <1>2
<1>5. QED
  BY <1>2, <1>3, <1>4 DEF Grows

(* What was found in a file is still there when it has grown.              *)
LEMMA FirstMatchGrows ==
  ASSUME NEW f \in Seq(Record), NEW g \in Seq(Record), Grows(f, g), NEW k, NEW m,
         FirstMatch(f, k, m)
  PROVE  FirstMatch(g, k, m)
<1>1. \A j \in DOMAIN f : ts_match_record(k, f[j]) <=> ts_match_record(k, g[j])
  BY SameMatches, Zenon DEF Grows
<1>2. QED
  BY <1>1 DEF FirstMatch, Grows

LEMMA FirstMatchUnique ==
  ASSUME NEW f, NEW k, NEW m \in Nat, NEW n \in Nat, FirstMatch(f, k, m), FirstMatch(f, k, n)
  PROVE  m = n
BY DEF FirstMatch

(* A process relies on nothing that the growth of its file disturbs.       *)
LEMMA RelyFrame ==
  ASSUME TypeInv, TypeInv', NEW q \in Procs, Relies(q),
         conf' = conf, proc'[q] = proc[q],
         \A l \in locks : l[3] = q => l \in locks',
         proc[q].fd \in Inodes =>
           /\ Grows(file[proc[q].fd], file'[proc[q].fd])
           /\ proc[q].pc \in Searching =>
                Len(file'[proc[q].fd]) = Len(file[proc[q].fd])
           /\ InSession(q) /\ conf.type # "global" =>
                SameButDisabled(file[proc[q].fd][proc[q].lpos],
                                file'[proc[q].fd][proc[q].lpos])
  PROVE  Relies(q)'
<1> DEFINE r == proc[q]
           f == file[r.fd]
           g == file'[r.fd]
<1>1. /\ LockKey(q)' = LockKey(q) /\ TicketKey(q)' = TicketKey(q)
      /\ InSession(q)' = InSession(q) /\ Settled(q)' = Settled(q)
  BY Zenon DEF LockKey, TicketKey, InSession, Settled, ts_init_key_nonglobal, ts_init_key
<1>2. CASE r.pc \in Searching \/ r.pc = "lockrec" \/ InSession(q)
  <2>1. r.fd \in Inodes /\ f \in Seq(Record) /\ g \in Seq(Record)
    BY ZenonT(40), <1>2, FieldType, Zenon DEF Shape, Opened, Searching, InSession, TypeInv, TypeOK
  <2>2. Grows(f, g) /\ (r.pc \in Searching => Len(g) = Len(f))
    BY <2>1, Zenon
  <2>3. Len(f) \in Nat /\ DOMAIN f = 1 .. Len(f) /\ DOMAIN g = 1 .. Len(g)
        /\ Len(g) \in Nat /\ Len(f) <= Len(g)
    BY SMTT(40), <2>1, <2>2 DEF Grows
  <2>4. ASSUME NEW j \in DOMAIN f, NEW k
        PROVE  ts_match_record(k, f[j]) <=> ts_match_record(k, g[j])
    BY SMTT(40), <2>2, SameMatches DEF Grows
  <2> HIDE DEF f, g, r
  <2>5. f # << >> /\ f[1].type = "lockexcl" => g # << >> /\ g[1].type = "lockexcl"
    <3>1. f # << >> => Len(f) > 0
      BY <2>1
    <3>2. Len(g) > 0 => g # << >>
      OBVIOUS
    <3>3. f # << >> /\ f[1].type = "lockexcl" => g[1].type = "lockexcl"
      BY <2>2, Zenon DEF Grows
    <3>4. f # << >> => Len(g) > 0
      BY <2>3, <3>1
    <3>5. QED
      BY <3>2, <3>3, <3>4, Zenon
  <2>6. r.pc = "lockwrite" /\ f = << >> => g = << >>
    BY <2>1, <2>2 DEF Searching
  <2>7. r.pc = "append" /\ (\A j \in 2 .. Len(f) : ~ ts_match_record(LockKey(q), f[j])) =>
          /\ Len(g) = Len(f)
          /\ \A j \in 2 .. Len(g) : ~ ts_match_record(LockKey(q), g[j])
    BY SMTT(30), <2>2, <2>3, <2>4 DEF Searching
  <2>8. FirstMatch(f, LockKey(q), r.lpos) => FirstMatch(g, LockKey(q), r.lpos)
    BY <2>1, <2>2, FirstMatchGrows, Zenon
  <2>9. r.pos \in DOMAIN f /\ ts_match_record(TicketKey(q), f[r.pos]) =>
          r.pos \in DOMAIN g /\ ts_match_record(TicketKey(q), g[r.pos])
    BY <2>3, <2>4
  <2>10. r.pc = "appendglobal" => Len(g) = Len(f)
    BY <2>2, Zenon DEF Searching
  <2>11. \A n : <<r.fd, n, q>> \in locks => <<r.fd, n, q>> \in locks'
    BY Zenon
  <2>12. r.pc = "disable" /\ conf.type # "global" => Disable(g[r.lpos]) = Disable(f[r.lpos])
    BY <2>1, Zenon DEF Relies, InSession, SameButDisabled, f, g, r
  <2>13. /\ r.pc \in Searching => <<r.fd, 1, q>> \in locks
         /\ r.pc = "lockwrite" => r.off = 1 /\ f = << >>
         /\ r.pc \in {"find", "append"} \/ Settled(q) =>
              f # << >> /\ f[1].type = "lockexcl"
         /\ r.pc = "find" => r.off = 2
         /\ r.pc = "append" =>
              /\ r.lpos = Len(f) + 1
              /\ \A j \in 2 .. Len(f) : ~ ts_match_record(LockKey(q), f[j])
         /\ Settled(q) => FirstMatch(f, LockKey(q), r.lpos)
         /\ r.pc \in {"findglobal", "appendglobal"} => conf.type = "global"
         /\ r.pc = "appendglobal" => r.pos = Len(f) + 1
         /\ r.pc = "lockrec" \/ InSession(q) =>
              /\ r.pos \in DOMAIN f /\ ts_match_record(TicketKey(q), f[r.pos])
              /\ conf.type # "global" => r.pos = r.lpos
         /\ InSession(q) => <<r.fd, r.lpos, q>> \in locks
         /\ r.pc \in {"status", "disable"} => r.stat # "error"
         /\ r.pc = "disable" => ts_match_record(TicketKey(q), r.seen)
         /\ r.pc = "disable" /\ conf.type # "global" => r.seen = Disable(f[r.lpos])
    BY Zenon DEF Relies, f, r
  <2>14. /\ r.pc \in Searching => <<r.fd, 1, q>> \in locks'
         /\ r.pc = "lockwrite" => r.off = 1 /\ g = << >>
         /\ r.pc \in {"find", "append"} \/ Settled(q) =>
              g # << >> /\ g[1].type = "lockexcl"
         /\ r.pc = "find" => r.off = 2
         /\ r.pc = "append" =>
              /\ r.lpos = Len(g) + 1
              /\ \A j \in 2 .. Len(g) : ~ ts_match_record(LockKey(q), g[j])
         /\ Settled(q) => FirstMatch(g, LockKey(q), r.lpos)
         /\ r.pc \in {"findglobal", "appendglobal"} => conf.type = "global"
         /\ r.pc = "appendglobal" => r.pos = Len(g) + 1
         /\ r.pc = "lockrec" \/ InSession(q) =>
              /\ r.pos \in DOMAIN g /\ ts_match_record(TicketKey(q), g[r.pos])
              /\ conf.type # "global" => r.pos = r.lpos
         /\ InSession(q) => <<r.fd, r.lpos, q>> \in locks'
         /\ r.pc \in {"status", "disable"} => r.stat # "error"
         /\ r.pc = "disable" => ts_match_record(TicketKey(q), r.seen)
         /\ r.pc = "disable" /\ conf.type # "global" => r.seen = Disable(g[r.lpos])
    BY <2>5, <2>6, <2>7, <2>8, <2>9, <2>10, <2>11, <2>12, <2>13, Zenon
  <2>15. QED
    BY ZenonT(40), <1>1, <2>14 DEF Relies, g, r
<1>3. CASE ~ (r.pc \in Searching \/ r.pc = "lockrec" \/ InSession(q))
  BY ZenonT(40), <1>1, <1>3, Zenon DEF Relies, Searching, Settled, InSession
<1>4. QED
  BY <1>2, <1>3, Zenon

(***************************************************************************)
(* Kinds of steps.                                                         *)
(***************************************************************************)
(* p is the only process that moves, and it takes no one else's locks.     *)
OnlyMoves(p) ==
  /\ conf' = conf
  /\ \A q \in Procs : q # p => proc'[q] = proc[q]
  /\ \A l \in locks : l[3] # p => l \in locks'

(* Files that others have open stay as they are, the rest may be freed.    *)
FilesKept(p) ==
  \A i \in Inodes :
    \/ file'[i] = file[i]
    \/ file'[i] = << >> /\ \A q \in Procs : q # p => proc[q].fd # i

LEMMA KeptFiles ==
  ASSUME TypeInv, NEW p \in Procs, OnlyMoves(p), file' = file \/ file' = Kept(file)
  PROVE  FilesKept(p)
BY DEF FilesKept, Kept, OnlyMoves

LEMMA QuietInv ==
  ASSUME Inv, TypeInv', NEW p \in Procs, OnlyMoves(p), Relies(p)', LocksExclusive',
         FilesKept(p)
  PROVE  Inv'
<1>1. ASSUME NEW i \in Inodes PROVE Intact(file'[i])
  <2>1. file'[i] = file[i] \/ file'[i] = << >>
    BY Zenon DEF FilesKept
  <2>2. QED
    BY <2>1 DEF Inv, Intact
<1>2. ASSUME NEW q \in Procs, q # p PROVE Relies(q)'
  <2>1. proc[q].fd \in Inodes => file'[proc[q].fd] = file[proc[q].fd]
    BY <1>2, Zenon DEF FilesKept
  <2>2. proc[q].fd \in Inodes => Grows(file[proc[q].fd], file'[proc[q].fd])
    BY <2>1, GrowsRefl, Zenon DEF Inv, TypeInv, TypeOK
  <2>3. QED
    BY <1>2, <2>1, <2>2, RelyFrame, Zenon DEF Inv, OnlyMoves, SameButDisabled
<1>3. QED
  BY <1>1, <1>2, Zenon DEF Inv

(* p rewrites the file it has open; it lengthens it only while it has the  *)
(* TS_LOCKEXCL record locked, so that no one else is searching the file,   *)
(* and unless tickets are global, it changes more than the flag            *)
(* TS_DISABLED only in a record that it has locked.                        *)
LEMMA WriteInv ==
  ASSUME Inv, TypeInv', NEW p \in Procs, OnlyMoves(p), Relies(p)', LocksExclusive',
         NEW f \in Seq(Record), proc[p].fd \in Inodes,
         file' = [file EXCEPT ![proc[p].fd] = f],
         Intact(f), Grows(file[proc[p].fd], f),
         Len(f) # Len(file[proc[p].fd]) => proc[p].pc \in Searching,
         \A m \in 2 .. Len(file[proc[p].fd]) :
           \/ SameButDisabled(file[proc[p].fd][m], f[m])
           \/ conf.type = "global"
           \/ <<proc[p].fd, m, p>> \in locks
  PROVE  Inv'
<1>1. ASSUME NEW i \in Inodes PROVE Intact(file'[i])
  BY Zenon DEF Inv, TypeInv, TypeOK
<1>2. ASSUME NEW q \in Procs, q # p PROVE Relies(q)'
  <2>1. proc[q].fd \in Inodes => Grows(file[proc[q].fd], file'[proc[q].fd])
    BY GrowsRefl, Zenon DEF Inv, TypeInv, TypeOK
  <2>2. proc[q].fd \in Inodes /\ proc[q].pc \in Searching =>
          Len(file'[proc[q].fd]) = Len(file[proc[q].fd])
    <3>1. CASE proc[q].fd = proc[p].fd /\ proc[p].pc \in Searching /\ proc[q].pc \in Searching
      <4>1. <<proc[p].fd, 1, p>> \in locks /\ <<proc[p].fd, 1, q>> \in locks
        BY ZenonT(40), <3>1, Zenon DEF Inv, Relies
      <4>2. QED
        BY <1>2, <4>1, Zenon DEF Inv, LocksExclusive
    <3>2. QED
      BY <3>1, Zenon DEF Inv, TypeInv, TypeOK
  <2>3. proc[q].fd \in Inodes /\ InSession(q) /\ conf.type # "global" =>
          SameButDisabled(file[proc[q].fd][proc[q].lpos], file'[proc[q].fd][proc[q].lpos])
    <3>1. CASE proc[q].fd = proc[p].fd /\ InSession(q) /\ conf.type # "global"
      <4>1. <<proc[p].fd, proc[q].lpos, q>> \in locks
        BY ZenonT(40), <3>1, Zenon DEF Inv, Relies
      <4>2. proc[q].lpos \in 2 .. Len(file[proc[p].fd])
        BY ZenonT(40), <3>1, Zenon DEF Inv, Relies, Settled, FirstMatch
      <4>3. <<proc[p].fd, proc[q].lpos, p>> \notin locks
        BY <1>2, <4>1, Zenon DEF Inv, LocksExclusive
      <4>4. file'[proc[q].fd] = f
        BY <3>1, Zenon DEF Inv, TypeInv, TypeOK
      <4>5. QED
        BY <3>1, <4>2, <4>3, <4>4, Zenon
    <3>2. CASE proc[q].fd \in Inodes /\ proc[q].fd # proc[p].fd
      BY <3>2, Zenon DEF Inv, TypeInv, TypeOK, SameButDisabled
    <3>3. QED
      BY <3>1, <3>2, Zenon
  <2>4. QED
    BY <1>2, <2>1, <2>2, <2>3, RelyFrame, Zenon DEF Inv, OnlyMoves
<1>3. QED
  BY <1>1, <1>2, Zenon DEF Inv

LEMMA FewerLocks ==
  ASSUME LocksExclusive, locks' \subseteq locks
  PROVE  LocksExclusive'
BY Zenon DEF LocksExclusive

(* fcntl() grants a lock only if no other process has the record locked.   *)
LEMMA LockGranted ==
  ASSUME Inv, NEW p \in Procs, NEW n, NEW l, LockRecord(p, n, l)
  PROVE  LocksExclusive'
<1>1. \A m \in locks : m[1] = proc[p].fd /\ m[2] = n => m[3] = p
  BY Zenon DEF LockRecord, Blocked, Overlap
<1>2. QED
  BY <1>1 DEF Inv, LocksExclusive, LockRecord

(* Control points at which nothing is relied on.                           *)
LEMMA ReliesOnNothing ==
  ASSUME NEW p \in Procs,
         \/ proc'[p].pc \in {"idle", "open", "unlink", "reopen", "lockexcl",
                             "stopped", "close", "klock"}
         \/ proc'[p].pc \in {"prompt", "approve"} /\ proc'[p].stat = "error"
  PROVE  Relies(p)'
BY Zenon DEF Relies, Searching, Settled, InSession

LEMMA IdleStepInv ==
  ASSUME Inv, TypeInv', NEW p \in Procs, OnlyMoves(p), Relies(p)', locks' \subseteq locks,
         file' = file \/ file' = Kept(file)
  PROVE  Inv'
BY QuietInv, FewerLocks, KeptFiles, Zenon DEF Inv

LEMMA GiveUpEnds ==
  ASSUME TypeInv, NEW p \in Procs, GiveUp(p)
  PROVE  proc'[p].pc = "close" \/ (proc'[p].pc = "prompt" /\ proc'[p].stat = "error")
<1>1. proc[p] \in ProcState /\ proc \in [Procs -> ProcState]
  BY FieldType, Zenon DEF TypeInv, TypeOK
<1>2. CASE proc[p].stat = "none"
  BY <1>1, <1>2, Zenon DEF GiveUp, ProcState
<1>3. CASE proc[p].stat # "none"
  BY <1>1, <1>3, Zenon DEF GiveUp, ProcState
<1>4. QED
  BY <1>2, <1>3, Zenon

(* The keys of a process depend on who runs it and where.                  *)
LEMMA KeySame ==
  ASSUME NEW p, conf' = conf, proc'[p].ses = proc[p].ses, proc'[p].auth = proc[p].auth
  PROVE  LockKey(p)' = LockKey(p) /\ TicketKey(p)' = TicketKey(p)
BY Zenon DEF LockKey, TicketKey, ts_init_key_nonglobal, ts_init_key

LEMMA KeyMatches ==
  ASSUME NEW p
  PROVE  /\ ts_match_record(LockKey(p), LockKey(p))
         /\ ts_match_record(TicketKey(p), TicketKey(p))
         /\ conf.type # "global" => TicketKey(p) = LockKey(p)
         /\ LockKey(p).size = "v2" /\ TicketKey(p).size = "v2"
<1>1. /\ LockKey(p).size = "v2" /\ LockKey(p).type \in {"tty", "ppid"}
      /\ LockKey(p) = [LockKey(p) EXCEPT !.type = LockKey(p).type]
  BY Zenon DEF LockKey, ts_init_key_nonglobal, ts_init_key
<1>2. [LockKey(p) EXCEPT !.type = "global"].size = "v2"
      /\ [LockKey(p) EXCEPT !.type = "global"].type = "global"
  BY Zenon DEF LockKey, ts_init_key_nonglobal, ts_init_key
<1>3. QED
  BY <1>1, <1>2, Zenon DEF TicketKey, ts_match_record, MatchAnyUid

LEMMA InitInv == ASSUME IntactConfigs PROVE Init => Inv
<1> SUFFICES ASSUME Init PROVE Inv
  BY Zenon
<1>1. \A i \in Inodes : Intact(file[i])
  BY DEF Init, IntactConfigs, Intact
<1>2. LocksExclusive
  BY Zenon DEF Init, LocksExclusive
<1>3. ASSUME NEW p \in Procs PROVE Relies(p)
  BY Zenon DEF Init, IdleProc, Relies, Searching, Settled, InSession
<1>4. QED
  BY <1>1, <1>2, <1>3, InitType, Zenon DEF Inv

(***************************************************************************)
(* The steps of a process.                                                 *)
(***************************************************************************)
LEMMA FindRecordInv ==
  ASSUME Inv, TypeInv', NEW p \in Procs, FindRecord(p)
  PROVE  Inv'
<1> DEFINE f == file[proc[p].fd]
           k == LockKey(p)
<1>1. /\ proc[p].fd \in Inodes /\ f \in Seq(Record) /\ proc[p] \in ProcState
      /\ proc \in [Procs -> ProcState]
  BY FieldType, Zenon DEF Inv, FindRecord, Shape, Opened, TypeInv, TypeOK
<1>2. /\ proc[p].off = 2 /\ <<proc[p].fd, 1, p>> \in locks
      /\ f # << >> /\ f[1].type = "lockexcl"
  BY Zenon DEF Inv, Relies, FindRecord, Searching
<1>3. Intact(f)
  BY <1>1, Zenon DEF Inv
<1>4. conf' = conf /\ file' = file
  BY Zenon DEF FindRecord, env, disk
<1>5. PICK m \in 1 .. Len(f) + 1 :
        \/ Found(f, 2, k, m) /\ Settle(p, m)
        \/ /\ NotFound(f, 2, k, m)
           /\ proc' = [proc EXCEPT ![p].pc = "append", ![p].lpos = m]
           /\ UNCHANGED locks
  BY <1>2, Zenon DEF FindRecord
<1>6. CASE Found(f, 2, k, m) /\ Settle(p, m)
  <2>1. FirstMatch(f, k, m)
    BY <1>6, Zenon DEF Found, FirstMatch
  <2>2. OnlyMoves(p) /\ locks' \subseteq locks
    BY <1>4, <1>6, <1>1 DEF Settle, OnlyMoves
  <2>3. /\ proc'[p].fd = proc[p].fd /\ proc'[p].lpos = m
        /\ proc'[p].ses = proc[p].ses /\ proc'[p].auth = proc[p].auth
        /\ \/ /\ conf.type = "global" /\ proc'[p].pc = "findglobal" /\ locks' = locks
           \/ /\ conf.type # "global" /\ proc'[p].pc = "lockrec" /\ proc'[p].pos = m
    BY <1>1, <1>6 DEF Settle, ProcState
  <2>4. LockKey(p)' = k /\ TicketKey(p)' = TicketKey(p)
        /\ (conf.type # "global" => TicketKey(p) = k)
    BY <1>4, <2>3, KeySame, KeyMatches, Zenon
  <2>5. m \in DOMAIN f /\ ts_match_record(k, f[m])
    BY <1>1, <2>1 DEF FirstMatch
  <2> HIDE DEF f, k
  <2>6. Relies(p)'
    BY ZenonT(40), <1>2, <1>4, <2>1, <2>3, <2>4, <2>5, Zenon DEF Relies, Settled, InSession, Searching, f
  <2>7. QED
    BY <1>4, <2>2, <2>6, IdleStepInv, Zenon
<1>7. CASE /\ NotFound(f, 2, k, m)
           /\ proc' = [proc EXCEPT ![p].pc = "append", ![p].lpos = m]
           /\ UNCHANGED locks
  <2>1. m = Len(f) + 1
    BY <1>1, <1>3, <1>7 DEF NotFound, Intact
  <2>2. OnlyMoves(p) /\ locks' = locks
    BY <1>4, <1>7, <1>1, Zenon DEF OnlyMoves
  <2>3. /\ proc'[p].fd = proc[p].fd /\ proc'[p].lpos = m /\ proc'[p].pc = "append"
        /\ proc'[p].ses = proc[p].ses /\ proc'[p].auth = proc[p].auth
    BY <1>1, <1>7, Zenon DEF ProcState
  <2>4. LockKey(p)' = k
    BY <1>4, <2>3, KeySame, Zenon
  <2>5. \A j \in 2 .. Len(f) : ~ ts_match_record(k, f[j])
    BY <1>1, <1>7, <2>1 DEF NotFound
  <2> HIDE DEF f, k
  <2>6. Relies(p)'
    BY <1>2, <1>4, <2>1, <2>2, <2>3, <2>4, <2>5, Zenon DEF Relies, Settled, InSession, Searching, f
  <2>7. QED
    BY <1>4, <2>2, <2>6, IdleStepInv, Zenon
<1>8. QED
  BY <1>5, <1>6, <1>7, Zenon

LEMMA AppendRecordInv ==
  ASSUME Inv, TypeInv', NEW p \in Procs, AppendRecord(p)
  PROVE  Inv'
<1> DEFINE i == proc[p].fd
           f == file[i]
           k == LockKey(p)
           m == proc[p].lpos
           g == ts_write(f, m, k)
<1>1. /\ i \in Inodes /\ f \in Seq(Record) /\ proc[p] \in ProcState
      /\ proc \in [Procs -> ProcState] /\ file \in [Inodes -> Seq(Record)]
  BY FieldType, Zenon DEF Inv, AppendRecord, Shape, Opened, TypeInv, TypeOK
<1>2. /\ proc[p].pc = "append" /\ m = Len(f) + 1 /\ <<i, 1, p>> \in locks
      /\ f # << >> /\ f[1].type = "lockexcl"
      /\ \A j \in 2 .. Len(f) : ~ ts_match_record(k, f[j])
  BY Zenon DEF Inv, Relies, AppendRecord, Searching
<1>3. Intact(f) /\ k \in Record
  BY <1>1, FieldType, ProcKeyType, Zenon DEF Inv, AppendRecord, Shape, TypeInv
<1>4. conf' = conf /\ file' = [file EXCEPT ![i] = g] /\ Settle(p, m)
  BY Zenon DEF AppendRecord, env, Write
<1>5. /\ g \in Seq(Record) /\ Grows(f, g) /\ Len(g) = Len(f) + 1 /\ g[m] = k
      /\ \A j \in DOMAIN f : g[j] = f[j]
  <2> HIDE DEF f, k, m
  <2>1. f \in Seq(Record) /\ k \in Record /\ m = Len(f) + 1
    BY <1>1, <1>2, <1>3
  <2>. m \in Nat
    BY <2>1
  <2>2. QED
    BY <2>1, AppendGrows
<1>6. OnlyMoves(p) /\ locks' \subseteq locks
  BY <1>1, <1>4 DEF Settle, OnlyMoves
<1>7. /\ proc'[p].fd = i /\ proc'[p].lpos = m
      /\ proc'[p].ses = proc[p].ses /\ proc'[p].auth = proc[p].auth
      /\ \/ /\ conf.type = "global" /\ proc'[p].pc = "findglobal" /\ locks' = locks
         \/ /\ conf.type # "global" /\ proc'[p].pc = "lockrec" /\ proc'[p].pos = m
  BY <1>1, <1>4 DEF Settle, ProcState
<1>8. /\ LockKey(p)' = k /\ TicketKey(p)' = TicketKey(p)
      /\ conf.type # "global" => TicketKey(p) = k
      /\ ts_match_record(k, k) /\ k.size = "v2"
  BY <1>4, <1>7, KeySame, KeyMatches, Zenon
<1>9. file'[i] = g
  BY <1>1, <1>4, Zenon
<1>10. Len(f) \in Nat /\ Len(f) > 0 /\ DOMAIN f = 1 .. Len(f) /\ DOMAIN g = 1 .. Len(g)
  BY SMTT(40), <1>1, <1>2, <1>5
<1> HIDE DEF f, k, m, i, g
<1>11. g # << >> /\ g[1].type = "lockexcl"
  BY <1>2, <1>5, <1>10
<1>12. FirstMatch(g, k, m)
  BY <1>2, <1>5, <1>8, <1>10 DEF FirstMatch
<1>13. m \in DOMAIN g /\ ts_match_record(k, g[m])
  BY <1>2, <1>5, <1>8, <1>10
<1>14. Intact(g)
  BY <1>2, <1>3, <1>5, <1>8, <1>10, <1>11 DEF Intact
<1>15. Relies(p)'
  BY <1>2, <1>4, <1>7, <1>8, <1>9, <1>11, <1>12, <1>13, Zenon DEF Relies, Settled, InSession, Searching
<1>16. LocksExclusive'
  BY <1>6, FewerLocks, Zenon DEF Inv
<1>17. proc[p].pc \in Searching
  BY <1>2, Zenon DEF Searching
<1>18. \A j \in 2 .. Len(f) : SameButDisabled(f[j], g[j])
  BY <1>5, <1>10 DEF SameButDisabled
<1>19. QED
  BY ZenonT(40), <1>1, <1>4, <1>5, <1>6, <1>14, <1>15, <1>16, <1>17, <1>18, WriteInv, Zenon DEF i, f

LEMMA FindGlobalInv ==
  ASSUME Inv, TypeInv', NEW p \in Procs, FindGlobal(p)
  PROVE  Inv'
<1> DEFINE f == file[proc[p].fd]
           k == TicketKey(p)
<1>1. /\ proc[p].fd \in Inodes /\ f \in Seq(Record) /\ proc[p] \in ProcState
      /\ proc \in [Procs -> ProcState]
  BY ZenonT(40), FieldType, Zenon DEF Inv, FindGlobal, Shape, Opened, TypeInv, TypeOK
<1>2. /\ <<proc[p].fd, 1, p>> \in locks /\ conf.type = "global"
      /\ f # << >> /\ f[1].type = "lockexcl"
      /\ FirstMatch(f, LockKey(p), proc[p].lpos)
  BY Zenon DEF Inv, Relies, FindGlobal, Searching, Settled
<1>3. Intact(f)
  BY <1>1, Zenon DEF Inv
<1>4. conf' = conf /\ file' = file
  BY Zenon DEF FindGlobal, env, disk
<1>5. PICK m \in 1 .. Len(f) + 1 :
        \/ /\ Found(f, 1, k, m)
           /\ proc' = [proc EXCEPT ![p].pc = "lockrec", ![p].pos = m]
           /\ locks' = locks \ {<<proc[p].fd, 1, p>>}
        \/ /\ NotFound(f, 1, k, m)
           /\ proc' = [proc EXCEPT ![p].pc = "appendglobal", ![p].pos = m]
           /\ UNCHANGED locks
  BY Zenon DEF FindGlobal
<1>6. OnlyMoves(p) /\ locks' \subseteq locks
  BY <1>1, <1>4, <1>5 DEF OnlyMoves
<1>7. /\ proc'[p].fd = proc[p].fd /\ proc'[p].lpos = proc[p].lpos /\ proc'[p].pos = m
      /\ proc'[p].ses = proc[p].ses /\ proc'[p].auth = proc[p].auth
      /\ \/ /\ proc'[p].pc = "lockrec" /\ Found(f, 1, k, m)
         \/ /\ proc'[p].pc = "appendglobal" /\ NotFound(f, 1, k, m) /\ locks' = locks
  BY <1>1, <1>5 DEF ProcState
<1>8. LockKey(p)' = LockKey(p) /\ TicketKey(p)' = k
  BY <1>4, <1>7, KeySame, Zenon
<1>9. Found(f, 1, k, m) => m \in DOMAIN f /\ ts_match_record(k, f[m])
  BY <1>1 DEF Found
<1>10. NotFound(f, 1, k, m) => m = Len(f) + 1
  BY <1>1, <1>3 DEF NotFound, Intact
<1> HIDE DEF f, k
<1>11. Relies(p)'
  BY ZenonT(40), <1>2, <1>4, <1>7, <1>8, <1>9, <1>10, Zenon DEF Relies, Settled, InSession, Searching, f
<1>12. QED
  BY <1>4, <1>6, <1>11, IdleStepInv, Zenon

LEMMA AppendGlobalInv ==
  ASSUME Inv, TypeInv', NEW p \in Procs, AppendGlobal(p)
  PROVE  Inv'
<1> DEFINE i == proc[p].fd
           f == file[i]
           k == TicketKey(p)
           m == proc[p].pos
           g == ts_write(f, m, k)
<1>1. /\ i \in Inodes /\ f \in Seq(Record) /\ proc[p] \in ProcState
      /\ proc \in [Procs -> ProcState] /\ file \in [Inodes -> Seq(Record)]
  BY FieldType, Zenon DEF Inv, AppendGlobal, Shape, Opened, TypeInv, TypeOK
<1>2. /\ proc[p].pc = "appendglobal" /\ m = Len(f) + 1 /\ conf.type = "global"
      /\ f # << >> /\ f[1].type = "lockexcl"
      /\ FirstMatch(f, LockKey(p), proc[p].lpos)
  BY Zenon DEF Inv, Relies, AppendGlobal, Searching, Settled
<1>3. Intact(f) /\ k \in Record
  BY ZenonT(40), <1>1, FieldType, ProcKeyType, Zenon DEF Inv, AppendGlobal, Shape, TypeInv
<1>4. conf' = conf /\ file' = [file EXCEPT ![i] = g]
  BY Zenon DEF AppendGlobal, env, Write
<1>5. /\ g \in Seq(Record) /\ Grows(f, g) /\ Len(g) = Len(f) + 1 /\ g[m] = k
      /\ \A j \in DOMAIN f : g[j] = f[j]
  <2> HIDE DEF f, k, m
  <2>1. f \in Seq(Record) /\ k \in Record /\ m = Len(f) + 1
    BY <1>1, <1>2, <1>3
  <2>. m \in Nat
    BY <2>1
  <2>2. QED
    BY <2>1, AppendGrows
<1>6. OnlyMoves(p) /\ locks' \subseteq locks
  BY <1>1, <1>4 DEF AppendGlobal, Goto, OnlyMoves
<1>7. /\ proc'[p].fd = i /\ proc'[p].lpos = proc[p].lpos /\ proc'[p].pos = m
      /\ proc'[p].ses = proc[p].ses /\ proc'[p].auth = proc[p].auth
      /\ proc'[p].pc = "lockrec"
  BY <1>1, Zenon DEF AppendGlobal, Goto, ProcState
<1>8. /\ LockKey(p)' = LockKey(p) /\ TicketKey(p)' = k
      /\ ts_match_record(k, k) /\ k.size = "v2"
  BY <1>4, <1>7, KeySame, KeyMatches, Zenon
<1>9. file'[i] = g
  BY <1>1, <1>4, Zenon
<1>10. Len(f) \in Nat /\ Len(f) > 0 /\ DOMAIN f = 1 .. Len(f) /\ DOMAIN g = 1 .. Len(g)
  BY SMTT(40), <1>1, <1>2, <1>5
<1>11. FirstMatch(g, LockKey(p), proc[p].lpos)
  BY SMTT(40), <1>1, <1>2, <1>5, FirstMatchGrows
<1> HIDE DEF f, k, m, i, g
<1>12. g # << >> /\ g[1].type = "lockexcl"
  BY <1>2, <1>5, <1>10
<1>13. m \in DOMAIN g /\ ts_match_record(k, g[m])
  BY <1>2, <1>5, <1>8, <1>10
<1>14. Intact(g)
  BY <1>2, <1>3, <1>5, <1>8, <1>10, <1>12 DEF Intact
<1>15. Relies(p)'
  BY <1>2, <1>4, <1>7, <1>8, <1>9, <1>11, <1>12, <1>13, Zenon DEF Relies, Settled, InSession, Searching
<1>16. LocksExclusive'
  BY <1>6, FewerLocks, Zenon DEF Inv
<1>17. proc[p].pc \in Searching
  BY <1>2, Zenon DEF Searching
<1>18. \A j \in 2 .. Len(f) : SameButDisabled(f[j], g[j])
  BY <1>5, <1>10 DEF SameButDisabled
<1>19. QED
  BY ZenonT(40), <1>1, <1>4, <1>5, <1>6, <1>14, <1>15, <1>16, <1>17, <1>18, WriteInv, Zenon DEF i, f

LEMMA ReadFirstInv ==
  ASSUME Inv, TypeInv', NEW p \in Procs, ReadFirst(p)
  PROVE  Inv'
<1> DEFINE i == proc[p].fd
           f == file[i]
           Moved(l, o) == proc' = [proc EXCEPT ![p].pc = l, ![p].off = o]
<1>1. /\ i \in Inodes /\ f \in Seq(Record) /\ proc[p] \in ProcState
      /\ proc \in [Procs -> ProcState] /\ file \in [Inodes -> Seq(Record)]
  BY FieldType, Zenon DEF Inv, ReadFirst, Shape, Opened, TypeInv, TypeOK
<1>2. proc[p].pc = "first" /\ <<i, 1, p>> \in locks /\ Intact(f)
  BY ZenonT(40), <1>1, Zenon DEF Inv, Relies, ReadFirst, Searching
<1>3. conf' = conf /\ locks' = locks /\ LocksExclusive'
  BY FewerLocks, Zenon DEF ReadFirst, env, Inv
<1>4. ASSUME NEW l, NEW o, Moved(l, o)
      PROVE  /\ OnlyMoves(p) /\ proc'[p].fd = i
             /\ proc'[p].pc = l /\ proc'[p].off = o
  BY <1>1, <1>3, <1>4, Zenon DEF OnlyMoves, ProcState
<1>5. CASE FirstRecord(f) = "new"
  <2>1. f = << >>
    BY <1>5, Zenon DEF FirstRecord
  <2>2. Moved("lockwrite", 1) /\ file' = [file EXCEPT ![i] = << >>]
    BY <1>5, Zenon DEF ReadFirst, Write
  <2>3. Grows(f, << >>) /\ Intact(<< >>) /\ file'[i] = << >>
    BY <1>1, <1>2, <2>1, <2>2, GrowsRefl
  <2>. proc'[p].pc = "lockwrite" /\ proc'[p].off = 1 /\ proc'[p].fd = i
    BY ZenonT(40), <1>4, <2>2, Zenon
  <2>4. Relies(p)'
    BY <1>2, <1>3, <2>3, Zenon DEF Relies, Settled, InSession, Searching
  <2>5. \A m \in 2 .. Len(f) : SameButDisabled(f[m], << >>[m])
    BY SMTT(40), <2>1
  <2>6. QED
    BY ZenonT(40), <1>1, <1>3, <1>4, <2>1, <2>2, <2>3, <2>4, <2>5, WriteInv, Zenon
<1>6. CASE FirstRecord(f) = "lock"
  <2>1. f # << >> /\ f[1].type = "lockexcl"
    BY <1>6, Zenon DEF FirstRecord
  <2>2. Moved("find", 2) /\ file' = file
    BY <1>6 DEF ReadFirst
  <2>. proc'[p].pc = "find" /\ proc'[p].off = 2 /\ proc'[p].fd = i /\ file' = file
    BY ZenonT(40), <1>4, <2>2, Zenon
  <2>3. Relies(p)'
    BY <1>2, <1>3, <2>1, Zenon DEF Relies, Settled, InSession, Searching
  <2>4. QED
    BY ZenonT(40), <1>3, <1>4, <2>2, <2>3, IdleStepInv, Zenon
<1>7. CASE FirstRecord(f) = "old"
  <2> DEFINE e == Blank("v1", "lockexcl")
             g == ts_write(f, 1, e)
  <2>1. f # << >> /\ f[1].size = "v1"
    BY <1>7, Zenon DEF FirstRecord
  <2>2. Moved("find", 2) /\ file' = [file EXCEPT ![i] = g]
    BY <1>7, Zenon DEF ReadFirst, Write
  <2>3. e \in Record /\ e.size = "v1" /\ e.type = "lockexcl"
    BY BlankType, Zenon DEF Blank, Types
  <2>4. 1 \in DOMAIN f
    BY <1>1, <2>1
  <2>5. SameId(f[1], e)
    BY <2>1, <2>3, Zenon DEF SameId
  <2> HIDE DEF e
  <2>6. Grows(f, g) /\ Len(g) = Len(f) /\ g \in Seq(Record)
    BY ZenonT(40), <1>1, <2>3, <2>4, <2>5, RewriteGrows, WriteType, Zenon
  <2>7. g # << >> /\ g[1] = e
    BY SMTT(40), <1>1, <2>4 DEF ts_write
  <2>8. Intact(g)
    <3>0. DOMAIN g = DOMAIN f
      BY <1>1, <2>6
    <3>1. \A j \in DOMAIN g : g[j].size # "zero"
      BY ZenonT(40), <3>0, <1>2, <2>6 DEF Intact, Grows, SameId
    <3>2. QED
      BY <2>3, <2>7, <3>1, Zenon DEF Intact
  <2>9. file'[i] = g
    BY <1>1, <2>2
  <2>. proc'[p].pc = "find" /\ proc'[p].off = 2 /\ proc'[p].fd = i
    BY ZenonT(40), <1>4, <2>2, Zenon
  <2>10. Relies(p)'
    BY ZenonT(40), <1>2, <1>3, <2>3, <2>7, <2>9, Zenon DEF Relies, Settled, InSession, Searching
  <2>11. \A m \in 2 .. Len(f) : SameButDisabled(f[m], g[m])
    BY <1>1 DEF ts_write, SameButDisabled
  <2>12. QED
    BY ZenonT(40), <1>1, <1>3, <1>4, <2>2, <2>6, <2>8, <2>10, <2>11, WriteInv, Zenon
<1>8. CASE FirstRecord(f) = "corrupt"
  BY <1>2, <1>8, Zenon DEF FirstRecord, Intact
<1>9. QED
  BY <1>5, <1>6, <1>7, <1>8, Zenon DEF FirstRecord

LEMMA LockWriteInv ==
  ASSUME Inv, TypeInv', NEW p \in Procs, timestamp_lock_write(p)
  PROVE  Inv'
<1> DEFINE i == proc[p].fd
           f == file[i]
           g == ts_write(f, 1, LockRec)
<1>1. /\ i \in Inodes /\ f \in Seq(Record) /\ proc[p] \in ProcState
      /\ proc \in [Procs -> ProcState] /\ file \in [Inodes -> Seq(Record)]
  BY ZenonT(40), FieldType, Zenon DEF Inv, timestamp_lock_write, Shape, Opened, TypeInv, TypeOK
<1>2. /\ proc[p].pc = "lockwrite" /\ <<i, 1, p>> \in locks
      /\ proc[p].off = 1 /\ f = << >>
  BY Zenon DEF Inv, Relies, timestamp_lock_write, Searching
<1>3. conf' = conf /\ locks' = locks /\ LocksExclusive'
  BY FewerLocks, Zenon DEF timestamp_lock_write, env, Inv
<1>4. file' = [file EXCEPT ![i] = g]
  BY <1>2, Zenon DEF timestamp_lock_write, Write
<1>5. /\ OnlyMoves(p) /\ proc'[p].fd = i
      /\ proc'[p].pc = "find" /\ proc'[p].off = 2
  BY <1>1, <1>2, <1>3 DEF timestamp_lock_write, OnlyMoves, ProcState
<1>6. LockRec \in Record /\ LockRec.size = "v2" /\ LockRec.type = "lockexcl"
  BY HoleType, Zenon DEF LockRec, Blank
<1>7. 1 = Len(f) + 1
  BY <1>2
<1> HIDE DEF f
<1>8. g \in Seq(Record) /\ Grows(f, g) /\ Len(g) = 1 /\ g[1] = LockRec
  <2> DEFINE m == 1
  <2>1. f \in Seq(Record) /\ LockRec \in Record /\ m \in Nat /\ m = Len(f) + 1
    BY <1>1, <1>6, <1>7, Zenon DEF f
  <2> HIDE DEF m
  <2>2. LET h == ts_write(f, m, LockRec)
        IN  h \in Seq(Record) /\ Grows(f, h) /\ Len(h) = m /\ h[m] = LockRec
    BY <2>1, AppendGrows
  <2>3. QED
    BY <2>2, Zenon DEF m
<1>9. Intact(g) /\ g # << >>
  BY <1>6, <1>8 DEF Intact
<1>10. file'[i] = g
  BY <1>1, <1>4, Zenon
<1> HIDE DEF g
<1>11. Relies(p)'
  BY ZenonT(40), <1>2, <1>3, <1>5, <1>6, <1>8, <1>9, <1>10, Zenon DEF Relies, Settled, InSession, Searching
<1>12. proc[p].pc \in Searching
  BY <1>2, Zenon DEF Searching
<1>13. \A m \in 2 .. Len(f) : SameButDisabled(f[m], g[m])
  BY <1>7
<1>14. QED
  BY ZenonT(40), <1>1, <1>3, <1>4, <1>5, <1>8, <1>9, <1>11, <1>12, <1>13, WriteInv, Zenon DEF f

(* A write that fails leaves a file with an intact first record as it is.  *)
LEMMA WriteFailInv ==
  ASSUME Inv, TypeInv', NEW p \in Procs, WriteFail(p)
  PROVE  Inv'
<1> DEFINE i == proc[p].fd
           f == file[i]
           at == IF proc[p].pc = "lockwrite" THEN proc[p].off
                 ELSE IF proc[p].pc = "append" THEN proc[p].lpos
                 ELSE proc[p].pos
<1>1. /\ i \in Inodes /\ f \in Seq(Record) /\ proc[p] \in ProcState
      /\ proc \in [Procs -> ProcState] /\ file \in [Inodes -> Seq(Record)]
  BY FieldType, Zenon DEF Inv, WriteFail, Shape, Opened, TypeInv, TypeOK
<1>2. proc[p].pc \in {"lockwrite", "append", "appendglobal"} /\ Relies(p)
  BY Zenon DEF WriteFail, Inv
<1>3. at = Len(f) + 1
  <2>1. CASE proc[p].pc = "lockwrite"
    <3>1. proc[p].off = 1 /\ f = << >>
      BY ZenonT(40), <1>2, <2>1, Zenon DEF Relies
    <3>2. QED
      BY <2>1, <3>1
  <2>2. CASE proc[p].pc = "append"
    BY ZenonT(40), <1>2, <2>2, Zenon DEF Relies
  <2>3. CASE proc[p].pc = "appendglobal"
    BY ZenonT(40), <1>2, <2>3, Zenon DEF Relies
  <2>4. QED
    BY <1>2, <2>1, <2>2, <2>3, Zenon
<1>4. ftruncate(f, at - 1) = f
  <2> HIDE DEF f, at
  <2>1. f \in Seq(Record) /\ at - 1 = Len(f)
    BY <1>1, <1>3 DEF f
  <2>2. f = [j \in 1 .. Len(f) |-> f[j]]
    BY <2>1
  <2>3. QED
    BY <2>1, <2>2 DEF ftruncate
<1>5. file' = file
  BY <1>1, <1>4 DEF WriteFail, Write
<1>6. conf' = conf /\ locks' = locks /\ OnlyMoves(p)
  BY <1>1, Zenon DEF WriteFail, GiveUp, env, OnlyMoves
<1>7. proc'[p].pc = "close" \/ (proc'[p].pc = "prompt" /\ proc'[p].stat = "error")
  BY ZenonT(40), GiveUpEnds, Zenon DEF WriteFail, Inv
<1>8. QED
  BY <1>5, <1>6, <1>7, ReliesOnNothing, IdleStepInv, Zenon

(* The record lock of the session.                                         *)
LEMMA LockSessionInv ==
  ASSUME Inv, TypeInv', NEW p \in Procs, LockSession(p)
  PROVE  Inv'
<1> DEFINE i == proc[p].fd
           n == proc[p].lpos
<1>1. proc[p] \in ProcState /\ proc \in [Procs -> ProcState]
  BY FieldType, Zenon DEF Inv, TypeInv, TypeOK
<1>2. proc[p].pc = "lockrec" /\ Relies(p)
  BY Zenon DEF LockSession, Inv
<1>3. conf' = conf /\ file' = file /\ locks' = locks \cup {<<i, n, p>>} /\ LocksExclusive'
  BY ZenonT(40), LockGranted, Zenon DEF LockSession, LockRecord, env, disk
<1>4. /\ proc'[p].fd = i /\ proc'[p].lpos = n /\ proc'[p].pos = proc[p].pos
      /\ proc'[p].ses = proc[p].ses /\ proc'[p].auth = proc[p].auth
      /\ proc'[p].pc \in {"status", "prompt"}
      /\ proc'[p].pc = "status" => proc'[p].stat = "none"
  BY <1>1, Zenon DEF LockSession, LockRecord, Goto, ProcState
<1>5. OnlyMoves(p)
  BY <1>1, <1>3, Zenon DEF LockSession, LockRecord, Goto, OnlyMoves
<1>6. LockKey(p)' = LockKey(p) /\ TicketKey(p)' = TicketKey(p)
  BY <1>3, <1>4, KeySame, Zenon
<1>7. Relies(p)'
  BY ZenonT(40), <1>2, <1>3, <1>4, <1>6, Zenon DEF Relies, Settled, InSession, Searching
<1>8. QED
  BY <1>3, <1>5, <1>7, QuietInv, KeptFiles, Zenon DEF Inv

(* Steps within the session that change nothing the process relies on.     *)
LEMMA SessionStepInv ==
  ASSUME Inv, TypeInv', NEW p \in Procs, OnlyMoves(p), locks' = locks, file' = file,
         InSession(p) \/ ~ InSession(p)',
         proc'[p].pc \in {"disable", "prompt", "approve", "close"},
         proc'[p].fd = proc[p].fd, proc'[p].lpos = proc[p].lpos,
         proc'[p].pos = proc[p].pos,
         proc'[p].ses = proc[p].ses, proc'[p].auth = proc[p].auth,
         proc'[p].pc = "disable" =>
           /\ proc'[p].stat # "error" /\ ts_match_record(TicketKey(p), proc'[p].seen)
           /\ proc'[p].seen = Disable(file[proc[p].fd][proc[p].pos])
  PROVE  Inv'
<1>1. LockKey(p)' = LockKey(p) /\ TicketKey(p)' = TicketKey(p)
  BY ZenonT(40), KeySame, Zenon DEF OnlyMoves
<1>2. Relies(p)'
  BY ZenonT(40), <1>1 DEF Inv, Relies, OnlyMoves, Settled, InSession, Searching
<1>3. QED
  BY ZenonT(40), <1>2, IdleStepInv, Zenon

LEMMA StatusInv ==
  ASSUME Inv, TypeInv', NEW p \in Procs, timestamp_status(p)
  PROVE  Inv'
<1> DEFINE i == proc[p].fd
           n == proc[p].pos
<1>1. proc[p] \in ProcState /\ proc \in [Procs -> ProcState]
  BY FieldType, Zenon DEF Inv, TypeInv, TypeOK
<1>2. conf' = conf /\ locks' = locks /\ file' = file
  BY Zenon DEF timestamp_status, env, disk
<1>3. /\ proc[p].pc = "status" /\ InSession(p) /\ n \in DOMAIN file[i]
      /\ ts_match_record(TicketKey(p), file[i][n])
  BY Zenon DEF Inv, Relies, InSession, timestamp_status
<1>4. ts_match_record(TicketKey(p), WriteBack(p, file[i][n]))
  <2>1. i \in Inodes /\ file[i] \in Seq(Record)
    BY ZenonT(40), <1>3, FieldType, Zenon DEF Inv, Shape, Opened, TypeInv, TypeOK
  <2>2. file[i][n] \in Record
    <3>1. ASSUME NEW f \in Seq(Record), NEW k \in DOMAIN f PROVE f[k] \in Record
      OBVIOUS
    <3>2. QED
      BY ZenonT(40), <1>3, <2>1, <3>1, Zenon
  <2>3. QED
    BY ZenonT(40), <1>3, <2>2, Zenon DEF WriteBack, Record, ts_match_record, MatchAnyUid
<1>5. ASSUME NEW l \in {"disable", "prompt", "approve"}, NEW st, NEW via, NEW e,
             proc' = [proc EXCEPT ![p] =
               [proc[p] EXCEPT !.pc = l, !.stat = st, !.via = via, !.seen = e]],
             l = "disable" => st = "old" /\ e = WriteBack(p, file[i][n])
      PROVE  Inv'
  <2>1. /\ OnlyMoves(p) /\ proc'[p].fd = i /\ proc'[p].lpos = proc[p].lpos
        /\ proc'[p].pos = n
        /\ proc'[p].ses = proc[p].ses /\ proc'[p].auth = proc[p].auth
        /\ proc'[p].pc = l /\ proc'[p].stat = st /\ proc'[p].seen = e
    BY <1>1, <1>2, <1>5, Zenon DEF OnlyMoves, ProcState
  <2>2. QED
    BY ZenonT(40), <1>2, <1>3, <1>4, <1>5, <2>1, SessionStepInv, Zenon DEF WriteBack, Disable
<1> DEFINE v == IF n \in DOMAIN file[i] THEN Judge(file[i][n], proc[p].ses) ELSE "error"
<1>6. \/ proc' = [proc EXCEPT ![p].pc = "approve", ![p].stat = v, ![p].via = "ticket"]
      \/ proc' = [proc EXCEPT ![p].pc = "prompt", ![p].stat = v]
      \/ proc' = [proc EXCEPT ![p].pc = "disable", ![p].stat = "old",
                              ![p].seen = WriteBack(p, file[i][n])]
  BY Zenon DEF timestamp_status
<1> HIDE DEF v
<1>7. CASE proc' = [proc EXCEPT ![p].pc = "approve", ![p].stat = v, ![p].via = "ticket"]
  <2>1. proc' = [proc EXCEPT ![p] = [proc[p] EXCEPT !.pc = "approve", !.stat = v,
                                        !.via = "ticket", !.seen = proc[p].seen]]
    BY ZenonT(40), <1>1, <1>7, Zenon DEF ProcState
  <2>2. QED
    BY ZenonT(40), <1>5, <2>1, Zenon
<1>8. CASE proc' = [proc EXCEPT ![p].pc = "prompt", ![p].stat = v]
  <2>1. proc' = [proc EXCEPT ![p] = [proc[p] EXCEPT !.pc = "prompt", !.stat = v,
                                        !.via = proc[p].via, !.seen = proc[p].seen]]
    BY ZenonT(40), <1>1, <1>8, Zenon DEF ProcState
  <2>2. QED
    BY ZenonT(40), <1>5, <2>1, Zenon
<1>9. CASE proc' = [proc EXCEPT ![p].pc = "disable", ![p].stat = "old",
                                ![p].seen = WriteBack(p, file[i][n])]
  <2> DEFINE e == WriteBack(p, file[i][n])
  <2> HIDE DEF e
  <2>1. proc' = [proc EXCEPT ![p] = [proc[p] EXCEPT !.pc = "disable", !.stat = "old",
                                        !.via = proc[p].via, !.seen = e]]
    BY ZenonT(40), <1>1, <1>9, Zenon DEF ProcState, e
  <2>2. QED
    BY ZenonT(40), <1>5, <2>1, Zenon DEF e
<1>10. QED
  BY <1>6, <1>7, <1>8, <1>9, Zenon

(* Writing the ticket at its record, as timestamp_update() and             *)
(* timestamp_status() do.                                                  *)
LEMMA TicketWriteGrows ==
  ASSUME Inv, NEW p \in Procs, InSession(p), NEW e \in Record,
         ts_match_record(TicketKey(p), e)
  PROVE  LET f == file[proc[p].fd]
             g == ts_write(f, proc[p].pos, e)
         IN  /\ proc[p].fd \in Inodes /\ f \in Seq(Record) /\ g \in Seq(Record)
             /\ Grows(f, g) /\ Len(g) = Len(f) /\ Intact(g)
             /\ \A j \in 2 .. Len(f) : \/ SameButDisabled(f[j], g[j])
                                       \/ conf.type = "global"
                                       \/ <<proc[p].fd, j, p>> \in locks
<1> DEFINE f == file[proc[p].fd]
           m == proc[p].pos
           g == ts_write(f, m, e)
           k == TicketKey(p)
<1>1. proc[p].fd \in Inodes /\ f \in Seq(Record)
  BY FieldType, Zenon DEF Inv, InSession, Shape, Opened, TypeInv, TypeOK
<1>2. /\ m \in DOMAIN f /\ ts_match_record(k, f[m])
      /\ f # << >> /\ f[1].type = "lockexcl"
  BY Zenon DEF Inv, Relies, Settled
<1>3. SameId(f[m], e) /\ Intact(f)
  BY ZenonT(40), <1>1, <1>2, MatchesSame, Zenon DEF Inv
<1>4. m # 1
  BY <1>2, Zenon DEF ts_match_record, MatchAnyUid
<1>5. m \in Nat
  BY <1>1, <1>2
<1> HIDE DEF f, m, k
<1>6. Grows(f, g) /\ Len(g) = Len(f) /\ g \in Seq(Record)
  BY <1>1, <1>2, <1>3, <1>4, <1>5, RewriteGrows, WriteType, Zenon
<1>7. Intact(g)
  <2>1. \A j \in DOMAIN g : g[j].size # "zero"
    BY <1>1, <1>3, <1>6 DEF Intact, Grows, SameId
  <2>2. g # << >> => g[1].type = "lockexcl"
    BY <1>2, <1>6, Zenon DEF Grows
  <2>3. QED
    BY <2>1, <2>2, Zenon DEF Intact
<1>8. conf.type # "global" => <<proc[p].fd, m, p>> \in locks
  BY Zenon DEF Inv, Relies, m
<1>9. \A j \in 2 .. Len(f) : j # m => g[j] = f[j]
  BY <1>1, <1>2, <1>5 DEF ts_write
<1>10. QED
  BY ZenonT(40), <1>1, <1>6, <1>7, <1>8, <1>9, Zenon DEF f, m, SameButDisabled

LEMMA StatusDisableInv ==
  ASSUME Inv, TypeInv', NEW p \in Procs, StatusDisable(p)
  PROVE  Inv'
<1> DEFINE i == proc[p].fd
           f == file[i]
           e == proc[p].seen
           g == ts_write(f, proc[p].pos, e)
<1>1. /\ proc[p] \in ProcState /\ proc \in [Procs -> ProcState]
      /\ file \in [Inodes -> Seq(Record)] /\ e \in Record
  BY ZenonT(40), FieldType, Zenon DEF Inv, TypeInv, TypeOK
<1>2. /\ conf' = conf /\ locks' = locks /\ LocksExclusive'
      /\ file' = [file EXCEPT ![i] = g] /\ proc[p].pc = "disable"
  BY FewerLocks, Zenon DEF StatusDisable, env, Write, Inv
<1>3. /\ OnlyMoves(p) /\ proc'[p].fd = i /\ proc'[p].lpos = proc[p].lpos
      /\ proc'[p].pos = proc[p].pos /\ proc'[p].stat = proc[p].stat
      /\ proc'[p].ses = proc[p].ses /\ proc'[p].auth = proc[p].auth
      /\ proc'[p].pc = "prompt"
  BY <1>1, <1>2, Zenon DEF StatusDisable, OnlyMoves, ProcState
<1>4. CASE InSession(p)
  <2>1. ts_match_record(TicketKey(p), e) /\ Relies(p)
    BY ZenonT(40), <1>2, Zenon DEF Inv, Relies
  <2>2. /\ i \in Inodes /\ f \in Seq(Record) /\ g \in Seq(Record)
        /\ Grows(f, g) /\ Len(g) = Len(f) /\ Intact(g)
        /\ \A j \in 2 .. Len(f) : \/ SameButDisabled(f[j], g[j])
                                  \/ conf.type = "global"
                                  \/ <<i, j, p>> \in locks
    BY <1>1, <1>4, <2>1, TicketWriteGrows, Zenon
  <2>3. LockKey(p)' = LockKey(p) /\ TicketKey(p)' = TicketKey(p)
    BY <1>2, <1>3, KeySame, Zenon
  <2>4. /\ f # << >> /\ f[1].type = "lockexcl" /\ FirstMatch(f, LockKey(p), proc[p].lpos)
        /\ proc[p].pos \in DOMAIN f /\ ts_match_record(TicketKey(p), f[proc[p].pos])
        /\ conf.type # "global" => proc[p].pos = proc[p].lpos
        /\ <<i, proc[p].lpos, p>> \in locks
    BY ZenonT(40), <1>4, <2>1, Zenon DEF Relies, Settled
  <2> HIDE DEF f, g
  <2>5. /\ g # << >> /\ g[1].type = "lockexcl" /\ FirstMatch(g, LockKey(p), proc[p].lpos)
        /\ proc[p].pos \in DOMAIN g /\ ts_match_record(TicketKey(p), g[proc[p].pos])
    <3>1. FirstMatch(g, LockKey(p), proc[p].lpos)
      BY <2>2, <2>4, FirstMatchGrows, Zenon
    <3>2. DOMAIN f = 1 .. Len(f) /\ DOMAIN g = 1 .. Len(g)
      BY <2>2
    <3>3. ts_match_record(TicketKey(p), g[proc[p].pos])
      BY <2>2, <2>4, SameMatches, Zenon DEF Grows
    <3>4. g # << >> /\ g[1].type = "lockexcl"
      BY <2>2, <2>4 DEF Grows
    <3>5. QED
      BY ZenonT(40), <2>2, <2>4, <3>1, <3>2, <3>3, <3>4, Zenon
  <2>6. file'[i] = g
    BY <1>1, <1>2, <2>2, Zenon DEF g
  <2>7. Relies(p)'
    BY ZenonT(40), <1>2, <1>3, <2>3, <2>4, <2>5, <2>6, Zenon DEF Relies, Settled, InSession, Searching
  <2>8. QED
    BY ZenonT(40), <1>2, <1>3, <2>2, <2>7, WriteInv, Zenon DEF f, g
<1>5. CASE ~ InSession(p)
  <2>1. proc[p].stat = "error"
    BY <1>2, <1>5, Zenon DEF InSession
  <2>2. QED
    BY ZenonT(40), <1>2, <2>1, Zenon DEF Inv, Relies
<1>6. QED
  BY <1>4, <1>5, Zenon

LEMMA UpdateInv ==
  ASSUME Inv, TypeInv', NEW p \in Procs, timestamp_update(p)
  PROVE  Inv'
<1> DEFINE i == proc[p].fd
           f == file[i]
           e == [TicketKey(p) EXCEPT !.disabled = FALSE, !.ts = now]
           g == ts_write(f, proc[p].pos, e)
<1>1. proc[p] \in ProcState /\ proc \in [Procs -> ProcState] /\ now \in Nat
  BY FieldType, Zenon DEF Inv, TypeInv, TypeOK
<1>2. /\ conf' = conf /\ locks' = locks /\ LocksExclusive'
      /\ file' = [file EXCEPT ![i] = g] /\ InSession(p)
  BY FewerLocks, Zenon DEF timestamp_update, env, Write, Inv, InSession
<1>3. OnlyMoves(p) /\ proc'[p].pc = "close"
  BY <1>1, <1>2, Zenon DEF timestamp_update, Goto, OnlyMoves, ProcState
<1>4. TicketKey(p) \in Record
  BY FieldType, ProcKeyType, Zenon DEF Inv, TypeInv, timestamp_update, Shape
<1>5. e \in Record
  BY ZenonT(40), <1>1, <1>4, Zenon DEF Record
<1>6. ts_match_record(TicketKey(p), e)
  BY <1>4, KeyMatches, Zenon DEF Record, ts_match_record, MatchAnyUid
<1> HIDE DEF e
<1>7. /\ i \in Inodes /\ f \in Seq(Record) /\ g \in Seq(Record)
      /\ Grows(f, g) /\ Len(g) = Len(f) /\ Intact(g)
      /\ \A j \in 2 .. Len(f) : \/ SameButDisabled(f[j], g[j])
                                \/ conf.type = "global"
                                \/ <<i, j, p>> \in locks
  BY <1>2, <1>5, <1>6, TicketWriteGrows, Zenon
<1> HIDE DEF g
<1>8. QED
  BY ZenonT(40), <1>2, <1>3, <1>7, ReliesOnNothing, WriteInv, Zenon DEF g

LEMMA RemoveDisableInv ==
  ASSUME Inv, TypeInv', NEW p \in Procs, RemoveDisable(p)
  PROVE  Inv'
<1> DEFINE i == proc[p].fd
           f == file[i]
           hit == {m \in Matching(f, RemoveKey(proc[p].ses)) : ~ f[m].disabled}
           g == [m \in DOMAIN f |-> IF m \in hit THEN [f[m] EXCEPT !.disabled = TRUE]
                                    ELSE f[m]]
<1>1. /\ proc[p] \in ProcState /\ proc \in [Procs -> ProcState] /\ i \in Inodes
      /\ file \in [Inodes -> Seq(Record)] /\ f \in Seq(Record)
  BY FieldType, Zenon DEF Inv, TypeInv, TypeOK, RemoveDisable, Shape, Opened
<1>2. /\ conf' = conf /\ locks' = locks /\ LocksExclusive'
      /\ file' = file \/ file' = [file EXCEPT ![i] = g]
  BY FewerLocks, Zenon DEF RemoveDisable, env, Write, Inv
<1>3. OnlyMoves(p) /\ proc'[p].pc = "close"
  BY <1>1, <1>2, Zenon DEF RemoveDisable, Goto, OnlyMoves, ProcState
<1>4. Relies(p)' /\ Intact(f)
  BY <1>1, <1>3, ReliesOnNothing, Zenon DEF Inv
<1>5. CASE file' = file
  BY <1>2, <1>3, <1>4, <1>5, IdleStepInv, Zenon
<1>6. CASE file' = [file EXCEPT ![i] = g]
  <2> HIDE DEF hit, f
  <2>1. \A j \in DOMAIN f : f[j] \in Record
    BY <1>1
  <2>2. ASSUME NEW d \in Record
        PROVE  LET c == [d EXCEPT !.disabled = TRUE]
               IN  /\ c \in Record /\ SameId(d, c) /\ c.type = d.type /\ c.size = d.size
                   /\ SameButDisabled(d, c)
    BY Zenon DEF Record, SameId, SameButDisabled, Disable
  <2>3. ASSUME NEW d PROVE SameId(d, d) /\ SameButDisabled(d, d)
    BY Zenon DEF SameId, SameButDisabled
  <2>4. \A j \in DOMAIN f : /\ g[j] \in Record /\ SameId(f[j], g[j])
                            /\ SameButDisabled(f[j], g[j])
                            /\ g[j].type = f[j].type /\ g[j].size = f[j].size
    BY <2>1, <2>2, <2>3, Zenon
  <2>5. g \in Seq(Record) /\ Len(g) = Len(f) /\ DOMAIN g = DOMAIN f /\ DOMAIN f = 1 .. Len(f)
    <3>1. g \in [1 .. Len(f) -> Record] /\ DOMAIN f = 1 .. Len(f)
      BY <1>1, <2>4
    <3>2. QED
      BY <1>1, <3>1
  <2> HIDE DEF g
  <2>6. f # << >> <=> g # << >>
    BY <1>1, <2>5
  <2>7. f # << >> => 1 \in DOMAIN f
    BY <1>1
  <2>8. Grows(f, g) /\ Intact(g)
    <3>1. Grows(f, g)
      BY <2>4, <2>5, <2>7 DEF Grows
    <3>2. Intact(g)
      BY <1>4, <2>4, <2>5, <2>6, <2>7, Zenon DEF Intact
    <3>3. QED
      BY <3>1, <3>2, Zenon
  <2>9. QED
    <3>1. \A j \in 2 .. Len(f) : SameButDisabled(f[j], g[j])
      BY <2>4, <2>5
    <3>2. QED
      BY ZenonT(40), <1>1, <1>2, <1>3, <1>4, <1>6, <2>5, <2>8, <3>1, WriteInv, Zenon DEF f
<1>7. QED
  BY <1>2, <1>5, <1>6, Zenon

LEMMA CreateInv ==
  ASSUME Inv, TypeInv', NEW p \in Procs, Create(p), conf' = conf, locks' = locks
  PROVE  Inv'
<1>1. PICK i \in Inodes :
        /\ \A q \in Procs : proc[q].fd # i
        /\ proc' = [proc EXCEPT ![p].pc = "lockexcl", ![p].fd = i, ![p].pos = 0]
        /\ file' = [file EXCEPT ![i] = << >>]
  BY Zenon DEF Create, Write
<1>2. /\ proc[p] \in ProcState /\ proc \in [Procs -> ProcState]
      /\ file \in [Inodes -> Seq(Record)]
  BY FieldType, Zenon DEF Inv, TypeInv, TypeOK
<1>3. OnlyMoves(p) /\ proc'[p].pc = "lockexcl"
  BY <1>1, <1>2, Zenon DEF OnlyMoves, ProcState
<1>4. FilesKept(p)
  BY <1>1, <1>2, Zenon DEF FilesKept
<1>5. QED
  BY <1>3, <1>4, ReliesOnNothing, FewerLocks, QuietInv, Zenon DEF Inv

LEMMA OpenNameInv ==
  ASSUME Inv, TypeInv', NEW p \in Procs, OpenName(p), conf' = conf, locks' = locks
  PROVE  Inv'
<1>1. proc[p] \in ProcState /\ proc \in [Procs -> ProcState] /\ file' = file
  BY FieldType, Zenon DEF Inv, TypeInv, TypeOK, OpenName, disk
<1>2. OnlyMoves(p) /\ proc'[p].pc = "lockexcl"
  BY <1>1, Zenon DEF OpenName, OnlyMoves, ProcState
<1>3. QED
  BY <1>1, <1>2, ReliesOnNothing, IdleStepInv, Zenon

(* Steps that only move to a control point at which nothing is relied on.  *)
LEMMA LeaveInv ==
  ASSUME Inv, TypeInv', NEW p \in Procs, conf' = conf, NEW r,
         proc' = [proc EXCEPT ![p] = r],
         r.pc \in {"idle", "open", "unlink", "reopen", "lockexcl", "stopped",
                   "close", "klock"},
         locks' = locks \/ locks' = LocksWithout(p), file' = file \/ file' = Kept(file)
  PROVE  Inv'
<1>1. proc'[p].pc = r.pc /\ OnlyMoves(p) /\ locks' \subseteq locks
  BY Zenon DEF Inv, TypeInv, TypeOK, OnlyMoves, LocksWithout
<1>2. QED
  BY <1>1, ReliesOnNothing, IdleStepInv, Zenon

LEMMA GotoInv ==
  ASSUME Inv, TypeInv', NEW p \in Procs, conf' = conf, locks' = locks,
         NEW l \in {"open", "unlink", "reopen", "close"}, Goto(p, l),
         file' = file \/ file' = Kept(file)
  PROVE  Inv'
<1> DEFINE r == [proc[p] EXCEPT !.pc = l]
<1>1. r.pc = l /\ proc' = [proc EXCEPT ![p] = r]
  BY FieldType, Zenon DEF Inv, Goto, ProcState
<1> HIDE DEF r
<1>2. QED
  BY ZenonT(40), <1>1, LeaveInv, Zenon

LEMMA GiveUpInv ==
  ASSUME Inv, TypeInv', NEW p \in Procs, conf' = conf, locks' = locks, file' = file,
         GiveUp(p)
  PROVE  Inv'
<1>1. proc \in [Procs -> ProcState]
  BY Zenon DEF Inv, TypeInv, TypeOK
<1>2. OnlyMoves(p)
  BY <1>1, Zenon DEF GiveUp, OnlyMoves
<1>3. Relies(p)'
  BY GiveUpEnds, ReliesOnNothing, Zenon DEF Inv
<1>4. QED
  BY <1>2, <1>3, IdleStepInv, Zenon

LEMMA LockInv ==
  ASSUME Inv, TypeInv', NEW p \in Procs, NEW l \in {"first", "kdisable"},
         LockRecord(p, 1, l)
  PROVE  Inv'
<1>1. proc[p] \in ProcState /\ proc \in [Procs -> ProcState]
  BY FieldType, Zenon DEF Inv, TypeInv, TypeOK
<1>2. /\ conf' = conf /\ file' = file /\ LocksExclusive'
      /\ locks' = locks \cup {<<proc[p].fd, 1, p>>}
  BY LockGranted, Zenon DEF LockRecord, env, disk
<1>3. OnlyMoves(p) /\ proc'[p].pc = l /\ proc'[p].fd = proc[p].fd
  BY <1>1, <1>2, Zenon DEF LockRecord, Goto, OnlyMoves, ProcState
<1>4. Relies(p)'
  BY ZenonT(40), <1>2, <1>3, Zenon DEF Relies, Settled, InSession, Searching
<1>5. QED
  BY ZenonT(40), <1>2, <1>3, <1>4, QuietInv, KeptFiles, Zenon DEF Inv

LEMMA StartInv ==
  ASSUME Inv, TypeInv', NEW p \in Procs, NEW s, NEW a, NEW st \in ProcState,
         \/ st.pc = "open"
         \/ st.pc \in {"prompt", "approve"} /\ st.stat = "error",
         Start(p, s, a, st)
  PROVE  Inv'
<1>1. /\ conf' = conf /\ file' = file /\ locks' = locks
      /\ proc \in [Procs -> ProcState]
  BY Zenon DEF Start, disk, Inv, TypeInv, TypeOK
<1>2. OnlyMoves(p) /\ proc'[p].pc = st.pc /\ proc'[p].stat = st.stat
  BY <1>1, Zenon DEF Start, OnlyMoves, ProcState
<1>3. QED
  BY ZenonT(40), <1>1, <1>2, ReliesOnNothing, IdleStepInv, Zenon

(* A step of no process: what is open stays as it is.                      *)
LEMMA EnvInv ==
  ASSUME Inv, TypeInv', conf' = conf, proc' = proc, locks' = locks,
         file' = file \/ file' = Kept(file)
  PROVE  Inv'
<1>1. ASSUME NEW q \in Procs PROVE Relies(q)'
  <2>1. proc[q].fd \in Inodes => file'[proc[q].fd] = file[proc[q].fd]
    BY Zenon DEF Kept
  <2>2. proc[q].fd \in Inodes => Grows(file[proc[q].fd], file'[proc[q].fd])
    BY <2>1, GrowsRefl, Zenon DEF Inv, TypeInv, TypeOK
  <2>3. QED
    BY <2>1, <2>2, RelyFrame, Zenon DEF Inv, SameButDisabled
<1>2. ASSUME NEW i \in Inodes PROVE Intact(file'[i])
  <2>1. file'[i] = file[i] \/ file'[i] = << >>
    BY Zenon DEF Kept
  <2>2. QED
    BY <2>1 DEF Inv, Intact
<1>3. LocksExclusive'
  BY FewerLocks, Zenon DEF Inv
<1>4. QED
  BY <1>1, <1>2, <1>3, Zenon DEF Inv

LEMMA InvStep == Inv /\ [Next]_vars => Inv'
<1> SUFFICES ASSUME Inv, [Next]_vars PROVE Inv'
  BY Zenon
<1>0. TypeInv'
  BY TypeStep, Zenon DEF Inv
<1> USE <1>0
<1>1. ASSUME NEW p \in Procs, timestamp_open(p) PROVE Inv'
  BY <1>1, CreateInv, OpenNameInv, GiveUpInv, GotoInv, Zenon DEF timestamp_open, env, disk
<1>2. ASSUME NEW p \in Procs, OpenUnlink(p) PROVE Inv'
  BY <1>2, GotoInv, Zenon DEF OpenUnlink, env
<1>3. ASSUME NEW p \in Procs, OpenRetry(p) PROVE Inv'
  BY <1>3, CreateInv, OpenNameInv, Zenon DEF OpenRetry, env
<1>4. ASSUME NEW p \in Procs, LockExcl(p) PROVE Inv'
  BY <1>4, LockInv, Zenon DEF LockExcl
<1>5. ASSUME NEW p \in Procs, Authenticate(p) PROVE Inv'
  <2>1. /\ proc[p] \in ProcState /\ proc \in [Procs -> ProcState]
        /\ conf' = conf /\ file' = file /\ locks' = locks
    BY <1>5, FieldType, Zenon DEF Inv, TypeInv, TypeOK, Authenticate, env, disk
  <2>2. /\ OnlyMoves(p) /\ proc'[p].fd = proc[p].fd /\ proc'[p].lpos = proc[p].lpos
        /\ proc'[p].pos = proc[p].pos /\ proc'[p].stat = proc[p].stat
        /\ proc'[p].ses = proc[p].ses /\ proc'[p].auth = proc[p].auth
        /\ proc'[p].pc = "approve" /\ proc[p].pc = "prompt"
    BY <1>5, <2>1, Zenon DEF Authenticate, OnlyMoves, ProcState
  <2>3. InSession(p) \/ ~ InSession(p)'
    BY <2>2, Zenon DEF InSession
  <2>4. QED
    BY ZenonT(40), <2>1, <2>2, <2>3, SessionStepInv, Zenon
<1>6. ASSUME NEW p \in Procs, AuthFail(p) \/ NoUpdate(p) \/ RemoveLockFail(p) PROVE Inv'
  BY <1>6, GotoInv, Zenon DEF AuthFail, NoUpdate, RemoveLockFail, env, disk
<1>7. ASSUME NEW p \in Procs, timestamp_close(p) \/ Kill(p) PROVE Inv'
  <2>1. IdleProc.pc = "idle"
    BY Zenon DEF IdleProc
  <2>2. QED
    BY <1>7, <2>1, LeaveInv, Zenon DEF timestamp_close, Kill, Exit, env
<1>8. ASSUME NEW p \in Procs, RemoveLock(p) PROVE Inv'
  BY <1>8, LockInv, Zenon DEF RemoveLock
<1>9. ASSUME NEW p \in Procs, OpenFail(p) \/ LockFail(p) PROVE Inv'
  BY <1>9, GiveUpInv, Zenon DEF OpenFail, LockFail, env, disk
<1>10. ASSUME NEW p \in Procs, Run(p) \/ Fail(p) PROVE Inv'
  BY <1>1, <1>2, <1>3, <1>4, <1>5, <1>6, <1>7, <1>8, <1>9, <1>10, ReadFirstInv,
     LockWriteInv, FindRecordInv, AppendRecordInv, FindGlobalInv, AppendGlobalInv,
     LockSessionInv, StatusInv, StatusDisableInv, UpdateInv, RemoveDisableInv,
     WriteFailInv, Zenon DEF Run, Fail
<1>11. ASSUME NEW p \in Procs, getpass_suspend(p) PROVE Inv'
  <2> DEFINE r == [proc[p] EXCEPT !.pc = "stopped", !.fd = None, !.off = 0,
                                  !.lpos = 0, !.pos = 0]
  <2>1. r.pc = "stopped" /\ proc' = [proc EXCEPT ![p] = r]
    BY ZenonT(40), <1>11, FieldType, Zenon DEF Inv, getpass_suspend, ProcState
  <2> HIDE DEF r
  <2>2. QED
    BY ZenonT(40), <1>11, <2>1, LeaveInv, Zenon DEF getpass_suspend
<1>12. ASSUME NEW p \in Procs, getpass_resume(p) PROVE Inv'
  BY ZenonT(40), <1>12, GotoInv, Zenon DEF getpass_resume, env, disk
<1>13. ASSUME NEW p \in Procs, NEW s, RemoveOpen(p, s) PROVE Inv'
  <2> DEFINE r == [IdleProc EXCEPT !.pc = "klock", !.ses = s, !.fd = name]
  <2>1. r.pc = "klock" /\ proc' = [proc EXCEPT ![p] = r]
    BY <1>13, Zenon DEF RemoveOpen, IdleProc
  <2> HIDE DEF r
  <2>2. QED
    BY ZenonT(40), <1>13, <2>1, LeaveInv, Zenon DEF RemoveOpen, disk
<1>14. ASSUME NEW p \in Procs, NEW s, NEW a, CheckUser(p, s, a) PROVE Inv'
  <2> DEFINE r == [IdleProc EXCEPT !.pc = "open"]
  <2>1. r \in ProcState /\ r.pc = "open"
    BY HoleType, Zenon DEF IdleProc, ProcState, PCs
  <2> HIDE DEF r
  <2>2. QED
    BY ZenonT(40), <1>14, <2>1, StartInv, Zenon DEF CheckUser, r
<1>15. ASSUME NEW p \in Procs, NEW s, NEW a, CheckUserExempt(p, s, a) PROVE Inv'
  <2> DEFINE r == [IdleProc EXCEPT !.pc = "approve", !.stat = "error", !.via = "exempt"]
  <2>1. r \in ProcState /\ r.pc = "approve" /\ r.stat = "error"
    BY ZenonT(40), HoleType, Zenon DEF IdleProc, ProcState, PCs
  <2> HIDE DEF r
  <2>2. QED
    BY ZenonT(40), <1>15, <2>1, StartInv, Zenon DEF CheckUserExempt, r
<1>16. ASSUME NEW p \in Procs, NEW s, NEW a, CheckUserIgnoreTicket(p, s, a) PROVE Inv'
  <2> DEFINE r == [IdleProc EXCEPT !.pc = "prompt", !.stat = "error"]
  <2>1. r \in ProcState /\ r.pc = "prompt" /\ r.stat = "error"
    BY ZenonT(40), HoleType, Zenon DEF IdleProc, ProcState, PCs
  <2> HIDE DEF r
  <2>2. QED
    BY ZenonT(40), <1>16, <2>1, StartInv, Zenon DEF CheckUserIgnoreTicket, r
<1>17. ASSUME NEW p \in Procs, User(p) PROVE Inv'
  BY ZenonT(40), <1>11, <1>12, <1>13, <1>14, <1>15, <1>16, <1>17, Zenon DEF User
<1>18. CASE RemoveUnlink \/ Tick \/ UNCHANGED vars
  BY <1>18, EnvInv, Zenon DEF RemoveUnlink, Tick, vars, disk
<1>19. CASE Reboot
  <2>1. ASSUME NEW q \in Procs PROVE Relies(q)'
    BY <1>19, ReliesOnNothing, Zenon DEF Reboot, IdleProc
  <2>2. ASSUME NEW i \in Inodes PROVE Intact(file'[i])
    <3>1. file'[i] = file[i] \/ file'[i] = << >>
      BY <1>19, Zenon DEF Reboot, Kept
    <3>2. Intact(file[i])
      BY Zenon DEF Inv
    <3>3. Intact(<< >>)
      BY DEF Intact
    <3>4. QED
      BY ZenonT(40), <3>1, <3>2, <3>3, Zenon
  <2>3. LocksExclusive'
    BY <1>19, Zenon DEF Reboot, LocksExclusive
  <2>4. QED
    BY <2>1, <2>2, <2>3, Zenon DEF Inv
<1>20. QED
  BY <1>10, <1>17, <1>18, <1>19, Zenon DEF Next

(***************************************************************************)
(* Results, for configurations whose time stamp file starts out intact.    *)
(***************************************************************************)
(* The invariant behind the results: what each sudo process relies on      *)
(* between two of its steps in timestamp_lock() and after it stays true    *)
(* whatever the other processes do.                                        *)
THEOREM LockingInvariant == ASSUME IntactConfigs PROVE Spec => []Inv
<1>1. Init => Inv
  BY InitInv, Zenon
<1>2. QED
  BY <1>1, InvStep, PTL DEF Spec

(* Two sudo processes of one terminal (or parent) and auth user that have  *)
(* the same time stamp file open are never both between timestamp_lock()   *)
(* and timestamp_close(), however many there are and whatever fails.       *)
THEOREM OneProcessPerSession == ASSUME IntactConfigs PROVE Spec => []SessionExclusion
<1>1. Inv => SessionExclusion
  <2> SUFFICES ASSUME Inv, NEW p \in Procs, NEW q \in Procs, p # q,
                      InSession(p), InSession(q), proc[p].fd = proc[q].fd,
                      LockKey(p) = LockKey(q)
               PROVE  FALSE
    BY Zenon DEF SessionExclusion
  <2> DEFINE f == file[proc[p].fd]
  <2>1. /\ FirstMatch(f, LockKey(p), proc[p].lpos) /\ <<proc[p].fd, proc[p].lpos, p>> \in locks
        /\ FirstMatch(f, LockKey(p), proc[q].lpos) /\ <<proc[p].fd, proc[q].lpos, q>> \in locks
    BY Zenon DEF Inv, Relies, Settled
  <2>2. proc[p].lpos \in Nat /\ proc[q].lpos \in Nat
    BY ZenonT(40), FieldType, Zenon DEF Inv
  <2> HIDE DEF f
  <2>3. proc[p].lpos = proc[q].lpos
    BY <2>1, <2>2, FirstMatchUnique, Zenon
  <2>4. QED
    BY <2>1, <2>3, Zenon DEF Inv, LocksExclusive
<1>2. QED
  BY <1>1, LockingInvariant, PTL

(* cookie->pos is never stale: the record timestamp_lock() settled on is   *)
(* still this session's record when timestamp_status() reads it and when   *)
(* timestamp_update() writes it.                                           *)
THEOREM PositionStable == ASSUME IntactConfigs PROVE Spec => []TicketPositionStable
<1>1. Inv => TicketPositionStable
  BY Zenon DEF Inv, Relies, TicketPositionStable
<1>2. QED
  BY <1>1, LockingInvariant, PTL

(* While a sudo uses the file, its first record is the TS_LOCKEXCL record  *)
(* that timestamp_lock() serialises on.                                    *)
THEOREM LockRecordFirst == ASSUME IntactConfigs PROVE Spec => []FirstRecordIsLock
<1>1. Inv => FirstRecordIsLock
  BY Zenon DEF Inv, Relies, Settled, FirstRecordIsLock
<1>2. QED
  BY <1>1, LockingInvariant, PTL

(* A ticket from the future that timestamp_status() writes back to disable *)
(* it is still what the file holds at that moment: no renewal by another   *)
(* sudo is lost, unless tickets are global.                                *)
THEOREM NoLostRenewal == ASSUME IntactConfigs PROVE Spec => []WriteBackNotStale
<1>1. Inv => WriteBackNotStale
  <2> SUFFICES ASSUME Inv, NEW p \in Procs, proc[p].pc = "disable", conf.type # "global"
               PROVE  Disable(file[proc[p].fd][proc[p].pos]) = proc[p].seen
    BY Zenon DEF WriteBackNotStale, Disable
  <2>1. InSession(p)
    BY Zenon DEF Inv, Relies, InSession
  <2>2. QED
    BY ZenonT(40), <2>1, Zenon DEF Inv, Relies
<1>2. QED
  BY <1>1, LockingInvariant, PTL
=============================================================================
