------------------------------ MODULE Timestamp ------------------------------
(***************************************************************************)
(* The credential cache of the sudoers policy (plugins/sudoers/timestamp.c)*)
(* together with its only clients: check_user() in check.c and the         *)
(* suspend and resume callbacks of the password prompt in                  *)
(* auth/sudo_auth.c.                                                       *)
(*                                                                         *)
(* One time stamp file belongs to one invoking user.  Any number of sudo   *)
(* processes of that user share it through POSIX record locks: the first   *)
(* record (TS_LOCKEXCL) serialises the search for, and the appending of,   *)
(* records; the lock of a tty or ppid record is then held while the user   *)
(* is authenticated.  "sudo -k" disables records, "sudo -K" and the boot   *)
(* time check unlink the file, and a reboot restarts the monotonic clock.  *)
(*                                                                         *)
(* A file is a sequence of records.  The field size stands for the pair    *)
(* (version, size) of the C structure: "v2" is the current format, "v1"    *)
(* the shorter one of older versions, "zero" the bytes of a hole.          *)
(***************************************************************************)
EXTENDS Integers, Sequences, FiniteSets

CONSTANTS
  Procs,     \* process slots; a slot is reused by later sudo processes
  Inodes,    \* inodes of the file system that holds the time stamp dir
  Sessions,  \* where sudo is run: [tty, start, ppid, pstart, sid]
  Auths,     \* the users to authenticate as (see get_authpw)
  NoTty,     \* the value NODEV of ctx->user.ttydev
  None,      \* no inode: a missing name, a closed descriptor
  Configs,   \* configurations to consider, see conf
  MaxRuns,   \* bound: sudo processes started and prompts suspended
  MaxClock   \* bound: value of the monotonic clock

VARIABLES
  conf,    \* settings of sudoers and of the machine, fixed at the start:
           \*   type, timeout: def_timestamp_type and def_timestamp_timeout
           \*     (0 disables the file, a negative one never expires)
           \*   users: the sessions and auth users sudo is run with
           \*   bootKnown: get_boottime() works
           \*   faults: system calls may fail, processes may be killed
           \*   file: contents of the time stamp file at the start
           \*   reboots: bound, number of reboots
  name,    \* inode the user's time stamp file name refers to, or None
  file,    \* contents of each inode, a sequence of records
  mtime,   \* boot during which each inode was last written
  locks,   \* POSIX record locks held: <<inode, record, process>>
  proc,    \* the local state of each process, see ProcState
  boot,    \* number of the current boot
  now,     \* CLOCK_MONOTONIC, which starts again at every boot
  runs,    \* processes started so far
  proven,  \* history: when each scope's ticket was last written this boot
  revoked  \* history: scopes disabled by "sudo -k" since a password was given

Never == -1

Types == {"global", "tty", "ppid", "lockexcl", "bad", "none"}
Devs  == {s.tty : s \in Sessions} \cup {s.ppid : s \in Sessions} \cup {None}
Times == {s.start : s \in Sessions} \cup {s.pstart : s \in Sessions} \cup {None}
Sids  == {s.sid : s \in Sessions} \cup {None}

Record == [size : {"v2", "v1", "zero"}, type : Types, disabled : BOOLEAN,
           auth : Auths \cup {None}, sid : Sids, start : Times, dev : Devs,
           ts : Nat]

Config == [type : {"tty", "ppid", "global"}, timeout : Int, bootKnown : BOOLEAN,
           users : SUBSET (Sessions \X Auths), faults : BOOLEAN,
           file : Seq(Record), reboots : Nat]

ASSUME ConstantsAssumption == None \notin Inodes /\ Configs \subseteq Config

vars == <<conf, name, file, mtime, locks, proc, boot, now, runs, proven, revoked>>
disk == <<name, file, mtime>>
env  == <<conf, boot, now, runs>>
hist == <<proven, revoked>>

(***************************************************************************)
(* Records.                                                                *)
(***************************************************************************)
Blank(sz, ty) == [size |-> sz, type |-> ty, disabled |-> FALSE, auth |-> None,
                  sid |-> None, start |-> None, dev |-> None, ts |-> 0]

Hole == Blank("zero", "none")

(* What timestamp_lock_write() writes.                                     *)
LockRec == Blank("v2", "lockexcl")

(* ts_init_key(): the key of session s for a record of the given type;     *)
(* without a terminal a tty key becomes a ppid key.                        *)
ts_init_key(s, a, type) ==
  LET Key(t, d, st) == [size |-> "v2", type |-> t, disabled |-> TRUE, auth |-> a,
                        sid |-> s.sid, start |-> st, dev |-> d, ts |-> 0]
  IN  IF type = "global" THEN Key("global", None, None)
      ELSE IF type = "tty" /\ s.tty # NoTty THEN Key("tty", s.tty, s.start)
      ELSE Key("ppid", s.ppid, s.pstart)

ts_init_key_nonglobal(s, a) ==
  ts_init_key(s, a, IF conf.type = "ppid" THEN "ppid" ELSE "tty")

(* The same record, whoever authenticated: the comparison that "sudo -k"   *)
(* makes with TS_ANYUID set.                                               *)
MatchAnyUid(k, e) ==
  /\ e.size = "v2"
  /\ e.type = k.type
  /\ e.type \in {"global", "tty", "ppid"}
  /\ e.type # "global" => e.dev = k.dev /\ e.start = k.start

ts_match_record(k, e) == MatchAnyUid(k, e) /\ e.auth = k.auth

(* ts_find_record() reads from record n on and gives up at a zero-sized    *)
(* record; the caller then writes the missing record where it stopped.     *)
Scanned(f, n, m) == \A j \in n .. m - 1 : f[j].size # "zero"

Found(f, n, k, m) ==
  /\ m \in n .. Len(f) /\ Scanned(f, n, m)
  /\ ts_match_record(k, f[m])
  /\ \A j \in n .. m - 1 : ~ ts_match_record(k, f[j])

NotFound(f, n, k, m) ==
  /\ m \in n .. Len(f) + 1 /\ Scanned(f, n, m)
  /\ m \in DOMAIN f => f[m].size = "zero"
  /\ \A j \in n .. m - 1 : ~ ts_match_record(k, f[j])

(* ts_write() of e at record m; writing past the end leaves a hole.        *)
ts_write(f, m, e) ==
  [j \in 1 .. (IF m > Len(f) THEN m ELSE Len(f)) |->
     IF j = m THEN e ELSE IF j <= Len(f) THEN f[j] ELSE Hole]

(* ftruncate() to m records, which may also extend the file.               *)
ftruncate(f, m) == [j \in 1 .. m |-> IF j <= Len(f) THEN f[j] ELSE Hole]

(* What timestamp_lock() makes of the first record: an older record is     *)
(* converted in place, anything unknown is overwritten.                    *)
FirstRecord(f) ==
  IF f = << >> THEN "new"
  ELSE IF f[1].type = "lockexcl" THEN "lock"
  ELSE IF f[1].size = "v1" THEN "old"
  ELSE "corrupt"

(***************************************************************************)
(* Processes.  off is the file offset between two steps of timestamp_lock, *)
(* lpos the record that is locked for the session and pos the one that     *)
(* holds the ticket (0 stands for -1).  stat and via are the variables     *)
(* status and ret of check_user: how far it got and what authenticated the *)
(* user.  seen is the entry timestamp_status() is about to disable.        *)
(***************************************************************************)
PCs == {"idle", "open", "unlink", "reopen", "lockexcl", "first", "lockwrite",
        "find", "append", "findglobal", "appendglobal", "lockrec", "status",
        "disable", "prompt", "stopped", "approve", "close", "klock", "kdisable"}

ProcState ==
  [pc : PCs, ses : Sessions \cup {None}, auth : Auths \cup {None},
   fd : Inodes \cup {None}, off : Nat, lpos : Nat, pos : Nat,
   stat : {"none", "current", "old", "error"},
   via : {"none", "ticket", "password", "exempt"}, seen : Record]

IdleProc == [pc |-> "idle", ses |-> None, auth |-> None, fd |-> None,
             off |-> 0, lpos |-> 0, pos |-> 0, stat |-> "none",
             via |-> "none", seen |-> Hole]

(* cookie->key, before and after timestamp_lock() makes it a global key.   *)
LockKey(p)   == ts_init_key_nonglobal(proc[p].ses, proc[p].auth)
TicketKey(p) == IF conf.type = "global"
                THEN [LockKey(p) EXCEPT !.type = "global"]
                ELSE LockKey(p)

(* What a ticket is for: a user to authenticate as and, unless tickets are *)
(* global, a terminal (or parent) and a session.                           *)
Scope(s, a) ==
  LET k == ts_init_key(s, a, conf.type)
  IN  IF k.type = "global" THEN [k EXCEPT !.sid = None] ELSE k
Scopes == {Scope(u[1], u[2]) : u \in conf.users}

(***************************************************************************)
(* The kernel: record locks and open files.                                *)
(***************************************************************************)
(* Every lock covers as many bytes as a current record.  A shorter first   *)
(* record leaves the second one within the first one's lock.               *)
Overlap(i, m, n) ==
  \/ m = n
  \/ {m, n} = {1, 2} /\ Len(file[i]) > 0 /\ file[i][1].size = "v1"

Blocked(p, i, n) ==
  \E l \in locks : l[1] = i /\ l[3] # p /\ Overlap(i, l[2], n)

(* Closing any descriptor of a file drops all of the process's locks.      *)
LocksWithout(p) == {l \in locks : l[3] # p}

(* An inode with neither a name nor a descriptor is freed.                 *)
Kept(f) == [i \in Inodes |->
              IF i = name' \/ \E q \in Procs : proc'[q].fd = i
              THEN f[i] ELSE << >>]

Goto(p, l) == proc' = [proc EXCEPT ![p].pc = l]

Write(i, f) == /\ file' = [file EXCEPT ![i] = f]
               /\ mtime' = [mtime EXCEPT ![i] = boot]

(* check_user() goes on to the prompt when the file cannot be used;        *)
(* getpass_resume() makes the prompt fail instead.                         *)
GiveUp(p) == proc' = [proc EXCEPT
  ![p].pc   = IF proc[p].stat = "none" THEN "prompt" ELSE "close",
  ![p].stat = IF proc[p].stat = "none" THEN "error" ELSE @]

Init ==
  /\ conf \in Configs
  /\ name \in Inodes \cup {None}
  /\ file = [i \in Inodes |-> IF i = name THEN conf.file ELSE << >>]
  /\ mtime = [i \in Inodes |-> 0]
  /\ locks = {}
  /\ proc = [p \in Procs |-> IdleProc]
  /\ boot = 0 /\ now = 0 /\ runs = 0
  /\ proven = [c \in Scopes |-> Never]
  /\ revoked = [c \in Scopes |-> "no"]

(***************************************************************************)
(* check_user(), up to timestamp_open().                                   *)
(***************************************************************************)
Start(p, s, a, st) ==
  /\ proc[p].pc = "idle" /\ runs < MaxRuns
  /\ proc' = [proc EXCEPT ![p] = [st EXCEPT !.ses = s, !.auth = a]]
  /\ runs' = runs + 1
  /\ UNCHANGED <<disk, locks, conf, boot, now, hist>>

CheckUser(p, s, a) == Start(p, s, a, [IdleProc EXCEPT !.pc = "open"])

(* The user need not authenticate: NOPASSWD, an exempt group, root, or     *)
(* running a command as oneself.                                           *)
CheckUserExempt(p, s, a) ==
  Start(p, s, a, [IdleProc EXCEPT !.pc = "approve", !.stat = "error",
                                  !.via = "exempt"])

(* MODE_IGNORE_TICKET: "sudo -k command".                                  *)
CheckUserIgnoreTicket(p, s, a) ==
  Start(p, s, a, [IdleProc EXCEPT !.pc = "prompt", !.stat = "error"])

(***************************************************************************)
(* timestamp_open().  The boot time check is made on the first try only,   *)
(* and the file it unlinks is found by name a second time.                 *)
(***************************************************************************)
Stale(i) == conf.bootKnown /\ mtime[i] < boot

OpenName(p) ==
  /\ proc' = [proc EXCEPT ![p].pc = "lockexcl", ![p].fd = name, ![p].pos = 0]
  /\ UNCHANGED disk

Create(p) ==
  \E i \in Inodes :
    /\ \A q \in Procs : proc[q].fd # i
    /\ name' = i
    /\ proc' = [proc EXCEPT ![p].pc = "lockexcl", ![p].fd = i, ![p].pos = 0]
    /\ Write(i, << >>)

timestamp_open(p) ==
  /\ proc[p].pc = "open"
  /\ \/ conf.timeout = 0 /\ GiveUp(p) /\ UNCHANGED disk
     \/ conf.timeout # 0 /\ name = None /\ Create(p)
     \/ /\ conf.timeout # 0 /\ name # None /\ Stale(name)
        /\ Goto(p, "unlink") /\ UNCHANGED disk
     \/ conf.timeout # 0 /\ name # None /\ ~ Stale(name) /\ OpenName(p)
  /\ UNCHANGED <<locks, env, hist>>

OpenUnlink(p) ==
  /\ proc[p].pc = "unlink"
  /\ name' = None
  /\ Goto(p, "reopen")
  /\ file' = Kept(file)
  /\ UNCHANGED <<mtime, locks, env, hist>>

OpenRetry(p) ==
  /\ proc[p].pc = "reopen"
  /\ IF name = None THEN Create(p) ELSE OpenName(p)
  /\ UNCHANGED <<locks, env, hist>>

OpenFail(p) ==
  /\ conf.faults /\ proc[p].pc \in {"open", "reopen"}
  /\ GiveUp(p)
  /\ UNCHANGED <<disk, locks, env, hist>>

(***************************************************************************)
(* timestamp_lock().  A failure after the first record was locked leaves   *)
(* that lock in place until the file is closed.                            *)
(***************************************************************************)
LockRecord(p, n, l) ==
  /\ ~ Blocked(p, proc[p].fd, n)
  /\ locks' = locks \cup {<<proc[p].fd, n, p>>}
  /\ Goto(p, l)
  /\ UNCHANGED <<disk, env, hist>>

LockExcl_NoWait(p) ==
  /\ proc[p].pc = "lockexcl"
  /\ Goto(p, "first")
  /\ UNCHANGED <<disk, locks, env, hist>>
LockExcl(p) == proc[p].pc = "lockexcl" /\ LockRecord(p, 1, "first")

(* Make sure that the first record is the lock record.  When the file is   *)
(* overwritten the offset stays behind whatever was read.                  *)
ReadFirst(p) ==
  LET i == proc[p].fd
      f == file[i]
      Move(l, o) == proc' = [proc EXCEPT ![p].pc = l, ![p].off = o]
  IN  /\ proc[p].pc = "first"
      /\ \/ /\ FirstRecord(f) = "new"
            /\ Move("lockwrite", 1) /\ Write(i, << >>)
         \/ /\ FirstRecord(f) = "lock"
            /\ Move("find", 2) /\ UNCHANGED <<file, mtime>>
         \/ /\ FirstRecord(f) = "old"
            /\ Move("find", 2)
            /\ Write(i, ts_write(f, 1, Blank("v1", "lockexcl")))
         \/ /\ FirstRecord(f) = "corrupt"
            /\ Move("lockwrite", 2) /\ Write(i, << >>)
      /\ UNCHANGED <<name, locks, env, hist>>

timestamp_lock_write(p) ==
  LET i == proc[p].fd
  IN  /\ proc[p].pc = "lockwrite"
      /\ Write(i, ts_write(file[i], proc[p].off, LockRec))
      /\ proc' = [proc EXCEPT ![p].pc = "find", ![p].off = @ + 1]
      /\ UNCHANGED <<name, locks, env, hist>>

(* What follows once the tty or ppid record is at m: it also holds the     *)
(* ticket unless tickets are global.  The TS_LOCKEXCL record is unlocked   *)
(* before the lock on the record itself is taken.                          *)
Settle(p, m) ==
  IF conf.type = "global"
  THEN /\ proc' = [proc EXCEPT ![p].pc = "findglobal", ![p].lpos = m]
       /\ UNCHANGED locks
  ELSE /\ proc' = [proc EXCEPT ![p].pc = "lockrec", ![p].lpos = m, ![p].pos = m]
       /\ locks' = locks \ {<<proc[p].fd, 1, p>>}

FindRecord(p) ==
  LET f == file[proc[p].fd]
  IN  /\ proc[p].pc = "find"
      /\ \E m \in 1 .. Len(f) + 1 :
           \/ /\ Found(f, proc[p].off, LockKey(p), m)
              /\ Settle(p, m)
           \/ /\ NotFound(f, proc[p].off, LockKey(p), m)
              /\ proc' = [proc EXCEPT ![p].pc = "append", ![p].lpos = m]
              /\ UNCHANGED locks
      /\ UNCHANGED <<disk, env, hist>>

AppendRecord(p) ==
  LET i == proc[p].fd
  IN  /\ proc[p].pc = "append"
      /\ Write(i, ts_write(file[i], proc[p].lpos, LockKey(p)))
      /\ Settle(p, proc[p].lpos)
      /\ UNCHANGED <<name, env, hist>>

FindGlobal(p) ==
  LET f == file[proc[p].fd]
  IN  /\ proc[p].pc = "findglobal"
      /\ \E m \in 1 .. Len(f) + 1 :
           \/ /\ Found(f, 1, TicketKey(p), m)
              /\ proc' = [proc EXCEPT ![p].pc = "lockrec", ![p].pos = m]
              /\ locks' = locks \ {<<proc[p].fd, 1, p>>}
           \/ /\ NotFound(f, 1, TicketKey(p), m)
              /\ proc' = [proc EXCEPT ![p].pc = "appendglobal", ![p].pos = m]
              /\ UNCHANGED locks
      /\ UNCHANGED <<disk, env, hist>>

AppendGlobal(p) ==
  LET i == proc[p].fd
  IN  /\ proc[p].pc = "appendglobal"
      /\ Write(i, ts_write(file[i], proc[p].pos, TicketKey(p)))
      /\ Goto(p, "lockrec")
      /\ locks' = locks \ {<<i, 1, p>>}
      /\ UNCHANGED <<name, env, hist>>

(* ts_write() fails; after a short write it truncates the file to where    *)
(* the record would have started.                                          *)
WriteFail(p) ==
  LET i == proc[p].fd
      at == IF proc[p].pc = "lockwrite" THEN proc[p].off
            ELSE IF proc[p].pc = "append" THEN proc[p].lpos
            ELSE proc[p].pos
  IN  /\ conf.faults /\ proc[p].pc \in {"lockwrite", "append", "appendglobal"}
      /\ \/ UNCHANGED <<file, mtime>>
         \/ Write(i, ftruncate(file[i], at - 1))
      /\ GiveUp(p)
      /\ UNCHANGED <<name, locks, env, hist>>

LockSession_ResumeFails(p) ==
  /\ proc[p].pc = "lockrec"
  /\ LockRecord(p, proc[p].lpos,
                IF proc[p].stat = "none" THEN "status" ELSE "close")
LockSession(p) ==
  /\ proc[p].pc = "lockrec"
  /\ LockRecord(p, proc[p].lpos,
                IF proc[p].stat = "none" THEN "status" ELSE "prompt")

(* SIGINT or SIGQUIT while waiting for a lock, or no locks available.      *)
LockFail_Ignored(p) ==
  /\ conf.faults /\ proc[p].pc = "lockrec"
  /\ Goto(p, "status")
  /\ UNCHANGED <<disk, locks, env, hist>>
LockFail(p) ==
  /\ conf.faults /\ proc[p].pc \in {"lockexcl", "lockrec"}
  /\ GiveUp(p)
  /\ UNCHANGED <<disk, locks, env, hist>>

(***************************************************************************)
(* timestamp_status().  A global record is locked for the read only.       *)
(***************************************************************************)
Expiry(e) ==
  IF conf.timeout < 0 THEN "current"
  ELSE IF now - e.ts >= conf.timeout THEN "old"
  ELSE IF now < e.ts THEN "future"
  ELSE "current"
Judge_NoSid(e, s) ==
  IF e.size # "v2" \/ e.disabled THEN "old" ELSE Expiry(e)
Judge_TooEarly(e, s) ==
  IF \/ e.size # "v2" \/ e.disabled \/ now - e.ts >= conf.timeout - 1
     \/ e.type # "global" /\ e.sid # s.sid
  THEN "old" ELSE Expiry(e)
Judge(e, s) ==
  IF \/ e.size # "v2" \/ e.disabled
     \/ e.type # "global" /\ e.sid # s.sid
  THEN "old" ELSE Expiry(e)

(* The entry that is written back to disable it.                           *)
WriteBack_Key(p, e) == TicketKey(p)
WriteBack(p, e) == [e EXCEPT !.disabled = TRUE]

(* A current ticket is accepted unless FLAG_CHECK_USER demands a password. *)
timestamp_status(p) ==
  LET i == proc[p].fd
      n == proc[p].pos
      r == IF n \in DOMAIN file[i] THEN Judge(file[i][n], proc[p].ses) ELSE "error"
  IN  /\ proc[p].pc = "status"
      /\ conf.type = "global" => ~ Blocked(p, i, n)
      /\ \/ /\ r = "current"
            /\ proc' = [proc EXCEPT ![p].pc = "approve", ![p].stat = r,
                                    ![p].via = "ticket"]
         \/ /\ r # "future"
            /\ proc' = [proc EXCEPT ![p].pc = "prompt", ![p].stat = r]
         \/ /\ r = "future"
            /\ proc' = [proc EXCEPT ![p].pc = "disable", ![p].stat = "old",
                                    ![p].seen = WriteBack(p, file[i][n])]
      /\ UNCHANGED <<disk, locks, env, hist>>

(* A time stamp from the future is written back as disabled.               *)
StatusDisable(p) ==
  LET i == proc[p].fd
  IN  /\ proc[p].pc = "disable"
      /\ Write(i, ts_write(file[i], proc[p].pos, proc[p].seen))
      /\ proc' = [proc EXCEPT ![p].pc = "prompt", ![p].seen = Hole]
      /\ UNCHANGED <<name, locks, env, hist>>

(***************************************************************************)
(* verify_user() with its callbacks, and the end of check_user().          *)
(***************************************************************************)
Authenticate(p) ==
  /\ proc[p].pc = "prompt"
  /\ proc' = [proc EXCEPT ![p].pc = "approve", ![p].via = "password"]
  /\ UNCHANGED <<disk, locks, env, hist>>

(* Wrong passwords, a timeout, ^C, or "sudo -n".                           *)
AuthFail(p) ==
  /\ proc[p].pc = "prompt"
  /\ Goto(p, "close")
  /\ UNCHANGED <<disk, locks, env, hist>>

getpass_suspend_KeepOpen(p) ==
  /\ proc[p].pc = "prompt" /\ runs < MaxRuns
  /\ runs' = runs + 1
  /\ Goto(p, "stopped")
  /\ UNCHANGED <<disk, locks, conf, boot, now, hist>>
getpass_suspend(p) ==
  /\ proc[p].pc = "prompt" /\ runs < MaxRuns
  /\ runs' = runs + 1
  /\ proc' = [proc EXCEPT ![p].pc = "stopped", ![p].fd = None, ![p].off = 0,
                          ![p].lpos = 0, ![p].pos = 0]
  /\ locks' = LocksWithout(p)
  /\ UNCHANGED <<name, mtime, conf, boot, now, hist>>
  /\ file' = Kept(file)

getpass_resume(p) ==
  /\ proc[p].pc = "stopped"
  /\ Goto(p, "open")
  /\ UNCHANGED <<disk, locks, env, hist>>

(* timestamp_update() writes the key of the cookie, enabled, at its record.*)
timestamp_update(p) ==
  LET i == proc[p].fd
      c == Scope(proc[p].ses, proc[p].auth)
  IN  /\ proc[p].pc = "approve" /\ proc[p].stat # "error" /\ proc[p].pos > 0
      /\ Write(i, ts_write(file[i], proc[p].pos,
                           [TicketKey(p) EXCEPT !.disabled = FALSE, !.ts = now]))
      /\ Goto(p, "close")
      /\ proven' = [proven EXCEPT ![c] = now]
      /\ revoked' = [revoked EXCEPT ![c] = IF proc[p].via = "password" THEN "no" ELSE @]
      /\ UNCHANGED <<name, locks, env>>

(* Not approved, not allowed by sudoers, or no ticket to write.            *)
NoUpdate(p) ==
  /\ proc[p].pc = "approve"
  /\ Goto(p, "close")
  /\ UNCHANGED <<disk, locks, env, hist>>

Exit(p) ==
  /\ proc' = [proc EXCEPT ![p] = IdleProc]
  /\ locks' = LocksWithout(p)
  /\ UNCHANGED <<name, mtime, env, hist>>
  /\ file' = Kept(file)

timestamp_close(p) == proc[p].pc = "close" /\ Exit(p)

Kill(p) == conf.faults /\ proc[p].pc \notin {"idle", "close"} /\ Exit(p)

(***************************************************************************)
(* timestamp_remove(): "sudo -k" disables this session's records for every *)
(* auth user, "sudo -K" unlinks the file.                                  *)
(***************************************************************************)
RemoveOpen(p, s) ==
  /\ proc[p].pc = "idle" /\ runs < MaxRuns /\ name # None
  /\ runs' = runs + 1
  /\ proc' = [proc EXCEPT ![p] = [IdleProc EXCEPT !.pc = "klock", !.ses = s,
                                                  !.fd = name]]
  /\ UNCHANGED <<disk, locks, conf, boot, now, hist>>

RemoveLock(p) == proc[p].pc = "klock" /\ LockRecord(p, 1, "kdisable")

RemoveLockFail(p) ==
  /\ conf.faults /\ proc[p].pc = "klock"
  /\ Goto(p, "close")
  /\ UNCHANGED <<disk, locks, env, hist>>

(* A ticket being renewed by another process, or a file replaced since it  *)
(* was opened: the run of "sudo -k" overlaps another sudo.                 *)
Raced(p, k) ==
  \/ proc[p].fd # name
  \/ \E q \in Procs : /\ proc[q].pc = "approve" /\ proc[q].via = "ticket"
                      /\ MatchAnyUid(k, Scope(proc[q].ses, proc[q].auth))

RemoveKey_Session(s) == ts_init_key_nonglobal(s, None)
RemoveKey(s) == ts_init_key(s, None, conf.type)

Matching(f, k) == {m \in DOMAIN f : Scanned(f, 1, m) /\ MatchAnyUid(k, f[m])}

RemoveDisable(p) ==
  LET i == proc[p].fd
      f == file[i]
      k == ts_init_key(proc[p].ses, None, conf.type)
      hit == {m \in Matching(f, RemoveKey(proc[p].ses)) : ~ f[m].disabled}
  IN  /\ proc[p].pc = "kdisable"
      /\ IF hit = {} THEN UNCHANGED <<file, mtime>>
         ELSE Write(i, [m \in DOMAIN f |-> IF m \in hit
                                           THEN [f[m] EXCEPT !.disabled = TRUE]
                                           ELSE f[m]])
      /\ Goto(p, "close")
      /\ revoked' = [c \in Scopes |->
           IF ~ MatchAnyUid(k, c) THEN revoked[c]
           ELSE IF Raced(p, k) THEN "raced" ELSE "quiet"]
      /\ UNCHANGED <<name, locks, env, proven>>

RemoveUnlink ==
  /\ runs < MaxRuns /\ name # None
  /\ runs' = runs + 1
  /\ name' = None
  /\ UNCHANGED proc
  /\ file' = Kept(file)
  /\ UNCHANGED <<mtime, locks, conf, boot, now, hist>>

(***************************************************************************)
(* The machine.                                                            *)
(***************************************************************************)
Tick ==
  /\ now < MaxClock
  /\ now' = now + 1
  /\ UNCHANGED <<disk, locks, proc, conf, boot, runs, hist>>

Reboot ==
  /\ boot < conf.reboots
  /\ boot' = boot + 1 /\ now' = 0
  /\ proc' = [p \in Procs |-> IdleProc]
  /\ locks' = {}
  /\ UNCHANGED name
  /\ file' = Kept(file)
  /\ proven' = [c \in Scopes |-> Never]
  /\ revoked' = [c \in Scopes |-> "no"]
  /\ UNCHANGED <<mtime, conf, runs>>

(* Steps a running sudo takes by itself, and how a prompt ends.            *)
Run(p) ==
  \/ timestamp_open(p) \/ OpenUnlink(p) \/ OpenRetry(p)
  \/ LockExcl(p) \/ ReadFirst(p) \/ timestamp_lock_write(p)
  \/ FindRecord(p) \/ AppendRecord(p) \/ FindGlobal(p) \/ AppendGlobal(p)
  \/ LockSession(p)
  \/ timestamp_status(p) \/ StatusDisable(p)
  \/ Authenticate(p) \/ AuthFail(p)
  \/ timestamp_update(p) \/ NoUpdate(p) \/ timestamp_close(p)
  \/ RemoveLock(p) \/ RemoveDisable(p)

Fail(p) ==
  OpenFail(p) \/ WriteFail(p) \/ LockFail(p) \/ RemoveLockFail(p) \/ Kill(p)

User(p) ==
  \/ getpass_suspend(p) \/ getpass_resume(p)
  \/ \E u \in conf.users : \/ RemoveOpen(p, u[1])
                          \/ CheckUser(p, u[1], u[2])
                          \/ CheckUserExempt(p, u[1], u[2])
                          \/ CheckUserIgnoreTicket(p, u[1], u[2])

Next ==
  \/ \E p \in Procs : Run(p) \/ Fail(p) \/ User(p)
  \/ RemoveUnlink \/ Tick \/ Reboot

Spec == Init /\ [][Next]_vars

(* The operating system runs every process that is not waiting, and the    *)
(* password prompt ends (passwd_timeout).  Nothing obliges the user to     *)
(* resume a stopped sudo.                                                  *)
FairSpec == Spec /\ \A p \in Procs : WF_vars(Run(p))
(***************************************************************************)
(* Properties.                                                             *)
(***************************************************************************)
(* The variables hold what the code keeps in them; in particular a lock    *)
(* belongs to a process that has the file open.                            *)
TypeOK ==
  /\ conf \in Configs
  /\ name \in Inodes \cup {None}
  /\ file \in [Inodes -> Seq(Record)]
  /\ mtime \in [Inodes -> Nat]
  /\ locks \subseteq Inodes \X Nat \X Procs
  /\ \A l \in locks : proc[l[3]].fd = l[1]
  /\ proc \in [Procs -> ProcState]
  /\ boot \in Nat /\ now \in Nat /\ runs \in Nat
  /\ proven \in [Scopes -> Nat \cup {Never}]
  /\ revoked \in [Scopes -> {"no", "quiet", "raced"}]

(* Past timestamp_lock() with a usable ticket file.                        *)
InSession(p) ==
  /\ proc[p].pc \in {"status", "disable", "prompt", "approve"}
  /\ proc[p].stat # "error"

(* Two sudo processes of one terminal (or parent) and auth user that have  *)
(* the same time stamp file open are never both between timestamp_lock()   *)
(* and timestamp_close(), so they never prompt at the same time.           *)
SessionExclusion ==
  \A p, q \in Procs :
    /\ p # q /\ InSession(p) /\ InSession(q)
    /\ proc[p].fd = proc[q].fd
    => LockKey(p) # LockKey(q)

(* From the moment timestamp_lock() settles on a record until the file is  *)
(* closed, that record stays this session's record, whatever the other     *)
(* processes append, disable or rewrite: cookie->pos is never stale.       *)
TicketPositionStable ==
  \A p \in Procs :
    InSession(p) =>
      /\ proc[p].pos \in DOMAIN file[proc[p].fd]
      /\ ts_match_record(TicketKey(p), file[proc[p].fd][proc[p].pos])

(* The first record of a file that nobody is in the middle of setting up   *)
(* is the TS_LOCKEXCL record (timestamp_lock_write, and the manual).       *)
FirstRecordIsLock ==
  \A i \in Inodes :
    (\E p \in Procs : proc[p].fd = i /\ InSession(p))
      => file[i] # << >> /\ file[i][1].type = "lockexcl"

AcceptsTicket(p) == proc[p].via = "none" /\ proc'[p].via = "ticket"
ScopeOf(p) == Scope(proc[p].ses, proc[p].auth)

(* check_user() accepts a ticket only if the same auth user, terminal and  *)
(* session wrote one since the machine booted and, unless tickets do not   *)
(* expire, less than timestamp_timeout ago (where the boot time is known). *)
TicketSound(p) ==
  AcceptsTicket(p) /\ conf.bootKnown =>
    /\ proven[ScopeOf(p)] # Never
    /\ conf.timeout > 0 => now - proven[ScopeOf(p)] < conf.timeout

(* A sudo that finds an enabled, unexpired record of its scope in the file *)
(* it has open does not ask for a password because of the time stamp.      *)
NoNeedlessPrompt(p) ==
  proc[p].pc = "status" /\ proc'[p].stat \in {"old", "error"} =>
    \A m \in DOMAIN file[proc[p].fd] :
      LET e == file[proc[p].fd][m]
      IN  [e EXCEPT !.ts = 0, !.disabled = TRUE] = TicketKey(p) =>
            \/ e.disabled
            \/ conf.timeout > 0 /\ (now - e.ts >= conf.timeout \/ now < e.ts)

(* Tickets are honoured by the rule, neither too often nor too seldom.     *)
TicketRule == [][\A p \in Procs : TicketSound(p) /\ NoNeedlessPrompt(p)]_vars

(* What timestamp_status() writes back to disable a ticket from the future *)
(* is still what the file holds: no ticket renewed in between is lost      *)
(* (unless tickets are global, as that record is not locked meanwhile).    *)
WriteBackNotStale ==
  \A p \in Procs :
    proc[p].pc = "disable" /\ conf.type # "global" =>
      [file[proc[p].fd][proc[p].pos] EXCEPT !.disabled = TRUE] = proc[p].seen

(* After a "sudo -k" that no other sudo of the session overlaps, the next  *)
(* sudo of the session needs a password.                                   *)
KillEffectiveWhenQuiet ==
  [][\A p \in Procs : AcceptsTicket(p) => revoked[ScopeOf(p)] # "quiet"]_vars

(* A sudo that waits for a record lock eventually gets it or gives up,     *)
(* even if another sudo of the session is stopped at its prompt for good.  *)
WaitersProgress ==
  \A p \in Procs :
    LET waits == proc[p].pc \in {"lockexcl", "lockrec", "klock"}
    IN  waits ~> ~ waits

(* A password prompt that was suspended is shown again once resumed.       *)
ResumedPromptReturns ==
  \A p \in Procs :
    proc[p].pc = "open" /\ proc[p].stat # "none" ~> proc[p].pc = "prompt"

(* Neither a lock nor a suspended prompt holds a sudo up for good.         *)
PromptsProgress == WaitersProgress /\ ResumedPromptReturns
=============================================================================
