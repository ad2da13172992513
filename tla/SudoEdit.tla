------------------------------ MODULE SudoEdit ------------------------------
(***************************************************************************)
(* sudoedit: src/src/sudo_edit.c and src/src/copy_file.c.  A session makes *)
(* temporary copies of the files to edit, runs the user's editor on them   *)
(* and copies back those that changed.  Nothing is locked, so sessions of  *)
(* several users on the same file run side by side, one system call of one *)
(* of them at a time.                                                      *)
(*                                                                         *)
(* The text of a file is a sequence of chunks of BUFSIZ bytes; its size is *)
(* the length.  A file carries the time of its last write, in ticks of the *)
(* file system's clock, which is coarser than the one sudo reads.  The     *)
(* faults are system calls that fail and sessions that are killed; a       *)
(* killed session's files stay as they are.                                *)
(***************************************************************************)
EXTENDS Integers, Sequences, FiniteSets

CONSTANTS
    Session,
    File,
    Chunk,          \* the chunks that texts are made of
    Absent,         \* stands for the text of a file that is not there
    NewText,        \* [Session -> the texts its user may save]
    Confs           \* the situations of the run, see conf

Zero == "zero"      \* a chunk of zeroes

Text == Seq(Chunk)

ASSUME TextAssumption ==
    /\ Zero \in Chunk
    /\ Absent \notin Text
    /\ \A s \in Session : NewText[s] \subseteq Text

(* Each file is edited once by a session.                                  *)
ASSUME ConfsAssumption ==
    \A c \in Confs :
        /\ c.args \in [Session -> Seq(File)]
        /\ \A s \in Session : \A i, j \in 1..Len(c.args[s]) :
               c.args[s][i] = c.args[s][j] => i = j
        /\ c.first \in [File -> Text \cup {Absent}]

(* What can go wrong, each at most once in a run.                          *)
Fault == {"open", "mktemp", "read", "space", "write", "stamp", "clock",
          "check", "truncate", "kill"}

VARIABLES
    conf,           \* [args : [Session -> Seq(File)], the files to edit, each once;
                    \*  first : [File -> text], the texts at first, or Absent;
                    \*  faults, the number of kinds of fault, at most;
                    \*  ticks, the last tick of the file system's clock]
    disk,           \* [File -> [text, mtime], text Absent if there is no such file]
    tmp,            \* [Session -> [File -> [text, mtime]]], the temporary files
    pc,             \* [Session -> where it is]
    arg,            \* [Session -> index into conf.args[s], then into tf[s]]
    tf,             \* [Session -> Seq([ofile, osize, omtim])]
    fd,             \* [Session -> [off, size]]: the copy under way
    errors,         \* [Session -> files not copied back]
    exit,           \* [Session -> "none", "ok", "fail"]
    times,          \* [Session -> [start (the tick the editor was started),
                    \* spent (sudo's clock shows time spent in it)]]
    now,            \* the file system's clock
    failed,         \* the faults that have happened
    base,           \* [Session -> [File -> its text when it was opened]]
    saved,          \* [Session -> [File -> [text, seen]]]: what the user saved,
                    \* and whether its size or time differ from what was there
    alone           \* [Session -> [File -> nobody else wrote it since then]]

vars == <<conf, disk, tmp, pc, arg, tf, fd, errors, exit, times, now, failed, base,
          saved, alone>>

NoFile == [text |-> Absent, mtime |-> 0]

Init ==
    /\ conf \in Confs
    /\ disk = [f \in File |-> [text |-> conf.first[f], mtime |-> 0]]
    /\ tmp = [s \in Session |-> [f \in File |-> NoFile]]
    /\ pc = [s \in Session |-> "create"]
    /\ arg = [s \in Session |-> 1]
    /\ tf = [s \in Session |-> <<>>]
    /\ fd = [s \in Session |-> [off |-> 0, size |-> 0]]
    /\ errors = [s \in Session |-> 0]
    /\ exit = [s \in Session |-> "none"]
    /\ times = [s \in Session |-> [start |-> 0, spent |-> TRUE]]
    /\ now = 0
    /\ failed = {}
    /\ base = [s \in Session |-> [f \in File |-> Absent]]
    /\ saved = [s \in Session |-> [f \in File |-> [text |-> Absent, seen |-> FALSE]]]
    /\ alone = [s \in Session |-> [f \in File |-> TRUE]]

(***************************************************************************)
(* Faults, and writing to a file.                                          *)
(***************************************************************************)
Works == UNCHANGED failed

FailAll(kinds) ==
    /\ kinds \subseteq Fault \ failed
    /\ Cardinality(failed \cup kinds) <= conf.faults
    /\ failed' = failed \cup kinds

Fails(what) == FailAll({what})

(* A write of one chunk at an offset, and ftruncate.  A gap before the     *)
(* offset, or before the new end, is filled with zeroes.                   *)
ChunkOf(text, i) == IF i \in DOMAIN text THEN text[i] ELSE Zero

Resized(text, n) == [i \in 1..n |-> ChunkOf(text, i)]

Put(text, off, chunk) ==
    [Resized(text, IF off < Len(text) THEN Len(text) ELSE off + 1) EXCEPT ![off + 1] = chunk]

(* Session s leaves file f with this text.                                 *)
Write(s, f, text) ==
    /\ disk' = [disk EXCEPT ![f] = [text |-> text, mtime |-> now]]
    /\ alone' = [t \in Session |-> [alone[t] EXCEPT ![f] = @ /\ t = s]]

NoWrite == UNCHANGED <<disk, alone>>

Goto(s, label) == pc' = [pc EXCEPT ![s] = label]

SetTmp(s, f, text, mtime) ==
    tmp' = [tmp EXCEPT ![s][f] = [text |-> text, mtime |-> mtime]]

Unlink(s, f) == tmp' = [tmp EXCEPT ![s][f] = NoFile]

Ends(s, how) == Goto(s, "done") /\ exit' = [exit EXCEPT ![s] = how]

(***************************************************************************)
(* sudo_edit_create_tfiles                                                 *)
(***************************************************************************)
ThisArg(s) == conf.args[s][arg[s]]

Creating(s) == pc[s] = "create" /\ arg[s] <= Len(conf.args[s])

(* A file that cannot be opened, or is not a regular file, is skipped.     *)
create_skip(s) ==
    /\ Creating(s)
    /\ Fails("open")
    /\ arg' = [arg EXCEPT ![s] = @ + 1]
    /\ NoWrite
    /\ UNCHANGED <<tmp, pc, tf, fd, errors, exit, times, now, base, saved>>

(* The original's size is noted when it is opened; a file that is not      *)
(* there has size and time zero, and an empty temporary file.  When none   *)
(* can be made, nfiles is -1: the cleanup removes nothing.                 *)
create_open(s) ==
    /\ Creating(s)
    /\ LET f == ThisArg(s)
           new == disk[f].text = Absent
       IN  \/ /\ Works
              /\ SetTmp(s, f, <<>>, now)
              /\ tf' = [tf EXCEPT ![s] = Append(@,
                            [ofile |-> f, osize |-> IF new THEN 0 ELSE Len(disk[f].text),
                             omtim |-> IF new THEN 0 ELSE disk[f].mtime])]
              /\ fd' = [fd EXCEPT ![s] = [off |-> 0, size |-> 0]]
              /\ Goto(s, IF new THEN "stamp" ELSE "create_copy")
              /\ base' = [base EXCEPT ![s][f] = disk[f].text]
              /\ alone' = [alone EXCEPT ![s][f] = TRUE]
              /\ UNCHANGED exit
           \/ /\ Fails("mktemp")
              /\ Ends(s, "fail")
              /\ UNCHANGED <<tmp, tf, fd, base, alone>>
    /\ UNCHANGED <<disk, arg, errors, times, now, saved>>

(* sudo_copy_file without a destination size: chunk by chunk to the end of *)
(* the original, as it is by now.                                          *)
create_copy(s) ==
    /\ pc[s] = "create_copy"
    /\ LET f == ThisArg(s)
           off == fd[s].off
       IN  \/ /\ Works
              /\ off < Len(disk[f].text)
              /\ SetTmp(s, f, Append(tmp[s][f].text, disk[f].text[off + 1]), now)
              /\ fd' = [fd EXCEPT ![s].off = @ + 1]
              /\ UNCHANGED <<pc, exit>>
           \/ /\ Works
              /\ off >= Len(disk[f].text)
              /\ Goto(s, "stamp")
              /\ UNCHANGED <<tmp, fd, exit>>
           \/ /\ Fails("read") \/ Fails("space")
              /\ Ends(s, "fail")
              /\ UNCHANGED <<tmp, fd>>
    /\ NoWrite
    /\ UNCHANGED <<arg, tf, errors, times, now, base, saved>>

(* The temporary file gets the original's time, and the time noted is then *)
(* the temporary file's, whether or not it could be set.                   *)
create_stamp(s) ==
    /\ pc[s] = "stamp"
    /\ LET f == ThisArg(s)
           last == Len(tf[s])
       IN  \/ /\ Works
              /\ SetTmp(s, f, tmp[s][f].text, tf[s][last].omtim)
              /\ UNCHANGED tf
           \/ /\ Fails("stamp")
              /\ tf' = [tf EXCEPT ![s][last].omtim = tmp[s][f].mtime]
              /\ UNCHANGED tmp
    /\ arg' = [arg EXCEPT ![s] = @ + 1]
    /\ Goto(s, "create")
    /\ NoWrite
    /\ UNCHANGED <<fd, errors, exit, times, now, base, saved>>

(***************************************************************************)
(* The editor                                                              *)
(***************************************************************************)
Listed(s) == {tf[s][j].ofile : j \in DOMAIN tf[s]}

(* The cleanup: all temporary files of the list are removed.               *)
Cleanup(s) ==
    /\ tmp' = [tmp EXCEPT ![s] = [f \in File |-> IF f \in Listed(s) THEN NoFile ELSE @[f]]]
    /\ Ends(s, "fail")

(* The clock is read and the editor started, if there is a file to edit.   *)
sudo_edit_start(s) ==
    /\ pc[s] = "create" /\ arg[s] > Len(conf.args[s])
    /\ \/ /\ Works
          /\ tf[s] # <<>>
          /\ times' = [times EXCEPT ![s].start = now]
          /\ Goto(s, "editor")
          /\ UNCHANGED <<tmp, exit>>
       \/ /\ IF tf[s] = <<>> THEN Works ELSE Fails("clock")
          /\ Cleanup(s)
          /\ UNCHANGED times
    /\ NoWrite
    /\ UNCHANGED <<arg, tf, fd, errors, now, base, saved>>

(* The user saves a file, once.                                            *)
UserSaves(s) ==
    /\ pc[s] = "editor"
    /\ \E j \in DOMAIN tf[s], text \in NewText[s] :
          LET e == tf[s][j]
          IN  /\ saved[s][e.ofile].text = Absent
              /\ saved' = [saved EXCEPT ![s][e.ofile] =
                     [text |-> text, seen |-> Len(text) # e.osize \/ now # e.omtim]]
              /\ SetTmp(s, e.ofile, text, now)
    /\ NoWrite
    /\ UNCHANGED <<pc, arg, tf, fd, errors, exit, times, now, failed, base>>

(* The editor is done, whatever its exit status.  A program may have taken *)
(* no time that the clock shows.                                           *)
sudo_edit_end(s) ==
    /\ pc[s] = "editor"
    /\ \/ /\ Works
          /\ \E b \in IF now = times[s].start THEN BOOLEAN ELSE {TRUE} :
                times' = [times EXCEPT ![s].spent = b]
          /\ arg' = [arg EXCEPT ![s] = 1]
          /\ Goto(s, "copy")
          /\ UNCHANGED <<tmp, exit>>
       \/ /\ Fails("clock")
          /\ Cleanup(s)
          /\ UNCHANGED <<times, arg>>
    /\ NoWrite
    /\ UNCHANGED <<tf, fd, errors, now, base, saved>>

(***************************************************************************)
(* sudo_edit_copy_tfiles                                                   *)
(***************************************************************************)
This(s) == tf[s][arg[s]]

Copying(s) == pc[s] = "copy" /\ arg[s] <= Len(tf[s])

NextFile(s) == arg' = [arg EXCEPT ![s] = @ + 1] /\ Goto(s, "copy")

(* (Slip: the temporary file is removed although it was not copied.)       *)
NotCopied_Unlink(s) ==
    /\ errors' = [errors EXCEPT ![s] = @ + 1]
    /\ NextFile(s)
    /\ Unlink(s, This(s).ofile)

(* A file that cannot be copied back leaves its temporary file.            *)
NotCopied(s) ==
    /\ errors' = [errors EXCEPT ![s] = @ + 1]
    /\ NextFile(s)
    /\ UNCHANGED tmp

Copied(s) ==
    /\ NextFile(s)
    /\ Unlink(s, This(s).ofile)
    /\ UNCHANGED errors

(* Size and time are as they were, and time was spent in the editor.       *)
Unchanged(s) ==
    LET t == tmp[s][This(s).ofile]
    IN  Len(t.text) = This(s).osize /\ t.mtime = This(s).omtim /\ times[s].spent

(* The temporary file cannot be opened, or is not as it should be.         *)
copy_check(s) ==
    /\ Copying(s)
    /\ Fails("check")
    /\ NotCopied(s)
    /\ NoWrite
    /\ UNCHANGED <<tf, fd, exit, times, now, base, saved>>

copy_unchanged(s) ==
    /\ Copying(s)
    /\ Unchanged(s)
    /\ Copied(s)
    /\ NoWrite
    /\ UNCHANGED <<tf, fd, exit, times, now, failed, base, saved>>

(* (Slip: the file is not extended before it is overwritten.)              *)
MustExtend_Never(srclen, dstlen) == FALSE

(* A file that grows is extended first, so that a full disk shows before   *)
(* anything is overwritten.                                                *)
MustExtend(srclen, dstlen) == dstlen > 0 /\ srclen > dstlen

(* The original is opened, and made if need be.  The user is asked before  *)
(* a file is emptied, and "no" counts as success.                          *)
copy_open(s) ==
    /\ Copying(s) /\ ~Unchanged(s)
    /\ LET f == This(s).ofile
           srclen == Len(tmp[s][f].text)
           dstlen == This(s).osize
       IN  \/ Fails("open") /\ NotCopied(s) /\ NoWrite /\ UNCHANGED fd
           \/ /\ Works
              /\ IF disk[f].text = Absent THEN Write(s, f, <<>>) ELSE NoWrite
              /\ \/ /\ srclen = 0 /\ dstlen > 0
                    /\ Copied(s)
                    /\ UNCHANGED fd
                 \/ /\ fd' = [fd EXCEPT ![s] = [off |-> 0,
                                 size |-> IF disk[f].text = Absent THEN 0
                                          ELSE Len(disk[f].text)]]
                    /\ Goto(s, IF MustExtend(srclen, dstlen) THEN "extend" ELSE "write")
                    /\ UNCHANGED <<arg, tmp, errors>>
    /\ UNCHANGED <<tf, exit, times, now, base, saved>>

(* sudo_extend_file: zeroes after the end of the file, wherever that was   *)
(* when it began (fd.size).  A failure takes them back.                    *)
sudo_extend_file(s) ==
    /\ pc[s] = "extend"
    /\ LET f == This(s).ofile
           text == disk[f].text
       IN  IF fd[s].size + fd[s].off < Len(tmp[s][f].text)
           THEN \/ /\ Works
                   /\ Write(s, f, Put(text, fd[s].size + fd[s].off, Zero))
                   /\ fd' = [fd EXCEPT ![s].off = @ + 1]
                   /\ UNCHANGED <<pc, arg, tmp, errors>>
                \/ /\ Fails("space")
                   /\ Write(s, f, Resized(text, fd[s].size))
                   /\ NotCopied(s)
                   /\ UNCHANGED fd
                \/ /\ FailAll({"space", "truncate"})
                   /\ NoWrite
                   /\ NotCopied(s)
                   /\ UNCHANGED fd
           ELSE /\ Works
                /\ fd' = [fd EXCEPT ![s].off = 0]
                /\ Goto(s, "write")
                /\ NoWrite
                /\ UNCHANGED <<arg, tmp, errors>>
    /\ UNCHANGED <<tf, exit, times, now, base, saved>>

(* One chunk is copied, or the read or the write fails; a write within the *)
(* file needs no space.                                                    *)
copy_write(s) ==
    /\ pc[s] = "write"
    /\ LET f == This(s).ofile
           src == tmp[s][f].text
           text == disk[f].text
           off == fd[s].off
       IN  \/ /\ Works /\ off < Len(src)
              /\ Write(s, f, Put(text, off, src[off + 1]))
              /\ fd' = [fd EXCEPT ![s].off = @ + 1]
              /\ UNCHANGED <<pc, arg, tmp, errors>>
           \/ /\ Works /\ off = Len(src)
              /\ Goto(s, "truncate")
              /\ NoWrite
              /\ UNCHANGED <<fd, arg, tmp, errors>>
           \/ /\ \/ Fails("read") \/ Fails("write")
                 \/ off < Len(src) /\ off >= Len(text) /\ Fails("space")
              /\ NotCopied(s)
              /\ NoWrite
              /\ UNCHANGED fd
    /\ UNCHANGED <<tf, exit, times, now, base, saved>>

(* A file that shrank is cut to its new size; then its temporary file can  *)
(* go.                                                                     *)
copy_truncate(s) ==
    /\ pc[s] = "truncate"
    /\ LET f == This(s).ofile
           srclen == Len(tmp[s][f].text)
       IN  IF srclen < This(s).osize
           THEN \/ Works /\ Write(s, f, Resized(disk[f].text, srclen)) /\ Copied(s)
                \/ Fails("truncate") /\ NoWrite /\ NotCopied(s)
           ELSE Works /\ NoWrite /\ Copied(s)
    /\ UNCHANGED <<tf, fd, exit, times, now, base, saved>>

(* (Slip: the number of errors is not looked at.)                          *)
copy_end_NoErrors(s) ==
    /\ pc[s] = "copy" /\ arg[s] > Len(tf[s])
    /\ Ends(s, "ok")
    /\ NoWrite
    /\ UNCHANGED <<tmp, arg, tf, fd, errors, times, now, failed, base, saved>>

copy_end(s) ==
    /\ pc[s] = "copy" /\ arg[s] > Len(tf[s])
    /\ Ends(s, IF errors[s] = 0 THEN "ok" ELSE "fail")
    /\ NoWrite
    /\ UNCHANGED <<tmp, arg, tf, fd, errors, times, now, failed, base, saved>>

(***************************************************************************)
(* The specification                                                       *)
(***************************************************************************)
Killed(s) ==
    /\ pc[s] # "done"
    /\ Fails("kill")
    /\ Ends(s, "fail")
    /\ NoWrite
    /\ UNCHANGED <<tmp, arg, tf, fd, errors, times, now, base, saved>>

Tick ==
    /\ now < conf.ticks
    /\ now' = now + 1
    /\ UNCHANGED <<disk, tmp, pc, arg, tf, fd, errors, exit, times, failed, base,
                   saved, alone>>

sudo_edit(s) ==
    \/ create_skip(s)
    \/ create_open(s)
    \/ create_copy(s)
    \/ create_stamp(s)
    \/ sudo_edit_start(s)
    \/ sudo_edit_end(s)
    \/ copy_check(s)
    \/ copy_unchanged(s)
    \/ copy_open(s)
    \/ sudo_extend_file(s)
    \/ copy_write(s)
    \/ copy_truncate(s)
    \/ copy_end(s)

Next ==
    /\ \/ Tick
       \/ \E s \in Session : sudo_edit(s) \/ UserSaves(s) \/ Killed(s)
    /\ UNCHANGED conf

Spec == Init /\ [][Next]_vars

(***************************************************************************)
(* Properties                                                              *)
(***************************************************************************)
OnDisk == [text : Text \cup {Absent}, mtime : Nat]

TypeOK ==
    /\ conf \in Confs
    /\ disk \in [File -> OnDisk]
    /\ tmp \in [Session -> [File -> OnDisk]]
    /\ pc \in [Session -> {"create", "create_copy", "stamp", "editor", "copy", "extend",
                           "write", "truncate", "done"}]
    /\ arg \in [Session -> Nat \ {0}]
    /\ tf \in [Session -> Seq([ofile : File, osize : Nat, omtim : Nat])]
    /\ fd \in [Session -> [off : Nat, size : Nat]]
    /\ errors \in [Session -> Nat]
    /\ exit \in [Session -> {"none", "ok", "fail"}]
    /\ times \in [Session -> [start : Nat, spent : BOOLEAN]]
    /\ now \in Nat
    /\ failed \subseteq Fault
    /\ base \in [Session -> [File -> Text \cup {Absent}]]
    /\ saved \in [Session -> [File -> [text : Text \cup {Absent}, seen : BOOLEAN]]]
    /\ alone \in [Session -> [File -> BOOLEAN]]

(* While a session lasts and after it, killed or not, what the user saved  *)
(* is in the temporary file until all of it is in the original, and there  *)
(* it stays until somebody else writes the file.  (The user may decline to *)
(* empty a file; a save that neither the size nor the time of the file     *)
(* shows is not seen; and if the clock cannot be read after the editor the *)
(* cleanup removes the temporary files.)                                   *)
EditNeverLost ==
    \A s \in Session, f \in File :
        LET text == saved[s][f].text
        IN  saved[s][f].seen /\ text # <<>> /\ "clock" \notin failed =>
                \/ tmp[s][f].text = text
                \/ /\ tmp[s][f].text = Absent
                   /\ alone[s][f] => disk[f].text = text

(* A file that had a text has, after a session that ran out of disk space, *)
(* either that text or the new one, and not a part of each: that is what   *)
(* extending it first is for.  (Only what overwrites in place can fail     *)
(* later, by an I/O error.)                                                *)
OldOrNew ==
    \A s \in Session, f \in File :
        /\ pc[s] = "done" /\ alone[s][f] /\ base[s][f] \notin {Absent, <<>>}
        /\ failed \cap {"read", "write", "truncate", "kill"} = {}
        => disk[f].text \in {base[s][f], saved[s][f].text}

(* A session that reports success has left no temporary file and every     *)
(* text its user saved is in place, if nobody else wrote the file.  And it *)
(* writes only the files its user has changed, if nobody else writes them: *)
(* not those the editor left alone, and it makes no file that was not      *)
(* there; unless the editor took no time.                                  *)
SuccessMeansDone ==
    \A s \in Session :
        /\ exit[s] = "ok" => \A f \in File :
              /\ tmp[s][f].text = Absent
              /\ saved[s][f].seen /\ saved[s][f].text # <<>> /\ alone[s][f] =>
                     disk[f].text = saved[s][f].text
        /\ pc[s] \in {"extend", "write", "truncate"} =>
              LET f == This(s).ofile
              IN  saved[s][f].text # Absent \/ ~times[s].spent \/ ~alone[s][f]
=============================================================================
