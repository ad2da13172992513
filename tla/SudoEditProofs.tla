---------------------------- MODULE SudoEditProofs ----------------------------
(***************************************************************************)
(* sudoedit, for any number of sessions, files and texts: what a user      *)
(* saved is in the temporary file or in place, a full disk leaves the old  *)
(* text or the new one, and success means that everything is in place.     *)
(* The steps that copy a file back preserve what SudoEditInvariant says of *)
(* a session, and it implies the properties.                               *)
(***************************************************************************)
EXTENDS SudoEditInvariant

(***************************************************************************)
(* Copying back                                                            *)
(***************************************************************************)
(* The facts that all steps of copying back start from.                    *)
LEMMA NextFileSets ==
    ASSUME TypeOK, NEW s \in Session
    PROVE  /\ NextFile(s) => pc'[s] = "copy" /\ arg'[s] = arg[s] + 1
           /\ NotCopied(s) => /\ pc'[s] = "copy" /\ arg'[s] = arg[s] + 1
                              /\ errors'[s] = errors[s] + 1 /\ errors'[s] # errors[s]
           /\ Copied(s) => pc'[s] = "copy" /\ arg'[s] = arg[s] + 1 /\ errors'[s] = errors[s]
           /\ \A label : Goto(s, label) => pc'[s] = label
<1>1. DOMAIN pc = Session /\ DOMAIN arg = Session /\ DOMAIN errors = Session /\ errors[s] \in Nat
  BY Zenon DEF TypeOK
<1> QED
  BY <1>1 DEF NextFile, NotCopied, Copied, Goto

(* An entry whose temporary file stays, and whose original was not touched. *)
LEMMA GivesUp ==
    ASSUME Inv, conf' = conf, NEW s \in Session, pc[s] \in CopyPcs, arg[s] \in 1..Len(tf[s]),
           UNCHANGED <<tf, exit, base, saved>>, failed \subseteq failed',
           NEW f \in File, f = tf[s][arg[s]].ofile, OnlyFile(s, f), NotCopied(s),
           Safe(View(s, f)'), Intact(View(s, f)', failed')
    PROVE  SInv(s)'
<1> TypeOK /\ SInv(s)
  BY Zenon DEF Inv
<1>1. pc'[s] = "copy" /\ arg'[s] = arg[s] + 1 /\ errors'[s] = errors[s] + 1 /\ errors'[s] # errors[s]
  BY NextFileSets, Zenon
<1> QED
  BY <1>1, EntryDone, Zenon

(* An entry whose temporary file is removed.                               *)
LEMMA Finishes ==
    ASSUME Inv, conf' = conf, NEW s \in Session, pc[s] \in CopyPcs, arg[s] \in 1..Len(tf[s]),
           UNCHANGED <<tf, exit, base, saved>>, failed \subseteq failed',
           NEW f \in File, f = tf[s][arg[s]].ofile, OnlyFile(s, f), Copied(s),
           View(s, f)'.text = Absent,
           Safe(View(s, f)'), Intact(View(s, f)', failed')
    PROVE  SInv(s)'
<1> TypeOK /\ SInv(s)
  BY Zenon DEF Inv
<1>1. pc'[s] = "copy" /\ arg'[s] = arg[s] + 1 /\ errors'[s] = errors[s]
  BY NextFileSets, Zenon
<1> QED
  BY <1>1, EntryDone, Zenon

(* The checks of a temporary file fail: it stays.                          *)
LEMMA CheckStep ==
    ASSUME Inv, conf' = conf, NEW s \in Session, copy_check(s)
    PROVE  SInv(s)'
<1> TypeOK
  BY Zenon DEF Inv
<1>1. PICK f \in File : f = This(s).ofile
  BY ThisPending, Zenon DEF copy_check
<1>2. /\ pc[s] \in CopyPcs /\ arg[s] \in 1..Len(tf[s]) /\ f = tf[s][arg[s]].ofile
      /\ Pending(View(s, f), This(s))
  BY <1>1, ThisPending, Zenon DEF copy_check, Copying, CopyPcs, This
<1>3. NotCopied(s) /\ tmp' = tmp /\ NoWrite /\ UNCHANGED <<tf, exit, base, saved>>
  BY Zenon DEF copy_check, NotCopied
<1>4. View(s, f)' = View(s, f) /\ OnlyFile(s, f)
  BY <1>3, SeesSame, Zenon
<1>5. failed \subseteq failed'
  BY AssignTypes, Zenon DEF copy_check
<1>6. Safe(View(s, f)) /\ Intact(View(s, f), failed')
  BY <1>2, PendingSettles, Zenon
<1> QED
  BY <1>2, <1>3, <1>4, <1>5, <1>6, GivesUp, Zenon

(* The temporary file looks as it did: nothing was saved that is seen.     *)
LEMMA UnchangedStep ==
    ASSUME Inv, conf' = conf, NEW s \in Session, copy_unchanged(s)
    PROVE  SInv(s)'
<1> TypeOK
  BY Zenon DEF Inv
<1>1. PICK f \in File : f = This(s).ofile
  BY ThisPending, Zenon DEF copy_unchanged
<1>2. /\ pc[s] \in CopyPcs /\ arg[s] \in 1..Len(tf[s]) /\ f = tf[s][arg[s]].ofile
      /\ Pending(View(s, f), This(s))
  BY <1>1, ThisPending, Zenon DEF copy_unchanged, Copying, CopyPcs, This
<1>3. Copied(s) /\ Unlink(s, f) /\ NoWrite /\ UNCHANGED <<tf, exit, base, saved>> /\ failed' = failed
  BY <1>1, Zenon DEF copy_unchanged, Copied
<1>4. Becomes(View(s, f), View(s, f)', Absent, 0, View(s, f).disk) /\ OnlyFile(s, f)
  BY <1>3, SeesUnlink, Zenon
<1>5. ~View(s, f).seen
  <2>1. Len(View(s, f).text) = This(s).osize /\ View(s, f).mtime = This(s).omtim
    BY <1>1, Zenon DEF copy_unchanged, Unchanged, View
  <2> QED
    BY <1>2, <2>1, Zenon DEF Pending, Filled
<1>6. Safe(View(s, f)')
  BY <1>4, <1>5, Zenon DEF Safe, Becomes
<1>7. Intact(View(s, f)', failed')
  BY <1>2, <1>4, Zenon DEF Pending, Untouched, Intact, Becomes
<1>8. View(s, f)'.text = Absent
  BY <1>4, Zenon DEF Becomes
<1> QED
  BY <1>2, <1>3, <1>4, <1>6, <1>7, <1>8, Finishes, Zenon

(* The original is opened, and made if need be.                            *)
LEMMA OpenBackStep ==
    ASSUME Inv, conf' = conf, NEW s \in Session, copy_open(s)
    PROVE  SInv(s)'
<1> TypeOK /\ SInv(s)
  BY Zenon DEF Inv
<1>1. PICK f \in File : f = This(s).ofile
  BY ThisPending, Zenon DEF copy_open
<1>2. PICK w \in Views : w = View(s, f)
  BY ViewType, Zenon
<1>3. PICK e \in Entries : e = This(s)
  BY ThisPending, Zenon DEF copy_open
<1>p. pc[s] \in CopyPcs /\ arg[s] \in 1..Len(tf[s]) /\ f = tf[s][arg[s]].ofile
  BY <1>1, ThisPending, Zenon DEF copy_open, Copying, CopyPcs, This
<1>t. w.text = tmp[s][f].text /\ w.disk = disk[f].text
  BY <1>2, Zenon DEF View
<1>4. Pending(w, e) /\ w.text \in Text
  BY <1>1, <1>2, <1>3, <1>t, ThisPending, Zenon DEF copy_open
<1>5. /\ UNCHANGED <<tf, exit, times, base, saved>> /\ failed \subseteq failed'
  BY AssignTypes, Zenon DEF copy_open
<1>6. w.new # Absent \/ ~times[s].spent \/ ~w.alone
  <2>1. ~(Len(w.text) = e.osize /\ w.mtime = e.omtim /\ times[s].spent)
    BY <1>1, <1>2, <1>3, Zenon DEF copy_open, Unchanged, View
  <2> QED
    BY <1>4, <2>1, Zenon DEF Pending, Filled
<1>7. CASE NotCopied(s) /\ NoWrite
  <2>1. View(s, f)' = View(s, f) /\ OnlyFile(s, f)
    BY <1>5, <1>7, SeesSame, Zenon DEF NotCopied
  <2>2. Safe(w) /\ Intact(w, failed')
    BY <1>4, PendingSettles, Zenon
  <2> QED
    BY <1>2, <1>p, <1>5, <1>7, <2>1, <2>2, GivesUp, Zenon
<1>8. PICK d : d = IF w.disk = Absent THEN <<>> ELSE w.disk
  BY Zenon
<1>9. d \in Text /\ d # Absent /\ (w.alone => d = Orig(w)) /\ (w.alone => Len(d) = e.osize)
  <2>1. d \in Text
    BY <1>8, TextProperties, Zenon DEF Views, AnyText
  <2>2. w.alone => d = Orig(w)
    BY <1>4, <1>8, Zenon DEF Pending, Untouched, Orig
  <2> QED
    BY <1>4, <2>1, <2>2, TextAssumption, Zenon DEF Pending, Filled
<1>10. CASE /\ IF disk[f].text = Absent THEN Write(s, f, <<>>) ELSE NoWrite
            /\ Len(tmp[s][f].text) = 0 /\ e.osize > 0
            /\ Copied(s)
  <2>1. Becomes(w, View(s, f)', Absent, 0, d) /\ OnlyFile(s, f)
    <3>1. Unlink(s, f) /\ w.disk = disk[f].text
      BY <1>1, <1>2, <1>10, Zenon DEF Copied, View
    <3> QED
      BY <1>2, <1>5, <1>8, <1>10, <3>1, SeesUnlink, SeesWriteUnlink, Zenon
  <2>2. w.text = <<>>
    BY <1>t, <1>4, <1>10, TextProperties, Zenon
  <2>3. Safe(View(s, f)')
    BY <1>4, <2>1, <2>2, Zenon DEF Safe, Becomes, Pending, Filled
  <2>4. Intact(View(s, f)', failed')
    BY <1>9, <2>1, Zenon DEF Intact, Becomes, Orig
  <2>5. View(s, f)'.text = Absent
    BY <2>1, Zenon DEF Becomes
  <2> QED
    BY <1>p, <1>5, <1>10, <2>1, <2>3, <2>4, <2>5, Finishes, Zenon
<1>11. CASE /\ IF disk[f].text = Absent THEN Write(s, f, <<>>) ELSE NoWrite
            /\ fd' = [fd EXCEPT ![s] = [off |-> 0, size |-> IF disk[f].text = Absent THEN 0
                                                           ELSE Len(disk[f].text)]]
            /\ Goto(s, IF MustExtend(Len(tmp[s][f].text), e.osize) THEN "extend" ELSE "write")
            /\ UNCHANGED <<arg, tmp, errors>>
  <2>1. Becomes(w, View(s, f)', w.text, w.mtime, d) /\ OnlyFile(s, f) /\ w.text = tmp[s][f].text
    <3>1. w.disk = disk[f].text /\ w.text = tmp[s][f].text
      BY <1>2, Zenon DEF View
    <3>2. CASE w.disk = Absent
      BY <1>2, <1>5, <1>8, <1>11, <3>1, <3>2, SeesWrite, Zenon
    <3>3. CASE w.disk # Absent
      <4>1. View(s, f)' = View(s, f) /\ OnlyFile(s, f)
        BY <1>5, <1>11, <3>1, <3>3, SeesSame, Zenon
      <4> QED
        BY <1>2, <1>8, <3>1, <3>3, <4>1, Zenon DEF Becomes
    <3> QED
      BY <3>2, <3>3, Zenon
  <2>2. fd'[s].off = 0 /\ fd'[s].size = Len(d)
    <3>1. w.disk = disk[f].text
      BY <1>2, Zenon DEF View
    <3> QED
      BY <1>8, <1>11, <3>1, TextProperties, Zenon DEF TypeOK
  <2>3. pc'[s] = IF 0 < e.osize /\ e.osize < Len(w.text) THEN "extend" ELSE "write"
    BY <1>11, <2>1, NextFileSets, Zenon DEF MustExtend
  <2>4. Busy(View(s, f)', e, times[s].spent)
    BY <1>4, <1>6, <1>9, <2>1, Zenon DEF Busy, Becomes, Pending, Filled, Orig
  <2>9. e.osize \in Nat /\ Len(d) \in Nat /\ Len(w.text) \in Nat
    BY <1>4, <1>9, TextProperties, Zenon DEF Entries
  <2>5. pc'[s] = "extend" => Extended(View(s, f)', e, fd'[s])
    <3>1. pc'[s] = "extend" => 0 < e.osize /\ e.osize < Len(w.text)
      BY <2>3, Zenon
    <3>2. w.alone /\ 0 < e.osize => d = w.base
      BY <1>4, <1>9, TextProperties DEF Orig, Pending, Filled
    <3> QED
      BY <2>9, <1>9, <2>1, <2>2, <3>1, <3>2 DEF Extended, Becomes
  <2>6. pc'[s] # "extend" => Overwritten(View(s, f)', e, fd'[s].off)
    BY <2>9, <1>9, <2>1, <2>2, <2>3 DEF Overwritten, Becomes
  <2>7. pc'[s] \in BusyPcs /\ pc'[s] # "truncate"
    BY <2>3, Zenon DEF BusyPcs
  <2>8. arg'[s] = arg[s] /\ errors'[s] = errors[s] /\ times'[s] = times[s] /\ tf'[s] = tf[s]
        /\ exit'[s] = exit[s]
    BY <1>5, <1>11, Zenon
  <2> QED
    BY <1>3, <1>p, <1>5, <2>1, <2>4, <2>5, <2>6, <2>7, <2>8, EntryGoesOn, Zenon
<1> QED
  BY <1>1, <1>3, <1>7, <1>10, <1>11, Zenon DEF copy_open

(* Zeroes are written after the end, or taken back.                        *)
LEMMA ExtendStep ==
    ASSUME Inv, conf' = conf, NEW s \in Session, sudo_extend_file(s)
    PROVE  SInv(s)'
<1> TypeOK /\ SInv(s)
  BY Zenon DEF Inv
<1>1. pc[s] = "extend" /\ pc[s] \in BusyPcs /\ pc[s] \in CopyPcs
  BY Zenon DEF sudo_extend_file, BusyPcs, CopyPcs
<1>2. PICK f \in File : f = This(s).ofile
  BY <1>1, ThisWritten, ThisType, Zenon
<1>3. PICK w \in Views : w = View(s, f)
  BY ViewType, Zenon
<1>4. PICK e \in Entries : e = This(s)
  BY <1>1, ThisWritten, ThisType, Zenon
<1>5. arg[s] \in 1..Len(tf[s]) /\ f = tf[s][arg[s]].ofile
  BY <1>1, <1>2, ThisWritten, ThisType, Zenon DEF This
<1>t. w.text = tmp[s][f].text /\ w.disk = disk[f].text
  BY <1>3, Zenon DEF View
<1>d. w.text \in Text /\ w.disk \in Text
  BY <1>1, <1>2, <1>t, ThisWritten, Zenon
<1>6. Busy(w, e, times[s].spent) /\ Extended(w, e, fd[s])
  BY <1>1, <1>2, <1>3, <1>4, Zenon DEF SInv, CopyingOne
<1>7. UNCHANGED <<tf, exit, times, base, saved>> /\ failed \subseteq failed'
  BY AssignTypes, Zenon DEF sudo_extend_file
<1> DEFINE at == fd[s].size + fd[s].off
<1>8. /\ e.osize \in Nat /\ Len(w.text) \in Nat /\ Len(w.disk) \in Nat
      /\ fd[s].off \in Nat /\ fd[s].size \in Nat
  <2>1. fd[s].off \in Nat /\ fd[s].size \in Nat
    BY Zenon DEF TypeOK
  <2> QED
    BY <1>d, <2>1, TextProperties, Zenon DEF Entries
<1>9. Safe(w)
  BY <1>6, Zenon DEF Safe, Busy, Filled
(* A step that goes on, or one that gives up.                              *)
<1>10. ASSUME arg' = arg, errors' = errors, NEW d \in Text, OnlyFile(s, f),
              Becomes(w, View(s, f)', w.text, w.mtime, d),
              \/ pc'[s] = "extend" /\ Extended(View(s, f)', e, fd'[s])
              \/ pc'[s] = "write" /\ Overwritten(View(s, f)', e, fd'[s].off)
       PROVE  SInv(s)'
  <2>1. Busy(View(s, f)', e, times[s].spent)
    BY <1>6, <1>10, TextAssumption, Zenon DEF Busy, Becomes, Filled, Orig
  <2>2. pc'[s] \in BusyPcs /\ pc'[s] # "truncate"
    BY <1>10, Zenon DEF BusyPcs
  <2>3. arg'[s] = arg[s] /\ errors'[s] = errors[s] /\ times'[s] = times[s] /\ tf'[s] = tf[s]
        /\ exit'[s] = exit[s]
    BY <1>7, <1>10, Zenon
  <2> QED
    BY <1>1, <1>4, <1>5, <1>7, <1>10, <2>1, <2>2, <2>3, EntryGoesOn, Zenon
<1>11. CASE /\ at < Len(w.text)
            /\ Write(s, f, Put(w.disk, at, Zero))
            /\ fd' = [fd EXCEPT ![s].off = fd[s].off + 1]
            /\ UNCHANGED <<pc, arg, tmp, errors>>
  <2> DEFINE d == Put(w.disk, at, Zero)
  <2>1. /\ d \in Text
        /\ Len(d) = IF at < Len(w.disk) THEN Len(w.disk) ELSE at + 1
        /\ \A i \in 1..Len(w.disk) : i # at + 1 => d[i] = w.disk[i]
    <3>1. at \in Nat /\ w.disk \in Text /\ Zero \in Chunk
      BY <1>8, <1>d, TextAssumption
    <3> QED
      BY ONLY <3>1, PutText, ZenonT(40)
  <2>2. Becomes(w, View(s, f)', w.text, w.mtime, d) /\ OnlyFile(s, f)
    BY <1>3, <1>7, <1>11, SeesWrite, Zenon
  <2>3. fd'[s].off = fd[s].off + 1 /\ fd'[s].size = fd[s].size
    BY <1>11 DEF TypeOK
  <2> HIDE DEF d
  <2>4. Extended(View(s, f)', e, fd'[s])
    <3>1. w.alone => \A i \in 1..e.osize : i \in 1..Len(w.disk) /\ i # at + 1
      BY <1>6, <1>8 DEF Extended
    <3>2. w.alone => \A i \in 1..e.osize : d[i] = w.base[i]
      BY <1>6, <2>1, <3>1, Zenon DEF Extended
    <3>3. w.alone => Len(d) = e.osize + (fd[s].off + 1) /\ e.osize + (fd[s].off + 1) <= Len(w.text)
      <4>1. w.alone => at = e.osize + fd[s].off /\ at = Len(w.disk)
        BY <1>6, <1>8, Zenon DEF Extended
      <4>2. at \in Nat /\ at < Len(w.text)
        BY SMTT(30), <1>8, <1>11
      <4>3. w.alone => Len(d) = at + 1
        BY <1>8, <2>1, <4>1, <4>2
      <4>4. e.osize \in Nat /\ fd[s].off \in Nat /\ Len(w.text) \in Nat
        BY <1>8, Zenon
      <4>5. w.alone => e.osize + (fd[s].off + 1) = at + 1
        BY <4>1, <4>2, <4>4
      <4>6. at + 1 <= Len(w.text)
        BY <4>2, <4>4
      <4> HIDE DEF at
      <4> QED
        BY <4>3, <4>5, <4>6, Zenon
    <3> QED
      BY <1>6, <2>2, <2>3, <3>2, <3>3, Zenon DEF Extended, Becomes
  <2>5. pc'[s] = "extend" /\ arg' = arg /\ errors' = errors
    BY <1>1, <1>11, Zenon
  <2> QED
    BY <1>10, <2>1, <2>2, <2>4, <2>5, Zenon
<1>12. CASE /\ "truncate" \in failed' \/ Write(s, f, Resized(w.disk, fd[s].size))
            /\ Write(s, f, Resized(w.disk, fd[s].size)) \/ NoWrite
            /\ NotCopied(s)
  <2> DEFINE r == Resized(w.disk, fd[s].size)
  <2>1. /\ r \in Text /\ Len(r) = fd[s].size
        /\ \A i \in 1..fd[s].size : r[i] = IF i <= Len(w.disk) THEN w.disk[i] ELSE Zero
    BY <1>d, <1>8, ResizedText, Zenon
  <2> HIDE DEF r
  <2>2. w.alone /\ w.base # Absent => r = w.base
    <3> SUFFICES ASSUME w.alone, w.base # Absent
                 PROVE  r = w.base
      BY Zenon
    <3>1. w.base \in Text /\ Len(w.base) = e.osize /\ fd[s].size = e.osize
      BY <1>6, Zenon DEF Views, AnyText, Busy, Filled, Extended, Orig
    <3>2. \A i \in 1..e.osize : r[i] = w.base[i]
      BY <1>6, <1>8, <2>1, <3>1 DEF Extended
    <3> QED
      BY <2>1, <3>1, <3>2, SameText, Zenon
  <2>3. tmp' = tmp
    BY <1>12, Zenon DEF NotCopied
  <2>4. CASE Write(s, f, r)
    <3>1. Becomes(w, View(s, f)', w.text, w.mtime, r) /\ OnlyFile(s, f)
      BY <1>3, <1>7, <2>3, <2>4, SeesWrite, Zenon
    <3>2. Safe(View(s, f)') /\ Intact(View(s, f)', failed')
      BY <1>d, <1>6, <2>2, <3>1, TextAssumption, Zenon DEF Safe, Intact, Becomes, Busy, Filled
    <3> QED
      BY <1>1, <1>5, <1>7, <1>12, <3>1, <3>2, GivesUp, Zenon
  <2>5. CASE NoWrite /\ "truncate" \in failed'
    <3>1. View(s, f)' = w /\ OnlyFile(s, f)
      BY <1>3, <1>7, <2>3, <2>5, SeesSame, Zenon
    <3>2. Intact(w, failed')
      BY <2>5, Zenon DEF Intact, Harmless
    <3> QED
      BY <1>1, <1>5, <1>7, <1>9, <1>12, <3>1, <3>2, GivesUp, Zenon
  <2> QED
    BY <1>12, <2>4, <2>5, Zenon DEF r
<1>13. CASE /\ ~(at < Len(w.text))
            /\ fd' = [fd EXCEPT ![s].off = 0]
            /\ Goto(s, "write") /\ NoWrite /\ UNCHANGED <<arg, tmp, errors>>
  <2>1. View(s, f)' = w /\ OnlyFile(s, f)
    BY <1>3, <1>7, <1>13, SeesSame, Zenon
  <2>2. fd'[s].off = 0 /\ pc'[s] = "write"
    <3>1. fd'[s].off = 0
      BY <1>13 DEF TypeOK
    <3> QED
      BY <1>13, <3>1, NextFileSets, Zenon
  <2>3. Overwritten(w, e, 0)
    BY <1>6, <1>8, <1>13 DEF Extended, Overwritten
  <2>4. Becomes(w, View(s, f)', w.text, w.mtime, w.disk)
    BY <2>1, Zenon DEF Becomes
  <2> QED
    BY <1>d, <1>10, <1>13, <2>1, <2>2, <2>3, <2>4, Zenon
<1>14. CASE FailAll({"space", "truncate"}) /\ NoWrite /\ NotCopied(s)
  BY <1>12, <1>14, Zenon DEF FailAll
<1> QED
  BY <1>2, <1>t, <1>11, <1>12, <1>13, <1>14, Zenon DEF sudo_extend_file

(* A chunk is written, or the copy ends.                                   *)
LEMMA WriteStep ==
    ASSUME Inv, conf' = conf, NEW s \in Session, copy_write(s)
    PROVE  SInv(s)'
<1> TypeOK /\ SInv(s)
  BY Zenon DEF Inv
<1>1. pc[s] = "write" /\ pc[s] \in BusyPcs /\ pc[s] \in CopyPcs
  BY Zenon DEF copy_write, BusyPcs, CopyPcs
<1>2. PICK f \in File : f = This(s).ofile
  BY <1>1, ThisWritten, ThisType, Zenon
<1>3. PICK w \in Views : w = View(s, f)
  BY ViewType, Zenon
<1>4. PICK e \in Entries : e = This(s)
  BY <1>1, ThisWritten, ThisType, Zenon
<1>5. arg[s] \in 1..Len(tf[s]) /\ f = tf[s][arg[s]].ofile
  BY <1>1, <1>2, ThisWritten, ThisType, Zenon DEF This
<1>t. w.text = tmp[s][f].text /\ w.disk = disk[f].text
  BY <1>3, Zenon DEF View
<1>d. w.text \in Text /\ w.disk \in Text
  BY <1>1, <1>2, <1>t, ThisWritten, Zenon
<1>6. Busy(w, e, times[s].spent) /\ Overwritten(w, e, fd[s].off)
  BY <1>1, <1>2, <1>3, <1>4, Zenon DEF SInv, CopyingOne
<1>7. UNCHANGED <<tf, exit, times, base, saved>> /\ failed \subseteq failed'
  BY AssignTypes, Zenon DEF copy_write
<1> DEFINE off == fd[s].off
<1>8. e.osize \in Nat /\ Len(w.text) \in Nat /\ Len(w.disk) \in Nat /\ off \in Nat
  <2>1. off \in Nat
    BY Zenon DEF TypeOK
  <2> QED
    BY <1>d, <2>1, TextProperties, Zenon DEF Entries
<1>9. Safe(w)
  BY <1>6, Zenon DEF Safe, Busy, Filled
<1>10. ASSUME arg' = arg, errors' = errors, NEW d \in Text, OnlyFile(s, f),
              Becomes(w, View(s, f)', w.text, w.mtime, d),
              pc'[s] \in {"write", "truncate"}, Overwritten(View(s, f)', e, fd'[s].off),
              pc'[s] = "truncate" => fd'[s].off = Len(w.text)
       PROVE  SInv(s)'
  <2>1. Busy(View(s, f)', e, times[s].spent)
    BY <1>6, <1>10, TextAssumption, Zenon DEF Busy, Becomes, Filled, Orig
  <2>2. pc'[s] \in BusyPcs /\ pc'[s] # "extend"
    BY <1>10, Zenon DEF BusyPcs
  <2>3. arg'[s] = arg[s] /\ errors'[s] = errors[s] /\ times'[s] = times[s] /\ tf'[s] = tf[s]
        /\ exit'[s] = exit[s]
    BY <1>7, <1>10, Zenon
  <2>4. View(s, f)'.text = w.text
    BY <1>10, Zenon DEF Becomes
  <2> QED
    BY <1>1, <1>4, <1>5, <1>7, <1>10, <2>1, <2>2, <2>3, <2>4, EntryGoesOn, Zenon
<1>11. CASE /\ off < Len(w.text)
            /\ Write(s, f, Put(w.disk, off, w.text[off + 1]))
            /\ fd' = [fd EXCEPT ![s].off = fd[s].off + 1]
            /\ UNCHANGED <<pc, arg, tmp, errors>>
  <2> DEFINE d == Put(w.disk, off, w.text[off + 1])
  <2>1. /\ d \in Text
        /\ Len(d) = IF off < Len(w.disk) THEN Len(w.disk) ELSE off + 1
        /\ d[off + 1] = w.text[off + 1]
        /\ \A i \in 1..Len(w.disk) : i # off + 1 => d[i] = w.disk[i]
    <3>1. off + 1 \in 1..Len(w.text)
      BY <1>8, <1>11
    <3>2. w.text[off + 1] \in Chunk
      BY <1>d, <3>1, TextProperties, Zenon
    <3> QED
      <4>1. w.disk \in Text /\ off \in Nat
        BY <1>d, <1>8, Zenon
      <4> QED
        BY <3>2, <4>1, PutText, ZenonT(40), Zenon
  <2>2. Becomes(w, View(s, f)', w.text, w.mtime, d) /\ OnlyFile(s, f)
    BY <1>3, <1>7, <1>11, SeesWrite, Zenon
  <2>3. fd'[s].off = off + 1
    BY <1>11 DEF TypeOK
  <2> HIDE DEF d
  <2>4. w.alone => /\ Len(w.disk) = IF e.osize = 0 THEN off
                                    ELSE IF e.osize < Len(w.text) THEN Len(w.text) ELSE e.osize
                   /\ \A i \in 1..off : w.disk[i] = w.text[i]
    BY <1>6, Zenon DEF Overwritten
  <2>5. w.alone => Len(d) = IF e.osize = 0 THEN off + 1
                            ELSE IF e.osize < Len(w.text) THEN Len(w.text) ELSE e.osize
    BY <1>8, <1>11, <2>1, <2>4
  <2>6. w.alone => \A i \in 1..(off + 1) : d[i] = w.text[i]
    <3>1. w.alone => off <= Len(w.disk)
      BY <1>8, <1>11, <2>4
    <3>2. \A i \in 1..(off + 1) : i = off + 1 \/ (i \in 1..off /\ i # off + 1)
      BY <1>8
    <3>3. w.alone => \A i \in 1..off : i \in 1..Len(w.disk)
      BY <1>8, <3>1
    <3> QED
      BY <2>1, <2>4, <3>2, <3>3, Zenon
  <2>7. Overwritten(View(s, f)', e, off + 1)
    BY <1>8, <1>11, <2>2, <2>5, <2>6 DEF Overwritten, Becomes
  <2>8. pc'[s] = "write" /\ arg' = arg /\ errors' = errors
    BY <1>1, <1>11, Zenon
  <2> QED
    BY <1>10, <2>1, <2>2, <2>3, <2>7, <2>8, Zenon
<1>12. CASE off = Len(w.text) /\ Goto(s, "truncate") /\ NoWrite /\ UNCHANGED <<fd, arg, tmp, errors>>
  <2>1. View(s, f)' = w /\ OnlyFile(s, f)
    BY <1>3, <1>7, <1>12, SeesSame, Zenon
  <2>2. Becomes(w, View(s, f)', w.text, w.mtime, w.disk)
    BY <2>1, Zenon DEF Becomes
  <2>3. pc'[s] = "truncate"
    BY <1>12, NextFileSets, Zenon
  <2> QED
    BY <1>d, <1>6, <1>10, <1>12, <2>1, <2>2, <2>3, Zenon
<1>13. CASE /\ \/ "read" \in failed' \/ "write" \in failed'
               \/ off < Len(w.text) /\ off >= Len(w.disk)
            /\ NotCopied(s) /\ NoWrite
  <2>1. View(s, f)' = w /\ OnlyFile(s, f)
    BY <1>3, <1>7, <1>13, SeesSame, Zenon DEF NotCopied
  <2>2. off < Len(w.text) /\ off >= Len(w.disk) /\ w.alone => e.osize = 0
    BY <1>6, <1>8 DEF Overwritten
  <2>3. e.osize = 0 => w.base \in {Absent, <<>>}
    <3>1. e.osize = Len(Orig(w)) /\ Orig(w) \in Text
      BY <1>6, OrigType, Zenon DEF Busy, Filled
    <3> QED
      BY <3>1, TextProperties, Zenon DEF Orig
  <2>4. Intact(w, failed')
    BY <1>13, <2>2, <2>3, Zenon DEF Intact, Harmless
  <2> QED
    BY <1>1, <1>5, <1>7, <1>9, <1>13, <2>1, <2>4, GivesUp, Zenon
<1> QED
  BY <1>2, <1>t, <1>11, <1>12, <1>13, Zenon DEF copy_write, Fails, FailAll

(* The copy is complete: the rest of a longer file is cut off.             *)
LEMMA TruncateStep ==
    ASSUME Inv, conf' = conf, NEW s \in Session, copy_truncate(s)
    PROVE  SInv(s)'
<1> TypeOK /\ SInv(s)
  BY Zenon DEF Inv
<1>1. pc[s] = "truncate" /\ pc[s] \in BusyPcs /\ pc[s] \in CopyPcs
  BY Zenon DEF copy_truncate, BusyPcs, CopyPcs
<1>2. PICK f \in File : f = This(s).ofile
  BY <1>1, ThisWritten, ThisType, Zenon
<1>3. PICK w \in Views : w = View(s, f)
  BY ViewType, Zenon
<1>4. PICK e \in Entries : e = This(s)
  BY <1>1, ThisWritten, ThisType, Zenon
<1>5. arg[s] \in 1..Len(tf[s]) /\ f = tf[s][arg[s]].ofile
  BY <1>1, <1>2, ThisWritten, ThisType, Zenon DEF This
<1>t. w.text = tmp[s][f].text /\ w.disk = disk[f].text
  BY <1>3, Zenon DEF View
<1>d. w.text \in Text /\ w.disk \in Text
  BY <1>1, <1>2, <1>t, ThisWritten, Zenon
<1>6. /\ Busy(w, e, times[s].spent) /\ Overwritten(w, e, Len(w.text))
  BY <1>1, <1>2, <1>3, <1>4, Zenon DEF SInv, CopyingOne
<1>7. UNCHANGED <<tf, exit, times, base, saved>> /\ failed \subseteq failed'
  BY AssignTypes, Zenon DEF copy_truncate
<1>8. e.osize \in Nat /\ Len(w.text) \in Nat /\ Len(w.disk) \in Nat
  BY <1>d, TextProperties, Zenon DEF Entries
<1>9. ASSUME NEW d \in Text, w.alone => d = w.text, Copied(s), OnlyFile(s, f),
             Becomes(w, View(s, f)', Absent, 0, d)
      PROVE  SInv(s)'
  <2>1. Safe(View(s, f)') /\ View(s, f)'.text = Absent
    BY <1>6, <1>9, Zenon DEF Safe, Becomes, Busy, Filled
  <2>2. Intact(View(s, f)', failed')
    BY <1>6, <1>9, Zenon DEF Intact, Becomes, Busy, Filled, Orig
  <2> QED
    BY <1>1, <1>5, <1>7, <1>9, <2>1, <2>2, Finishes, Zenon
<1>10. CASE Len(w.text) < e.osize /\ Write(s, f, Resized(w.disk, Len(w.text))) /\ Copied(s)
  <2> DEFINE d == Resized(w.disk, Len(w.text))
  <2>1. /\ d \in Text /\ Len(d) = Len(w.text)
        /\ \A i \in 1..Len(w.text) : d[i] = IF i <= Len(w.disk) THEN w.disk[i] ELSE Zero
    BY <1>d, <1>8, ResizedText, Zenon
  <2>2. Becomes(w, View(s, f)', Absent, 0, d) /\ OnlyFile(s, f)
    BY <1>2, <1>3, <1>7, <1>10, SeesWriteUnlink, Zenon DEF Copied
  <2> HIDE DEF d
  <2>3. w.alone => d = w.text
    <3> SUFFICES ASSUME w.alone
                 PROVE  d = w.text
      BY Zenon
    <3>1. Len(w.text) <= Len(w.disk) /\ \A i \in 1..Len(w.text) : w.disk[i] = w.text[i]
      BY <1>6, <1>8, <1>10 DEF Overwritten
    <3>2. \A i \in 1..Len(w.text) : d[i] = w.text[i]
      BY <1>8, <2>1, <3>1
    <3> QED
      BY <1>d, <2>1, <3>2, SameText, Zenon
  <2> QED
    BY <1>9, <1>10, <2>1, <2>2, <2>3, Zenon
<1>11. CASE ~(Len(w.text) < e.osize) /\ NoWrite /\ Copied(s)
  <2>1. Becomes(w, View(s, f)', Absent, 0, w.disk) /\ OnlyFile(s, f)
    BY <1>2, <1>3, <1>7, <1>11, SeesUnlink, Zenon DEF Copied
  <2>2. w.alone => w.disk = w.text
    <3> SUFFICES ASSUME w.alone
                 PROVE  w.disk = w.text
      BY Zenon
    <3>1. Len(w.disk) = Len(w.text) /\ \A i \in 1..Len(w.text) : w.disk[i] = w.text[i]
      BY <1>6, <1>8, <1>11 DEF Overwritten
    <3> QED
      BY <1>d, <3>1, SameText, Zenon
  <2> QED
    BY <1>d, <1>9, <1>11, <2>1, <2>2, Zenon
<1>12. CASE "truncate" \in failed' /\ NoWrite /\ NotCopied(s)
  <2>1. View(s, f)' = w /\ OnlyFile(s, f)
    BY <1>3, <1>7, <1>12, SeesSame, Zenon DEF NotCopied
  <2>2. Safe(w) /\ Intact(w, failed')
    BY <1>6, <1>12, Zenon DEF Safe, Busy, Filled, Intact, Harmless
  <2> QED
    BY <1>1, <1>5, <1>7, <1>12, <2>1, <2>2, GivesUp, Zenon
<1> QED
  BY <1>2, <1>4, <1>t, <1>10, <1>11, <1>12, Zenon DEF copy_truncate, Fails, FailAll

(* All files have been dealt with.                                         *)
LEMMA CopyEndStep ==
    ASSUME Inv, conf' = conf, NEW s \in Session, copy_end(s)
    PROVE  SInv(s)'
<1> TypeOK /\ SInv(s)
  BY Zenon DEF Inv
<1>1. /\ pc[s] = "copy" /\ arg[s] > Len(tf[s]) /\ pc'[s] = "done" /\ tf'[s] = tf[s]
      /\ exit'[s] = (IF errors[s] = 0 THEN "ok" ELSE "fail") /\ failed' = failed
  BY Zenon DEF copy_end, Ends, Goto, TypeOK
<1>2. \A f \in File : View(s, f)' = View(s, f)
  BY SeesSame, Zenon DEF copy_end
<1>3. ASSUME NEW f \in File
      PROVE  /\ Safe(View(s, f)) /\ Intact(View(s, f), failed)
             /\ errors[s] = 0 => View(s, f).text = Absent
  <2>1. CASE \A j \in 1..Len(tf[s]) : tf[s][j].ofile # f
    <3>1. Blank(View(s, f))
      BY <2>1, Zenon DEF SInv, Unlisted
    <3> QED
      BY <3>1, BlankSettles, Zenon DEF Blank
  <2>2. ASSUME NEW j \in 1..Len(tf[s]), tf[s][j].ofile = f
        PROVE  Settled(s, View(s, f))
    <3>1. Len(tf[s]) \in Nat /\ arg[s] \in Nat
      BY DEF TypeOK
    <3>2. j < arg[s]
      BY <1>1, <3>1
    <3> QED
      BY <1>1, <2>2, <3>2, Zenon DEF SInv, AllSettled, CopyPcs, ViewAt
  <2> QED
    BY <2>1, <2>2, Zenon DEF Settled
<1> QED
  BY <1>1, <1>2, <1>3, SessionDone, Zenon

(***************************************************************************)
(* The theorems                                                            *)
(***************************************************************************)
LEMMA InitInv == Init => Inv
<1> SUFFICES ASSUME Init
             PROVE  Inv
  BY Zenon
<1> USE DEF Init
<1>1. TypeOK
  <2>1. conf.first \in [File -> Text \cup {Absent}]
    BY ConfsAssumption, Zenon
  <2>2. disk \in [File -> OnDisk]
    BY <2>1, Zenon DEF OnDisk
  <2>3. tmp \in [Session -> [File -> OnDisk]]
    BY Zenon DEF OnDisk, NoFile
  <2>4. tf \in [Session -> Seq([ofile : File, osize : Nat, omtim : Nat])]
    OBVIOUS
  <2> QED
    BY <2>2, <2>3, <2>4 DEF TypeOK
<1>2. ASSUME NEW s \in Session
      PROVE  SInv(s)
  <2>1. pc[s] = "create" /\ tf[s] = <<>> /\ arg[s] = 1 /\ exit[s] = "none" /\ Len(tf[s]) = 0
    BY Zenon
  <2>2. \A f \in File : /\ View(s, f).text = Absent /\ View(s, f).base = Absent
                        /\ View(s, f).new = Absent /\ ~View(s, f).seen
    BY Zenon DEF View, NoFile
  <2>3. conf.args[s] \in Seq(File)
    BY ConfsAssumption, Zenon
  <2>4. Places(s)
    BY <2>1, <2>3 DEF Places, OfArgs, BusyPcs, MakePcs
  <2>5. Distinct(s) /\ AllPending(s)
    BY <2>1 DEF Distinct, AllPending
  <2>6. Unlisted(s) /\ NothingSaved(s) /\ Ended(s)
    BY <2>1, <2>2, Zenon DEF Unlisted, NothingSaved, Ended, Blank
  <2>7. AllSettled(s) /\ MakingOne(s) /\ CopyingOne(s)
    BY <2>1, Zenon DEF AllSettled, MakingOne, CopyingOne, CopyPcs, BusyPcs, MakePcs
  <2> QED
    BY <2>4, <2>5, <2>6, <2>7, Zenon DEF SInv
<1> QED
  BY <1>1, <1>2, Zenon DEF Inv

(* Every step of every session preserves the invariant of all of them.     *)
LEMMA NextInv == Inv /\ [Next]_vars => Inv'
<1> SUFFICES ASSUME Inv, [Next]_vars
             PROVE  Inv'
  BY Zenon
<1> TypeOK
  BY Zenon DEF Inv
<1>1. ASSUME NEW s \in Session, sudo_edit(s) \/ UserSaves(s) \/ Killed(s), conf' = conf
      PROVE  Inv'
  <2>1. TypeOK' /\ failed \subseteq failed'
    BY <1>1, CreateTypes, EditorTypes, CopyTypes, Zenon DEF sudo_edit
  <2>2. SInv(s)'
    BY <1>1, SkipStep, OpenStep, CopyOutStep, StampStep, StartStep, SaveStep, EndStep, KillStep,
       CheckStep, UnchangedStep, OpenBackStep, ExtendStep, WriteStep, TruncateStep, CopyEndStep, Zenon
    DEF sudo_edit
  <2>3. ASSUME NEW t \in Session \ {s}
        PROVE  SInv(t)'
    <3>1. Leaves(t)
      BY <1>1, StepLeaves, Zenon
    <3>2. \A f \in File : Drift(View(t, f), View(t, f)')
      BY <3>1, LeavesDrift, Zenon
    <3> QED
      BY <1>1, <2>1, <3>1, <3>2, OthersStep, Zenon DEF Inv, Leaves
  <2> QED
    BY <2>1, <2>2, <2>3, Zenon DEF Inv
<1>2. CASE (Tick /\ conf' = conf) \/ UNCHANGED vars
  <2>1. TypeOK'
    <3>1. now' \in Nat
      BY <1>2 DEF Tick, vars, TypeOK
    <3> QED
      BY <1>2, <3>1, Zenon DEF Tick, vars, TypeOK
  <2>2. ASSUME NEW t \in Session
        PROVE  SInv(t)'
    <3>1. conf' = conf /\ OwnSame(t) /\ failed' = failed
      BY <1>2, Zenon DEF Tick, vars, OwnSame
    <3>2. \A f \in File : View(t, f)' = View(t, f)
      BY <1>2, Zenon DEF Tick, vars, View
    <3>3. \A f \in File : Drift(View(t, f), View(t, f)')
      BY <3>2, DriftReflexive, Zenon
    <3> QED
      BY <3>1, <3>3, OthersStep, Zenon DEF Inv
  <2> QED
    BY <2>1, <2>2, Zenon DEF Inv
<1> QED
  BY <1>1, <1>2, Zenon DEF Next

(* Every variable of sudoedit keeps its type: texts are sequences of       *)
(* chunks, and what overwriting, extending and truncating leave is one.    *)
THEOREM TypeCorrect == Spec => []TypeOK
<1>1. Inv => TypeOK
  BY Zenon DEF Inv
<1> QED
  BY <1>1, InitInv, NextInv, PTL DEF Spec

(* What the user saved is in the temporary file until all of it is in the  *)
(* original, whatever the other sessions do, whichever call fails and      *)
(* whenever the session is killed.                                         *)
THEOREM EditsKept == Spec => []EditNeverLost
<1>1. Inv => EditNeverLost
  <2> SUFFICES ASSUME Inv, NEW s \in Session, NEW f \in File, "clock" \notin failed
               PROVE  Safe(View(s, f))
    BY Zenon DEF EditNeverLost, Safe, View
  <2>1. CASE pc[s] = "done"
    BY <2>1, Zenon DEF Inv, SInv, Ended
  <2>2. CASE pc[s] # "done"
    BY <2>2, SafeBeforeEnd, Zenon DEF Inv
  <2> QED
    BY <2>1, <2>2, Zenon
<1> QED
  BY <1>1, InitInv, NextInv, PTL DEF Spec

(* A full disk leaves the old text or the new one: the file is extended    *)
(* before it is overwritten, so that no later write needs space.           *)
THEOREM NoMixture == Spec => []OldOrNew
<1>1. Inv => OldOrNew
  <2> SUFFICES ASSUME Inv, NEW s \in Session, NEW f \in File, pc[s] = "done", alone[s][f],
                      base[s][f] \notin {Absent, <<>>},
                      failed \cap {"read", "write", "truncate", "kill"} = {}
               PROVE  disk[f].text \in {base[s][f], saved[s][f].text}
    BY Zenon DEF OldOrNew
  <2>1. Intact(View(s, f), failed)
    BY Zenon DEF Inv, SInv, Ended
  <2> QED
    BY <2>1, Zenon DEF Intact, Harmless, View
<1> QED
  BY <1>1, InitInv, NextInv, PTL DEF Spec

(* Exit status 0 means that no temporary file is left and every text is in *)
(* place; and only a file that was changed is written.                     *)
THEOREM SuccessIsTrue == Spec => []SuccessMeansDone
<1>1. Inv => SuccessMeansDone
  <2> SUFFICES ASSUME Inv, NEW s \in Session
               PROVE  /\ exit[s] = "ok" => \A f \in File :
                            /\ tmp[s][f].text = Absent
                            /\ saved[s][f].seen /\ saved[s][f].text # <<>> /\ alone[s][f] =>
                                  disk[f].text = saved[s][f].text
                      /\ pc[s] \in {"extend", "write", "truncate"} =>
                            \/ saved[s][This(s).ofile].text # Absent
                            \/ ~times[s].spent \/ ~alone[s][This(s).ofile]
    BY Zenon DEF SuccessMeansDone
  <2>1. ASSUME exit[s] = "ok", NEW f \in File
        PROVE  /\ tmp[s][f].text = Absent
               /\ saved[s][f].seen /\ saved[s][f].text # <<>> /\ alone[s][f] =>
                     disk[f].text = saved[s][f].text
    <3>1. View(s, f).text = Absent /\ Safe(View(s, f))
      BY <2>1, Zenon DEF Inv, SInv, Ended
    <3> QED
      BY <3>1, Zenon DEF Safe, View
  <2>2. ASSUME pc[s] \in BusyPcs
        PROVE  \/ saved[s][This(s).ofile].text # Absent
               \/ ~times[s].spent \/ ~alone[s][This(s).ofile]
    <3>1. Busy(View(s, This(s).ofile), This(s), times[s].spent)
      BY <2>2, Zenon DEF Inv, SInv, CopyingOne
    <3> QED
      BY <3>1, Zenon DEF Busy, View
  <2> QED
    BY <2>1, <2>2, Zenon DEF BusyPcs
<1> QED
  BY <1>1, InitInv, NextInv, PTL DEF Spec

==============================================================================
