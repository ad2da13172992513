--------------------------- MODULE SudoEditInvariant ---------------------------
(***************************************************************************)
(* The invariant of sudoedit, for any number of sessions, files and texts: *)
(* what a session relies on, what it means for one file of one session,    *)
(* how it survives the steps of others, that every step preserves the      *)
(* types, and that the steps which copy nothing back preserve it.          *)
(*                                                                         *)
(* A session looks at the file it edits only as long as nobody else writes *)
(* it, so the invariant is one of each session, about what it sees of each *)
(* file; that the others preserve it is one lemma (OthersStep).            *)
(***************************************************************************)
EXTENDS SudoEdit, TLAPS

(***************************************************************************)
(* The invariant                                                           *)
(***************************************************************************)
(* What there is of f for s: the temporary file, what the user saved, the  *)
(* text when it was opened, and the original.                              *)
View(s, f) ==
    [text |-> tmp[s][f].text, mtime |-> tmp[s][f].mtime,
     new |-> saved[s][f].text, seen |-> saved[s][f].seen,
     base |-> base[s][f], alone |-> alone[s][f], disk |-> disk[f].text]

AnyText == Text \cup {Absent}

Views == [text : AnyText, mtime : Nat, new : AnyText, seen : BOOLEAN,
          base : AnyText, alone : BOOLEAN, disk : AnyText]

Entries == [ofile : File, osize : Nat, omtim : Nat]

(* The copy of the text that was opened.                                   *)
Orig(w) == IF w.base = Absent THEN <<>> ELSE w.base

Blank(w) == w.text = Absent /\ w.base = Absent /\ w.new = Absent /\ ~w.seen

Untouched(w) == w.alone => w.disk = w.base

(* A temporary file is complete: what its user saved last, or a copy that  *)
(* looks unchanged.                                                        *)
Filled(w, e) ==
    /\ w.text # Absent
    /\ e.osize = Len(Orig(w))
    /\ w.new # Absent =>
          /\ w.text = w.new
          /\ w.seen => Len(w.text) # e.osize \/ w.mtime # e.omtim
    /\ w.new = Absent =>
          /\ ~w.seen
          /\ w.mtime = e.omtim
          /\ w.alone => w.text = Orig(w)

Pending(w, e) == Filled(w, e) /\ Untouched(w)

(* What the user saved is in the temporary file, or in place.              *)
Safe(w) ==
    w.seen /\ w.new # <<>> =>
        /\ w.new # Absent
        /\ w.text = w.new \/ (w.text = Absent /\ (w.alone => w.disk = w.new))

Harmless(faults) == faults \cap {"read", "write", "truncate", "kill"} = {}

(* The original has its old text or the new one.                           *)
Intact(w, faults) ==
    w.alone /\ w.base \notin {Absent, <<>>} /\ Harmless(faults) => w.disk \in {w.base, w.new}

(* A temporary file is being made, and off chunks have been copied.        *)
Begun(w, e) ==
    /\ w.text # Absent
    /\ e.osize = Len(Orig(w))
    /\ Untouched(w)

Part(w, off) ==
    /\ w.base # Absent /\ w.disk # Absent
    /\ Len(w.text) = off
    /\ w.alone => off <= Len(w.base) /\ \A i \in 1..off : w.text[i] = w.base[i]

Whole(w) == w.alone => w.text = Orig(w)

(* The original is being extended from its size when it was opened.        *)
Extended(w, e, d) ==
    /\ 0 < e.osize /\ e.osize < Len(w.text)
    /\ w.alone =>
          /\ d.size = e.osize
          /\ Len(w.disk) = e.osize + d.off
          /\ e.osize + d.off <= Len(w.text)
          /\ \A i \in 1..e.osize : w.disk[i] = w.base[i]

(* Its first off chunks have been overwritten.                             *)
Overwritten(w, e, off) ==
    /\ off <= Len(w.text)
    /\ w.alone =>
          /\ Len(w.disk) = IF e.osize = 0 THEN off
                           ELSE IF e.osize < Len(w.text) THEN Len(w.text) ELSE e.osize
          /\ \A i \in 1..off : w.disk[i] = w.text[i]

Busy(w, e, spent) ==
    /\ w.disk # Absent
    /\ Filled(w, e)
    /\ w.new # Absent \/ ~spent \/ ~w.alone

CopyPcs == {"copy", "extend", "write", "truncate"}
BusyPcs == {"extend", "write", "truncate"}
MakePcs == {"create_copy", "stamp"}

ViewAt(s, j) == View(s, tf[s][j].ofile)

(* Where a session is in its list of arguments, then in its list of files. *)
OfArgs(list, m, args, n) ==
    \A j \in 1..m : \E k \in 1..n : list[j].ofile = args[k]

Places(s) ==
    LET n == Len(conf.args[s])
        m == Len(tf[s])
    IN  /\ pc[s] = "create" => arg[s] <= n + 1 /\ OfArgs(tf[s], m, conf.args[s], arg[s] - 1)
        /\ pc[s] \in MakePcs =>
              /\ 0 < m /\ arg[s] <= n
              /\ tf[s][m].ofile = conf.args[s][arg[s]]
              /\ OfArgs(tf[s], m - 1, conf.args[s], arg[s] - 1)
        /\ pc[s] = "copy" => arg[s] <= m + 1
        /\ pc[s] \in BusyPcs => arg[s] <= m

Distinct(s) ==
    \A j, k \in 1..Len(tf[s]) : tf[s][j].ofile = tf[s][k].ofile => j = k

(* A file that is not in the list has not been touched.                    *)
Unlisted(s) ==
    \A f \in File : (\A j \in 1..Len(tf[s]) : tf[s][j].ofile # f) => Blank(View(s, f))

NothingSaved(s) ==
    pc[s] \in MakePcs \cup {"create"} =>
        \A f \in File : View(s, f).new = Absent /\ ~View(s, f).seen

(* The entries that are complete and have not been dealt with.             *)
IsPending(s, j) ==
    \/ pc[s] \in {"create", "editor"}
    \/ pc[s] \in MakePcs /\ j < Len(tf[s])
    \/ pc[s] = "copy" /\ j >= arg[s]
    \/ pc[s] \in BusyPcs /\ j > arg[s]

AllPending(s) ==
    \A j \in 1..Len(tf[s]) : IsPending(s, j) => Pending(ViewAt(s, j), tf[s][j])

(* The entries that have been dealt with.                                  *)
Settled(s, w) == Safe(w) /\ Intact(w, failed) /\ (errors[s] = 0 => w.text = Absent)

AllSettled(s) ==
    pc[s] \in CopyPcs => \A j \in 1..Len(tf[s]) : j < arg[s] => Settled(s, ViewAt(s, j))

(* The entry that is being made, and the one that is being copied back.    *)
MakingOne(s) ==
    pc[s] \in MakePcs =>
        LET e == tf[s][Len(tf[s])]
            w == View(s, e.ofile)
        IN  /\ Begun(w, e)
            /\ pc[s] = "create_copy" => Part(w, fd[s].off)
            /\ pc[s] = "stamp" => Whole(w)

CopyingOne(s) ==
    pc[s] \in BusyPcs =>
        LET e == This(s)
            w == View(s, e.ofile)
        IN  /\ Busy(w, e, times[s].spent)
            /\ pc[s] = "extend" => Extended(w, e, fd[s])
            /\ pc[s] \in {"write", "truncate"} => Overwritten(w, e, fd[s].off)
            /\ pc[s] = "truncate" => fd[s].off = Len(w.text)

Ended(s) ==
    /\ exit[s] = "ok" => pc[s] = "done" /\ \A f \in File : View(s, f).text = Absent
    /\ pc[s] = "done" => \A f \in File :
          /\ Intact(View(s, f), failed)
          /\ Safe(View(s, f)) \/ ("clock" \in failed /\ exit[s] # "ok")

SInv(s) ==
    /\ Places(s) /\ Distinct(s) /\ Unlisted(s) /\ NothingSaved(s)
    /\ AllPending(s) /\ AllSettled(s) /\ MakingOne(s) /\ CopyingOne(s) /\ Ended(s)

Inv == TypeOK /\ \A s \in Session : SInv(s)

(***************************************************************************)
(* Texts                                                                   *)
(***************************************************************************)
(* ftruncate() gives a text of the length asked for.                       *)
LEMMA ResizedText ==
    ASSUME NEW text \in Text, NEW n \in Nat
    PROVE  /\ Resized(text, n) \in Text
           /\ Len(Resized(text, n)) = n
           /\ \A i \in 1..n : Resized(text, n)[i] = IF i <= Len(text) THEN text[i] ELSE Zero
<1>1. DOMAIN text = 1..Len(text) /\ Len(text) \in Nat
  BY DEF Text
<1>2. \A i \in 1..n : ChunkOf(text, i) \in Chunk
  BY <1>1, TextAssumption DEF ChunkOf, Text
<1>3. Resized(text, n) \in [1..n -> Chunk]
  BY <1>2, Zenon DEF Resized
<1>4. Resized(text, n) \in Text /\ Len(Resized(text, n)) = n
  BY <1>3 DEF Text
<1>5. \A i \in 1..n : Resized(text, n)[i] = ChunkOf(text, i)
  BY Zenon DEF Resized
<1> QED
  BY <1>1, <1>4, <1>5 DEF ChunkOf

(* A write of a chunk at or before the end of a text.                      *)
LEMMA PutText ==
    ASSUME NEW text \in Text, NEW off \in Nat, NEW chunk \in Chunk
    PROVE  /\ Put(text, off, chunk) \in Text
           /\ Len(Put(text, off, chunk)) = IF off < Len(text) THEN Len(text) ELSE off + 1
           /\ Put(text, off, chunk)[off + 1] = chunk
           /\ \A i \in 1..Len(text) : i # off + 1 => Put(text, off, chunk)[i] = text[i]
<1> DEFINE n == IF off < Len(text) THEN Len(text) ELSE off + 1
           r == Resized(text, n)
<1>1. Len(text) \in Nat /\ n \in Nat /\ off + 1 \in 1..n
  BY DEF Text
<1>2. /\ r \in Text /\ Len(r) = n
      /\ \A i \in 1..n : r[i] = IF i <= Len(text) THEN text[i] ELSE Zero
  BY <1>1, ResizedText, Zenon
<1>3. Put(text, off, chunk) = [r EXCEPT ![off + 1] = chunk]
  BY Zenon DEF Put
<1> HIDE DEF r
<1>4. /\ [r EXCEPT ![off + 1] = chunk] \in Text
      /\ Len([r EXCEPT ![off + 1] = chunk]) = n
      /\ \A i \in 1..n : [r EXCEPT ![off + 1] = chunk][i] = IF i = off + 1 THEN chunk ELSE r[i]
  BY <1>1, <1>2 DEF Text
<1> QED
  BY <1>1, <1>2, <1>3, <1>4

(* Texts of the same length with the same chunks are the same.             *)
LEMMA SameText ==
    ASSUME NEW t \in Text, NEW u \in Text, Len(t) = Len(u), \A i \in 1..Len(t) : t[i] = u[i]
    PROVE  t = u
  BY DEF Text

(* One chunk more.                                                         *)
LEMMA AppendText ==
    ASSUME NEW t \in Text, NEW chunk \in Chunk
    PROVE  /\ Append(t, chunk) \in Text
           /\ Len(Append(t, chunk)) = Len(t) + 1
           /\ Append(t, chunk)[Len(t) + 1] = chunk
           /\ \A i \in 1..Len(t) : Append(t, chunk)[i] = t[i]
  BY DEF Text

(* The length of a text, and its chunks.                                   *)
LEMMA TextProperties ==
    /\ <<>> \in Text /\ Len(<<>>) = 0
    /\ \A t \in Text : Len(t) \in Nat /\ (Len(t) = 0 <=> t = <<>>)
    /\ \A t \in Text : \A i \in 1..Len(t) : t[i] \in Chunk
  BY DEF Text

(***************************************************************************)
(* What a session sees of a file                                           *)
(***************************************************************************)
LEMMA ViewType ==
    ASSUME TypeOK, NEW s \in Session, NEW f \in File
    PROVE  View(s, f) \in Views
  BY DEF TypeOK, View, Views, AnyText, OnDisk

(* The copy of the text that was opened is a text, or there is none.       *)
LEMMA OrigType ==
    ASSUME NEW w \in Views
    PROVE  Orig(w) \in Text
  BY TextProperties, Zenon DEF Orig, Views, AnyText

(* A complete temporary file is safe, and its original intact.             *)
LEMMA PendingSettles ==
    ASSUME NEW w, NEW e, NEW faults, Pending(w, e)
    PROVE  Safe(w) /\ Intact(w, faults)
  BY Zenon DEF Pending, Filled, Untouched, Safe, Intact

(* A file not touched is safe and intact.                                  *)
LEMMA BlankSettles ==
    ASSUME NEW w, NEW faults, Blank(w)
    PROVE  Safe(w) /\ Intact(w, faults)
  BY Zenon DEF Blank, Safe, Intact

(* v is w after steps of others, who may have written the original.        *)
Drift(w, v) ==
    /\ v.text = w.text /\ v.mtime = w.mtime /\ v.new = w.new /\ v.seen = w.seen
    /\ v.base = w.base
    /\ v.alone => w.alone /\ v.disk = w.disk
    /\ w.disk # Absent => v.disk # Absent

(* Steps of others break nothing a session relies on.                      *)
LEMMA DriftKeeps ==
    ASSUME NEW w, NEW v, Drift(w, v)
    PROVE  /\ Blank(w) => Blank(v)
           /\ Safe(w) => Safe(v)
           /\ \A e : Pending(w, e) => Pending(v, e)
           /\ \A e : Begun(w, e) => Begun(v, e)
           /\ \A off : Part(w, off) => Part(v, off)
           /\ Whole(w) => Whole(v)
           /\ \A e, d : Extended(w, e, d) => Extended(v, e, d)
           /\ \A e, off : Overwritten(w, e, off) => Overwritten(v, e, off)
           /\ \A e, spent : Busy(w, e, spent) => Busy(v, e, spent)
<1>1. Orig(v) = Orig(w)
  BY Zenon DEF Drift, Orig
<1>2. Untouched(w) => Untouched(v)
  BY Zenon DEF Drift, Untouched
<1>3. \A e : Filled(w, e) => Filled(v, e)
  BY <1>1, Zenon DEF Drift, Filled
<1>4. Blank(w) => Blank(v)
  BY Zenon DEF Drift, Blank
<1>5. Safe(w) => Safe(v)
  BY Zenon DEF Drift, Safe
<1>6. \A e : Pending(w, e) => Pending(v, e)
  BY <1>2, <1>3, Zenon DEF Pending
<1>7. \A e : Begun(w, e) => Begun(v, e)
  BY <1>1, <1>2, Zenon DEF Begun, Drift
<1>8. \A off : Part(w, off) => Part(v, off)
  BY Zenon DEF Drift, Part
<1>9. Whole(w) => Whole(v)
  BY <1>1, Zenon DEF Drift, Whole
<1>10. \A e, d : Extended(w, e, d) => Extended(v, e, d)
  BY Zenon DEF Drift, Extended
<1>11. \A e, off : Overwritten(w, e, off) => Overwritten(v, e, off)
  BY Zenon DEF Drift, Overwritten
<1>12. \A e, spent : Busy(w, e, spent) => Busy(v, e, spent)
  BY <1>3, Zenon DEF Drift, Busy
<1> QED
  BY <1>4, <1>5, <1>6, <1>7, <1>8, <1>9, <1>10, <1>11, <1>12, Zenon

(* A file that is intact stays so while others step.                       *)
LEMMA DriftIntact ==
    ASSUME NEW w, NEW v, Drift(w, v), NEW faults, NEW more, faults \subseteq more
    PROVE  Intact(w, faults) => Intact(v, more)
  BY Zenon DEF Drift, Intact, Harmless

(* A step that changes nothing of a file is one of others.                 *)
LEMMA DriftReflexive ==
    ASSUME NEW w
    PROVE  Drift(w, w)
  BY Zenon DEF Drift

(***************************************************************************)
(* Steps of a session, as far as its invariant goes                        *)
(***************************************************************************)
LEMMA EntryType ==
    ASSUME TypeOK, NEW s \in Session, NEW j \in 1..Len(tf[s])
    PROVE  tf[s][j] \in Entries /\ tf[s][j].ofile \in File /\ Len(tf[s]) \in Nat
<1>1. tf[s] \in Seq(Entries)
  BY Zenon DEF TypeOK, Entries
<1>2. tf[s][j] \in Entries /\ Len(tf[s]) \in Nat
  BY <1>1
<1> QED
  BY <1>2, Zenon DEF Entries

(* A session's variables other than tmp, base, saved and alone.            *)
OwnSame(s) ==
    /\ pc'[s] = pc[s] /\ arg'[s] = arg[s] /\ tf'[s] = tf[s] /\ fd'[s] = fd[s]
    /\ errors'[s] = errors[s] /\ exit'[s] = exit[s] /\ times'[s] = times[s]

(* What one session relies on holds after the steps of the others.         *)
LEMMA OthersStep ==
    ASSUME TypeOK, NEW s \in Session, SInv(s), conf' = conf, OwnSame(s),
           failed \subseteq failed',
           \A f \in File : Drift(View(s, f), View(s, f)')
    PROVE  SInv(s)'
<1>1. \A j \in 1..Len(tf[s]) : tf[s][j].ofile \in File
  BY EntryType, Zenon
<1>2. \A j \in 1..Len(tf[s]) : Drift(ViewAt(s, j), ViewAt(s, j)')
  BY <1>1, Zenon DEF OwnSame, ViewAt, View
<1>3. Places(s)' /\ Distinct(s)'
  BY Zenon DEF SInv, OwnSame, Places, Distinct
<1>4. Unlisted(s)'
  BY DriftKeeps, Zenon DEF SInv, OwnSame, Unlisted
<1>5. NothingSaved(s)'
  BY Zenon DEF SInv, OwnSame, NothingSaved, Drift
<1>6. AllPending(s)'
  <2> SUFFICES ASSUME NEW j \in 1..Len(tf[s]), IsPending(s, j)'
               PROVE  Pending(ViewAt(s, j), tf[s][j])'
    BY Zenon DEF AllPending, OwnSame
  <2>1. Pending(ViewAt(s, j), tf[s][j])
    BY Zenon DEF SInv, AllPending, IsPending, OwnSame
  <2>2. Pending(ViewAt(s, j)', tf[s][j])
    BY <2>1, <1>2, DriftKeeps, Zenon
  <2> QED
    BY <2>2, Zenon DEF OwnSame
<1>7. AllSettled(s)'
  <2> SUFFICES ASSUME pc[s] \in CopyPcs, NEW j \in 1..Len(tf[s]), j < arg[s]
               PROVE  Settled(s, ViewAt(s, j))'
    BY Zenon DEF AllSettled, OwnSame
  <2>1. Settled(s, ViewAt(s, j))
    BY Zenon DEF SInv, AllSettled
  <2>2. Safe(ViewAt(s, j)') /\ Intact(ViewAt(s, j)', failed')
    BY <2>1, <1>2, DriftKeeps, DriftIntact, Zenon DEF Settled
  <2>3. ViewAt(s, j).text' = ViewAt(s, j).text
    BY <1>2, Zenon DEF Drift
  <2> QED
    BY <2>1, <2>2, <2>3, Zenon DEF OwnSame, Settled
<1>8. MakingOne(s)'
  <2> SUFFICES ASSUME pc[s] \in MakePcs
               PROVE  MakingOne(s)'
    BY Zenon DEF MakingOne, OwnSame
  <2> DEFINE m == Len(tf[s])
             w == ViewAt(s, m)
  <2>1. m \in 1..Len(tf[s])
    BY DEF SInv, Places, TypeOK
  <2>2. Drift(w, w')
    BY <1>2, <2>1, Zenon DEF OwnSame
  <2>3. /\ Begun(w, tf[s][m])
        /\ pc[s] = "create_copy" => Part(w, fd[s].off)
        /\ pc[s] = "stamp" => Whole(w)
    BY Zenon DEF SInv, MakingOne, ViewAt
  <2>4. w' = View(s, tf[s][Len(tf[s])].ofile)'
    BY Zenon DEF OwnSame, ViewAt
  <2> HIDE DEF w
  <2>5. /\ Begun(w', tf[s][m])
        /\ pc[s] = "create_copy" => Part(w', fd[s].off)
        /\ pc[s] = "stamp" => Whole(w')
    BY <2>2, <2>3, DriftKeeps
  <2> QED
    BY <2>4, <2>5, Zenon DEF OwnSame, MakingOne
<1>9. CopyingOne(s)'
  <2> SUFFICES ASSUME pc[s] \in BusyPcs
               PROVE  CopyingOne(s)'
    BY Zenon DEF CopyingOne, OwnSame
  <2> DEFINE w == ViewAt(s, arg[s])
             e == tf[s][arg[s]]
  <2>1. arg[s] \in 1..Len(tf[s])
    BY DEF SInv, Places, TypeOK
  <2>2. Drift(w, w')
    BY <1>2, <2>1, Zenon DEF OwnSame
  <2>3. /\ Busy(w, e, times[s].spent)
        /\ pc[s] = "extend" => Extended(w, e, fd[s])
        /\ pc[s] \in {"write", "truncate"} => Overwritten(w, e, fd[s].off)
        /\ pc[s] = "truncate" => fd[s].off = Len(w.text)
    BY Zenon DEF SInv, CopyingOne, ViewAt, This
  <2>4. w' = View(s, This(s).ofile)' /\ This(s)' = e
    BY Zenon DEF OwnSame, ViewAt, This
  <2> HIDE DEF w
  <2>5. /\ Busy(w', e, times[s].spent)
        /\ pc[s] = "extend" => Extended(w', e, fd[s])
        /\ pc[s] \in {"write", "truncate"} => Overwritten(w', e, fd[s].off)
        /\ w'.text = w.text
    BY <2>2, <2>3, DriftKeeps DEF Drift
  <2> QED
    BY <2>3, <2>4, <2>5, Zenon DEF OwnSame, CopyingOne
<1>10. Ended(s)'
  <2>1. \A f \in File : View(s, f).text' = View(s, f).text
    BY Zenon DEF Drift
  <2>2. \A f \in File : Safe(View(s, f)) => Safe(View(s, f)')
    BY DriftKeeps, Zenon
  <2>3. \A f \in File : Intact(View(s, f), failed) => Intact(View(s, f)', failed')
    BY DriftIntact, Zenon
  <2> QED
    BY <2>1, <2>2, <2>3, Zenon DEF SInv, Ended, OwnSame
<1> QED
  BY <1>3, <1>4, <1>5, <1>6, <1>7, <1>8, <1>9, <1>10, Zenon DEF SInv

(* Nothing that s sees of other files than f changes.                      *)
OnlyFile(s, f) == \A g \in File \ {f} : View(s, g)' = View(s, g)

(* The entries other than the one at k are seen as before.                 *)
LEMMA OtherEntries ==
    ASSUME TypeOK, NEW s \in Session, Distinct(s), NEW k \in 1..Len(tf[s]),
           tf'[s] = tf[s], OnlyFile(s, tf[s][k].ofile)
    PROVE  \A j \in 1..Len(tf[s]) : j # k => ViewAt(s, j)' = ViewAt(s, j)
<1> SUFFICES ASSUME NEW j \in 1..Len(tf[s]), j # k
             PROVE  ViewAt(s, j)' = ViewAt(s, j)
  BY Zenon
<1>1. tf[s][j].ofile \in File \ {tf[s][k].ofile}
  BY EntryType, Zenon DEF Distinct
<1> QED
  BY <1>1, Zenon DEF OnlyFile, ViewAt, View

(* A file that is not in the list stays untouched when another one is.     *)
LEMMA StillUnlisted ==
    ASSUME TypeOK, NEW s \in Session, Unlisted(s), NEW k \in 1..Len(tf[s]),
           tf'[s] = tf[s], OnlyFile(s, tf[s][k].ofile)
    PROVE  Unlisted(s)'
<1> SUFFICES ASSUME NEW f \in File, \A j \in 1..Len(tf[s]) : tf[s][j].ofile # f
             PROVE  Blank(View(s, f)')
  BY Zenon DEF Unlisted
<1>1. View(s, f)' = View(s, f)
  BY Zenon DEF OnlyFile
<1> QED
  BY <1>1, Zenon DEF Unlisted

(* A step of copying back that leaves the entries before arg settled and   *)
(* does not touch those after it.                                          *)
LEMMA CopyStep ==
    ASSUME TypeOK, NEW s \in Session, SInv(s), pc[s] \in CopyPcs, arg[s] \in 1..Len(tf[s]),
           conf' = conf, tf'[s] = tf[s], exit'[s] = exit[s], failed \subseteq failed',
           OnlyFile(s, tf[s][arg[s]].ofile)
    PROVE  /\ Distinct(s)' /\ Unlisted(s)' /\ exit'[s] # "ok"
           /\ \A j \in 1..Len(tf[s]) : j > arg[s] => Pending(ViewAt(s, j)', tf'[s][j])
           /\ \A j \in 1..Len(tf[s]) : j < arg[s] =>
                 /\ Safe(ViewAt(s, j)') /\ Intact(ViewAt(s, j)', failed')
                 /\ errors[s] = 0 => ViewAt(s, j)'.text = Absent
<1>1. \A j \in 1..Len(tf[s]) : j # arg[s] => ViewAt(s, j)' = ViewAt(s, j)
  BY OtherEntries, Zenon DEF SInv
<1>2. Distinct(s)'
  BY Zenon DEF SInv, Distinct
<1>3. Unlisted(s)'
  BY StillUnlisted, Zenon DEF SInv
<1>4. exit'[s] # "ok"
  BY Zenon DEF SInv, Ended, CopyPcs
<1>5. ASSUME NEW j \in 1..Len(tf[s]), j > arg[s]
      PROVE  Pending(ViewAt(s, j)', tf'[s][j])
  <2>1. IsPending(s, j)
    BY <1>5 DEF IsPending, CopyPcs, BusyPcs, TypeOK
  <2> QED
    BY <2>1, <1>1, <1>5 DEF SInv, AllPending
<1>6. ASSUME NEW j \in 1..Len(tf[s]), j < arg[s]
      PROVE  /\ Safe(ViewAt(s, j)') /\ Intact(ViewAt(s, j)', failed')
             /\ errors[s] = 0 => ViewAt(s, j)'.text = Absent
  <2>1. Settled(s, ViewAt(s, j)) /\ ViewAt(s, j)' = ViewAt(s, j)
    BY <1>1, <1>6 DEF SInv, AllSettled, TypeOK
  <2>2. Intact(ViewAt(s, j), failed')
    BY <2>1, DriftReflexive, DriftIntact, Zenon DEF Settled
  <2> QED
    BY <2>1, <2>2, Zenon DEF Settled
<1> QED
  BY <1>2, <1>3, <1>4, <1>5, <1>6, Zenon

(* A step that is done with the entry it copies, and goes to the next.     *)
LEMMA EntryDone ==
    ASSUME TypeOK, NEW s \in Session, SInv(s), pc[s] \in CopyPcs, arg[s] \in 1..Len(tf[s]),
           conf' = conf, tf'[s] = tf[s], exit'[s] = exit[s], failed \subseteq failed',
           NEW f \in File, f = tf[s][arg[s]].ofile, OnlyFile(s, f),
           pc'[s] = "copy", arg'[s] = arg[s] + 1, errors'[s] \in {errors[s], errors[s] + 1},
           Safe(View(s, f)'), Intact(View(s, f)', failed'),
           errors'[s] = errors[s] => View(s, f)'.text = Absent
    PROVE  SInv(s)'
<1>1. /\ Distinct(s)' /\ Unlisted(s)' /\ exit'[s] # "ok"
      /\ \A j \in 1..Len(tf[s]) : j > arg[s] => Pending(ViewAt(s, j)', tf'[s][j])
      /\ \A j \in 1..Len(tf[s]) : j < arg[s] =>
            /\ Safe(ViewAt(s, j)') /\ Intact(ViewAt(s, j)', failed')
            /\ errors[s] = 0 => ViewAt(s, j)'.text = Absent
  BY CopyStep, Zenon
<1>2. arg[s] \in Nat /\ errors[s] \in Nat /\ Len(tf[s]) \in Nat
  BY DEF TypeOK
<1>3. ViewAt(s, arg[s])' = View(s, tf[s][arg[s]].ofile)'
  BY Zenon DEF ViewAt
<1>4. Places(s)'
  BY <1>2 DEF Places, BusyPcs, MakePcs
<1>5. NothingSaved(s)' /\ MakingOne(s)' /\ CopyingOne(s)' /\ Ended(s)'
  BY <1>1, Zenon DEF NothingSaved, MakingOne, CopyingOne, Ended, BusyPcs, MakePcs
<1>6. AllPending(s)'
  BY SMTT(30), <1>1, <1>2 DEF AllPending, IsPending, BusyPcs, MakePcs
<1>7. AllSettled(s)'
  <2> SUFFICES ASSUME NEW j \in 1..Len(tf[s]), j < arg[s] + 1
               PROVE  Settled(s, ViewAt(s, j))'
    BY Zenon DEF AllSettled
  <2>1. errors'[s] = 0 => errors[s] = 0 /\ errors'[s] = errors[s]
    BY <1>2
  <2>2. CASE j < arg[s]
    BY <1>1, <2>1, <2>2, Zenon DEF Settled
  <2>3. CASE j = arg[s]
    <3>1. ViewAt(s, j)' = View(s, f)'
      BY <2>3, Zenon DEF ViewAt, View
    <3> QED
      BY <2>1, <3>1, Zenon DEF Settled
  <2> QED
    BY <1>2, <2>2, <2>3
<1> QED
  BY <1>1, <1>4, <1>5, <1>6, <1>7, Zenon DEF SInv

(* A step that goes on with the entry it copies.                           *)
LEMMA EntryGoesOn ==
    ASSUME TypeOK, NEW s \in Session, SInv(s), pc[s] \in CopyPcs, arg[s] \in 1..Len(tf[s]),
           conf' = conf, tf'[s] = tf[s], exit'[s] = exit[s], failed \subseteq failed',
           NEW f \in File, f = tf[s][arg[s]].ofile, OnlyFile(s, f),
           pc'[s] \in BusyPcs, arg'[s] = arg[s], errors'[s] = errors[s], times'[s] = times[s],
           Busy(View(s, f)', This(s), times[s].spent),
           pc'[s] = "extend" => Extended(View(s, f)', This(s), fd'[s]),
           pc'[s] # "extend" => Overwritten(View(s, f)', This(s), fd'[s].off),
           pc'[s] = "truncate" => fd'[s].off = Len(View(s, f)'.text)
    PROVE  SInv(s)'
<1>1. /\ Distinct(s)' /\ Unlisted(s)' /\ exit'[s] # "ok"
      /\ \A j \in 1..Len(tf[s]) : j > arg[s] => Pending(ViewAt(s, j)', tf'[s][j])
      /\ \A j \in 1..Len(tf[s]) : j < arg[s] =>
            /\ Safe(ViewAt(s, j)') /\ Intact(ViewAt(s, j)', failed')
            /\ errors[s] = 0 => ViewAt(s, j)'.text = Absent
  BY CopyStep, Zenon
<1>2. arg[s] \in Nat /\ Len(tf[s]) \in Nat
  BY DEF TypeOK
<1>3. Places(s)'
  BY <1>2 DEF Places, BusyPcs, MakePcs
<1>4. NothingSaved(s)' /\ MakingOne(s)' /\ Ended(s)'
  BY <1>1, Zenon DEF NothingSaved, MakingOne, Ended, BusyPcs, MakePcs
<1>5. AllPending(s)'
  BY <1>1, <1>2, Zenon DEF AllPending, IsPending, BusyPcs, MakePcs
<1>6. AllSettled(s)'
  BY <1>1, Zenon DEF AllSettled, Settled
<1>7. CopyingOne(s)'
  <2>1. This(s)' = This(s) /\ View(s, This(s).ofile)' = View(s, f)'
    BY Zenon DEF This, View
  <2> QED
    BY <2>1, Zenon DEF CopyingOne, BusyPcs
<1> QED
  BY <1>1, <1>3, <1>4, <1>5, <1>6, <1>7, Zenon DEF SInv

(* A step that ends a session.                                             *)
LEMMA SessionDone ==
    ASSUME TypeOK, NEW s \in Session, SInv(s), conf' = conf, tf'[s] = tf[s],
           pc'[s] = "done",
           \A f \in File : Blank(View(s, f)) => Blank(View(s, f)'),
           \A f \in File : Intact(View(s, f)', failed'),
           \A f \in File : Safe(View(s, f)') \/ ("clock" \in failed' /\ exit'[s] # "ok"),
           exit'[s] = "ok" => \A f \in File : View(s, f)'.text = Absent
    PROVE  SInv(s)'
<1>1. Distinct(s)' /\ Unlisted(s)'
  BY Zenon DEF SInv, Distinct, Unlisted
<1>2. Ended(s)'
  BY Zenon DEF Ended
<1>3. /\ Places(s)' /\ NothingSaved(s)' /\ AllPending(s)' /\ AllSettled(s)'
      /\ MakingOne(s)' /\ CopyingOne(s)'
  BY Zenon DEF Places, NothingSaved, AllPending, IsPending, AllSettled, MakingOne, CopyingOne,
         BusyPcs, MakePcs, CopyPcs
<1> QED
  BY <1>1, <1>2, <1>3, Zenon DEF SInv

(* What a user saved is safe at every step of a session.                   *)
LEMMA SafeBeforeEnd ==
    ASSUME TypeOK, NEW s \in Session, SInv(s), pc[s] # "done", NEW f \in File
    PROVE  Safe(View(s, f))
<1>1. CASE \A j \in 1..Len(tf[s]) : tf[s][j].ofile # f
  BY <1>1, BlankSettles, Zenon DEF SInv, Unlisted
<1>2. CASE pc[s] \in MakePcs \cup {"create"}
  BY <1>2, Zenon DEF SInv, NothingSaved, Safe
<1>3. ASSUME NEW j \in 1..Len(tf[s]), tf[s][j].ofile = f, pc[s] \notin MakePcs \cup {"create"}
      PROVE  Safe(View(s, f))
  <2>1. ViewAt(s, j) = View(s, f)
    BY <1>3, Zenon DEF ViewAt
  <2>2. CASE IsPending(s, j)
    BY <2>1, <2>2, PendingSettles, Zenon DEF SInv, AllPending
  <2>3. CASE pc[s] \in CopyPcs /\ j < arg[s]
    BY <2>1, <2>3, Zenon DEF SInv, AllSettled, Settled
  <2>4. CASE pc[s] \in BusyPcs /\ j = arg[s]
    <3>1. Filled(View(s, f), tf[s][j])
      BY <1>3, <2>4, Zenon DEF SInv, CopyingOne, Busy, This
    <3> QED
      BY <3>1, Zenon DEF Filled, Safe
  <2> QED
    BY <1>3, <2>2, <2>3, <2>4 DEF IsPending, CopyPcs, BusyPcs, MakePcs, TypeOK
<1> QED
  BY <1>1, <1>2, <1>3, Zenon

(* Before anything is copied back, every original is intact.               *)
LEMMA IntactBeforeCopy ==
    ASSUME TypeOK, NEW s \in Session, SInv(s), pc[s] \in MakePcs \cup {"create", "editor"},
           NEW f \in File, NEW faults
    PROVE  Intact(View(s, f), faults)
<1>1. CASE \A j \in 1..Len(tf[s]) : tf[s][j].ofile # f
  BY <1>1, BlankSettles, Zenon DEF SInv, Unlisted
<1>2. ASSUME NEW j \in 1..Len(tf[s]), tf[s][j].ofile = f
      PROVE  Intact(View(s, f), faults)
  <2>1. ViewAt(s, j) = View(s, f)
    BY <1>2, Zenon DEF ViewAt
  <2>2. CASE IsPending(s, j)
    BY <2>1, <2>2, PendingSettles, Zenon DEF SInv, AllPending
  <2>3. CASE pc[s] \in MakePcs /\ j = Len(tf[s])
    <3>1. Untouched(View(s, f))
      BY <1>2, <2>3, Zenon DEF SInv, MakingOne, Begun
    <3> QED
      BY <3>1, Zenon DEF Untouched, Intact
  <2> QED
    BY <2>2, <2>3, EntryType DEF IsPending
<1> QED
  BY <1>1, <1>2, Zenon

(***************************************************************************)
(* Types                                                                   *)
(***************************************************************************)
LEMMA ArgType ==
    ASSUME TypeOK, NEW s \in Session, arg[s] <= Len(conf.args[s])
    PROVE  /\ ThisArg(s) \in File
           /\ arg[s] \in 1..Len(conf.args[s])
           /\ Len(conf.args[s]) \in Nat
<1>1. conf.args[s] \in Seq(File)
  BY ConfsAssumption DEF TypeOK
<1>2. arg[s] \in 1..Len(conf.args[s]) /\ Len(conf.args[s]) \in Nat
  BY <1>1 DEF TypeOK
<1> QED
  BY <1>1, <1>2 DEF ThisArg

(* The entry being copied back is an entry, and its file a file.           *)
LEMMA ThisType ==
    ASSUME TypeOK, NEW s \in Session, arg[s] <= Len(tf[s])
    PROVE  This(s) \in Entries /\ This(s).ofile \in File /\ arg[s] \in 1..Len(tf[s])
<1>1. arg[s] \in 1..Len(tf[s])
  BY DEF TypeOK
<1> QED
  BY <1>1, EntryType, Zenon DEF This

(* Writing a text leaves a file with a text.                               *)
LEMMA WriteType ==
    ASSUME TypeOK, NEW s \in Session, NEW f \in File, NEW text \in Text, Write(s, f, text)
    PROVE  disk' \in [File -> OnDisk] /\ alone' \in [Session -> [File -> BOOLEAN]]
  BY Zenon DEF TypeOK, Write, OnDisk

(* While an entry is copied, its temporary file and its original exist.    *)
LEMMA ThisWritten ==
    ASSUME Inv, NEW s \in Session, pc[s] \in BusyPcs
    PROVE  /\ arg[s] <= Len(tf[s])
           /\ tmp[s][This(s).ofile].text \in Text
           /\ disk[This(s).ofile].text \in Text
<1>1. arg[s] <= Len(tf[s])
  BY Zenon DEF Inv, SInv, Places
<1>2. View(s, This(s).ofile) \in Views
  BY <1>1, ThisType, ViewType, Zenon DEF Inv
<1>3. View(s, This(s).ofile).text # Absent /\ View(s, This(s).ofile).disk # Absent
  BY Zenon DEF Inv, SInv, CopyingOne, Busy, Filled
<1> QED
  BY <1>1, <1>2, <1>3, Zenon DEF View, Views, AnyText

(* An entry that is next to be copied back is complete.                    *)
LEMMA ThisPending ==
    ASSUME Inv, NEW s \in Session, Copying(s)
    PROVE  /\ arg[s] \in 1..Len(tf[s]) /\ This(s) \in Entries /\ This(s).ofile \in File
           /\ Pending(View(s, This(s).ofile), This(s))
           /\ tmp[s][This(s).ofile].text \in Text
<1>1. arg[s] \in 1..Len(tf[s]) /\ This(s) \in Entries /\ This(s).ofile \in File
  BY ThisType, Zenon DEF Copying, Inv
<1>2. IsPending(s, arg[s])
  BY <1>1 DEF IsPending, Copying
<1>3. Pending(View(s, This(s).ofile), This(s))
  BY <1>1, <1>2, Zenon DEF Inv, SInv, AllPending, ViewAt, This
<1>4. View(s, This(s).ofile) \in Views
  BY <1>1, ViewType, Zenon DEF Inv
<1> QED
  BY <1>1, <1>3, <1>4, Zenon DEF Pending, Filled, View, Views, AnyText

(* The file being made.                                                    *)
LEMMA MadeNow ==
    ASSUME Inv, NEW s \in Session, pc[s] \in MakePcs
    PROVE  /\ ThisArg(s) \in File /\ Len(tf[s]) \in 1..Len(tf[s])
           /\ tf[s][Len(tf[s])] \in Entries
           /\ tf[s][Len(tf[s])].ofile = ThisArg(s)
           /\ tmp[s][ThisArg(s)].text \in Text
           /\ pc[s] = "create_copy" => disk[ThisArg(s)].text \in Text
<1>1. /\ arg[s] <= Len(conf.args[s]) /\ 0 < Len(tf[s])
      /\ tf[s][Len(tf[s])].ofile = ThisArg(s)
  BY Zenon DEF Inv, SInv, Places, ThisArg
<1>2. ThisArg(s) \in File /\ Len(tf[s]) \in 1..Len(tf[s])
  <2>1. ThisArg(s) \in File
    BY <1>1, ArgType, Zenon DEF Inv
  <2>2. Len(tf[s]) \in Nat
    BY DEF Inv, TypeOK
  <2> QED
    BY <1>1, <2>1, <2>2
<1>3. tf[s][Len(tf[s])] \in Entries
  BY <1>2, EntryType, Zenon DEF Inv
<1>4. View(s, ThisArg(s)) \in Views
  BY <1>2, ViewType, Zenon DEF Inv
<1>5. /\ View(s, ThisArg(s)).text # Absent
      /\ pc[s] = "create_copy" => View(s, ThisArg(s)).disk # Absent
  BY <1>1, Zenon DEF Inv, SInv, MakingOne, Begun, Part
<1> QED
  BY <1>1, <1>2, <1>3, <1>4, <1>5, Zenon DEF View, Views, AnyText

Pcs == {"create", "create_copy", "stamp", "editor", "copy", "extend", "write",
        "truncate", "done"}

(* Assignments to a session's part of a variable preserve its type.        *)
LEMMA AssignTypes ==
    ASSUME TypeOK, NEW s \in Session
    PROVE  /\ Works => failed' \subseteq Fault /\ failed \subseteq failed'
           /\ \A kinds : FailAll(kinds) => failed' \subseteq Fault /\ failed \subseteq failed'
           /\ \A what : Fails(what) => failed' \subseteq Fault /\ failed \subseteq failed'
           /\ \A label \in Pcs : Goto(s, label) => pc' \in [Session -> Pcs]
           /\ Ends(s, "fail") =>
                 pc' \in [Session -> Pcs] /\ exit' \in [Session -> {"none", "ok", "fail"}]
           /\ arg' = [arg EXCEPT ![s] = arg[s] + 1] => arg' \in [Session -> Nat \ {0}]
           /\ fd' = [fd EXCEPT ![s].off = fd[s].off + 1] =>
                 fd' \in [Session -> [off : Nat, size : Nat]]
<1>1. pc \in [Session -> Pcs] /\ exit \in [Session -> {"none", "ok", "fail"}]
  BY Zenon DEF TypeOK, Pcs
<1>2. arg \in [Session -> Nat \ {0}] /\ fd \in [Session -> [off : Nat, size : Nat]]
  BY Zenon DEF TypeOK
<1>3. failed \subseteq Fault
  BY Zenon DEF TypeOK
<1>4. \A kinds : FailAll(kinds) => failed' \subseteq Fault /\ failed \subseteq failed'
  BY <1>3, Zenon DEF FailAll
<1>5. fd[s].off + 1 \in Nat /\ arg[s] + 1 \in Nat \ {0}
  BY <1>2
<1>6. fd' = [fd EXCEPT ![s].off = fd[s].off + 1] => fd' \in [Session -> [off : Nat, size : Nat]]
  BY <1>2, <1>5, Zenon
<1>7. arg' = [arg EXCEPT ![s] = arg[s] + 1] => arg' \in [Session -> Nat \ {0}]
  BY <1>2, <1>5, Zenon
<1>8. Works => failed' \subseteq Fault /\ failed \subseteq failed'
  BY <1>3, Zenon DEF Works
<1>9. \A what : Fails(what) => failed' \subseteq Fault /\ failed \subseteq failed'
  BY <1>4, Zenon DEF Fails
<1>10. \A label \in Pcs : Goto(s, label) => pc' \in [Session -> Pcs]
  BY <1>1, Zenon DEF Goto
<1>11. Ends(s, "fail") =>
           pc' \in [Session -> Pcs] /\ exit' \in [Session -> {"none", "ok", "fail"}]
  BY <1>1, <1>10, Zenon DEF Ends, Pcs
<1> QED
  BY <1>4, <1>6, <1>7, <1>8, <1>9, <1>10, <1>11, Zenon

(* Writing a temporary file preserves the type.                            *)
LEMMA SetTmpType ==
    ASSUME TypeOK, NEW s \in Session, NEW f \in File, NEW text \in Text, NEW mtime \in Nat,
           SetTmp(s, f, text, mtime)
    PROVE  tmp' \in [Session -> [File -> OnDisk]]
<1>1. [text |-> text, mtime |-> mtime] \in OnDisk /\ tmp \in [Session -> [File -> OnDisk]]
  BY Zenon DEF TypeOK, OnDisk
<1> QED
  BY <1>1, Zenon DEF SetTmp

(* So does removing one.                                                   *)
LEMMA UnlinkType ==
    ASSUME TypeOK, NEW s \in Session, NEW f \in File, Unlink(s, f)
    PROVE  tmp' \in [Session -> [File -> OnDisk]]
<1>1. NoFile \in OnDisk /\ tmp \in [Session -> [File -> OnDisk]]
  BY Zenon DEF TypeOK, OnDisk, NoFile
<1> QED
  BY <1>1, Zenon DEF Unlink

(* The steps of making the temporary files preserve the types.             *)
LEMMA CreateTypes ==
    ASSUME Inv, conf' = conf, NEW s \in Session,
           \/ create_skip(s) \/ create_open(s) \/ create_copy(s) \/ create_stamp(s)
    PROVE  TypeOK' /\ failed \subseteq failed'
<1> TypeOK
  BY Zenon DEF Inv
<1>1. CASE create_skip(s)
  <2>1. failed' \subseteq Fault /\ failed \subseteq failed' /\ arg' \in [Session -> Nat \ {0}]
    BY <1>1, AssignTypes, Zenon DEF create_skip
  <2> QED
    BY <1>1, <2>1, Zenon DEF create_skip, NoWrite, TypeOK
<1>2. CASE create_open(s)
  <2> DEFINE f == ThisArg(s)
             new == disk[f].text = Absent
             e == [ofile |-> f, osize |-> IF new THEN 0 ELSE Len(disk[f].text),
                   omtim |-> IF new THEN 0 ELSE disk[f].mtime]
  <2>1. f \in File
    BY <1>2, ArgType, Zenon DEF create_open, Creating
  <2>2. disk[f].text \in AnyText /\ disk[f].mtime \in Nat
    BY <2>1, Zenon DEF TypeOK, OnDisk, AnyText
  <2>3. CASE /\ Works /\ UNCHANGED exit
             /\ SetTmp(s, f, <<>>, now)
             /\ tf' = [tf EXCEPT ![s] = Append(tf[s], e)]
             /\ fd' = [fd EXCEPT ![s] = [off |-> 0, size |-> 0]]
             /\ Goto(s, IF new THEN "stamp" ELSE "create_copy")
             /\ base' = [base EXCEPT ![s][f] = disk[f].text]
             /\ alone' = [alone EXCEPT ![s][f] = TRUE]
    <3>1. failed' \subseteq Fault /\ failed \subseteq failed'
      BY <2>3, AssignTypes, Zenon
    <3>2. tmp' \in [Session -> [File -> OnDisk]]
      BY <2>1, <2>3, SetTmpType, TextProperties, Zenon DEF TypeOK
    <3>3. tf' \in [Session -> Seq(Entries)]
      <4>1. e \in Entries
        BY <2>1, <2>2, TextProperties, Zenon DEF Entries, AnyText
      <4>2. tf' = [tf EXCEPT ![s] = Append(tf[s], e)]
        BY <2>3, Zenon
      <4>3. tf \in [Session -> Seq(Entries)]
        BY Zenon DEF TypeOK, Entries
      <4> HIDE DEF e
      <4> QED
        BY <4>1, <4>2, <4>3
    <3>4. pc' \in [Session -> Pcs]
      <4>1. (IF new THEN "stamp" ELSE "create_copy") \in Pcs
        BY Zenon DEF Pcs
      <4> QED
        BY <2>3, <4>1, AssignTypes, Zenon
    <3>5. fd' \in [Session -> [off : Nat, size : Nat]]
      BY <2>3, Zenon DEF TypeOK
    <3>6. base' \in [Session -> [File -> AnyText]] /\ alone' \in [Session -> [File -> BOOLEAN]]
      <4>1. base \in [Session -> [File -> AnyText]] /\ alone \in [Session -> [File -> BOOLEAN]]
        BY Zenon DEF TypeOK, AnyText
      <4> QED
        BY <2>1, <2>2, <2>3, <4>1, Zenon
    <3> HIDE DEF e, new
    <3> QED
      BY <1>2, <2>3, <3>1, <3>2, <3>3, <3>4, <3>5, <3>6, Zenon
      DEF create_open, TypeOK, Pcs, Entries, AnyText
  <2>4. CASE Fails("mktemp") /\ Ends(s, "fail") /\ UNCHANGED <<tmp, tf, fd, base, alone>>
    <3>1. /\ failed' \subseteq Fault /\ failed \subseteq failed'
          /\ pc' \in [Session -> Pcs] /\ exit' \in [Session -> {"none", "ok", "fail"}]
      BY <2>4, AssignTypes, Zenon
    <3> QED
      BY <1>2, <2>4, <3>1, Zenon DEF create_open, TypeOK, Pcs
  <2> QED
    BY <1>2, <2>3, <2>4, Zenon DEF create_open
<1>3. CASE create_copy(s)
  <2> DEFINE f == ThisArg(s)
             off == fd[s].off
  <2>1. f \in File /\ tmp[s][f].text \in Text /\ disk[f].text \in Text /\ off \in Nat
    BY <1>3, MadeNow, Zenon DEF create_copy, MakePcs, TypeOK
  <2>2. CASE /\ Works /\ off < Len(disk[f].text)
             /\ SetTmp(s, f, Append(tmp[s][f].text, disk[f].text[off + 1]), now)
             /\ fd' = [fd EXCEPT ![s].off = fd[s].off + 1]
             /\ UNCHANGED <<pc, exit>>
    <3>1. failed' \subseteq Fault /\ failed \subseteq failed'
      BY <2>2, AssignTypes, Zenon
    <3>2. fd' \in [Session -> [off : Nat, size : Nat]]
      BY <2>2, AssignTypes, Zenon
    <3>3. disk[f].text[off + 1] \in Chunk
      BY <2>1, <2>2, TextProperties
    <3>4. Append(tmp[s][f].text, disk[f].text[off + 1]) \in Text
      BY <2>1, <3>3, AppendText, Zenon
    <3>5. tmp' \in [Session -> [File -> OnDisk]]
      BY <2>1, <2>2, <3>4, SetTmpType, Zenon DEF TypeOK
    <3> QED
      BY <1>3, <2>2, <3>1, <3>2, <3>5, Zenon DEF create_copy, NoWrite, TypeOK
  <2>3. CASE Works /\ Goto(s, "stamp") /\ UNCHANGED <<tmp, fd, exit>>
    <3>1. failed' \subseteq Fault /\ failed \subseteq failed' /\ pc' \in [Session -> Pcs]
      BY <2>3, AssignTypes, Zenon DEF Pcs
    <3> QED
      BY <1>3, <2>3, <3>1, Zenon DEF create_copy, NoWrite, TypeOK, Pcs
  <2>4. CASE (Fails("read") \/ Fails("space")) /\ Ends(s, "fail") /\ UNCHANGED <<tmp, fd>>
    <3>1. /\ failed' \subseteq Fault /\ failed \subseteq failed'
          /\ pc' \in [Session -> Pcs] /\ exit' \in [Session -> {"none", "ok", "fail"}]
      BY <2>4, AssignTypes, Zenon
    <3> QED
      BY <1>3, <2>4, <3>1, Zenon DEF create_copy, NoWrite, TypeOK, Pcs
  <2> QED
    BY <1>3, <2>2, <2>3, <2>4, Zenon DEF create_copy
<1>4. CASE create_stamp(s)
  <2> DEFINE f == ThisArg(s)
             m == Len(tf[s])
  <2>1. /\ f \in File /\ tmp[s][f].text \in Text /\ m \in 1..Len(tf[s]) /\ tf[s][m] \in Entries
        /\ tmp[s][f].mtime \in Nat /\ tf[s][m].omtim \in Nat
    <3>1. /\ f \in File /\ tmp[s][f].text \in Text /\ m \in 1..Len(tf[s])
          /\ tf[s][m] \in Entries
      BY <1>4, MadeNow, Zenon DEF create_stamp, MakePcs
    <3>2. tmp[s][f].mtime \in Nat
      BY <3>1 DEF TypeOK, OnDisk
    <3>3. tf[s][m].omtim \in Nat
      BY <3>1, Zenon DEF Entries
    <3> QED
      BY <3>1, <3>2, <3>3, Zenon
  <2>2. failed' \subseteq Fault /\ failed \subseteq failed'
    BY <1>4, AssignTypes, Zenon DEF create_stamp
  <2>3. pc' \in [Session -> Pcs] /\ arg' \in [Session -> Nat \ {0}]
    BY <1>4, AssignTypes, Zenon DEF create_stamp, Pcs
  <2>4. CASE SetTmp(s, f, tmp[s][f].text, tf[s][m].omtim) /\ UNCHANGED tf
    <3>1. tmp' \in [Session -> [File -> OnDisk]]
      BY <2>1, <2>4, SetTmpType, Zenon
    <3> QED
      BY <1>4, <2>2, <2>3, <2>4, <3>1, Zenon DEF create_stamp, NoWrite, TypeOK, Pcs
  <2>5. CASE tf' = [tf EXCEPT ![s][m].omtim = tmp[s][f].mtime] /\ UNCHANGED tmp
    <3>1. [tf[s][m] EXCEPT !.omtim = tmp[s][f].mtime] \in Entries
      BY <2>1, Zenon DEF Entries
    <3>2. tf \in [Session -> Seq(Entries)]
      BY Zenon DEF TypeOK, Entries
    <3>3. [tf[s] EXCEPT ![m] = [tf[s][m] EXCEPT !.omtim = tmp[s][f].mtime]] \in Seq(Entries)
      BY <2>1, <3>1, <3>2
    <3>4. tf' \in [Session -> Seq(Entries)]
      BY <2>5, <3>2, <3>3, Zenon
    <3> QED
      BY <1>4, <2>2, <2>3, <2>5, <3>4, Zenon DEF create_stamp, NoWrite, TypeOK, Pcs, Entries
  <2> QED
    BY <1>4, <2>4, <2>5, Zenon DEF create_stamp
<1> QED
  BY <1>1, <1>2, <1>3, <1>4, Zenon

(* So do those around the editor.                                          *)
LEMMA EditorTypes ==
    ASSUME Inv, conf' = conf, NEW s \in Session,
           \/ sudo_edit_start(s) \/ sudo_edit_end(s) \/ UserSaves(s) \/ Killed(s)
    PROVE  TypeOK' /\ failed \subseteq failed'
<1> TypeOK
  BY Zenon DEF Inv
<1>1. Cleanup(s) => /\ tmp' \in [Session -> [File -> OnDisk]] /\ pc' \in [Session -> Pcs]
                    /\ exit' \in [Session -> {"none", "ok", "fail"}]
  <2>1. NoFile \in OnDisk /\ tmp \in [Session -> [File -> OnDisk]]
    BY Zenon DEF TypeOK, OnDisk, NoFile
  <2> QED
    BY <2>1, AssignTypes DEF Cleanup
<1>2. CASE sudo_edit_start(s)
  <2>1. failed' \subseteq Fault /\ failed \subseteq failed'
    BY <1>2, AssignTypes, Zenon DEF sudo_edit_start
  <2>2. CASE times' = [times EXCEPT ![s].start = now] /\ Goto(s, "editor") /\ UNCHANGED <<tmp, exit>>
    <3>1. pc' \in [Session -> Pcs]
      BY <2>2, AssignTypes, Zenon DEF Pcs
    <3>2. times \in [Session -> [start : Nat, spent : BOOLEAN]] /\ now \in Nat
      BY Zenon DEF TypeOK
    <3>3. times' \in [Session -> [start : Nat, spent : BOOLEAN]]
      BY <2>2, <3>2, Zenon
    <3> QED
      BY <1>2, <2>1, <2>2, <3>1, <3>3, Zenon DEF sudo_edit_start, NoWrite, TypeOK, Pcs
  <2>3. CASE Cleanup(s) /\ UNCHANGED times
    BY <1>1, <1>2, <2>1, <2>3, Zenon DEF sudo_edit_start, NoWrite, TypeOK, Pcs
  <2> QED
    BY <1>2, <2>2, <2>3, Zenon DEF sudo_edit_start
<1>3. CASE sudo_edit_end(s)
  <2>1. failed' \subseteq Fault /\ failed \subseteq failed'
    BY <1>3, AssignTypes, Zenon DEF sudo_edit_end
  <2>2. CASE /\ \E b \in BOOLEAN : times' = [times EXCEPT ![s].spent = b]
             /\ arg' = [arg EXCEPT ![s] = 1] /\ Goto(s, "copy") /\ UNCHANGED <<tmp, exit>>
    <3>1. pc' \in [Session -> Pcs]
      BY <2>2, AssignTypes, Zenon DEF Pcs
    <3>2. arg' \in [Session -> Nat \ {0}]
      BY <2>2 DEF TypeOK
    <3>3. times \in [Session -> [start : Nat, spent : BOOLEAN]]
      BY Zenon DEF TypeOK
    <3>4. PICK b \in BOOLEAN : times' = [times EXCEPT ![s].spent = b]
      BY <2>2, Zenon
    <3>5. times' \in [Session -> [start : Nat, spent : BOOLEAN]]
      BY <3>3, <3>4, Zenon
    <3> QED
      BY <1>3, <2>1, <2>2, <3>1, <3>2, <3>5, Zenon DEF sudo_edit_end, NoWrite, TypeOK, Pcs
  <2>3. CASE Cleanup(s) /\ UNCHANGED <<times, arg>>
    BY <1>1, <1>3, <2>1, <2>3, Zenon DEF sudo_edit_end, NoWrite, TypeOK, Pcs
  <2> QED
    BY <1>3, <2>2, <2>3, Zenon DEF sudo_edit_end
<1>4. CASE UserSaves(s)
  <2>1. PICK j \in 1..Len(tf[s]), text \in NewText[s] :
            /\ saved' = [saved EXCEPT ![s][tf[s][j].ofile] =
                  [text |-> text, seen |-> Len(text) # tf[s][j].osize \/ now # tf[s][j].omtim]]
            /\ SetTmp(s, tf[s][j].ofile, text, now)
    <3>1. tf[s] \in Seq(Entries)
      BY Zenon DEF TypeOK, Entries
    <3>2. DOMAIN tf[s] = 1..Len(tf[s])
      BY <3>1
    <3> QED
      BY <1>4, <3>2, Zenon DEF UserSaves
  <2>2. tf[s][j].ofile \in File /\ text \in Text
    BY EntryType, TextAssumption, Zenon
  <2>3. tmp' \in [Session -> [File -> OnDisk]]
    BY <2>1, <2>2, SetTmpType, Zenon DEF TypeOK
  <2>4. saved' \in [Session -> [File -> [text : Text \cup {Absent}, seen : BOOLEAN]]]
    <3> DEFINE v == [text |-> text, seen |-> Len(text) # tf[s][j].osize \/ now # tf[s][j].omtim]
    <3>1. v \in [text : Text \cup {Absent}, seen : BOOLEAN]
      BY <2>2, Zenon
    <3>2. saved \in [Session -> [File -> [text : Text \cup {Absent}, seen : BOOLEAN]]]
      BY Zenon DEF TypeOK
    <3> HIDE DEF v
    <3>3. saved' = [saved EXCEPT ![s][tf[s][j].ofile] = v]
      BY <2>1, Zenon DEF v
    <3> QED
      BY <2>2, <3>1, <3>2, <3>3, Zenon
  <2> QED
    BY <1>4, <2>3, <2>4, Zenon DEF UserSaves, NoWrite, TypeOK
<1>5. CASE Killed(s)
  <2>1. /\ failed' \subseteq Fault /\ failed \subseteq failed'
        /\ pc' \in [Session -> Pcs] /\ exit' \in [Session -> {"none", "ok", "fail"}]
    BY <1>5, AssignTypes, Zenon DEF Killed
  <2> QED
    BY <1>5, <2>1, Zenon DEF Killed, NoWrite, TypeOK, Pcs
<1> QED
  BY <1>2, <1>3, <1>4, <1>5, Zenon

(* And the steps of copying back.                                          *)
LEMMA CopyTypes ==
    ASSUME Inv, conf' = conf, NEW s \in Session,
           \/ copy_check(s) \/ copy_unchanged(s) \/ copy_open(s) \/ sudo_extend_file(s)
           \/ copy_write(s) \/ copy_truncate(s) \/ copy_end(s)
    PROVE  TypeOK' /\ failed \subseteq failed'
<1> TypeOK
  BY Zenon DEF Inv
<1> DEFINE f == This(s).ofile
           Advanced == /\ tmp' \in [Session -> [File -> OnDisk]] /\ pc' \in [Session -> Pcs]
                       /\ arg' \in [Session -> Nat \ {0}] /\ errors' \in [Session -> Nat]
           Faults == failed' \subseteq Fault /\ failed \subseteq failed'
           Files == disk' \in [File -> OnDisk] /\ alone' \in [Session -> [File -> BOOLEAN]]
<1>1. NotCopied(s) => Advanced
  <2>1. ASSUME errors' = [errors EXCEPT ![s] = errors[s] + 1]
        PROVE  errors' \in [Session -> Nat]
    BY <2>1 DEF TypeOK
  <2>2. UNCHANGED tmp => tmp' \in [Session -> [File -> OnDisk]]
    BY Zenon DEF TypeOK
  <2> QED
    BY <2>1, <2>2, AssignTypes, Zenon DEF NotCopied, NextFile, Pcs
<1>2. f \in File /\ Copied(s) => Advanced
  <2>1. UNCHANGED errors => errors' \in [Session -> Nat]
    BY Zenon DEF TypeOK
  <2> QED
    BY <2>1, UnlinkType, AssignTypes, Zenon DEF Copied, NextFile, Pcs
<1>3. NoWrite => Files
  BY Zenon DEF NoWrite, TypeOK
<1>4. \A text \in Text : f \in File /\ Write(s, f, text) => Files
  BY WriteType, Zenon
<1>5. UNCHANGED <<arg, tmp, errors>> /\ pc' \in [Session -> Pcs] => Advanced
  BY Zenon DEF TypeOK
<1>6. UNCHANGED fd => fd' \in [Session -> [off : Nat, size : Nat]]
  BY Zenon DEF TypeOK
<1>7. ASSUME Advanced, Faults, Files, fd' \in [Session -> [off : Nat, size : Nat]],
             UNCHANGED <<tf, exit, times, now, base, saved>>
      PROVE  TypeOK'
  BY <1>7, Zenon DEF TypeOK, Pcs
<1> HIDE DEF Advanced, Files
<1>8. CASE copy_check(s)
  <2>1. Faults
    BY <1>8, AssignTypes, Zenon DEF copy_check
  <2> QED
    BY <1>8, <2>1, <1>1, <1>3, <1>6, <1>7, Zenon DEF copy_check
<1>9. CASE copy_unchanged(s)
  <2>1. Faults
    BY <1>9, Zenon DEF copy_unchanged, TypeOK
  <2>2. f \in File
    BY <1>9, ThisPending, Zenon DEF copy_unchanged
  <2> QED
    BY <1>9, <2>1, <2>2, <1>2, <1>3, <1>6, <1>7, Zenon DEF copy_unchanged
<1>10. CASE copy_open(s)
  <2>1. Faults
    BY <1>10, AssignTypes, Zenon DEF copy_open
  <2>2. f \in File
    BY <1>10, ThisPending, Zenon DEF copy_open
  <2>3. Files
    BY <1>10, <2>2, <1>3, <1>4, TextProperties, Zenon DEF copy_open
  <2>4. fd' \in [Session -> [off : Nat, size : Nat]]
    <3>1. (IF disk[f].text = Absent THEN 0 ELSE Len(disk[f].text)) \in Nat
      BY <2>2, TextProperties, Zenon DEF TypeOK, OnDisk
    <3>2. CASE fd' = [fd EXCEPT ![s] = [off |-> 0, size |-> IF disk[f].text = Absent THEN 0
                                                           ELSE Len(disk[f].text)]]
      BY <3>1, <3>2, Zenon DEF TypeOK
    <3> QED
      BY <1>6, <1>10, <3>2, Zenon DEF copy_open
  <2>5. Advanced
    <3>1. CASE NotCopied(s) \/ Copied(s)
      BY <3>1, <1>1, <1>2, <2>2, Zenon
    <3>2. CASE UNCHANGED <<arg, tmp, errors>> /\ \E label \in Pcs : Goto(s, label)
      BY <3>2, <1>5, AssignTypes, Zenon
    <3> QED
      BY <1>10, <3>1, <3>2, Zenon DEF copy_open, Pcs
  <2> QED
    BY <1>7, <1>10, <2>1, <2>3, <2>4, <2>5, Zenon DEF copy_open
<1>11. CASE sudo_extend_file(s)
  <2> DEFINE text == disk[f].text
             at == fd[s].size + fd[s].off
  <2>1. Faults
    BY <1>11, AssignTypes, Zenon DEF sudo_extend_file
  <2>2. f \in File /\ text \in Text /\ at \in Nat /\ fd[s].size \in Nat
    <3>1. pc[s] \in BusyPcs
      BY <1>11, Zenon DEF sudo_extend_file, BusyPcs
    <3>2. fd[s].size \in Nat /\ fd[s].off \in Nat
      BY Zenon DEF TypeOK
    <3> QED
      BY <3>1, <3>2, ThisWritten, ThisType
  <2>3. Put(text, at, Zero) \in Text /\ Resized(text, fd[s].size) \in Text
    <3>1. Zero \in Chunk
      BY TextAssumption, Zenon
    <3>2. Put(text, at, Zero) \in Text
      BY <2>2, <3>1, PutText, Zenon
    <3> QED
      BY <2>2, <3>2, ResizedText, Zenon
  <2>4. Files
    BY <1>11, <2>2, <2>3, <1>3, <1>4, Zenon DEF sudo_extend_file
  <2>5. fd' \in [Session -> [off : Nat, size : Nat]]
    <3>1. fd' = [fd EXCEPT ![s].off = 0] => fd' \in [Session -> [off : Nat, size : Nat]]
      <4>1. fd \in [Session -> [off : Nat, size : Nat]]
        BY Zenon DEF TypeOK
      <4> QED
        BY <4>1
    <3> QED
      BY <1>6, <1>11, <3>1, AssignTypes, Zenon DEF sudo_extend_file
  <2>6. Advanced
    <3>1. UNCHANGED <<pc, arg, tmp, errors>> => Advanced
      BY <1>5, Zenon DEF TypeOK, Pcs
    <3>2. Goto(s, "write") => pc' \in [Session -> Pcs]
      BY AssignTypes, Zenon DEF Pcs
    <3> QED
      BY <1>1, <1>5, <1>11, <3>1, <3>2, Zenon DEF sudo_extend_file
  <2> QED
    BY <1>7, <1>11, <2>1, <2>4, <2>5, <2>6, Zenon DEF sudo_extend_file
<1>12. CASE copy_write(s)
  <2> DEFINE text == disk[f].text
             src == tmp[s][f].text
             off == fd[s].off
  <2>1. Faults
    BY <1>12, AssignTypes, Zenon DEF copy_write
  <2>2. f \in File /\ text \in Text /\ src \in Text /\ off \in Nat
    <3>1. pc[s] \in BusyPcs
      BY <1>12, Zenon DEF copy_write, BusyPcs
    <3>2. fd[s].off \in Nat
      BY Zenon DEF TypeOK
    <3> QED
      BY <3>1, <3>2, ThisWritten, ThisType, Zenon
  <2>3. off < Len(src) => Put(text, off, src[off + 1]) \in Text
    <3>1. off < Len(src) => src[off + 1] \in Chunk
      BY SMTT(30), <2>2, TextProperties
    <3> QED
      BY <2>2, <3>1, PutText, Zenon
  <2>4. Files
    BY <1>12, <2>2, <2>3, <1>3, <1>4, Zenon DEF copy_write
  <2>5. fd' \in [Session -> [off : Nat, size : Nat]]
    BY <1>6, <1>12, AssignTypes, Zenon DEF copy_write
  <2>6. Advanced
    <3>1. UNCHANGED <<pc, arg, tmp, errors>> => Advanced
      BY <1>5, Zenon DEF TypeOK, Pcs
    <3>2. Goto(s, "truncate") => pc' \in [Session -> Pcs]
      BY AssignTypes, Zenon DEF Pcs
    <3> QED
      BY <1>1, <1>5, <1>12, <3>1, <3>2, Zenon DEF copy_write
  <2> QED
    BY <1>7, <1>12, <2>1, <2>4, <2>5, <2>6, Zenon DEF copy_write
<1>13. CASE copy_truncate(s)
  <2> DEFINE text == disk[f].text
             src == tmp[s][f].text
  <2>1. Faults
    BY <1>13, AssignTypes, Zenon DEF copy_truncate
  <2>2. f \in File /\ text \in Text /\ src \in Text
    <3>1. pc[s] \in BusyPcs
      BY <1>13, Zenon DEF copy_truncate, BusyPcs
    <3> QED
      BY <3>1, ThisWritten, ThisType, Zenon
  <2>3. Resized(text, Len(src)) \in Text
    BY <2>2, ResizedText, TextProperties, Zenon
  <2>4. Files
    BY <1>13, <2>2, <2>3, <1>3, <1>4, Zenon DEF copy_truncate
  <2>5. Advanced
    BY <1>13, <1>1, <1>2, <2>2, Zenon DEF copy_truncate
  <2> QED
    BY <1>6, <1>7, <1>13, <2>1, <2>4, <2>5, Zenon DEF copy_truncate
<1>14. CASE copy_end(s)
  <2> DEFINE how == IF errors[s] = 0 THEN "ok" ELSE "fail"
  <2>1. pc' \in [Session -> Pcs] /\ exit' = [exit EXCEPT ![s] = how]
    BY <1>14, AssignTypes, Zenon DEF copy_end, Ends, Pcs
  <2>2. how \in {"none", "ok", "fail"} /\ exit \in [Session -> {"none", "ok", "fail"}]
    BY Zenon DEF TypeOK
  <2> HIDE DEF how
  <2>3. exit' \in [Session -> {"none", "ok", "fail"}]
    BY <2>1, <2>2, Zenon
  <2> QED
    BY <1>14, <2>1, <2>3, Zenon DEF copy_end, NoWrite, TypeOK, Pcs
<1> QED
  BY <1>8, <1>9, <1>10, <1>11, <1>12, <1>13, <1>14, Zenon

(***************************************************************************)
(* The steps of others                                                     *)
(***************************************************************************)
(* What a step of s leaves of t's: all but the original files, and of      *)
(* those the ones that t may still take for its own.                       *)
Leaves(t) ==
    /\ OwnSame(t)
    /\ tmp'[t] = tmp[t] /\ base'[t] = base[t] /\ saved'[t] = saved[t]
    /\ \A f \in File :
          /\ alone'[t][f] => alone[t][f] /\ disk'[f] = disk[f]
          /\ disk[f].text # Absent => disk'[f].text # Absent

(* What a step leaves of t is all that t sees change.                      *)
LEMMA LeavesDrift ==
    ASSUME NEW t \in Session, Leaves(t)
    PROVE  \A f \in File : Drift(View(t, f), View(t, f)')
  BY DEF Leaves, View, Drift

(* Writing an original file leaves what is not that file.                  *)
LEMMA WriteLeaves ==
    ASSUME TypeOK, NEW s \in Session, NEW t \in Session \ {s}, NEW g \in File, NEW text \in Text,
           Write(s, g, text)
    PROVE  \A f \in File :
              /\ alone'[t][f] => alone[t][f] /\ disk'[f] = disk[f]
              /\ disk[f].text # Absent => disk'[f].text # Absent
<1>1. /\ alone'[t] = [alone[t] EXCEPT ![g] = FALSE]
      /\ disk' = [disk EXCEPT ![g] = [text |-> text, mtime |-> now]]
  BY Zenon DEF Write
<1>2. alone[t] \in [File -> BOOLEAN] /\ disk \in [File -> OnDisk] /\ text # Absent
  BY TextAssumption, Zenon DEF TypeOK
<1> QED
  BY <1>1, <1>2, Zenon

(* A step that writes no original file leaves all of them.                 *)
LEMMA NoWriteLeaves ==
    ASSUME NoWrite, NEW t \in Session
    PROVE  \A f \in File :
              /\ alone'[t][f] => alone[t][f] /\ disk'[f] = disk[f]
              /\ disk[f].text # Absent => disk'[f].text # Absent
  BY Zenon DEF NoWrite

(* Every step of s leaves what t relies on.                                *)
LEMMA StepLeaves ==
    ASSUME Inv, NEW s \in Session, sudo_edit(s) \/ UserSaves(s) \/ Killed(s),
           NEW t \in Session \ {s}
    PROVE  Leaves(t)
<1> TypeOK
  BY Zenon DEF Inv
<1>d. /\ DOMAIN tmp = Session /\ DOMAIN pc = Session /\ DOMAIN arg = Session
      /\ DOMAIN tf = Session /\ DOMAIN fd = Session /\ DOMAIN errors = Session
      /\ DOMAIN exit = Session /\ DOMAIN times = Session /\ DOMAIN base = Session
      /\ DOMAIN saved = Session /\ DOMAIN alone = Session
  BY Zenon DEF TypeOK
<1> USE <1>d DEF Leaves, OwnSame
<1>1. CASE create_skip(s)
  BY <1>1, NoWriteLeaves, Zenon DEF create_skip
<1>2. CASE create_open(s)
  <2>1. alone'[t] = alone[t] /\ disk' = disk
    BY <1>2, Zenon DEF create_open
  <2> QED
    BY <1>2, <2>1 DEF create_open, SetTmp, Goto, Ends
<1>3. CASE create_copy(s)
  BY <1>3, NoWriteLeaves, Zenon DEF create_copy, SetTmp, Goto, Ends
<1>4. CASE create_stamp(s)
  BY <1>4, NoWriteLeaves, Zenon DEF create_stamp, SetTmp, Goto
<1>5. CASE sudo_edit_start(s)
  BY <1>5, NoWriteLeaves, Zenon DEF sudo_edit_start, Cleanup, Goto, Ends
<1>6. CASE sudo_edit_end(s)
  <2>1. /\ tmp'[t] = tmp[t] /\ pc'[t] = pc[t] /\ arg'[t] = arg[t] /\ exit'[t] = exit[t]
        /\ times'[t] = times[t]
    <3>1. CASE /\ \E b \in BOOLEAN : times' = [times EXCEPT ![s].spent = b]
               /\ arg' = [arg EXCEPT ![s] = 1]
               /\ Goto(s, "copy")
               /\ UNCHANGED <<tmp, exit>>
      BY <3>1, Zenon DEF Goto
    <3>2. CASE Cleanup(s) /\ UNCHANGED <<times, arg>>
      BY <3>2, Zenon DEF Cleanup, Goto, Ends
    <3>3. \A b : b \in (IF now = times[s].start THEN BOOLEAN ELSE {TRUE}) => b \in BOOLEAN
      BY ZenonT(40), Zenon
    <3> QED
      BY <1>6, <3>1, <3>2, <3>3, Zenon DEF sudo_edit_end
  <2> QED
    BY <1>6, <2>1, NoWriteLeaves, Zenon DEF sudo_edit_end
<1>7. CASE UserSaves(s)
  BY <1>7, NoWriteLeaves, Zenon DEF UserSaves, SetTmp
<1>8. CASE Killed(s)
  BY <1>8, NoWriteLeaves, Zenon DEF Killed, Goto, Ends
<1>9. CASE copy_check(s)
  BY <1>9, NoWriteLeaves, Zenon DEF copy_check, NotCopied, NextFile, Goto
<1>10. CASE copy_unchanged(s)
  BY <1>10, NoWriteLeaves, Zenon DEF copy_unchanged, Copied, NextFile, Goto, Unlink
<1>11. CASE copy_end(s)
  BY <1>11, NoWriteLeaves, Zenon DEF copy_end, Ends, Goto
<1>12. CASE copy_open(s)
  <2>1. This(s).ofile \in File
    BY <1>12, ThisPending, Zenon DEF copy_open
  <2>2. NoWrite \/ Write(s, This(s).ofile, <<>>)
    BY <1>12, Zenon DEF copy_open
  <2>3. \A f \in File :
           /\ alone'[t][f] => alone[t][f] /\ disk'[f] = disk[f]
           /\ disk[f].text # Absent => disk'[f].text # Absent
    BY <2>1, <2>2, NoWriteLeaves, WriteLeaves, TextProperties, Zenon
  <2> QED
    BY <1>12, <2>3, Zenon DEF copy_open, NotCopied, Copied, NextFile, Goto, Unlink
<1>13. ASSUME sudo_extend_file(s) \/ copy_write(s) \/ copy_truncate(s)
       PROVE  Leaves(t)
  <2>1. pc[s] \in BusyPcs
    BY <1>13, Zenon DEF sudo_extend_file, copy_write, copy_truncate, BusyPcs
  <2>2. /\ This(s).ofile \in File /\ tmp[s][This(s).ofile].text \in Text
        /\ disk[This(s).ofile].text \in Text /\ fd[s].off \in Nat /\ fd[s].size \in Nat
    <3>1. fd[s].off \in Nat /\ fd[s].size \in Nat
      BY Zenon DEF TypeOK
    <3> QED
      BY <2>1, <3>1, ThisWritten, ThisType, Zenon
  <2>3. NoWrite \/ \E text \in Text : Write(s, This(s).ofile, text)
    <3>1. CASE sudo_extend_file(s)
      <4>1. fd[s].size + fd[s].off \in Nat
        BY <2>2
      <4>2. Put(disk[This(s).ofile].text, fd[s].size + fd[s].off, Zero) \in Text
        BY <2>2, <4>1, PutText, TextAssumption, Zenon
      <4>3. Resized(disk[This(s).ofile].text, fd[s].size) \in Text
        BY <2>2, ResizedText, Zenon
      <4> QED
        BY <3>1, <4>2, <4>3, Zenon DEF sudo_extend_file
    <3>2. CASE copy_write(s)
      <4> DEFINE src == tmp[s][This(s).ofile].text
      <4>1. ASSUME fd[s].off < Len(src)
            PROVE  Put(disk[This(s).ofile].text, fd[s].off, src[fd[s].off + 1]) \in Text
        <5>1. src[fd[s].off + 1] \in Chunk
          BY <2>2, <4>1, TextProperties
        <5> QED
          BY <2>2, <5>1, PutText, Zenon
      <4> QED
        BY <3>2, <4>1, Zenon DEF copy_write
    <3>3. CASE copy_truncate(s)
      <4>1. Resized(disk[This(s).ofile].text, Len(tmp[s][This(s).ofile].text)) \in Text
        BY <2>2, ResizedText, TextProperties, Zenon
      <4> QED
        BY <3>3, <4>1, Zenon DEF copy_truncate
    <3> QED
      BY <1>13, <3>1, <3>2, <3>3, Zenon
  <2>4. \A f \in File :
           /\ alone'[t][f] => alone[t][f] /\ disk'[f] = disk[f]
           /\ disk[f].text # Absent => disk'[f].text # Absent
    BY <2>2, <2>3, NoWriteLeaves, WriteLeaves, Zenon
  <2>5. /\ tf' = tf /\ exit' = exit /\ times' = times /\ base' = base /\ saved' = saved
        /\ pc'[t] = pc[t] /\ arg'[t] = arg[t] /\ fd'[t] = fd[t]
        /\ errors'[t] = errors[t] /\ tmp'[t] = tmp[t]
    BY <1>13, Zenon DEF sudo_extend_file, copy_write, copy_truncate, NotCopied, Copied, NextFile,
                 Goto, Unlink
  <2> QED
    BY <2>4, <2>5, Zenon
<1> QED
  BY <1>1, <1>2, <1>3, <1>4, <1>5, <1>6, <1>7, <1>8, <1>9, <1>10, <1>11, <1>12, <1>13, Zenon
  DEF sudo_edit

(***************************************************************************)
(* What a session sees after its own step                                  *)
(***************************************************************************)
(* v is w with another temporary file and another original.                *)
Becomes(w, v, text, mtime, disktext) ==
    /\ v.text = text /\ v.mtime = mtime /\ v.disk = disktext
    /\ v.new = w.new /\ v.seen = w.seen /\ v.base = w.base /\ v.alone = w.alone

(* A step that touches no file.                                            *)
LEMMA SeesSame ==
    ASSUME NEW s \in Session, UNCHANGED <<tmp, base, saved>>, NoWrite
    PROVE  /\ \A f \in File : View(s, f)' = View(s, f)
           /\ \A f \in File : OnlyFile(s, f)
  BY Zenon DEF View, NoWrite, OnlyFile

(* A step that writes the original.                                        *)
LEMMA SeesWrite ==
    ASSUME TypeOK, NEW s \in Session, NEW f \in File, NEW text,
           UNCHANGED <<tmp, base, saved>>, Write(s, f, text)
    PROVE  /\ Becomes(View(s, f), View(s, f)', View(s, f).text, View(s, f).mtime, text)
           /\ OnlyFile(s, f)
<1>1. DOMAIN disk = File /\ DOMAIN alone[s] = File /\ alone[s][f] \in BOOLEAN
  BY DEF TypeOK
<1>2. /\ alone'[s] = [alone[s] EXCEPT ![f] = alone[s][f] /\ s = s]
      /\ disk' = [disk EXCEPT ![f] = [text |-> text, mtime |-> now]]
  BY Zenon DEF Write
<1>3. alone'[s][f] = alone[s][f] /\ disk'[f].text = text
  BY <1>1, <1>2, Zenon
<1>4. \A g \in File \ {f} : alone'[s][g] = alone[s][g] /\ disk'[g] = disk[g]
  BY <1>1, <1>2, Zenon
<1> QED
  BY <1>3, <1>4, Zenon DEF View, OnlyFile, Becomes

(* A step that writes the temporary file.                                  *)
LEMMA SeesSetTmp ==
    ASSUME TypeOK, NEW s \in Session, NEW f \in File, NEW text, NEW mtime,
           UNCHANGED <<base, saved>>, NoWrite, SetTmp(s, f, text, mtime)
    PROVE  /\ Becomes(View(s, f), View(s, f)', text, mtime, View(s, f).disk)
           /\ OnlyFile(s, f)
<1>1. DOMAIN tmp = Session /\ DOMAIN tmp[s] = File
  BY Zenon DEF TypeOK
<1>2. /\ tmp'[s][f] = [text |-> text, mtime |-> mtime]
      /\ \A g \in File \ {f} : tmp'[s][g] = tmp[s][g]
  BY <1>1, Zenon DEF SetTmp
<1>3. tmp'[s][f].text = text /\ tmp'[s][f].mtime = mtime
  BY ONLY <1>2
<1>4. base' = base /\ saved' = saved /\ disk' = disk /\ alone' = alone
  BY Zenon DEF NoWrite
<1>5. Becomes(View(s, f), View(s, f)', text, mtime, View(s, f).disk)
  BY <1>3, <1>4, Zenon DEF View, Becomes
<1>6. OnlyFile(s, f)
  BY <1>2, <1>4, Zenon DEF View, OnlyFile
<1> QED
  BY <1>5, <1>6, Zenon

(* A step that removes the temporary file.                                 *)
LEMMA SeesUnlink ==
    ASSUME TypeOK, NEW s \in Session, NEW f \in File,
           UNCHANGED <<base, saved>>, NoWrite, Unlink(s, f)
    PROVE  /\ Becomes(View(s, f), View(s, f)', Absent, 0, View(s, f).disk)
           /\ OnlyFile(s, f)
<1>1. SetTmp(s, f, Absent, 0)
  BY ZenonT(30) DEF SetTmp, Unlink, NoFile
<1> QED
  BY <1>1, SeesSetTmp, Zenon

(* A step that writes the original and removes the temporary file.         *)
LEMMA SeesWriteUnlink ==
    ASSUME TypeOK, NEW s \in Session, NEW f \in File, NEW text,
           UNCHANGED <<base, saved>>, Write(s, f, text), Unlink(s, f)
    PROVE  /\ Becomes(View(s, f), View(s, f)', Absent, 0, text)
           /\ OnlyFile(s, f)
<1>1. DOMAIN disk = File /\ DOMAIN alone[s] = File /\ alone[s][f] \in BOOLEAN
  BY DEF TypeOK
<1>2. /\ alone'[s] = [alone[s] EXCEPT ![f] = alone[s][f] /\ s = s]
      /\ disk' = [disk EXCEPT ![f] = [text |-> text, mtime |-> now]]
  BY Zenon DEF Write
<1>3. alone'[s][f] = alone[s][f] /\ disk'[f].text = text
  BY <1>1, <1>2, Zenon
<1>4. \A g \in File \ {f} : alone'[s][g] = alone[s][g] /\ disk'[g] = disk[g]
  BY <1>1, <1>2, Zenon
<1>5. DOMAIN tmp = Session /\ DOMAIN tmp[s] = File
  BY Zenon DEF TypeOK
<1>6. /\ tmp'[s][f] = [text |-> Absent, mtime |-> 0]
      /\ \A g \in File \ {f} : tmp'[s][g] = tmp[s][g]
  BY <1>5, Zenon DEF Unlink, NoFile
<1>7. tmp'[s][f].text = Absent /\ tmp'[s][f].mtime = 0
  BY ONLY <1>6
<1>8. base' = base /\ saved' = saved
  BY Zenon
<1>9. Becomes(View(s, f), View(s, f)', Absent, 0, text)
  BY <1>3, <1>7, <1>8, Zenon DEF View, Becomes
<1>10. OnlyFile(s, f)
  BY <1>4, <1>6, <1>8, Zenon DEF View, OnlyFile
<1> QED
  BY <1>9, <1>10, Zenon

(***************************************************************************)
(* Making the temporary files                                              *)
(***************************************************************************)
(* A file that is skipped.                                                 *)
LEMMA SkipStep ==
    ASSUME Inv, conf' = conf, NEW s \in Session, create_skip(s)
    PROVE  SInv(s)'
<1> TypeOK /\ SInv(s)
  BY Zenon DEF Inv
<1>1. /\ pc' = pc /\ tf' = tf /\ exit' = exit /\ pc[s] = "create" /\ arg[s] <= Len(conf.args[s])
      /\ arg'[s] = arg[s] + 1
  BY Zenon DEF create_skip, Creating, TypeOK
<1>2. \A f \in File : View(s, f)' = View(s, f)
  BY SeesSame, Zenon DEF create_skip
<1>3. arg[s] \in Nat /\ Len(conf.args[s]) \in Nat
  BY <1>1, ArgType, Zenon DEF TypeOK
<1>4. Places(s)'
  <2>1. OfArgs(tf[s], Len(tf[s]), conf.args[s], arg[s] - 1)
    BY <1>1, Zenon DEF SInv, Places
  <2>2. OfArgs(tf[s], Len(tf[s]), conf.args[s], arg[s] + 1 - 1)
    BY <1>3, <2>1 DEF OfArgs
  <2> QED
    BY <1>1, <1>3, <2>2 DEF Places, BusyPcs, MakePcs
<1>5. Distinct(s)' /\ Unlisted(s)' /\ NothingSaved(s)' /\ Ended(s)'
  BY <1>1, <1>2, Zenon DEF SInv, Distinct, Unlisted, NothingSaved, Ended
<1>6. \A j \in 1..Len(tf[s]) : ViewAt(s, j)' = ViewAt(s, j)
  BY <1>1, <1>2, EntryType, Zenon DEF ViewAt, View
<1>7. AllPending(s)'
  BY <1>1, <1>6, Zenon DEF SInv, AllPending, IsPending
<1>8. AllSettled(s)' /\ MakingOne(s)' /\ CopyingOne(s)'
  BY <1>1, Zenon DEF AllSettled, MakingOne, CopyingOne, CopyPcs, MakePcs, BusyPcs
<1> QED
  BY <1>4, <1>5, <1>7, <1>8, Zenon DEF SInv

(* A session that fails while it makes temporary files.                    *)
LEMMA FailsEarly ==
    ASSUME Inv, conf' = conf, NEW s \in Session, pc[s] \in MakePcs \cup {"create"},
           UNCHANGED <<tmp, base, saved>>, NoWrite, tf' = tf, Ends(s, "fail")
    PROVE  SInv(s)'
<1> TypeOK /\ SInv(s)
  BY Zenon DEF Inv
<1>1. pc'[s] = "done" /\ exit'[s] = "fail" /\ tf'[s] = tf[s]
  BY Zenon DEF Ends, Goto, TypeOK
<1>2. \A f \in File : View(s, f)' = View(s, f)
  BY SeesSame, Zenon
<1>3. \A f \in File : Safe(View(s, f)) /\ Intact(View(s, f), failed')
  BY SafeBeforeEnd, IntactBeforeCopy, Zenon DEF MakePcs
<1> QED
  BY <1>1, <1>2, <1>3, SessionDone, Zenon

(***************************************************************************)
(* The editor                                                              *)
(***************************************************************************)
(* The temporary files are removed, since the clock cannot be read or      *)
(* there are none.                                                         *)
LEMMA CleanupStep ==
    ASSUME Inv, conf' = conf, NEW s \in Session, pc[s] \in {"create", "editor"},
           UNCHANGED <<tf, base, saved>>, NoWrite, Cleanup(s),
           tf[s] = <<>> \/ "clock" \in failed'
    PROVE  SInv(s)'
<1> TypeOK /\ SInv(s)
  BY Zenon DEF Inv
<1>1. /\ pc'[s] = "done" /\ exit'[s] = "fail" /\ tf'[s] = tf[s]
      /\ tmp'[s] = [f \in File |-> IF f \in Listed(s) THEN NoFile ELSE tmp[s][f]]
  BY Zenon DEF Cleanup, Ends, Goto, TypeOK
<1>2. \A f \in File : /\ View(s, f)'.text \in {View(s, f).text, Absent}
                      /\ View(s, f)'.new = View(s, f).new /\ View(s, f)'.seen = View(s, f).seen
                      /\ View(s, f)'.base = View(s, f).base /\ View(s, f)'.disk = View(s, f).disk
                      /\ View(s, f)'.alone = View(s, f).alone
  BY <1>1 DEF View, NoFile, NoWrite
<1>3. \A f \in File : Blank(View(s, f)) => Blank(View(s, f)')
  BY <1>2, Zenon DEF Blank
<1>4. \A f \in File : Intact(View(s, f)', failed')
  <2>1. \A f \in File : Intact(View(s, f), failed')
    BY IntactBeforeCopy, Zenon
  <2> QED
    BY <1>2, <2>1, Zenon DEF Intact
<1>5. CASE tf[s] = <<>>
  <2>1. \A f \in File : Blank(View(s, f))
    <3>1. \A j \in 1..Len(tf[s]) : FALSE
      BY ONLY <1>5
    <3> QED
      BY <3>1, Zenon DEF SInv, Unlisted
  <2>2. \A f \in File : Safe(View(s, f)')
    BY <1>3, <2>1, BlankSettles, Zenon
  <2> QED
    BY ZenonT(30), <1>1, <1>3, <1>4, <2>2, SessionDone
<1>6. CASE "clock" \in failed'
  BY <1>1, <1>3, <1>4, <1>6, SessionDone, Zenon
<1> QED
  BY <1>5, <1>6, Zenon

(* The editor is started.                                                  *)
LEMMA StartStep ==
    ASSUME Inv, conf' = conf, NEW s \in Session, sudo_edit_start(s)
    PROVE  SInv(s)'
<1> TypeOK /\ SInv(s)
  BY Zenon DEF Inv
<1>1. /\ pc[s] = "create" /\ tf' = tf /\ base' = base /\ saved' = saved /\ NoWrite
  BY Zenon DEF sudo_edit_start
<1>2. CASE Goto(s, "editor") /\ UNCHANGED <<tmp, exit>>
  <2>1. pc'[s] = "editor"
    BY <1>2, Zenon DEF Goto, TypeOK
  <2>2. \A f \in File : View(s, f)' = View(s, f)
    BY <1>1, <1>2, SeesSame, Zenon
  <2>3. \A j \in 1..Len(tf[s]) : ViewAt(s, j)' = ViewAt(s, j)
    BY <1>1, <2>2, EntryType, Zenon DEF ViewAt, View
  <2>4. AllPending(s)'
    BY <1>1, <2>3, Zenon DEF SInv, AllPending, IsPending
  <2>5. Distinct(s)' /\ Unlisted(s)'
    BY <1>1, <2>2, Zenon DEF SInv, Distinct, Unlisted
  <2>6. Ended(s)'
    BY <1>1, <1>2, <2>1, Zenon DEF SInv, Ended
  <2>7. /\ Places(s)' /\ NothingSaved(s)' /\ AllSettled(s)' /\ MakingOne(s)'
        /\ CopyingOne(s)'
    BY <2>1, Zenon DEF Places, NothingSaved, AllSettled, MakingOne, CopyingOne, CopyPcs,
                BusyPcs, MakePcs
  <2> QED
    BY <2>4, <2>5, <2>6, <2>7, Zenon DEF SInv
<1>3. CASE (tf[s] = <<>> \/ Fails("clock")) /\ Cleanup(s)
  BY <1>1, <1>3, CleanupStep, Zenon DEF Fails, FailAll
<1> QED
  BY <1>2, <1>3, Zenon DEF sudo_edit_start

(* The user saves a file.                                                  *)
LEMMA SaveStep ==
    ASSUME Inv, conf' = conf, NEW s \in Session, UserSaves(s)
    PROVE  SInv(s)'
<1> TypeOK /\ SInv(s)
  BY Zenon DEF Inv
<1>1. /\ pc[s] = "editor" /\ tf' = tf /\ base' = base /\ NoWrite /\ pc' = pc /\ exit' = exit
      /\ arg' = arg /\ failed' = failed
  BY Zenon DEF UserSaves
<1>2. PICK k \in 1..Len(tf[s]), text \in NewText[s] :
          /\ saved' = [saved EXCEPT ![s][tf[s][k].ofile] =
                [text |-> text, seen |-> Len(text) # tf[s][k].osize \/ now # tf[s][k].omtim]]
          /\ SetTmp(s, tf[s][k].ofile, text, now)
  <2>1. tf[s] \in Seq(Entries)
    BY Zenon DEF TypeOK, Entries
  <2>2. DOMAIN tf[s] = 1..Len(tf[s])
    BY <2>1
  <2> QED
    BY <2>2, Zenon DEF UserSaves
<1> DEFINE e == tf[s][k]
<1>3. PICK f \in File : f = e.ofile
  BY EntryType, Zenon
<1>4. text \in Text /\ text # Absent /\ e \in Entries
  BY TextAssumption, EntryType, Zenon
<1>5. /\ View(s, f)'.text = text /\ View(s, f)'.mtime = now /\ View(s, f)'.new = text
      /\ View(s, f)'.seen = (Len(text) # e.osize \/ now # e.omtim)
      /\ View(s, f)'.base = View(s, f).base /\ View(s, f)'.disk = View(s, f).disk
      /\ View(s, f)'.alone = View(s, f).alone
  BY <1>1, <1>2, <1>3, Zenon DEF View, SetTmp, TypeOK, NoWrite
<1>6. OnlyFile(s, f)
  <2>1. \A g \in File \ {f} : tmp'[s][g] = tmp[s][g] /\ saved'[s][g] = saved[s][g]
    BY <1>2, <1>3, Zenon DEF SetTmp, TypeOK
  <2> QED
    BY <1>1, <2>1, Zenon DEF OnlyFile, View, NoWrite
<1>7. Unlisted(s)'
  BY <1>1, <1>3, <1>6, StillUnlisted, Zenon DEF SInv
<1>8. AllPending(s)'
  <2> SUFFICES ASSUME NEW j \in 1..Len(tf[s])
               PROVE  Pending(ViewAt(s, j), tf[s][j])'
    BY <1>1, Zenon DEF AllPending
  <2>1. Pending(ViewAt(s, j), tf[s][j])
    BY <1>1, Zenon DEF SInv, AllPending, IsPending
  <2>2. CASE j # k
    <3>1. ViewAt(s, j)' = ViewAt(s, j)
      BY <1>1, <1>3, <1>6, <2>2, OtherEntries, Zenon DEF SInv
    <3> QED
      BY <1>1, <2>1, <3>1, Zenon
  <2>3. CASE j = k
    <3>1. ViewAt(s, j)' = View(s, f)' /\ ViewAt(s, j) = View(s, f)
      BY <1>1, <1>3, <2>3, Zenon DEF ViewAt, View
    <3>2. Pending(View(s, f), e)
      BY <2>1, <2>3, <3>1, Zenon
    <3> HIDE DEF e
    <3>3. Pending(View(s, f)', e)
      BY <1>4, <1>5, <3>2, Zenon DEF Pending, Filled, Untouched, Orig
    <3> QED
      BY <1>1, <2>3, <3>1, <3>3, Zenon DEF e
  <2> QED
    BY <2>2, <2>3, Zenon
<1>9. Distinct(s)' /\ Ended(s)'
  BY <1>1, Zenon DEF SInv, Distinct, Ended
<1>10. /\ Places(s)' /\ NothingSaved(s)' /\ AllSettled(s)' /\ MakingOne(s)' /\ CopyingOne(s)'
  BY <1>1, Zenon DEF Places, NothingSaved, AllSettled, MakingOne, CopyingOne, CopyPcs, BusyPcs, MakePcs
<1> QED
  BY <1>7, <1>8, <1>9, <1>10, Zenon DEF SInv

(* The editor is done.                                                     *)
LEMMA EndStep ==
    ASSUME Inv, conf' = conf, NEW s \in Session, sudo_edit_end(s)
    PROVE  SInv(s)'
<1> TypeOK /\ SInv(s)
  BY Zenon DEF Inv
<1>1. /\ pc[s] = "editor" /\ tf' = tf /\ base' = base /\ saved' = saved /\ NoWrite
  BY Zenon DEF sudo_edit_end
<1>2. CASE Goto(s, "copy") /\ arg' = [arg EXCEPT ![s] = 1] /\ UNCHANGED <<tmp, exit>>
  <2>1. pc'[s] = "copy" /\ arg'[s] = 1
    BY <1>2, Zenon DEF Goto, TypeOK
  <2>2. \A f \in File : View(s, f)' = View(s, f)
    BY <1>1, <1>2, SeesSame, Zenon
  <2>3. \A j \in 1..Len(tf[s]) : ViewAt(s, j)' = ViewAt(s, j)
    BY <1>1, <2>2, EntryType, Zenon DEF ViewAt, View
  <2>4. AllPending(s)'
    BY <1>1, <2>3, Zenon DEF SInv, AllPending, IsPending
  <2>5. Distinct(s)' /\ Unlisted(s)'
    BY <1>1, <2>2, Zenon DEF SInv, Distinct, Unlisted
  <2>6. Ended(s)'
    BY <1>1, <1>2, <2>1, Zenon DEF SInv, Ended
  <2>7. /\ arg'[s] <= Len(tf'[s]) + 1
        /\ \A j \in 1..Len(tf'[s]) : ~(j < arg'[s])
    <3>1. tf[s] \in Seq(Entries) /\ tf'[s] = tf[s]
      BY <1>1, Zenon DEF TypeOK, Entries
    <3>2. Len(tf'[s]) \in Nat
      BY ONLY <3>1
    <3> QED
      BY ONLY <2>1, <3>2
  <2>8. /\ Places(s)' /\ NothingSaved(s)' /\ AllSettled(s)' /\ MakingOne(s)'
        /\ CopyingOne(s)'
    BY <2>1, <2>7, Zenon DEF Places, NothingSaved, AllSettled, MakingOne, CopyingOne, BusyPcs,
                             MakePcs
  <2> QED
    BY <2>4, <2>5, <2>6, <2>8, Zenon DEF SInv
<1>3. CASE Fails("clock") /\ Cleanup(s)
  BY <1>1, <1>3, CleanupStep, Zenon DEF Fails, FailAll
<1> QED
  BY <1>2, <1>3, Zenon DEF sudo_edit_end

(* A session is killed.                                                    *)
LEMMA KillStep ==
    ASSUME Inv, conf' = conf, NEW s \in Session, Killed(s)
    PROVE  SInv(s)'
<1> TypeOK /\ SInv(s)
  BY Zenon DEF Inv
<1>1. pc[s] # "done" /\ pc'[s] = "done" /\ exit'[s] = "fail" /\ tf'[s] = tf[s] /\ "kill" \in failed'
  BY Zenon DEF Killed, Ends, Goto, TypeOK, Fails, FailAll
<1>2. \A f \in File : View(s, f)' = View(s, f)
  BY SeesSame, Zenon DEF Killed
<1>3. \A f \in File : Safe(View(s, f))
  BY <1>1, SafeBeforeEnd, Zenon
<1>4. \A w : Intact(w, failed')
  BY <1>1, Zenon DEF Intact, Harmless
<1> QED
  BY <1>1, <1>2, <1>3, <1>4, SessionDone, Zenon

(***************************************************************************)
(* Copying out                                                             *)
(***************************************************************************)
(* The next file is opened, and its entry made.                            *)
LEMMA OpenStep ==
    ASSUME Inv, conf' = conf, NEW s \in Session, create_open(s)
    PROVE  SInv(s)'
<1> TypeOK /\ SInv(s)
  BY Zenon DEF Inv
<1>1. /\ pc[s] = "create" /\ ThisArg(s) \in File /\ arg[s] \in 1..Len(conf.args[s])
      /\ arg' = arg /\ saved' = saved /\ disk' = disk
  BY ArgType, Zenon DEF create_open, Creating
<1>2. PICK f \in File : f = ThisArg(s)
  BY <1>1, Zenon
<1> DEFINE new == disk[f].text = Absent
           e == [ofile |-> f, osize |-> IF new THEN 0 ELSE Len(disk[f].text),
                 omtim |-> IF new THEN 0 ELSE disk[f].mtime]
           m == Len(tf[s])
<1>3. CASE /\ UNCHANGED exit
           /\ SetTmp(s, f, <<>>, now)
           /\ tf' = [tf EXCEPT ![s] = Append(tf[s], e)]
           /\ fd' = [fd EXCEPT ![s] = [off |-> 0, size |-> 0]]
           /\ Goto(s, IF new THEN "stamp" ELSE "create_copy")
           /\ base' = [base EXCEPT ![s][f] = disk[f].text]
           /\ alone' = [alone EXCEPT ![s][f] = TRUE]
  <2>1. /\ tf'[s] = Append(tf[s], e) /\ pc'[s] \in MakePcs /\ exit'[s] # "ok"
        /\ pc'[s] = IF new THEN "stamp" ELSE "create_copy"
        /\ fd'[s].off = 0
    <3>1. exit[s] # "ok"
      BY <1>1, Zenon DEF SInv, Ended
    <3> HIDE DEF e
    <3> QED
      BY <1>3, <3>1, Zenon DEF Goto, TypeOK, MakePcs
  <2>2. /\ m \in Nat /\ Len(tf'[s]) = m + 1 /\ tf'[s][m + 1] = e
        /\ \A j \in 1..m : tf'[s][j] = tf[s][j]
    <3>1. tf[s] \in Seq(Entries)
      BY Zenon DEF TypeOK, Entries
    <3> HIDE DEF e
    <3> QED
      BY <2>1, <3>1
  <2>3. \A j \in 1..m : tf[s][j].ofile # f
    <3>1. OfArgs(tf[s], m, conf.args[s], arg[s] - 1)
      BY <1>1, Zenon DEF SInv, Places
    <3>2. \A k \in 1..(arg[s] - 1) : conf.args[s][k] # conf.args[s][arg[s]]
      <4>1. \A i, j \in 1..Len(conf.args[s]) : conf.args[s][i] = conf.args[s][j] => i = j
        BY ConfsAssumption, Zenon DEF TypeOK
      <4>2. \A k \in 1..(arg[s] - 1) : k \in 1..Len(conf.args[s]) /\ k # arg[s]
        BY <1>1, ArgType
      <4> QED
        BY <1>1, <4>1, <4>2, Zenon
    <3> QED
      BY <1>2, <3>1, <3>2, Zenon DEF OfArgs, ThisArg
  <2>4. Blank(View(s, f))
    BY <1>2, <2>3, Zenon DEF SInv, Unlisted
  <2>5. /\ View(s, f)'.text = <<>> /\ View(s, f)'.base = disk[f].text
        /\ View(s, f)'.disk = disk[f].text
        /\ View(s, f)'.new = Absent /\ ~View(s, f)'.seen
    BY <1>1, <1>3, <2>4, Zenon DEF SetTmp, View, TypeOK, Blank
  <2>6. \A g \in File \ {f} : View(s, g)' = View(s, g)
    <3>1. \A g \in File \ {f} : /\ tmp'[s][g] = tmp[s][g] /\ base'[s][g] = base[s][g]
                                /\ alone'[s][g] = alone[s][g]
      BY <1>3, Zenon DEF SetTmp, TypeOK
    <3> QED
      BY <1>1, <3>1, Zenon DEF View
  <2>7. Places(s)'
    <3>1. OfArgs(tf'[s], m, conf'.args[s], arg'[s] - 1)
      <4>1. OfArgs(tf[s], m, conf.args[s], arg[s] - 1)
        BY <1>1, Zenon DEF SInv, Places
      <4>2. conf' = conf /\ arg'[s] = arg[s]
        BY <1>1, <1>3, Zenon
      <4>3. ASSUME NEW j \in 1..m
            PROVE  \E k \in 1..(arg[s] - 1) : tf'[s][j].ofile = conf.args[s][k]
        <5>1. tf'[s][j] = tf[s][j]
          BY ZenonT(30), <2>2
        <5> QED
          BY <4>1, <5>1, Zenon DEF OfArgs
      <4> QED
        BY <4>2, <4>3, Zenon DEF OfArgs
    <3>2. tf'[s][m + 1].ofile = conf'.args[s][arg'[s]]
      <4>1. e.ofile = f
        BY Zenon
      <4>2. conf' = conf /\ arg' = arg /\ f = conf.args[s][arg[s]] /\ tf'[s][m + 1] = e
        BY <1>1, <1>2, <2>2, Zenon DEF ThisArg
      <4> HIDE DEF e, m
      <4> QED
        BY <4>1, <4>2, Zenon
    <3> QED
      BY <1>1, <2>1, <2>2, <3>1, <3>2 DEF Places, MakePcs, BusyPcs
  <2>8. Distinct(s)'
    <3>1. \A j \in 1..(m + 1) : j \in 1..m \/ j = m + 1
      BY <2>2
    <3>2. tf'[s][m + 1].ofile = f
      BY <2>2
    <3>3. \A j, k \in 1..m : tf[s][j].ofile = tf[s][k].ofile => j = k
      BY Zenon DEF SInv, Distinct
    <3> HIDE DEF e, m
    <3>4. \A j, k \in 1..(m + 1) : tf'[s][j].ofile = tf'[s][k].ofile => j = k
      BY <2>2, <2>3, <3>1, <3>2, <3>3, Zenon
    <3> QED
      BY <2>2, <3>4, Zenon DEF Distinct
  <2>9. Unlisted(s)'
    <3> SUFFICES ASSUME NEW g \in File, \A j \in 1..(m + 1) : tf'[s][j].ofile # g
                 PROVE  Blank(View(s, g)')
      BY <2>2, Zenon DEF Unlisted
    <3>1. g # f /\ \A j \in 1..m : tf[s][j].ofile # g
      BY SMTT(30), <2>2
    <3>2. Blank(View(s, g))
      BY <3>1, Zenon DEF SInv, Unlisted
    <3> QED
      BY <2>6, <3>1, <3>2, Zenon
  <2>10. NothingSaved(s)'
    BY <1>1, <2>5, <2>6, Zenon DEF SInv, NothingSaved
  <2>11. AllPending(s)'
    <3> SUFFICES ASSUME NEW j \in 1..(m + 1), IsPending(s, j)'
                 PROVE  Pending(ViewAt(s, j), tf[s][j])'
      BY <2>2, Zenon DEF AllPending
    <3>1. j \in 1..m
      BY <2>1, <2>2 DEF IsPending, MakePcs, BusyPcs
    <3>2. Pending(ViewAt(s, j), tf[s][j])
      BY <1>1, <3>1, Zenon DEF SInv, AllPending, IsPending
    <3>3. tf[s][j].ofile \in File \ {f} /\ tf'[s][j] = tf[s][j]
      BY <2>2, <2>3, <3>1, EntryType, Zenon
    <3>4. ViewAt(s, j)' = ViewAt(s, j)
      BY <2>6, <3>3, ZenonT(40), Zenon DEF ViewAt, View
    <3> QED
      BY <3>2, <3>3, <3>4, Zenon
  <2>12. MakingOne(s)'
    <3> DEFINE w == View(s, f)'
    <3>1. View(s, tf[s][Len(tf[s])].ofile)' = w /\ tf'[s][Len(tf'[s])] = e
      BY <2>2 DEF View
    <3>2. Begun(w, e)
      BY <2>5, TextProperties, TextAssumption, Zenon DEF Begun, Orig, Untouched
    <3>3. ~new => Part(w, 0)
      BY <2>5, TextProperties DEF Part, TypeOK, OnDisk
    <3>4. new => Whole(w)
      BY <2>5, Zenon DEF Whole, Orig
    <3> HIDE DEF w, e
    <3> QED
      BY <2>1, <3>1, <3>2, <3>3, <3>4, Zenon DEF MakingOne
  <2>13. AllSettled(s)' /\ CopyingOne(s)' /\ Ended(s)'
    BY <2>1, Zenon DEF AllSettled, CopyingOne, Ended, CopyPcs, BusyPcs, MakePcs
  <2> QED
    BY <2>7, <2>8, <2>9, <2>10, <2>11, <2>12, <2>13, Zenon DEF SInv
<1>4. CASE Ends(s, "fail") /\ UNCHANGED <<tmp, tf, fd, base, alone>>
  BY <1>1, <1>4, FailsEarly, Zenon DEF NoWrite
<1> QED
  BY <1>2, <1>3, <1>4, Zenon DEF create_open

(* A chunk is copied to the temporary file, or the end is reached.         *)
LEMMA CopyOutStep ==
    ASSUME Inv, conf' = conf, NEW s \in Session, create_copy(s)
    PROVE  SInv(s)'
<1> TypeOK /\ SInv(s)
  BY Zenon DEF Inv
<1>1. pc[s] = "create_copy" /\ pc[s] \in MakePcs
  BY Zenon DEF create_copy, MakePcs
<1> DEFINE m == Len(tf[s])
           e == tf[s][m]
           off == fd[s].off
<1>2. PICK f \in File : f = ThisArg(s)
  BY <1>1, MadeNow, Zenon
<1>3. /\ m \in 1..Len(tf[s]) /\ e \in Entries /\ e.ofile = f
      /\ tmp[s][f].text \in Text /\ disk[f].text \in Text /\ off \in Nat
  BY <1>1, <1>2, MadeNow, Zenon DEF TypeOK
<1>4. Begun(View(s, f), e) /\ Part(View(s, f), off)
  BY <1>1, <1>3, Zenon DEF SInv, MakingOne
<1>5. tf' = tf /\ arg' = arg /\ base' = base /\ saved' = saved /\ NoWrite
  BY Zenon DEF create_copy
(* Whatever becomes of the file that is copied, the rest stays.            *)
<1>6. ASSUME exit' = exit, pc'[s] \in MakePcs, OnlyFile(s, f),
             View(s, f)'.new = View(s, f).new, View(s, f)'.seen = View(s, f).seen,
             Begun(View(s, f)', e),
             pc'[s] = "create_copy" => Part(View(s, f)', fd'[s].off),
             pc'[s] = "stamp" => Whole(View(s, f)')
      PROVE  SInv(s)'
  <2>1. Places(s)' /\ Distinct(s)' /\ Unlisted(s)'
    <3>1. Unlisted(s)'
      BY <1>3, <1>5, <1>6, StillUnlisted, Zenon DEF SInv
    <3> QED
      BY <1>1, <1>5, <1>6, <3>1, Zenon DEF SInv, Places, Distinct, MakePcs, BusyPcs
  <2>2. NothingSaved(s)'
    BY <1>1, <1>6, Zenon DEF SInv, NothingSaved, OnlyFile
  <2>3. AllPending(s)'
    <3>1. \A j \in 1..Len(tf[s]) : j # m => ViewAt(s, j)' = ViewAt(s, j)
      BY <1>3, <1>5, <1>6, OtherEntries, Zenon DEF SInv
    <3>2. \A j \in 1..Len(tf[s]) : IsPending(s, j)' => j # m /\ IsPending(s, j)
      BY <1>1, <1>5, <1>6 DEF IsPending, MakePcs, BusyPcs
    <3> QED
      BY <1>5, <3>1, <3>2, Zenon DEF SInv, AllPending
  <2>4. MakingOne(s)'
    <3>1. View(s, tf[s][Len(tf[s])].ofile)' = View(s, f)'
      BY <1>3, <1>5, Zenon DEF View
    <3> QED
      BY <1>5, <1>6, <3>1, Zenon DEF MakingOne
  <2>5. AllSettled(s)' /\ CopyingOne(s)' /\ Ended(s)'
    BY <1>1, <1>6, Zenon DEF SInv, AllSettled, CopyingOne, Ended, CopyPcs, BusyPcs, MakePcs
  <2> QED
    BY <2>1, <2>2, <2>3, <2>4, <2>5, Zenon DEF SInv
<1> HIDE DEF e, m
<1>7. CASE /\ off < Len(disk[f].text)
           /\ SetTmp(s, f, Append(tmp[s][f].text, disk[f].text[off + 1]), now)
           /\ fd' = [fd EXCEPT ![s].off = fd[s].off + 1]
           /\ UNCHANGED <<pc, exit>>
  <2> DEFINE text == Append(tmp[s][f].text, disk[f].text[off + 1])
  <2>1. Becomes(View(s, f), View(s, f)', text, now, View(s, f).disk) /\ OnlyFile(s, f)
    BY <1>5, <1>7, SeesSetTmp, Zenon
  <2>2. fd'[s].off = off + 1
    BY <1>7 DEF TypeOK
  <2>3. /\ text \in Text /\ Len(text) = Len(tmp[s][f].text) + 1
        /\ text[Len(tmp[s][f].text) + 1] = disk[f].text[off + 1]
        /\ \A i \in 1..Len(tmp[s][f].text) : text[i] = tmp[s][f].text[i]
    <3>1. tmp[s][f].text \in Text /\ disk[f].text \in Text
      BY <1>3, Zenon
    <3>2. off + 1 \in 1..Len(disk[f].text)
      BY <1>3, <1>7, <3>1, TextProperties
    <3>3. disk[f].text[off + 1] \in Chunk
      BY <3>1, <3>2, TextProperties, Zenon
    <3> QED
      BY <3>1, <3>3, AppendText, Zenon
  <2>4. View(s, f).text = tmp[s][f].text /\ View(s, f).disk = disk[f].text
    BY Zenon DEF View
  <2> HIDE DEF text
  <2>5. Begun(View(s, f)', e)
    BY <1>4, <2>1, <2>3, TextAssumption, Zenon DEF Begun, Becomes, Orig, Untouched
  <2>6. Part(View(s, f)', off + 1)
    <3>1. Len(text) = off + 1
      BY <1>4, <2>3, <2>4, Zenon DEF Part
    <3>2. View(s, f).alone => off + 1 <= Len(View(s, f).base)
      BY <1>3, <1>4, <1>7, <2>4, TextProperties DEF Begun, Untouched
    <3>3. View(s, f).alone => \A i \in 1..(off + 1) : text[i] = View(s, f).base[i]
      <4>1. \A i \in 1..(off + 1) : i \in 1..off \/ i = off + 1
        BY <1>3
      <4> QED
        <5>1. ASSUME View(s, f).alone, NEW i \in 1..(off + 1)
              PROVE  text[i] = View(s, f).base[i]
          <6>1. /\ off = Len(tmp[s][f].text)
                /\ \A j \in 1..off : tmp[s][f].text[j] = View(s, f).base[j]
                /\ disk[f].text = View(s, f).base
            BY <1>4, <2>4, <5>1, Zenon DEF Part, Begun, Untouched
          <6> QED
            BY <2>3, <4>1, <6>1, Zenon
        <5> QED
          BY <5>1, Zenon
    <3> QED
      BY <1>4, <2>1, <3>1, <3>2, <3>3, Zenon DEF Part, Becomes
  <2>7. pc'[s] = pc[s] /\ exit' = exit
    BY <1>7, Zenon
  <2> QED
    BY <1>1, <1>6, <2>1, <2>2, <2>5, <2>6, <2>7, Zenon DEF Becomes
<1>8. CASE off >= Len(disk[f].text) /\ Goto(s, "stamp") /\ UNCHANGED <<tmp, fd, exit>>
  <2>1. View(s, f)' = View(s, f) /\ OnlyFile(s, f)
    BY <1>5, <1>8, SeesSame, Zenon
  <2>2. pc'[s] = "stamp"
    BY <1>8, Zenon DEF Goto, TypeOK
  <2>3. Whole(View(s, f))
    <3> SUFFICES ASSUME View(s, f).alone
                 PROVE  View(s, f).text = View(s, f).base
      BY <1>4, Zenon DEF Whole, Orig, Part
    <3>1. View(s, f).text \in Text /\ View(s, f).base \in Text /\ View(s, f).base = disk[f].text
      BY <1>3, <1>4, Zenon DEF View, Begun, Untouched
    <3>2. Len(View(s, f).text) = Len(View(s, f).base)
      BY <1>3, <1>4, <1>8, <3>1, TextProperties DEF Part
    <3> QED
      BY <1>4, <3>1, <3>2, SameText DEF Part
  <2> QED
    BY <1>4, <1>6, <1>8, <2>1, <2>2, <2>3, Zenon DEF MakePcs
<1>9. CASE Ends(s, "fail") /\ UNCHANGED <<tmp, fd>>
  BY <1>1, <1>5, <1>9, FailsEarly, Zenon
<1> QED
  BY <1>2, <1>7, <1>8, <1>9, Zenon DEF create_copy

(* The temporary file is complete.                                         *)
LEMMA StampStep ==
    ASSUME Inv, conf' = conf, NEW s \in Session, create_stamp(s)
    PROVE  SInv(s)'
<1> TypeOK /\ SInv(s)
  BY Zenon DEF Inv
<1>1. pc[s] = "stamp" /\ pc[s] \in MakePcs
  BY Zenon DEF create_stamp, MakePcs
<1> DEFINE m == Len(tf[s])
           e == tf[s][m]
<1>2. PICK f \in File : f = ThisArg(s)
  BY <1>1, MadeNow, Zenon
<1>3. m \in 1..Len(tf[s]) /\ e \in Entries /\ e.ofile = f /\ tmp[s][f].text \in Text
  BY <1>1, <1>2, MadeNow, Zenon
<1>4. Begun(View(s, f), e) /\ Whole(View(s, f)) /\ View(s, f).new = Absent /\ ~View(s, f).seen
  BY <1>1, <1>3, Zenon DEF SInv, MakingOne, NothingSaved
<1>5. /\ arg'[s] = arg[s] + 1 /\ pc'[s] = "create" /\ NoWrite /\ exit' = exit
      /\ base' = base /\ saved' = saved
  BY Zenon DEF create_stamp, Goto, TypeOK
<1>6. /\ Len(tf'[s]) = m
      /\ \A j \in 1..m : tf'[s][j].ofile = tf[s][j].ofile
      /\ \A j \in 1..m : j # m => tf'[s][j] = tf[s][j]
      /\ tf'[s][m].osize = e.osize
      /\ Becomes(View(s, f), View(s, f)', View(s, f).text, tf'[s][m].omtim, View(s, f).disk)
      /\ OnlyFile(s, f)
  <2>1. CASE SetTmp(s, f, tmp[s][f].text, e.omtim) /\ UNCHANGED tf
    <3>1. /\ Becomes(View(s, f), View(s, f)', tmp[s][f].text, e.omtim, View(s, f).disk)
          /\ OnlyFile(s, f)
      BY <1>5, <2>1, SeesSetTmp, Zenon
    <3> QED
      BY <2>1, <3>1, Zenon DEF View
  <2>2. CASE tf' = [tf EXCEPT ![s][m].omtim = tmp[s][f].mtime] /\ UNCHANGED tmp
    <3>1. View(s, f)' = View(s, f) /\ OnlyFile(s, f)
      BY <1>5, <2>2, SeesSame, Zenon
    <3>2. tf[s] \in Seq(Entries)
      BY Zenon DEF TypeOK, Entries
    <3>3. tf'[s] = [tf[s] EXCEPT ![m] = [tf[s][m] EXCEPT !.omtim = tmp[s][f].mtime]]
      BY <2>2, Zenon DEF TypeOK
    <3>4. /\ Len(tf'[s]) = m
          /\ \A j \in 1..m : j # m => tf'[s][j] = tf[s][j]
          /\ tf'[s][m] = [tf[s][m] EXCEPT !.omtim = tmp[s][f].mtime]
      BY <1>3, <3>2, <3>3
    <3>5. /\ tf'[s][m].ofile = e.ofile /\ tf'[s][m].osize = e.osize
          /\ tf'[s][m].omtim = tmp[s][f].mtime
      BY <1>3, <3>4, Zenon DEF Entries
    <3>6. \A j \in 1..m : tf'[s][j].ofile = tf[s][j].ofile
      BY <3>4, <3>5, Zenon
    <3> QED
      BY <3>1, <3>4, <3>5, <3>6, Zenon DEF Becomes, View
  <2> QED
    BY <1>2, <2>1, <2>2, Zenon DEF create_stamp
<1>7. Places(s)'
  <2>1. /\ arg[s] <= Len(conf.args[s]) /\ e.ofile = conf.args[s][arg[s]]
        /\ OfArgs(tf[s], m - 1, conf.args[s], arg[s] - 1)
    BY <1>1, Zenon DEF SInv, Places
  <2>2. arg[s] \in Nat \ {0} /\ m \in Nat \ {0} /\ Len(conf.args[s]) \in Nat
    <3>1. Len(conf.args[s]) \in Nat /\ arg[s] \in 1..Len(conf.args[s])
      BY <2>1, ArgType, Zenon
    <3>2. m \in Nat
      BY DEF TypeOK
    <3> QED
      BY <1>3, <3>1, <3>2
  <2>3. OfArgs(tf'[s], m, conf.args[s], arg[s] + 1 - 1)
    <3>0. arg[s] + 1 - 1 = arg[s]
      BY <2>2
    <3> SUFFICES ASSUME NEW j \in 1..m
                 PROVE  \E k \in 1..arg[s] : tf[s][j].ofile = conf.args[s][k]
      BY <1>6, <3>0, Zenon DEF OfArgs
    <3>1. CASE j = m
      BY <2>1, <2>2, <3>1
    <3>2. CASE j \in 1..(m - 1)
      <4>1. PICK k \in 1..(arg[s] - 1) : tf[s][j].ofile = conf.args[s][k]
        BY <2>1, <3>2, Zenon DEF OfArgs
      <4>2. k \in 1..arg[s]
        BY <2>2
      <4> QED
        BY <4>1, <4>2, Zenon
    <3> QED
      BY <2>2, <3>1, <3>2
  <2> QED
    <3>1. arg[s] + 1 <= Len(conf.args[s]) + 1
      BY ONLY <2>1, <2>2
    <3>2. /\ conf' = conf /\ arg'[s] = arg[s] + 1 /\ Len(tf'[s]) = m
      BY <1>5, <1>6, Zenon
    <3>3. arg'[s] <= Len(conf'.args[s]) + 1
      BY <3>1, <3>2, Zenon
    <3>4. OfArgs(tf'[s], Len(tf'[s]), conf'.args[s], arg'[s] - 1)
      <4>1. \A j \in 1..m : \E k \in 1..(arg[s] + 1 - 1) : tf'[s][j].ofile = conf.args[s][k]
        BY <2>3, Zenon DEF OfArgs
      <4>2. arg'[s] - 1 = arg[s] + 1 - 1
        BY ONLY <2>2, <3>2
      <4> HIDE DEF m
      <4> QED
        BY ONLY <3>2, <4>1, <4>2, Zenon DEF OfArgs
    <3> QED
      BY <1>5, <3>3, <3>4, Zenon DEF Places, MakePcs, BusyPcs
<1>8. Distinct(s)'
  BY <1>6, Zenon DEF SInv, Distinct
<1>9. Unlisted(s)'
  <2> SUFFICES ASSUME NEW g \in File, \A j \in 1..m : tf'[s][j].ofile # g
               PROVE  Blank(View(s, g)')
    BY <1>6, Zenon DEF Unlisted
  <2>1. g # f /\ Blank(View(s, g))
    BY <1>3, <1>6, Zenon DEF SInv, Unlisted
  <2> QED
    BY <1>6, <2>1, Zenon DEF OnlyFile
<1>10. NothingSaved(s)'
  BY <1>1, <1>4, <1>6, Zenon DEF SInv, NothingSaved, OnlyFile, Becomes
<1>11. AllPending(s)'
  <2> SUFFICES ASSUME NEW j \in 1..m
               PROVE  Pending(ViewAt(s, j), tf[s][j])'
    BY <1>6, Zenon DEF AllPending
  <2>1. CASE j # m
    <3>1. Pending(ViewAt(s, j), tf[s][j])
      BY <1>1, <1>3, <2>1 DEF SInv, AllPending, IsPending
    <3>2. tf[s][j].ofile \in File \ {f} /\ tf'[s][j] = tf[s][j]
      BY <1>3, <1>6, <2>1, EntryType, Zenon DEF SInv, Distinct
    <3>3. ViewAt(s, j)' = ViewAt(s, j)
      BY <1>6, <3>2, Zenon DEF ViewAt, View, OnlyFile
    <3> QED
      BY <3>1, <3>2, <3>3, Zenon
  <2>2. CASE j = m
    <3>1. ViewAt(s, j)' = View(s, f)'
      BY <1>3, <1>6, <2>2, ZenonT(40), Zenon DEF ViewAt, View
    <3>2. Pending(View(s, f)', tf'[s][m])
      BY <1>4, <1>6, Zenon DEF Pending, Filled, Begun, Whole, Untouched, Orig, Becomes
    <3> QED
      BY <2>2, <3>1, <3>2, Zenon
  <2> QED
    BY <2>1, <2>2, Zenon
<1>12. AllSettled(s)' /\ MakingOne(s)' /\ CopyingOne(s)' /\ Ended(s)'
  BY <1>1, <1>5, Zenon DEF SInv, AllSettled, MakingOne, CopyingOne, Ended, CopyPcs, BusyPcs, MakePcs
<1> QED
  BY <1>7, <1>8, <1>9, <1>10, <1>11, <1>12, Zenon DEF SInv

================================================================================
