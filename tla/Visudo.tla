------------------------------- MODULE Visudo -------------------------------
(***************************************************************************)
(* visudo (plugins/sudoers/visudo.c): sessions that edit sudoers files.    *)
(* A session opens and locks its main file, and each file that one         *)
(* includes as the parser comes to it; lets the user edit copies of them,  *)
(* named after the file with ".tmp" added; parses the copies, asking what  *)
(* to do about errors; and renames the changed ones into place.            *)
(*                                                                         *)
(* A text is known by who saved it and by what the parser makes of it.     *)
(* Files are never written in place, so that an open file has the inode    *)
(* number and the text it had when it was opened.  Left out: options that  *)
(* do not change what is edited, owners and modes, paths that are lists of *)
(* files, the choice of an editor, and the answer "y" to "Edit anyway?"    *)
(* after a lock could not be tried, which is to do without the lock.       *)
(***************************************************************************)
EXTENDS Naturals, Sequences, SequencesExt

CONSTANTS
    Session,   \* the visudo processes
    Sudoers,   \* the sudoers file
    Included,  \* a file that it may include
    Absent,    \* no file, no text
    Confs      \* the scenarios

File == {Sudoers, Included}

VARIABLES
    conf,    \* the scenario: each session's main file (its argument), how files
             \* are included, whether -I is given, the kinds of texts that users
             \* save and how many, the files at first, and what may fail
    disk,    \* the files by name: inode number and text
    tmp,     \* the texts of the temporary files
    inodes,  \* the number of inodes used so far
    vi,      \* the sessions
    failed,  \* the faults there were
    astray   \* history: was a session's lock on a file that has lost its name

vars == <<conf, disk, tmp, inodes, vi, failed, astray>>

Main(s)        == conf.main[s]
Bad(t)         == t.kind \in {"bad", "badinc"}
Includes(f, t) == f = Sudoers /\ t # Absent /\ t.kind \in {"inc", "badinc"}
Empty(t)       == t.kind = "empty"

Works    == UNCHANGED failed
Fails(x) == x \in conf.faults \ failed /\ failed' = failed \cup {x}

(* struct sudoersfile of each file, and the variables of main(), of        *)
(* reparse_sudoers() and of the parser; then what the properties look at:  *)
(* what was written to the temporary files, whether Q was said, what has   *)
(* been installed, and how the session ended.                              *)
NewSession(s) ==
    [pc |-> IF Main(s) = Absent THEN "done" ELSE "open", want |-> Main(s),
     list |-> <<>>, todo |-> <<>>, then |-> "first",
     fd |-> [f \in File |-> Absent], created |-> {}, tpath |-> {}, modified |-> {},
     errorline |-> {}, errors |-> FALSE, parse_error |-> FALSE, skipped |-> {},
     last |-> 0, exitcode |-> "ok", saves |-> 0, touched |-> FALSE,
     wrote |-> [f \in File |-> Absent],
     forced |-> FALSE, put |-> [f \in File |-> Absent], end |-> "none"]

Init ==
    /\ conf \in Confs
    /\ disk = [f \in File |-> IF conf.files[f] = "none" THEN Absent
                              ELSE [ino |-> 0, text |-> [by |-> <<f, 0>>, kind |-> conf.files[f]]]]
    /\ tmp = [f \in File |-> Absent]
    /\ inodes = 0
    /\ vi = [s \in Session |-> NewSession(s)]
    /\ failed = {}
    /\ astray = FALSE

Becomes(s, v) == vi' = [vi EXCEPT ![s] = v]

(* The end of the process, which drops its locks.                          *)
Ended(v, how) == [v EXCEPT !.pc = "done", !.end = how]

(* (Slip: only the main file's temporary file is removed.)                 *)
visudo_cleanup_MainOnly(v) ==
    [f \in File |-> IF f \in v.tpath \ {Included} THEN Absent ELSE tmp[f]]

visudo_cleanup(v) == [f \in File |-> IF f \in v.tpath THEN Absent ELSE tmp[f]]

(* sudo_fatal() and sudo_fatalx() run the cleanup too.                     *)
Fatal(s, v) ==
    /\ Becomes(s, [Ended(v, "fatal") EXCEPT !.exitcode = "fail"])
    /\ tmp' = visudo_cleanup(v)
    /\ UNCHANGED <<disk, inodes>>

-----------------------------------------------------------------------------
(* A file that cannot be opened or locked: without the main file visudo    *)
(* ends; a file to include is a syntax error; one of an included directory *)
(* is passed over.                                                         *)
NotOpened(s) ==
    LET v == vi[s]
    IN  Becomes(s, IF v.want = Main(s)
                   THEN [Ended(v, "exit") EXCEPT !.exitcode = "fail"]
                   ELSE [v EXCEPT !.pc = "parse", !.skipped = @ \cup {v.want}])

(* The first half of new_sudoers(): a file that is not there is created.   *)
new_sudoers(s) ==
    LET v == vi[s]
        f == v.want
        made == [ino |-> inodes + 1, text |-> [by |-> <<s, 0>>, kind |-> "empty"]]
    IN  /\ v.pc = "open"
        /\ \/ /\ Works /\ disk[f] # Absent
              /\ Becomes(s, [v EXCEPT !.pc = "lock", !.fd[f] = disk[f]])
              /\ UNCHANGED <<disk, inodes>>
           \/ /\ Works /\ disk[f] = Absent
              /\ Becomes(s, [v EXCEPT !.pc = "lock", !.fd[f] = made, !.created = @ \cup {f}])
              /\ disk' = [disk EXCEPT ![f] = made]
              /\ inodes' = inodes + 1
           \/ /\ Fails("open")
              /\ NotOpened(s)
              /\ UNCHANGED <<disk, inodes>>
        /\ UNCHANGED tmp

Holds(s, f, ino) ==
    vi[s].pc # "done" /\ f \in ToSet(vi[s].list) /\ vi[s].fd[f].ino = ino

(* (Slip: a lock that is taken is not noticed.)                            *)
lock_sudoers_Anyway(s) ==
    LET v == vi[s]
    IN  /\ v.pc = "lock"
        /\ Works /\ Becomes(s, [v EXCEPT !.pc = "parse", !.list = Append(@, v.want)])
        /\ UNCHANGED <<disk, tmp, inodes>>

(* The second half: the open file is locked, or it is busy.                *)
lock_sudoers(s) ==
    LET v == vi[s]
        f == v.want
        busy == \E t \in Session \ {s} : Holds(t, f, v.fd[f].ino)
    IN  /\ v.pc = "lock"
        /\ \/ Works /\ ~busy /\ Becomes(s, [v EXCEPT !.pc = "parse", !.list = Append(@, f)])
           \/ Works /\ busy /\ NotOpened(s)
           \/ Fails("lock") /\ NotOpened(s)
        /\ UNCHANGED <<disk, tmp, inodes>>

-----------------------------------------------------------------------------
(* open_sudoers(): the parser reads the temporary file if there is one.    *)
open_sudoers(v, f) == IF f \in v.tpath THEN tmp[f] ELSE v.fd[f].text

(* The files the parser comes to, once all that it can open are open.      *)
Reached(s) ==
    LET v == vi[s]
    IN  {Main(s)} \cup
        (IF Includes(Main(s), open_sudoers(v, Main(s))) THEN {Included} \cap ToSet(v.list)
         ELSE {})

(* A temporary file the parser comes to is gone.                           *)
TempGone(s) == \E f \in Reached(s) : open_sudoers(vi[s], f) = Absent

parse_lost(s) ==
    /\ vi[s].pc = "parse" /\ TempGone(s)
    /\ Works /\ Fatal(s, vi[s])

MustOpen(s) ==
    LET v == vi[s]
    IN  /\ Includes(Main(s), open_sudoers(v, Main(s)))
        /\ Included \notin ToSet(v.list) \cup v.skipped
        /\ conf.how = "include" \/ disk[Included] # Absent

(* push_include(), push_includedir(): the parser comes to a file that is   *)
(* not on the list.                                                        *)
push_include(s) ==
    /\ vi[s].pc = "parse" /\ ~TempGone(s) /\ MustOpen(s)
    /\ Works /\ Becomes(s, [vi[s] EXCEPT !.pc = "open", !.want = Included])
    /\ UNCHANGED <<disk, tmp, inodes>>

(* The files that visudo_track_error() notes: those with a syntax error,   *)
(* and one with an include directive that failed.                          *)
visudo_track_error(s) ==
    {f \in Reached(s) : Bad(open_sudoers(vi[s], f))} \cup
    {f \in {Main(s)} : vi[s].skipped # {} /\ conf.how = "include"}

(* The files of the list to edit when visudo starts.                       *)
doedit(s, f) == f = Main(s) \/ (conf.how = "include" /\ ~conf.noincludes)

(* main(): the files as they are have been parsed.                         *)
first_parse(s) ==
    LET v == vi[s]
    IN  /\ v.pc = "parse" /\ v.then = "first" /\ ~TempGone(s) /\ ~MustOpen(s)
        /\ Becomes(s, [v EXCEPT !.pc = "edit", !.then = "reparse",
                                !.todo = SelectSeq(v.list, LAMBDA f : doedit(s, f)),
                                !.errorline = visudo_track_error(s)])
        /\ Works /\ UNCHANGED <<disk, tmp, inodes>>

(* (Slip: the error of the last parse only counts if the main file has it.)*)
reparse_sudoers_MainOnly(s) ==
    LET v == vi[s]
        bad == visudo_track_error(s) \cap {Main(s)}
    IN  /\ v.pc = "parse" /\ v.then = "new" /\ ~TempGone(s) /\ ~MustOpen(s)
        /\ Becomes(s, [v EXCEPT !.pc = IF bad # {} THEN "whatnow" ELSE "edit",
                                !.parse_error = bad # {}, !.errors = @ \/ bad # {},
                                !.errorline = (@ \ {Main(s)}) \cup bad])
        /\ Works /\ UNCHANGED <<disk, tmp, inodes>>

(* reparse_sudoers(): the edited files have been parsed.  An error that is *)
(* not tracked is one of the parser's own.                                 *)
reparse_sudoers(s) ==
    LET v == vi[s]
        errs == visudo_track_error(s)
        Parsed(error) ==
            [v EXCEPT !.pc = IF error THEN "whatnow" ELSE "edit",
                      !.parse_error = error, !.errors = @ \/ errs # {},
                      !.errorline = (@ \ {Main(s)}) \cup errs]
    IN  /\ v.pc = "parse" /\ v.then = "new" /\ ~TempGone(s) /\ ~MustOpen(s)
        /\ \/ Works /\ Becomes(s, Parsed(errs # {}))
           \/ Fails("parser") /\ Becomes(s, Parsed(TRUE))
        /\ UNCHANGED <<disk, tmp, inodes>>

whatnow(s) ==
    LET v == vi[s]
    IN  /\ v.pc = "whatnow" /\ Works
        /\ \/ /\ Becomes(s, [v EXCEPT !.pc = "edit", !.parse_error = FALSE, !.forced = TRUE])
              /\ UNCHANGED tmp
           \/ /\ Becomes(s, Ended(v, "x"))
              /\ tmp' = visudo_cleanup(v)
           \/ /\ Becomes(s, [v EXCEPT !.pc = "edit", !.todo =
                               SelectSeq(v.list, LAMBDA f : ~v.errors \/ f \in v.errorline)])
              /\ UNCHANGED tmp
        /\ UNCHANGED <<disk, inodes>>

NewFiles(v) == SubSeq(v.list, v.last + 1, Len(v.list))

(* The head of the loop in reparse_sudoers().                              *)
Reparse(v) == [v EXCEPT !.pc = "parse", !.then = "new", !.last = Len(v.list),
                        !.skipped = {}]

(* What follows when the files in question are edited: the parser; then    *)
(* those the edits have included; and the parser again, or the end.        *)
edited(s) ==
    LET v == vi[s]
    IN  /\ v.pc = "edit" /\ v.todo = <<>> /\ Works
        /\ \/ v.then = "reparse" /\ Becomes(s, Reparse([v EXCEPT !.errors = FALSE]))
           \/ v.then = "new" /\ Becomes(s, [v EXCEPT !.todo = NewFiles(v), !.then = "decide"])
           \/ /\ v.then = "decide"
              /\ Becomes(s, IF v.parse_error \/ ToSet(NewFiles(v)) \cap v.modified # {}
                            THEN Reparse(v)
                            ELSE [v EXCEPT !.pc = "install", !.todo = v.list])
        /\ UNCHANGED <<disk, tmp, inodes>>

-----------------------------------------------------------------------------
(* edit_sudoers() up to the editor: a copy is made unless there is one.    *)
edit_sudoers(s) ==
    LET v == vi[s]
        f == Head(v.todo)
        new == f \notin v.tpath
        w == [v EXCEPT !.tpath = @ \cup {f}, !.pc = "editor", !.touched = FALSE,
                       !.wrote[f] = IF new THEN v.fd[f].text ELSE @]
        copied == IF new THEN [tmp EXCEPT ![f] = v.fd[f].text] ELSE tmp
    IN  /\ v.pc = "edit" /\ v.todo # <<>>
        /\ \/ /\ Works
              /\ Becomes(s, w)
              /\ tmp' = copied
              /\ UNCHANGED <<disk, inodes>>
           \/ /\ Fails("clock")
              /\ Becomes(s, [w EXCEPT !.pc = "edit", !.todo = Tail(@)])
              /\ tmp' = copied
              /\ UNCHANGED <<disk, inodes>>
           \/ /\ new /\ ~Empty(v.fd[f].text)
              /\ Fails("write")
              /\ Fatal(s, w)

(* The editor saves a text.                                                *)
UserSaves(s) ==
    LET v == vi[s]
        f == Head(v.todo)
    IN  /\ v.pc = "editor" /\ v.saves < conf.saves[s] /\ Works
        /\ \E k \in conf.kinds[f] :
              LET t == [by |-> <<s, v.saves + 1>>, kind |-> k]
              IN  /\ tmp' = [tmp EXCEPT ![f] = t]
                  /\ Becomes(s, [v EXCEPT !.saves = @ + 1, !.touched = TRUE, !.wrote[f] = t])
        /\ UNCHANGED <<disk, inodes>>

Zeroed(s, f) == f = Main(s) /\ Empty(tmp[f]) /\ ~Empty(vi[s].fd[f].text)

(* After the editor: nothing is noted if it failed, if the temporary file  *)
(* is gone, or if the main file has been emptied.  Otherwise size and time *)
(* tell whether the file was changed, unless the editor took no time or    *)
(* visudo itself has added a newline.  A text that an earlier edit left    *)
(* there may have the original's size or not.  A main file that visudo     *)
(* made and that was not changed is removed again.                         *)
edit_done(s) ==
    LET v == vi[s]
        f == Head(v.todo)
        w == [v EXCEPT !.pc = "edit", !.todo = Tail(@)]
        Modified == [w EXCEPT !.modified = @ \cup {f}]
        remove == f \in v.created /\ Empty(v.fd[f].text) /\ f = Main(s)
        check == tmp[f] # Absent /\ ~Zeroed(s, f)
    IN  /\ v.pc = "editor"
        /\ \/ /\ \/ Works /\ ~check
                 \/ Fails("editor")
                 \/ Fails("clock")
              /\ Becomes(s, w)
              /\ UNCHANGED disk
           \/ /\ check
              /\ \/ Works /\ (v.touched \/ tmp[f] # v.fd[f].text)
                 \/ ~v.touched /\ Fails("instant")
              /\ Becomes(s, Modified)
              /\ UNCHANGED disk
           \/ /\ check /\ Works /\ ~v.touched
              /\ Becomes(s, w)
              /\ disk' = IF remove THEN [disk EXCEPT ![f] = Absent] ELSE disk
        /\ UNCHANGED <<tmp, inodes>>

(* install_sudoers() for the next file of the list.  What could not be put *)
(* into place is left in the temporary file.                               *)
install_sudoers(s) ==
    LET v == vi[s]
        f == Head(v.todo)
        w == [v EXCEPT !.todo = Tail(@)]
    IN  /\ v.pc = "install" /\ v.todo # <<>>
        /\ \/ /\ f \notin v.tpath /\ Works
              /\ Becomes(s, w)
              /\ UNCHANGED <<disk, tmp, inodes>>
           \/ /\ f \in v.tpath \ v.modified /\ Works
              /\ Becomes(s, w)
              /\ tmp' = [tmp EXCEPT ![f] = Absent]
              /\ UNCHANGED <<disk, inodes>>
           \/ /\ f \in v.tpath \cap v.modified
              /\ (tmp[f] = Absent /\ Works) \/ Fails("chown") \/ Fails("rename")
              /\ Becomes(s, [w EXCEPT !.tpath = @ \ {f}, !.exitcode = "fail"])
              /\ UNCHANGED <<disk, tmp, inodes>>
           \/ /\ f \in v.tpath \cap v.modified /\ tmp[f] # Absent /\ Works
              /\ Becomes(s, [w EXCEPT !.tpath = @ \ {f}, !.put[f] = tmp[f]])
              /\ disk' = [disk EXCEPT ![f] = [ino |-> inodes + 1, text |-> tmp[f]]]
              /\ inodes' = inodes + 1
              /\ tmp' = [tmp EXCEPT ![f] = Absent]

installed(s) ==
    /\ vi[s].pc = "install" /\ vi[s].todo = <<>> /\ Works
    /\ Becomes(s, Ended(vi[s], "exit"))
    /\ UNCHANGED <<disk, tmp, inodes>>

(* A signal that visudo catches (before setup_signals() there is nothing   *)
(* to clean up), and one that it cannot.                                   *)
quit(s) ==
    /\ vi[s].pc # "done" /\ Fails("signal")
    /\ Becomes(s, [Ended(vi[s], "signal") EXCEPT !.exitcode = "fail"])
    /\ tmp' = visudo_cleanup(vi[s])
    /\ UNCHANGED <<disk, inodes>>

Killed(s) ==
    /\ vi[s].pc # "done" /\ Fails("kill")
    /\ Becomes(s, [Ended(vi[s], "killed") EXCEPT !.exitcode = "fail"])
    /\ UNCHANGED <<disk, tmp, inodes>>

visudo(s) ==
    \/ new_sudoers(s) \/ lock_sudoers(s)
    \/ push_include(s) \/ parse_lost(s) \/ first_parse(s) \/ reparse_sudoers(s)
    \/ whatnow(s) \/ edit_sudoers(s) \/ edit_done(s) \/ edited(s)
    \/ install_sudoers(s) \/ installed(s)

(* A session that has not come to installing its files holds the lock of a *)
(* file whose name leads to another one by now, or to none.                *)
Astray ==
    \E s \in Session : vi[s].pc \notin {"install", "done"} /\
        \E f \in ToSet(vi[s].list) : disk[f] = Absent \/ disk[f].ino # vi[s].fd[f].ino

Next ==
    /\ \E s \in Session : visudo(s) \/ UserSaves(s) \/ quit(s) \/ Killed(s)
    /\ astray' = (astray \/ Astray')
    /\ UNCHANGED conf

Spec == Init /\ [][Next]_vars

-----------------------------------------------------------------------------
(* Properties.                                                             *)
TypeOK ==
    \A s \in Session :
        LET v == vi[s]
        IN  /\ v.pc \in {"open", "lock", "parse", "edit", "editor", "whatnow", "install", "done"}
            /\ v.then \in {"first", "reparse", "new", "decide"}
            /\ v.list \in SeqOf(File, 2) /\ v.todo \in SeqOf(File, 2)
            /\ v.tpath \cup v.modified \cup v.errorline \subseteq ToSet(v.list)
            /\ v.modified \ v.tpath \subseteq {f \in File : v.pc \in {"install", "done"}}
            /\ v.end # "none" => v.pc = "done"

(* A session has installed all that it was to install, or nothing.         *)
Whole(s) == vi[s].exitcode = "ok" \/ \A f \in File : vi[s].put[f] = Absent

(* A session's user has saved a text that visudo then said to ignore, as   *)
(* the editor failed or the main file was emptied.  It is parsed all the   *)
(* same, instead of the text that stays in place.                          *)
Ignored(s) ==
    \E f \in vi[s].tpath : f \notin vi[s].modified /\ vi[s].wrote[f] # vi[s].fd[f].text

(* What sudo reads, the sudoers file and what it includes, has no syntax   *)
(* error if it had none at first and nobody chose to save one; except      *)
(* between the renames of one session, if they do not all succeed, or if   *)
(* an edit was ignored.                                                    *)
SudoersParse ==
    LET text == disk[Sudoers].text
    IN  /\ ~astray /\ disk[Sudoers] # Absent
        /\ \A s \in Session : 
             vi[s].pc # "install" /\ ~vi[s].forced /\ ~Ignored(s) /\ Whole(s)
        => /\ ~Bad(text)
           /\ Includes(Sudoers, text) =>
                IF disk[Included] = Absent THEN conf.how = "dir"
                ELSE ~Bad(disk[Included].text)

(* While a session edits a file, the temporary file holds what the session *)
(* has copied or its user has saved there: no other session has truncated, *)
(* removed or renamed it, although its name is the same for all of them.   *)
EditsApart ==
    /\ TypeOK
    /\ ~astray =>
        \A s \in Session : vi[s].pc # "done" =>
            \A f \in vi[s].tpath :
                vi[s].pc # "install" \/ f \in ToSet(vi[s].todo) => tmp[f] = vi[s].wrote[f]

(* A session that ends by itself has put into place the last text that was *)
(* saved of each file it took to be modified; if it could not, it says so  *)
(* and leaves the text in the temporary file.  One that is told to drop    *)
(* the changes, fails or gets a signal leaves no temporary file.           *)
OutcomeKept ==
    [][\A s \in Session :
         LET v == vi'[s]
         IN  vi[s].pc # "done" /\ v.pc = "done" /\ ~astray' =>
               /\ v.end = "exit" =>
                    \A f \in v.modified :
                        \/ v.put[f] = v.wrote[f]
                        \/ v.exitcode = "fail" /\ tmp'[f] = v.wrote[f]
               /\ v.end # "killed" => \A f \in v.tpath : tmp'[f] = Absent]_vars
=============================================================================
