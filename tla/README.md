# sudo in TLA+

TLA+ modules, TLC runs and TLAPS proofs about the parts of sudo in which
several processes, callbacks, signals or failures meet. Source paths are
relative to the repository. `PROJECT.json` lists the components, the runs, the
mutants that show each property can fail, the lines each definition models, the
hazards and the theorems.

## The system

`sudo` (src/) loads its plugins and asks the policy plugin, normally sudoers
(plugins/sudoers/), whether the user may run a command. sudoers matches the
rules, authenticates the user unless a ticket in the time stamp file is still
good, and sets up logging. sudo then runs the command directly, or in a new
terminal with a monitor process in between, relaying signals, job control and
I/O through an event loop (lib/util/). `sudoedit` lets the user edit copies of
files; `visudo` does so for the sudoers files themselves. I/O logs go to local
files or to `sudo_logsrvd` (logsrvd/), which stores them or relays them to the
next server.

| Part | Source | Modules |
| --- | --- | --- |
| Credential cache | plugins/sudoers/timestamp.c, check.c, auth/sudo_auth.c, lib/util/locking.c | `Timestamp` (proved: `TimestampProofs`) |
| Event loop | lib/util/event.c, event_poll.c, include/sudo_queue.h | `Queues` (`QueueProofs`), `EventPoll`, `EventLoop` (`EventQueueProofs`, `EventLoopProofs`) |
| Execution in a pty with a monitor | src/exec_pty.c, exec_monitor.c, parts of exec.c | `ExecPty` (`ExecPtyInvariant`, `ExecPtyProofs`) |
| Front end and plugin life cycle | src/sudo.c, load_plugins.c | `Plugins`, `FrontEnd` |
| Execution without a pty, I/O relaying | src/exec_nopty.c, exec_iolog.c, suspend_parent.c | `ExecNopty` |
| sudoers policy: Defaults, look-up, matching, password decision | plugins/sudoers/sudoers.c, policy.c, lookup.c, match.c, match_command.c, defaults.c, check.c, display.c | `SudoersMatch`, `SudoersPolicy`; what the rules mean: `SudoersMeaning` |
| Privilege switching | plugins/sudoers/set_perms.c | `Privileges` |
| Intercepted commands | src/exec_intercept.c, sudo_intercept.c, sudo_intercept_common.c | `Intercept`, on top of the policy |
| sudoedit | src/sudo_edit.c, copy_file.c | `SudoEdit` (`SudoEditInvariant`, `SudoEditProofs`) |
| visudo | plugins/sudoers/visudo.c | `Visudo` |
| Log client and sudo_sendlog | plugins/sudoers/log_client.c, logsrvd/sendlog.c | `LogSystem` |
| Log server with journal, queue and relay | logsrvd/logsrvd.c, logsrvd_local.c, logsrvd_journal.c, logsrvd_queue.c, logsrvd_relay.c, iolog_writer.c | `LogServer`, composed in `LogSystem` |
| What the log servers promise | the two above | `LogService`, which `LogSystem` implements |

Each part has an `MC...` module with the instances that TLC checks
(`MCTimestamp`, `MCEventLoop`, `MCExecPty`, `MCFrontEnd`, `MCSudoEdit`,
`MCVisudo`, `MCPolicy`, `MCLog`). Where one run covers several situations, Init picks the
situation (`conf`) from a constant set, so that one run covers all of them.

### Timestamp

`file[i]` is the contents of inode `i` as a sequence of records, `name` the
inode the user's file name leads to, `locks` the POSIX record locks, and
`proc[p]` the local variables of a sudo process with its control point `pc`.
Sizes are not counted in bytes; a record's `size` tells the current format, the
shorter one of older versions and a hole apart, because the code branches on
those and because record locks of the current size overlap on a file that
starts with a shorter record (`Overlap`).

| Actions | Code |
| --- | --- |
| `CheckUser`, `CheckUserExempt`, `CheckUserIgnoreTicket` | the beginning of `check_user()` |
| `timestamp_open`, `OpenUnlink`, `OpenRetry`, `OpenFail` | `timestamp_open()`, with the boot time check as the separate system calls it makes |
| `LockExcl`, `ReadFirst`, `timestamp_lock_write`, `FindRecord`, `AppendRecord`, `FindGlobal`, `AppendGlobal`, `LockSession`, `LockFail`, `WriteFail` | `timestamp_lock()`, one action per system call another process can see |
| `timestamp_status`, `StatusDisable` | `timestamp_status()`; reading and writing back are two steps |
| `Authenticate`, `AuthFail`, `getpass_suspend`, `getpass_resume` | `verify_user()` and the prompt's callbacks |
| `timestamp_update`, `NoUpdate`, `timestamp_close` | the end of `check_user()` |
| `RemoveOpen`, `RemoveLock`, `RemoveLockFail`, `RemoveDisable`, `RemoveUnlink` | `timestamp_remove()`: sudo -k and sudo -K |
| `Kill`, `Tick`, `Reboot` | the machine |

`RemoveDisable` is one step although `timestamp_remove()` loops over the
records: it holds the lock of the first record, so nobody searches or appends
meanwhile, and a process that writes its ticket in the middle of the loop
writes it either before or after its record is disabled, which are the orders
the model has. `proven` and `revoked` are history variables that say what a
ticket vouches for; nothing in the model reads them but the properties.

Left out: `timestamp_type=kernel`, the ownership and mode checks of the
directory, failures of the in-place writes of `timestamp_update()` and
`timestamp_status()`, and clocks that fail.

### EventLoop

The variables are the members of `struct sudo_event_base` and of the events:
queues as sequences (`Queues` has the operations on them), flags as sets. `pc` is the control point of
`sudo_ev_loop()`. Callbacks are arbitrary: while one runs it may make any of
the calls in `Adds` and `Requests` and delete any event, in any order, up to
`MaxCalls`.

| Actions | Code |
| --- | --- |
| `sudo_ev_add`, `sudo_ev_del`, `sudo_ev_loopexit`, `sudo_ev_loopbreak`, `sudo_ev_loopcontinue` | the functions of those names, also the special handling of signals |
| `Enter`, `Scan`, `PollReady`, `PollTimeout`, `PollError`, `Service`, `Return`, `Round` | `sudo_ev_loop()` and `sudo_ev_scan_impl()` |
| `Drain`, `Activate_sigevents` | `signal_pipe_cb()`; a signal may arrive between the two |
| `Signal` | `sudo_ev_handler()`, at any time, optionally ending poll(2) with EINTR |
| `Consume`, `IoReady`, `Tick` | callbacks that read all there is, descriptors, time |

`owed`, `armed` and `dropped` are history variables: the events whose signal or
timeout has not been reported yet, and those taken off the active queue by
`sudo_ev_deactivate_all()`.

Left out: several bases (the signal handler serves the one that added a signal
event last), the select(2) backend, the contents of `siginfo`, failures of
malloc(3) and sigaction(2), and the rounding of timeouts where ppoll(2) is
missing.

### ExecPty

`main` and `mon` are the closures of the two processes with the state of their
event loops: `active` is the queue of callbacks of the current round, `flag`
the strongest of loopbreak, loopexit and loopcontinue. The queue is filled the
way `EventLoop` does it, in the order in which the events are in the base's
list: ready descriptors first, then the signals found when the signal pipe is
drained. When poll(2) fails with EINTR the signals alone are served. Each
callback is one step, so that what the other process, the command and the
kernel do falls between any two of them.

`sock` holds the messages on their way in each direction of the backchannel
and whether the next call on it fails with ECONNRESET; `err` what the monitor
can read from the error socket; `caught` the signals noted by the handler with
their last sender; `tty` the user's terminal, `pty` the owner of the command's.

| Actions | Code |
| --- | --- |
| `EarlyExit`, `EarlyStop`, `ForkMonitor`, `MainFinish` | `exec_pty()` with `sudo_terminated()` |
| `MainPoll`, `MainPollInterrupted`, `MainSignalPipe`, and the same for `Mon` | a round of `sudo_ev_loop()` |
| `fwdchannel_cb`, `backchannel_cb`, `signal_cb_pty`, `handle_sigchld_pty` | the callbacks of those names; `suspend_sudo_pty` is called by two of them |
| `MainResumes` | what follows in `suspend_sudo_pty()` and its caller once sudo is continued |
| `MonitorForks`, `MonitorFails`, `MonitorSetup`, `MonTerminate`, `MonFinish` | `exec_monitor()` |
| `mon_errsock_cb`, `mon_backchannel_cb`, `mon_signal_cb` | the callbacks of those names; `deliver_signal`, `mon_handle_sigchld` and `send_status` are called by them |
| `ChildGoesAhead`, `ChildExecs`, `ChildExecFails`, `ChildExits` | the child in `exec_cmnd_pty()` |
| `CommandExits`, `CommandStops`, `SignalSent`, `ShellContinues`, `KillMain`, ... | the command, the shell, other processes (external) |

Left out: the data of the terminal and its window size, ptrace and intercept
mode, SELinux, a user's terminal that is revoked, failures of fork(2) in the
main process, and signals as numbers (SIGINT, SIGQUIT, SIGUSR1 and SIGUSR2 are
handled as SIGTERM is).

### Plugins, ExecNopty, FrontEnd

`FrontEnd` is `main()` of src/sudo.c from the loading of the plugins to the
exit, in every mode, around the execution of a command in `ExecNopty`, which in
turn calls the plugins of `Plugins`. A plugin's answer is the environment's
choice; `trouble` bounds how many answers and system calls go wrong. `calls` is
the history of the plugin functions called, with their arguments, and is what
most properties look at.

| Actions and operators | Code |
| --- | --- |
| `sudo_load_plugins`, `sudo_load_plugin` | load_plugins.c: one policy plugin, lists of the others, the sudoers defaults |
| `audit_accept`, `audit_reject`, `audit_error`, `iolog_close`, `policy_close`, `audit_close` | the functions of those names in sudo.c, called by the actions |
| `audit_open`, `policy_open`, `policy_check`, `policy_list`, `policy_validate`, `policy_invalidate`, `show_version`, `approval_check`, `iolog_open`, `front_end_accept`, `access_denied`, `direct_exec`, `sudo_edit_create`, `sudo_edit_copy`, `run_command_close` | the stages of `main()`, `run_command()` and `sudo_execute()` |
| `exec_nopty_start`, `exec_nopty_fork`, `exec_nopty_end`, `exec_nopty_flushed` | `exec_nopty()` |
| `errpipe_cb`, `signal_cb_nopty`, `handle_sigchld_nopty`, `sudo_suspend_parent`, `suspend_resumed`, `LogSuspend` | the callbacks of exec_nopty.c; a stop of sudo itself is two steps, before and after |
| `read_callback_out`, `read_callback_in`, `write_callback_out`, `write_callback_in` | exec_iolog.c with the buffers' events; `log_io` passes data to the I/O plugins |
| `CommandWrites`, `CommandReads`, `CommandExits`, `CommandStops`, `SignalSudo`, `ShellResumes`, `plugin_event_loopbreak` | the command, the user and a plugin's events (external) |

A chunk of data is a number, a buffer holds `BufSize` of them and a pipe
`PipeSize`. The order of ready callbacks is left open, except where the code
depends on it (`ErrnoFirst`).

Left out: plugins of older API versions and with a clone function,
`get_user_info()`, the conversion of settings, the set-up of the child's
identity, ptrace and SELinux, terminal data.

### SudoEdit

Sessions of `sudo_edit()` on shared files, one system call at a time; nothing
in the code locks the files. Texts are sequences of chunks, and the clock that
stamps files is coarser than the one sudo reads, as in most file systems.
`create_skip`, `create_open`, `create_copy`, `create_stamp` are the steps of
`sudo_edit_create_tfiles()`; `sudo_edit_start`, `UserSaves`, `sudo_edit_end` the
run of the editor; `copy_check`, `copy_unchanged`, `copy_open`,
`sudo_extend_file`, `copy_write`, `copy_truncate`, `copy_end` those of
`sudo_edit_copy_tfiles()` and copy_file.c. `Killed` ends a session anywhere.
`base`, `saved` and `alone` are history.

Left out: SELinux (sesh), the choice of the temporary directory, the checks of
directories and symbolic links.

### Visudo

Sessions of visudo on a main file and a file it may include. `new_sudoers` and
`lock_sudoers` open and lock; `push_include` is the parser that comes to an
include; `first_parse`, `reparse_sudoers`, `whatnow` parse and ask;
`edit_sudoers`, `UserSaves`, `edit_done`, `edited` run the editor;
`install_sudoers`, `installed` rename into place; `quit`, `parse_lost` and
`Killed` end. A text is known by who saved it and by what the parser makes of
it (good, bad, with an include, both, empty). Files are never written in place,
so an open file is an inode number with its text.

Left out: -c and -x, owners and modes, paths that are lists of files, the
choice of the editor, going on without a lock.

### Privileges, SudoersMatch, SudoersPolicy, Intercept

The policy is sequential, so its functions are operators: a context `c` (the
members of `struct sudoers_context`, the Defaults, the process's ids) goes in
and the context they leave comes out, with the function's result in it. They
are put together in `Intercept`, where sudo answers a request of the user and
then those of the processes it started.

`Privileges` has the process's ids, the stack of saved states and the system
calls that change them, one of which may fail (`fail` counts down to it).
`set_perms`, `restore_perms` and `rewind_perms` make the calls in the order of
the code. `SudoersMatch` has the functions of match.c and match_command.c:
members, negation, aliases, lists searched from the end, and for each kind of
command pattern what it does with `runas.cmnd` and the descriptor. A path is a
directory and a base name, `Files` the inode each canonical path leads to, and
`Unsearchable` says who may not look into which directory.

| Actions and operators | Code |
| --- | --- |
| `set_perms`, `restore_perms`, `rewind_perms` | set_perms.c, setresuid(2) variant |
| `..._matches`, `open_cmnd`, `set_cmnd_fd` | match.c, match_command.c, match_digest.c |
| `update_defaults`, `sudoers_reinit_defaults`, `sudoers_init`, `open_file` | defaults.c, sudoers.c |
| `set_cmnd`, `set_cmnd_path`, `resolve_cmnd`, `find_path` | sudoers.c, resolve_cmnd.c, find_path.c |
| `sudoers_lookup`, `sudoers_lookup_check`, `sudoers_lookup_pseudo`, `apply_cmndspec` | lookup.c |
| `check_user`, `sudoers_check_common`, `sudoers_check_cmnd`, `sudoers_validate_user`, `sudoers_list`, `display_cmnd` | check.c, sudoers.c, display.c |
| `Open`, `Check`, `List`, `Validate` | the plugin's functions in policy.c, called by the front end |
| `SendHello`, `RecvHello`, `Connect`, `SendToken`, `SendRequest`, `RecvResponse`, `Exec` | the wrapper in the processes: sudo_intercept.c and sudo_intercept_common.c |
| `intercept_accept_cb`, `intercept_read`, `intercept_write`, `intercept_cleanup` | exec_intercept.c, one callback a step |
| `Fork`, `Exit` | the processes (external) |

`SudoersMeaning` is not translated from the code. It says, from sudoers(5),
when a request is allowed and when it needs a password, without loops, sources
that end a search or state: the last rule that matches decides ("When multiple
entries match for a user, they are applied in order. Where there are multiple
matches, the last match is used", docs/sudoers.mdoc.in, line 624). `VerdictRight`
and `PasswordRule` compare every answer of the plugin with it.

Left out: netgroups and network addresses, the environment and its checks, a
previous user (`prev_user`), `PERM_FULL_USER`, the systems without setresuid(2),
relative commands with a working directory of the target's, requests read in
several pieces, and the interception with ptrace(2).

### LogServer, LogSystem, LogService

A server's callback is an operator that maps a *world* (closures, pipes, logs,
journal, queue) to the world it leaves; its `ok` is the C function's return
value. `LogSystem` composes the client, an edge server that stores, journals or
relays, and the relay host, which run the same server code, with the pipes
between them, and adds crashes and restarts.

| Actions and operators | Code |
| --- | --- |
| `client_msg_cb`, `server_msg_cb`, `server_commit_cb`, `connection_close`, `connection_closure_free`, `handle_...`, `schedule_commit_point`, `server_shutdown` | logsrvd.c |
| `store_..._local`, `iolog_rewrite`, `SeekTo` | logsrvd_local.c, iolog_writer.c |
| `journal_...` | logsrvd_journal.c |
| `logsrvd_queue_...`, `outgoing_queue_cb` | logsrvd_queue.c |
| `connect_relay`, `connect_cb`, `start_relay`, `relay_client_msg_cb`, `relay_server_msg_cb`, `handle_server_message` | logsrvd_relay.c |
| `Connect`, `CliRead`, `CliWrite`, `CliEOF`, `CliTimeout`, `CommandIO`, `SubCommand`, `CommandExit`, `CliEnd` | log_client.c and iolog.c, or sendlog.c |
| `Resend` | the user runs sudo_sendlog once more, from the last commit point |
| `Drop`, `Crash`, `Terminate`, `Exit`, `Start` | the network and the machines |

A crash is that of a process, between two callbacks: what was written with
write(2) survives, what is in a buffer of the process (a compressed log, or one
that is not flushed) may be lost from any point on. A disk that fails will not
open or lock a file, or fails a write or a flush, after which the stream still
has what it buffered or has dropped it (stdio may do either). A log has two
marks for what the code does not notice. It is `torn` once a write or flush of
its streams failed and nobody looked, and `copied` is the number of its records
that are only in the unflushed copies `iolog_rewrite()` renamed over the old
files; a crash that loses some of those also leaves it torn.

`LogService` is the abstract specification: records are logged, stored and
acknowledged; an acknowledged record stays stored, and success is reported only
when all are. That promise is suspended while the log is `exposed`, for good by
a write that fails, and by a rewriting until its copy is on disk (`Secure`).
`ImplementsService` is the refinement, with the log at the server that stores
it as `stored`, the client's commit point as `acked`, and `torn` or `copied` as
`exposed`. It is claimed for storing and for relaying, not for store_first:
there the acknowledgement promises only that the edge server has the record in
its journal's stdio buffer (see "Disagreements").

Left out: several sessions and several journals at a time, several relay hosts,
TLS, reloading the configuration, timeouts of server connections, aborted
connections in the middle of a message, failures of malloc(3).

## Runs

| Run | Expected | Shows |
| --- | --- | --- |
| `ts_safety` | pass | one process per session on a record that does not move; no stale write-back; tickets honoured only where and while they are good; no needless prompt; sudo -k is effective |
| `ts_live` | pass | waiting processes get on although a prompt is suspended for good, resumed prompts return; with files of older versions and a damaged one |
| `ev_safety` | pass | queues, flags and poll slots agree; signals and timeouts are kept until reported or dropped by a restart; the loop ends as asked |
| `ev_live` | pass | signals are reported however busy the descriptors are, timeouts once no descriptor stays ready |
| `pty` | pass | a reported status or errno is the true one; no command is left behind or signalled after it was waited for; the terminal gets its mode back; a stopped command stops sudo or is continued; the end of the command ends sudo; the monitor does not outlive the main process |
| `session` | pass | what runs was accepted, approved and audited; refusals reach every audit plugin; plugins are closed once, in order, with the true outcome; output is logged before it is shown, and all of it is shown; I/O plugins know of every stop; sudo ends, and stops and continues with its command |
| `edit` | pass | what a user saved is never lost; a file holds an old or a new text, never a mixture; success means that all is in place and what was not changed was not written |
| `visudo` | pass | sudo never reads a syntax error that nobody chose to save; sessions do not touch each other's temporary files; a session ends with its texts in place or none |
| `policy` | pass | each verdict is the one the rules mean and a password is asked exactly when they call for it; the ids are back after every call; the file that runs is the one that was checked; nothing intercepted runs that was not accepted and audited; every intercepted exec returns |
| `log_safety` | pass | logs hold each record once and in order; a journal has one owner; a restart finds its place; storing and relaying implement `LogService` (as far as the server notices failing writes) |
| `log_live` | pass | clients end whatever breaks; without faults the log is complete; finished journals are relayed although relay host or server fail, unless the queue cannot open them, and removed only when stored |
| `log_removed` | violation | a journal is removed although the relay host has not got all of it |

**Bounds, credential cache.** Two processes at a time, three started or
suspended in all (`MaxRuns`), three inodes (old, new and one orphan), a clock
up to `MaxClock`, at most one reboot. Two processes are enough for every race
between a look-up, a prompt, a renewal and a removal; the third start lets a
later sudo meet what the first two left. Timeouts of 1 and 2 on a clock that
reaches 2 give tickets that are fresh, on the limit and beyond it, and after a
reboot tickets from the future. `SafetyConfigs` has one configuration per way
of telling tickets apart: tty with two users and a terminal used by a later
session, no terminal, ppid with a reused process ID, global, and one each with
reboots, an unknown boot time and failing calls. Processes and inodes are
interchangeable, so `ts_safety` uses symmetry; no other run does.

**Bounds, event loop.** A signal pipe, two events on one descriptor, a timer
and two signals; a table of one slot that may grow to two, so that adding both
succeeds after growing and fails when full; five calls, two arrivals, a clock
up to 2.

**Bounds, pty.** `PtyConfigs` has one configuration per source of trouble: up
to two stops of the command, started in the foreground, in the background by
request and in the background without a group leader, with other processes that
continue or kill it; two signals out of eight to main or monitor (forwarded,
timeout, from the command, from the kernel), or one with a stop; a failing
fork or execve; one of the processes killed; the monitor stopped; a signal
before the fork. The queues are not bounded: they cannot grow beyond what the
stops and signals put into them. A stopped monitor is not combined with
signals, because SIGCHLD can then be lost (see "Disagreements", lost signal).

**Bounds, front end.** One configuration per mode of sudo and per source of
trouble: up to three chunks of output and two of input through buffers of two
and pipes of one (full and empty both happen), one signal, two stops, at most
two failures. In every mode there are two audit, two I/O and an approval plugin,
so that the first can succeed and the second fail; where the command's I/O and
stops are looked at, one audit and up to two I/O plugins.

**Bounds, sudoedit and visudo.** Two users with one or two files and texts of
up to three chunks, so that a text can shrink, stay and grow; each kind of
failure at most once, two kinds together. visudo: a main file and one it may
include, three saves, two kinds of failure, two users.

**Bounds, policy.** Three users, nine files in five directories with a link,
and some twenty sources of rules, with the constructs that could get in each other's
way: rules that overrule one another, aliases within negated aliases, every
kind of pattern, target groups, Defaults bound to each scope, two sources,
dates, listing, options. Everyone asks for every command as everyone
(`Checks`); tickets, passwords, options, lists, missing sources and a failing
system call at each place come in sets of their own. Commands that are
intercepted or logged (`Watching`): two processes with one attempt each, or one
with three, over two connections at a time.

**Bounds, logs.** One session of two records, with a second one where the
client is sudo running a sub-command; one fault of each configuration's kind.
Where sudo_sendlog resumes a stored log, also two faults (a dropped connection,
a crash, a failing disk) and a third run; where a journal is queued, also an
attempt that fails and a journal that cannot be locked. Two records are the least with which a commit point can lie before the end, a
buffer can be lost in part and a restart can resume in the middle.

**Deadlock** is not checked: each bounded run ends in a state where all the
processes have ended or wait for someone who need not come. Where the code must
not wait for ever a liveness property says so (`ts_live`, `ev_live`, `pty`,
`session`, `policy`, `log_live`).

**Fairness.** `Timestamp!FairSpec` has weak fairness for each process's own
steps. The kernel schedules every process that is not waiting for a lock, and a
prompt ends because of `passwd_timeout`. There is no fairness for resuming a
stopped sudo, for new processes or for failures. `EventLoop!FairSpec` has weak
fairness for the steps of the loop, which include the return of a callback, and
for the clock. `ExecPty!FairSpec` has weak fairness for the main process, for
the monitor and for the child up to execve(2), which the scheduler gives them;
nothing is assumed of the command, the shell, or anyone who sends signals.
`FrontEnd!FairSpec` has it for sudo, for the child up to execve(2) and for the
shell that continues a stopped sudo; the command need not exit, and
`SessionEnds` is about one that does. `LogSystem!FairSpec` says that some event
loop with a ready event makes a step, that a stopped server is started again
and that a user whose upload broke resends it; no fault is forced and none is
excluded before `faults` runs out. `Intercept!Spec` has weak fairness for the
steps of each process that wait for nobody, and says that sudo's event loop
serves an event infinitely often unless it has none infinitely often
(`SudoReady` writes ENABLED of its steps out); neither forks, exits nor new
requests are forced.

### Disagreements

One is a run; the others were met while modelling and are either part of the
models and excepted by name in a property, or outside of what is modelled.

Run:

- `log_removed`: a commit point for part of a journal turns the state of the
  closure that relays it from EXITED to FINISHED (logsrvd.c, line 1187), so a
  journal that had to be sent again from the middle is removed before the relay
  host has the rest.

Credential cache:

- `timestamp_lock()` truncates a file with a first record of unknown type but
  leaves the offset behind the record it has read, so `timestamp_lock_write()`
  writes the lock record in second place (timestamp.c, lines 691 to 718), where
  its comment and sudoers_timestamp(5) say it is first.
- With `timestamp_timeout` 0 the prompt still gets `getpass_resume()`, which
  fails because there is no file to open (auth/sudo_auth.c, lines 271 to 273).

Event loop and pty:

- Lost signal: `sudo_ev_loopcontinue()` drops the active queue after
  `signal_pending` has been cleared (event.c, lines 114 and 732), while the
  plugin manual says the callback is run when the signal is received. exec_pty.c
  (line 608) calls it for relayed signals. `NothingForgotten` allows for it.
- Lost status: sudo goes on after a stop while the command is killed.
  `fwdchannel_cb()` runs before `backchannel_cb()`, fails with EPIPE, stores that
  as the status and breaks the loop (exec_pty.c, lines 941 to 950), so the wait
  status that the monitor sent before it exited is not read. sudo(8) says sudo
  exits the way the command did.
- `exec_pty()` makes the terminal raw (line 1311) before it looks for signals
  caught so far (line 1328); returning or stopping there leaves it raw. Hence
  `TerminalRestoredAfterFork`.

Front end:

- Without a pty, after a log function of an I/O plugin rejects data, `cmnd_pid`
  is -1, the command's SIGCHLD is ignored and the loop does not end by it.
- sudo_plugin(5) says that rejected data is still sent to the other I/O plugins
  and that an error disables all of the plugin's functions; exec_iolog.c stops
  at the first plugin that fails and disables the one function.
- `access_denied` after an `iolog_open()` that succeeded for some plugins leaves
  those open.
- sudo_plugin(5) says an audit plugin's close "is called when sudo is finished,
  shortly before it exits"; it is not when no status is known or `sudo_edit()`
  fails before it runs the editor, nor when `policy_init_session()` or fork(2)
  fails.
- A failing write in `write_callback()` replaces a status already known.

sudoedit:

- `sudo_edit_create_tfiles()` returning -1 makes `nfiles` -1, so that the
  clean-up ("Clean up temp files and return.") removes nothing.
- `sudo_copy_file()` uses the length the original had when it was opened: if it
  grew meanwhile, the old tail remains.
- A clock that fails after the editor leads to the clean-up that removes the
  edited files, where sudo(8) says they are kept.
- A save of the same size within one tick of the file system's clock counts as
  unchanged; files skipped at the start do not change the exit status.

visudo:

- "Avoid accidental zeroing of main sudoers file." (visudo.c, line 573) holds
  for the first edit only. Once an edit with a syntax error has marked the file
  as modified, emptying it in the next one installs the empty file. The model
  has these steps.
- When the user empties the main file, which counts as unchanged, and puts a
  syntax error into the included one, the latter is installed, although
  visudo(8) says the changes are not saved; so is what a failed editor left
  (`Ignored` in `SudoersParse`).
- The lock is on the inode. A visudo that opened the file before another one
  renamed its own into place locks the old inode, and shares the temporary file
  with whoever locks the new one (`astray` in `EditsApart`).
- Files included by lines added in the editor are edited although visudo(8)
  says files in an include directory are only edited when they have a syntax
  error; a new empty file stays behind when the user quits; being killed between
  two renames leaves one new and one old file.

Policy and intercept:

- A rule with NOTBEFORE and NOTAFTER: in `sudoers_lookup_check()` the second
  test overwrites the result of the first (lookup.c, lines 267 to 272), so that
  a rule whose time has not come applies if its end has not passed;
  `display_cmnd_check()` heeds both, and so does sudoers(5). `VerdictRight` is
  not stated for such rules (`DatesOverlooked`).
- After an intercepted command named sudoedit the mode has MODE_EDIT, for which
  `EDIT_VALID_FLAGS` does not have MODE_POLICY_INTERCEPTED: every later check of
  the session is an error, that is, refused (`EditIntercepted`).
- `runas_matches_pw()` looks Runas aliases up among the User aliases; in
  `runas_grouplist_matches()` the target's own group also counts inside aliases.
- When the ids cannot be changed for the look-up there is no verdict, and the
  request is refused with the ids half-way; `CredentialsKept` then claims only
  that an allowed request leaves the process root.
- `intercept_cleanup()` takes the connection for one of the ptrace variant also
  when no process ever said hello; a logged command whose execve(2) fails keeps
  its socket until it exits.
- When execve(2) of an accepted file fails with ENOEXEC, `exec_wrapper()` has
  `_PATH_SUDO_BSHELL` run it for execvp(3) and its relatives (sudo_intercept.c,
  lines 261 to 276). The policy has accepted the file and was not asked about
  the shell. `OnlyAccepted` is about the file, and says that nothing but this
  shell runs in its place.

Logs:

- A relayed reject, or an accept and exit without I/O, finishes the closure at
  once: what is in its relay buffers is discarded and the journal removed. A
  reject with store_first stays in incoming/ and is replayed from its end, that
  is, not relayed; only if the first attempt to connect fails late is it queued,
  and then relayed from its beginning.
- `iolog_write()` returns -1 when it fails, and `store_iobuf_local()`,
  `store_winsize_local()` and `store_suspend_local()` test `!iolog_write(...)`
  (logsrvd_local.c, lines 600, 607, 655 and 690): "error writing IoBuffer" is
  never sent for a failed write, the elapsed time goes on, and commit points
  cover records that are not in the log. `server_commit_cb()` "fires
  periodically to report to the client what has been committed to disk"
  (logsrvd.c, lines 1195 and 1196), but does not look at what
  `iolog_flush_all()` returns. Such a log is `torn`; `LogIsPrefix`,
  `RestartFound` and the promise of `LogService` are not stated for it.
- Resuming a compressed log without iolog_flush replaces the acknowledged
  records on disk by copies that are still in the buffers of zlib: a crash
  before the next flush loses records whose commit point was sent (`copied`).
- A journal that `outgoing_queue_cb()` cannot open or lock stays queued with no
  timer armed (logsrvd_queue.c, lines 99 to 118); it waits for another journal's
  timer or for the next start (`queue.passed` in `JournalRelayed`).
- With store_first, commit points cover data that is still in the stdio buffer
  of the journal.
- A journal whose relay connection is refused at once or breaks later is not
  queued again ("Failed to relay journal file, retry later."); the next start of
  the server finds it. `JournalRelayed` counts on that start.
- A restart cannot find the journal from the log ID sent for it, which is a
  path where a name is looked for.
- A commit point that comes while log_client.c is still sending the accept
  message is an error that ends the command (line 1533).
- sudo_sendlog reports success before the exit message is written when a
  periodic commit point equals the elapsed time; a restart at a record without
  delay is found one record late.
- `handle_log_id()` (logsrvd_relay.c, line 576) builds an ID with the relay
  host's name and then sends the original one.

## Proofs

| Theorem | Module | Statement |
| --- | --- | --- |
| `TypeCorrect` | `TimestampProofs` | `Spec => []TypeOK` |
| `LockingInvariant` | `TimestampProofs` | `Spec => []Inv` |
| `OneProcessPerSession` | `TimestampProofs` | `Spec => []SessionExclusion` |
| `PositionStable` | `TimestampProofs` | `Spec => []TicketPositionStable` |
| `LockRecordFirst` | `TimestampProofs` | `Spec => []FirstRecordIsLock` |
| `NoLostRenewal` | `TimestampProofs` | `Spec => []WriteBackNotStale` |
| `PollTableConsistent` | `EventQueueProofs` | `Spec => []TableOK` |
| `QueuesConsistent` | `EventLoopProofs` | `Spec => []QueuesAgree` |
| `SignalsAndTimeoutsKept` | `EventLoopProofs` | `Spec => []NothingForgotten` |
| `LoopEndsAsAsked` | `EventLoopProofs` | `Spec => []EndsAsAsked` |
| `StatusIsTrue` | `ExecPtyProofs` | `Spec => []StatusFaithful` |
| `NoCommandLeft` | `ExecPtyProofs` | `Spec => []CommandCollected` |
| `TerminalGivenBack` | `ExecPtyProofs` | `Spec => []TerminalRestoredAfterFork` |
| `TypeCorrect` | `SudoEditProofs` | `Spec => []TypeOK` |
| `EditsKept` | `SudoEditProofs` | `Spec => []EditNeverLost` |
| `NoMixture` | `SudoEditProofs` | `Spec => []OldOrNew` |
| `SuccessIsTrue` | `SudoEditProofs` | `Spec => []SuccessMeansDone` |

They hold for every value of the constants that satisfies the assumptions
named in the modules: `ConstantsAssumption` (`Timestamp`), `TableAssumption`
and `EventsAssumption` (`EventPoll`, `EventLoop`), `ConfigsAssumption`
(`ExecPty`), `TextAssumption` and `ConfsAssumption` (`SudoEdit`). In particular
processes, inodes, sessions, users, events, files, the length of texts and
queues, and the number of signals, stops and calls are arbitrary; these
theorems are every safety property the runs `ts_safety`, `ev_safety`, `pty` and
`edit` check, but `TicketRule` and `KillEffectiveWhenQuiet`. `TypeOK` and
`FirstRecordIsLock` of `Timestamp` are proved and therefore not checked by a
run.

**Credential cache.** The theorems of `TimestampProofs` also assume
`IntactConfigs`: the file at the start has no holes and begins with a lock
record or a record of an older version. A damaged first record makes
`FirstRecordIsLock` false (see "Disagreements"), so this is needed.
`SessionExclusion` says nothing about what processes have found in
the file, so it is not inductive. `Inv` adds, for each control point
(`Relies`), which lock the process holds, that the file begins with the lock
record, that a process about to append is at the end of the file and that no
record before matches its key, and, once the process has its record, that this
is the *first* match (`FirstMatch`). Two processes of one session that have
their records then have the same one, both hold its lock, and `LocksExclusive`
makes them the same process. What keeps `Relies(p)` true while others run is
that files only grow: `Grows(f, g)` says that `g` is `f` with records rewritten
by ones the same keys match, or appended. Each action of another process is
shown to make the file grow, or to need the lock of the first record that `p`
holds. Lemmas on `ts_write`, `Found` and `NotFound` carry the argument.

**Poll table.** `SlotInv` adds to `TableOK` that an event has a slot exactly
while its flag `SUDO_EVQ_INSERTED` is set. That is what entitles
`sudo_ev_del()` to hand the event's index to the backend without looking.
`AddOK` and `DelOK` show that the two backend operations keep the table
consistent, also when it grows, and `SlotStep` that the loop calls them only
for events without and with a slot.

**Queues.** `QueueProofs` says what the loops over tail queues do: `Filter`
keeps the elements of a set, each as often as before and in their order,
`Concat` joins queues, `First` finds, `InsertBefore` inserts. The loops are
recursive functions, and what they return is proved by induction over the
length of the queue. The induction is over a set instead of a predicate:
`NatSetInduction` says that a set with 0 that has n + 1 for each of its n has
all of Nat, and follows from `NatMinimum`. The same two lemmas show that the
recursive functions exist (`KeptExists`, `JoinedExists`).

**Event loop.** `QueuesAgree` is inductive only with what the control point
says of the queues. `Linked` is its part about flags and queues, with the number
of handlers (`num_handlers`) as the number of signals that have events;
`RoundOK` says that the active queue is empty until poll(2) has returned, and
that no signal event is on it before the signals are looked at, so that no event
is put on it twice. The operations `SetTimeout`, `Unlink`, `Activate` and so on
each have a lemma about what they do to flags and queues, from which one lemma
per action follows.
`Promised` strengthens `NothingForgotten`: an event that is owed a callback is
still on its signal's queue, and only events of the user have timeouts.
`EndInv` relates the flags of the base to what was asked of the loop at each
control point.

**Pty.** The conjuncts of `Inv` are about two processes and the channels
between them. `StatusInv` follows a status: what the monitor keeps, what is on
the backchannel and what the main process has stored did happen (`Happened`),
or is a stop, or, for a status the monitor has not sent, will be true when it
ends. It stays true because a command that was waited for does not change
(`Stable`). `WaitInv` says that the monitor knows whether it has waited for the
command up to the end of its loop; `ChildInv` what the error socket says of the
child; `ForkInv` what there is before the fork; `TermInv` that the terminal is
raw only if the main process knows it and is in the foreground; `LoopInv` that
an active callback has something to do, without which `backchannel_cb()` could
take an empty socket for the end of the monitor. One lemma per action; those
that change one process only are lemmas about that process (`MainMoves`,
`MonMoves`, `CommandMoves`).

**sudoedit.** The sessions do not lock anything, so the invariant is stated for
what one session sees of one file (`View`): the temporary file, what was saved,
the text at first and the original, as long as nobody else writes it
(`alone`). At each control point it says how much has been copied out
(`Part`), that a file waiting to be copied back is what the user saved last or
looks unchanged (`Pending`), and how far the original has been extended
(`Extended`) and overwritten (`Overwritten`): the middle of a copy is a
mixture, which is why `OldOrNew` is not inductive. `OthersStep` shows once that
a step of another session preserves all of it; the other lemmas are about the
session that makes the step. Texts are of any length; `ResizedText` and
`PutText` say what extending and overwriting leave of them.

**Only model-checked:**

- liveness (`PromptsProgress`, `EventsReported`, `StopAnswered`, `EndsTogether`,
  `SessionEnds`, `StopsPassedOn`, `ExecReturns`, `ClientServed`,
  `JournalRelayed`): the prover does not do ENABLED, on which fairness rests;
- the policy and `Intercept`: members within aliases within lists are walked
  by recursive operators, about which nothing can be proved here;
- `TicketRule` and `KillEffectiveWhenQuiet`, whose history variables have no
  invariant proved yet;
- the front end, visudo and the log servers, with the refinement of
  `LogService`. Within reach of a proof, in this order: `EditsApart` and
  `SudoersParse` of `Visudo`, the invariant behind `TicketRule`, `CloseOrder`
  and `StorageSound`.

## Not modelled

- The parser and scanner of sudoers, ldap and sssd sources, cvtsudoers,
  tsdump: translation between text and trees, without concurrency. What they
  produce is an input of the models.
- Authentication methods other than as "asks and answers" (PAM, BSD auth, and
  so on): the decisions are the libraries'.
- lib/iolog, lib/protobuf-c, lib/zlib, lib/eventlog, the JSON readers and
  writers: encodings. The log models keep what they preserve or lose.
- sudoreplay: reads logs and draws on a terminal.
- ptrace-based interception (exec_ptrace.c): registers and memory of another
  process.
- TLS connections, SELinux, AppArmor, Solaris privileges, audit back ends.
- Conversions, string, path, time and portability helpers in lib/util:
  sequential functions with unit tests of their own.
