# A verification project for itron.meter.pkg

The repository is a Python package that runs tests on electricity meters: a
database of meters that sessions lock, two pytest plugins that spread tests over
the meters they lock (`plugins/parallel.py` with processes of its own,
`plugins/xdist_meter.py` on top of xdist), an operator's tool for the locks
(`mdb`), and a manager that installs firmware on a meter (`mm`).  Paths below
are relative to `src/src/itron.meter.pkg/itron`.

This project has TLA+ models of the locks, of both plugins, of the installer,
for sessions of calls on one meter, for several managers on one group of meters,
for the remote shell and for `clean_locks`, with TLC runs on small instances.  TLAPS
proves every safety and action property that a passing run checks, for all values of
the constants; liveness is TLC's alone.

## 1. Inventory

| Component | State | Operations | What is hard | What makes it correct |
|---|---|---|---|---|
| Lock rows: `meter/MeterDB.py`, `meter/MeterInstance.py` | columns `node_busy`, `lock_host`; per session `lock_result` and the flags of instances | lock, unlock with ten attempts, unlock_all, close, force unlock | sessions on several hosts, lost answers, retries, crashes | one user per meter; what a session knows of its locks is true; an unlock ends |
| Operator: `scripts/mdb.py` | none | lock, unlock, resetlocks | acts on rows of running sessions, with old data | resets only what it says |
| pytest-parallel: `plugins/parallel.py` | manager queues with unfinished-task counters, processes, lock servers, `parallel.locks.json` | start and join workers, lock over RPC, take tests, report, drain and join queues, signals | processes, threads, RPC, signals at any time, clean-up order | tests run on locked meters only; reports are complete; the session ends and leaves no lock |
| Affinity scheduler: `plugins/affinitysched.py` | a sub-scheduler per affinity, two numberings of tests | add, collect, complete, remove | workers that come late, leave early or crash | no test lost, none on a worker of another affinity |
| Meter scheduler: `plugins/metersched.py`, `plugins/xdist_meter.py`, `plugins/parse_args.py` | candidates, locked meters, addresses, counters, `parallel.locks.json` | poll for single meters and groups, remove_node, close | overlap of groups, other sessions, timeouts | workers hold their meters, the books agree with the rows, the session closes |
| `scripts/clean_locks` | none | signals pytest, then unlocks what the file lists | pytest may still be alive, and the second signal kills it; the file may be incomplete | pytest ends; frees only what a dead session left |
| Meter manager: `meter/MeterMan.py` | state of the meter across reboots, image cache | install, upgrade, coldstart, wait_up, monitor_task_complete | reboots, timeouts, concurrent users of the cache | an install that returns success has installed |
| `mm --dut-db`: `scripts/mm.py` | a thread per meter, one MeterDB | lock, run a command, unlock | threads, exceptions in any of them, other managers on the same rows | a command runs on a meter of its own; every row is given back; each meter has its turn |
| Firmware: `meter/FwMan.py` | none | compare_versions, getSelected, get_build | ordering of version strings | agrees with numeric order |
| Expect: `meter/expect.py` (and consoles: `uart.py`, `remoteserial.py`, `serialmeter.py`) | a reader thread's queue, the line tested last | expect, command, readline, close | output in pieces, messages of others, timeouts, the end of the stream | a command is typed at a prompt, its answer is its own |
| ssh access: `meter/Gen5Meter.py`, `RemoteSSH*.py` | a connection | connect, command, copy | reconnect after reboot | a call that returns leaves a connection that works |
| `AsMan`, `AgentMan`, `didc`, `Walker`, `utils`, `Repack` | caches of files | wrappers | little | not modelled |
| `tools/relay.py`, `tools/stm.py`, `signerclient.py`, `otapack.py` | none | device and HTTP I/O | little | not modelled |

Interactions: both plugins lock rows through `MeterDB` objects in the parent or
master.  Workers of `parallel.py` reach the parent's `MeterDB` over RPC
(`RemoteDBServer`); xdist's master locks before it starts a worker.  Other
sessions and `mdb` meet them only in the rows.  `parallel.locks.json` and
`pytest.pid` are what `clean_locks` reads.

## 2. Modules

| Module | Models | Uses |
|---|---|---|
| `MeterOwnership` | abstract: each meter is free, owned by one session, or lost | |
| `MeterLocks` | the rows, the sessions, the operator | `INSTANCE MeterOwnership` |
| `MeterLocksProofs` | theorems about `MeterLocks` | `EXTENDS MeterLocks, TLAPS` |
| `MeterManGroup` | several `mm --dut-db` and other sessions on the same rows | `EXTENDS MeterLocks` |
| `MeterManGroupProofs` | theorems about `MeterManGroup` | `EXTENDS MeterManGroup, MeterLocksProofs` |
| `ParallelRunner` | one session of `parallel.py` | |
| `ParallelRunnerProofs` | theorems about `ParallelRunner` | `EXTENDS ParallelRunner, TLAPS` |
| `CleanLocks` | `clean_locks` beside a session of `parallel.py` | `EXTENDS ParallelRunner` |
| `CleanLocksProofs` | theorems about `CleanLocks` | `EXTENDS CleanLocks, ParallelRunnerProofs` |
| `AffinityScheduling` | the schedulers of tests, as operators on a record | |
| `MeterSched` | one xdist session: `DSession`, workers, meter scheduler | `EXTENDS AffinityScheduling` |
| `MeterSchedProofs` | theorems about both | `EXTENDS MeterSched, TLAPS` |
| `FirmwareVersions` | comparison of versions, builds and packages, as operators | |
| `MeterInstall` | one installer and one meter | `EXTENDS FirmwareVersions` |
| `MeterInstallProofs` | theorems about `MeterInstall` and `FirmwareVersions` | `EXTENDS MeterInstall, TLAPS` |
| `Gen5Session` | calls of a test on one `SSHGen5Meter`, and the commands of `mm` that install | `EXTENDS MeterInstall` |
| `Gen5SessionProofs` | a theorem about `Gen5Session` | `EXTENDS Gen5Session, TLAPS` |
| `ExpectConsole` | `ParamikoExpect`, a shell and a script | |
| `ExpectConsoleProofs` | theorems about `ExpectConsole` | `EXTENDS ExpectConsole, TLAPS` |
| `MC*` | constants for TLC | the module they are named for |

Operators marked "Mutant" are wrong versions of the definition below them: each
property is known to fail when one of them takes its place, so that it does
depend on the code.

### MeterLocks

`busy` and `lock_host` are columns of the table, `tracked[s]` is `lock_result` of
the session's MeterDB, `locked[s]` the instances whose flag is True, `op[s]` the
unlock in progress with the attempts it has left.  One UPDATE is one step; a
lost answer is a step of its own that changes the row and lets the caller see an
exception.  `lock_node` catches it and returns False; `unlock_node` sleeps and
tries again, and raises after the last attempt.  `close` works through the list
row by row.  A crash forgets everything but the rows.  The operator's commands
go straight to the rows; `resetlocks` reads all rows first.

Abstractions: `lock_result` is a set (an address is appended only when its row
was free).  Ten attempts are `Retries`, 2 in the runs.  `node_status`,
`busy_change_count` and times are left out.  The sqlite class is not modelled:
`MeterDB()` constructs it without arguments it needs.  The abstract state is `owner`: a
busy row belongs to the session that would still free it (`Owned`), else it is lost.

A `close` that raised is run again (`CloseAgain`): `__del__` calls `close`
(`MeterDB.py:447`), and the exit handler of `parallel.py` calls `unlock_all`.  The list is
emptied only after its last row (line 464), so the repeat goes over rows that the first
run has freed, and frees them under whoever has locked them since.  A repeat may come any
number of times, or never, and may be cut short by a new session (`Open`).

What may go wrong is `Fault`:

| Fault | Event |
|---|---|
| `lock_reply` | an UPDATE that locks commits and its answer is lost |
| `unlock_request` | an UPDATE that unlocks does not reach the server; `unlock_node` may so raise, `unlock_all` gets through within its attempts |
| `outage` | `unlock_all` fails for all its attempts as well, so that `close` raises and is repeated |
| `unlock_reply` | an UPDATE that unlocks commits and its answer is lost |
| `operator` | somebody runs `mdb lock`, `unlock` or `resetlocks` |

### MeterManGroup

`Group` are the sessions that are an `mm`; `thread[s][m]` is where `ProcessMeter` of a
meter is (lock, run, unlock, ended, or kept when its thread has ended with the row
locked), `main[s]` the main thread.  Every step on a row is a step of MeterLocks, taken
by a thread of mm for the sessions in `Group`; of the rest each step of MeterLocks may
happen (`OthersStep`).  An exception between the lock and the `try` (`LockThenRaise`,
`mm.py:361`) ends the thread with its row locked: it is "kept" until the mm closes.  An
mm closes through `__del__` alone, so its close has no repeat.  So what is proved of
MeterLocks holds here as it is.  `op[s]` is also the RLock of the MeterDB: while a
thread unlocks, with all its retries, no other thread of that mm does anything on the
database.  `active` is the column `node_status`, read once at the start; `mdb
deactivate` and `activate` change it at any time, and nothing else ever looks at it.

### ParallelRunner

A worker is a `nometer` thread, a process for one meter, or a process for a
group.  `pc[w]` follows `run`: boot (connect to the lock server), idle (look at
the queue), lock, wait (RPC), rollback, take, taken, run, ran, release, exit or
dead.  `parent` follows `execute` and the exit stacks: start, join, joinnm,
signal, servers, errors, quit, joinproc, then check, drain and joinq for each
queue in `CleanupOrder`, close, closemulti, end, exit; a close that raises goes from
there to cleanup and cleanupmulti, the exit handler.  `batch` is the set of the list
`processes`, whose order is `Earlier`.  `queue` and `open` are the
items and `unfinished_tasks` of the manager's queues.  A lock RPC has two ends
(`CallLock`, `ServeLock`, `LockReturns`), so that the server may close in between.
`setup` is chosen in the initial state from the setups of the MC module: which
workers exist, which kinds take meters from the command line, which tests.

What may fail beside the locks is `Fault`:

| Fault | Event | Consequence |
|---|---|---|
| `callback` | the handler of a report raises | `process_responses` would note it with `self._log` (`parallel.py:1015`), which does not exist: the thread ends (`processor` is "dead") |
| `lock_reply` | a locking UPDATE commits and its answer is lost | the worker is refused, and nobody knows of the row ("lost") |
| `database` | all attempts to free a row fail | `unlock_node` has dropped the meter from `locks` before it raises (lines 401-402); a close raises (`CloseRaises`), the closes after it and the `atexit.unregister` are skipped (925-929), and the exit handler starts over (`cleanup`, 933-937) |

A close also raises without a fault when a row on its list is free, which is so in the
repeat of one that raised.  `RaiseUnlocking` frees any part of the list before it raises
and leaves the list as it was; a row that another session has locked since is freed too.
`__del__` of a client may close it once more at the very end (`FreedByDel`).

Abstractions: the exit stack drains the queues of meters in a fixed order (the code's
depends on which test was collected first); the log queue is left out; a drained item
and its `task_done` are one step, and so are the error and the `task_done` of
`process_item`; an unlock RPC is one step, and so is each `unlock_all`; rows are keyed
by meter for both databases.  Lost unlock replies, requests that are repeated with
success, the operator, and a list with an address twice are in MeterLocks or nowhere; a
failing write of `parallel.locks.json` is left out.  After the manager has gone a call
to it raises; the code also has a loop that waits out refused connections.  At most one
signal arrives, inside the `try` of `execute`.  `Interrupted` distinguishes where a
SIGINT hits a worker: inside `process_item` it is caught and the worker goes on.

### CleanLocks

`cl` is where the script is, `sent` the signals of the present loop, `nodes` what it
has read and not yet unlocked.  `disp` is what a signal does to the parent: it
raises KeyboardInterrupt until the first one has (`execute` then puts back the
dispositions it found), and has the old effect afterwards, which for SIGHUP is
to be ignored if pytest was started under nohup (`oldhup`).  `Killed` ends parent,
responses processor and lock servers wherever they are; workers go on.  The
module takes all steps of ParallelRunner, and checks what the file lists
after `update_locks` of whichever server wrote it.

Abstractions: a signal reaches only the parent (`os.kill` of one process id),
and only where the parent can still be thirty seconds later (`Waits`): its other
steps are taken to be done within that time.  The kill does not tear the file.

### AffinityScheduling and MeterSched

`Affinity` is computed as the plugins do: the worker marks a test by its fixtures
(`Markers`) and writes the closest mark into its name, where the master reads it.
`PeerLists` is the sweep of `parse_meter_options` over the rows of `--multi-db`, sorted by
group (`SortedByPeer`, `Swept`, `Closed`); a group is the list of its meters.
`MCMeterSched` states as an assumption that TLC evaluates, over all rows and peer groups
of three meters, that the lists are the peer groups of two or more
(`ListsArePeerGroups`).

`AffinityScheduling` has one operator per method; each takes the record `st` of all
schedulers and returns the new one.  `_reschedule`, `remove_active`,
`tests_finished` and `Pending` are those of xdist's LoadScopeScheduling, which is
not in the repository: they are marked external and written from how the
subclass uses them.  `MeterSched` adds the workers and the loop of `DSession`: it
handles one event at a time and polls when it likes.  A poll is a sequence of
steps (`polling`, `at`), one per candidate, because other sessions lock and unlock
rows in between and because the loop removes from the list it runs over.
`phase[n]` is what the master knows of a worker: starting, pending (added, not
collected), active, refused (came during the shutdown) or gone.

Abstractions: every scope holds one test (grouping "bytest"); locking and giving
back an incomplete group is one step; `m.locked` is membership in the lists; the
rate limit is the freedom not to poll.

A worker that crashes is replaced by xdist as often as `--max-worker-restart` allows; the
repository does not set it, and without it xdist allows four for each of its `-n`
processes, or any number without `-n`.
The replacement (`Clones`, `Origin`) has the environment of the one that died, its
meters in it, but no `locked_meter`: `remove_node` has unlocked them before, and
nothing locks them for it.  `First` are the workers that poll, or xdist at its start,
has started, and what the model promises about meters it promises of them.  When the
restarts are used up the session shuts down.  `Options` are the pairs of `--max-meters`
and `--max-worker-restart` a session may have.

### FirmwareVersions and MeterInstall

A version is a triple of numbers, compared by the text of its first two
(`Digits`, `TextLess`).  `get_build` is the set of builds the call may return:
empty where the code raises.  `getSelected` takes every directory whose name contains what
was asked for, so the build found (`new_ver`) may be another version (`Matching`).
`MeterInstall` follows one call of
`SSHGen5Meter.coldstart`: `pc` goes from gmr and resetting over choose (which
packages, with the `cur_ver` read before) to tidy, list, copy, copying, rename and
improv for each package of `plan`, then to monitor, waiting and sleep, where
`monitor_task_complete` polls, and to login.  `found`, `task_id`, `boot_started`,
`retry` are its variables; `connected` is a connection left over by an iteration
that raised.  Any command may raise at any time (`CommandFails`), and ImProv may
have started the task although its command raised.

The meter is external, taken from what the code expects: it takes up a task it
was asked for, adds a row to ImageProcessStatus, fails or installs, restarts, and
may have emptied the table or left only the new row.  An upgrade applies only to
the version it is made from.

Abstractions: the comparison of times with `start_time` is the flag `fresh` of a
row (clock differences below a second are left out); Ids are positions; time is
`late`, and the freedom of a wait to give up; `/mnt/idleRFS` and the file names
inside packages are left out; a package whose inner file has another name makes
`mv` fail, one of the failures of `CommandFails`.

### Gen5Session

`job` is the call in progress and `connection` what `SSHGen5Meter.connection` is worth:
none, live, or stale, which is one that was opened before the meter last went down.
All calls drive the installer of MeterInstall through its `pc`, so every failure,
reboot and timeout of that module can hit each of them; `Departs` lists the places
where a call goes on in another way than `coldstart_auto` does.  `HandOver` and
`NextJob` are what the calls do with the connection at their end.

Abstractions: one call at a time; commands without effect on the meter are `Unusable`
where they raise and no step where they do not.  The diff upgrade in
`cmd_coldstart` is left out.  The wait of thirty seconds for a meter to go down is
taken to see it down: a lost ping there is the fault "early" of MeterInstall, which
this run does not have.

### ExpectConsole

The text on the channel is a sequence of symbols, each a text that the code looks
for: a prompt, a newline, an echo, a number printed by a command, an exit status, a
message of somebody else.  What a command prints is a number because that is what
the search for an exit status could take for one.  `queue` is the channel and the
queue of `NonBlockingStreamReader` in one.  `pc` names the `expect` in progress and,
with it, its expression; `line`, `before` and `current_line` are the variables of
`expect`; `tested` says that it has tested a line, so that the loop may find its time
over.  A second without a byte may pass whenever everything that was sent has been
read (`expect_partial`): between two outputs of the shell, after a line without its
end, and, with the fault "delay", between any two symbols.  The script
may call `command`, send lines and expect their output, wait for a prompt, send
Ctrl-C, and close, in any order, after a call that returned and after one that raised.

The shell and its terminal are external: it echoes what is typed, reads a line when
it waits, prints a line or a part of one, and ends when it likes or never.

Abstractions: `no_prompt=True` only (without it `PROMPT` is None and `command` asserts);
a command prints at most once; the time in a timeout is the freedom to give up.
What the network and the script may do is `Fault`: a pause of a second inside the
output ("delay"), `readline`, and lines sent before the last one has ended
("ahead").  Each of these breaks `InStep`, see section 3.

## 3. Runs

| Run | Instance | Shows |
|---|---|---|
| `lock_sessions` | 2 `mm --dut-db` on the same 2 meters and a session of another host, 1 meter taken out of service and back, crashes, lost lock replies and unlock requests | `Exclusive`, refinement of `MeterOwnership`, commands on own meters, the list is what runs, each meter's turn comes |
| `lock_faults` | 2 sessions, 2 hosts, 2 meters, all faults, repeated closes and the operator | books of a session stay true, unlocks end |
| `lock_retry` | lost unlock replies | violation of `RowsInUseStay` |
| `parallel_normal` | 6 setups of up to 3 workers and 3 tests, faults `callback` and `database`, no signal | locked meters, complete reports, end |
| `parallel_interrupt` | 6 setups, faults `lock_reply` and `database`, a signal | exclusion, counters, joins, rows left |
| `parallel_hang` | 1 worker with a meter, no fault, a signal | violation of `SessionEnds` |
| `clean_locks` | 3 setups: a meter; a meter and a group that shares it; a missing meter.  2 SIGHUPs, 1 SIGTERM, started at any moment, both old dispositions of SIGHUP; faults `callback` and `lock_reply` | pytest ends, only then are rows unlocked, what is listed is freed, nothing after a quiet end |
| `sched_session` | 2 single meters, a group with one meter that another session uses too, 4 tests, a crash; either 2 meters at a time and a replaced worker, or 1 meter at a time, no replacement and an abort | safety of locks and schedule, `SessionCloses` |
| `install_coldstart` | 4 versions, 6 packages, 2 calls, one outage during a task, failures anywhere | 0 means installed, cache, upgrades, end |
| `install_early` | 1 call, an outage before the task has begun | violation of `ZeroMeansInstalled` |
| `gen5_calls` | 2 versions, a package of each kind, any calls, 2 of them installing, failures anywhere, an outage | a call that returns leaves a connection that works; calls end |
| `expect_shell` | 2 lines by any of the calls, 1 message of somebody else, the channel may close | command in step, own result, calls end |

Bounds.  Two sessions are enough for one to take what the other holds; two meters for a
close that is interrupted between rows; two attempts for a retry that succeeds, fails,
and gives up; `lock_sessions` has no outage, `lock_faults` has, so the properties that a
repeated close breaks are checked without it and those that hold under every fault with
it.  The threads of its two mm's take the meters in any order, so each mm may hold what
the other waits for, and the third session has another host.  `MaxTries` is the number
of attempts to lock within `--lock_timeout`; the code has no such bound, only time.
Setups of ParallelRunner cover: two workers with one queue, one that gets no test, a
group beside and after single meters, meters of the command line, tests without the
meters they need.  In `clean_locks` the group shares a meter with the single worker, so
both lock servers write the file.  Two SIGHUPs are the one that interrupts and the one
that kills; SIGTERM kills where nohup made the second SIGHUP harmless. In MeterSched the
affinities of the four tests are mixed in the collection so that both renumberings
differ from the identity, one test is marked by its decorator against its fixtures, and
one row of the database is alone in its peer group; there are two single-meter tests for
two single meters, so that work put back by a crash goes to the other one.
`MaxCrashes`, which is 1, bounds crashes, `Contended` the meters that other sessions
lock, and `Aborts` the options under which a session may be aborted.  A replacement that
crashes itself is beyond the run; the proofs cover it.  With one meter at a time the
group is never locked, and the session waits for it after all other tests, as
`metersched.py:177-184` warns: the check of the timeout comes after a `continue`.
`SessionCloses` excepts this wait (`OnlyWideGroups`) and no other.  The assertion of
xdist that a late worker finds tests of its affinity is in `NodeCollected` and not met
in this run, which has tests for the default worker.  In MeterInstall a meter with
10.4.2 needs two packages for 10.5.1, one with 10.4.1 a single one, nothing offers
10.4.2, and 10.10.1 is a version that text takes for an older one; the cache starts
empty or with one file too many (`CacheLimit` is 2), the table empty or with an old row,
so that `task_id` is lost when it is emptied; two calls meet what a broken one left
behind. `MaxOutages` bounds reboots nobody asked for and lost pings.  `gen5_calls` needs
a version to come from and one to go to; two installing calls (`MaxAttempts`) are enough
for one that meets what another left, and the others are not bounded. `MaxCalls` and
`MaxNoise` of `expect_shell` bound the lines of a script and the messages; two lines are
enough for a command that finds the output of the one before (three without messages
hold as well, and the proof is for any number).

Fairness.  MeterLocks: an unlock in progress goes on, since it is a loop without
waiting for others.  MeterManGroup: threads are scheduled and commands end (weak);
a free row and the RLock, which come and go, do not evade all waiting threads of one
mm for ever (strong, per mm): a thread polls the row without pause, but `RLock` hands
itself to nobody in particular, so no fairness among the threads of one mm is
assumed; the property needs none because threads that have had their turn do not
come back.  Other sessions end (strong: what they may not do is hold a meter for
ever).  ParallelRunner: every process and thread is scheduled and
every test ends; nothing is assumed of other sessions or races.  CleanLocks: the same,
and the script runs on.  MeterSched: a worker that can go on does, a poll goes on,
time passes, and the loop of `DSession` does not poll for ever while an event waits
(it polls only when its queue is empty).  `MasterReady` is the enabling condition of
`MasterStep`, written out because it is evaluated in every state.  MeterInstall: the
installer goes on, its clock runs and a meter that restarts comes up; no failure has
to happen, and no task has to end.  Gen5Session: the same for calls.  ExpectConsole:
the caller goes on and its time passes; no command has to end, no byte to come.

Two assumptions on the surroundings of the installer are made by `Fault`, and
they matter.  Without "early" the meter is in reach from the call until its task
has begun; with it `ZeroMeansInstalled` is violated (`install_early`).  Without
"overlap" nobody calls coldstart while a task of an earlier call goes on; with it
a row of the first is taken for the second, and `ZeroMeansInstalled` fails too.

Deadlock is checked everywhere except where the system may stop: under a signal,
where the parent may join a queue for ever (the finding of `parallel_hang`, and
`clean_locks`, which then ends); in MeterInstall and Gen5Session when all installing
calls have been made; in ExpectConsole when the script has closed the channel.

### Disagreements found

1. A retried unlock frees the next owner's row (`MeterDB.py:317-341`).
2. The parent may join the errors queue for ever after a signal (`parallel.py:800-811`).
3. `coldstart` returns 0 with nothing installed if a ping is lost before the task
   has begun (`MeterMan.py:505-522`).

### Seen while modelling, in no run of its own

Locks.  The repeat of a close that raised frees rows that others have locked since
(`MeterDB.py:447-464`): with the fault `outage` the group run violates
`ImplementsOwnership`, and no theorem about exclusion covers it.  `mdb resetlocks` frees
rows locked since it read them (`mdb.py:246-255`). `parallel.locks.json` lists the locks
of whichever of two servers wrote it last (`parallel.py:386-389`).
`unlock_multi_meters` removes a group from a list of addresses and raises at the first
one (`metersched.py:91`), so more groups stay locked; `--max-meters` counts single
meters and groups apart.  Meters without PEER_GROUP are one group if there are at least
two of them (`parse_args.py:52-65`).

Managers on one group (`mm.py:354-378`).  Two mm's whose unlock has failed ten times
wait for each other for ever, if each holds what the other wants (`Stranded`,
"kept").  A lost answer to a lock leaves a row that the thread itself, which tries
again at once, waits for.  The handler of an exception adds an exception to a text
and so raises a TypeError of its own; the row is unlocked all the same.  With no
active meter the executor is asked for no threads and raises.  `lock_node` does not
look at `node_status`: a meter deactivated while mm waits for it is used.

Sessions.  A worker that replaces a crashed one of `xdist_meter` runs tests on a meter
whose row is free and which other sessions may lock; so may the session itself, in the
other form (a group that has the single meter in it, or the reverse).  With all workers
in the place of `First`, TLC violates both `LiveWorkersHold` and `WorkersApart` within
the instance of `sched_session`.  A group with more meters than `--max-meters` is waited
for for ever (`metersched.py:177-184`), and with `--max-meters` 0 no meter is ever
locked, which is outside `Options`.  A worker that leaves before its collection has come
raises TypeError (`affinitysched.py:44-50`): `SessionCloses` allows it, as an error of
the session. `terminate_children` stops at the first process that is gone
(`parallel.py:939-955`). `process_responses` notes an exception of a handler with
`self._log`, which does not exist: the thread ends, later reports are drained unread,
and the session may still end well (`parallel.py:1014-1015`).  An unlock that raises has
dropped its meter from the list that `parallel.locks.json` is written from, so
`clean_locks` does not free the row that stays busy (lines 401-403).  A close of the
first client that raises skips that of the second and turns the session into an internal
error (925-929); the exit handler in turn skips the second if the first raises again
(935-937).  An interrupted session without an error returns True.  `--cpus 0` starts no
thread for the tests without meters: their queue is drained and joined, and the session
ends well without having run them (the hypothesis `ThreadGiven` of section 4).

`clean_locks`.  `pytest_configure` writes `pytest.pid` into its working directory
(`parallel.py:457-459`); the script, run in another one, finds none and unlocks at
once.  The first SIGHUP puts the old dispositions back, so the second kills
pytest in its clean-up: its workers go on, and their rows are freed under their
tests.  After a signalled session the file may list rows that `close` has freed and
others have locked since: the script frees those.  `os.kill` on a process that has
just ended raises, and the rows stay locked (line 48); a zombie counts as alive.

Installer.  `compare_versions` takes 10.10 for older than 10.9; `close_channel` does not
exist, so that a read of the table that timed out is never tried again
(`MeterMan.py:445`); `found` survives the reset of `task_id` and the next poll raises
TypeError (`MeterMan.py:518`); `cmd_coldstart` takes a result of 0 of the diff upgrade
for a failure (`MeterMan.py:739`).  `install(version=...)` ignores the version, returns
1 and connects again.  An upgrade whose base is part of the name of another build may be
put on that one (the hypothesis `ExactBase` of section 4).  The reboot command may lose
its exit status with the connection: `command` then asserts although the meter reboots.

Expect.  After `readline`, `current_line` is the line before (`full_line_true` does not
keep it); a pause of a second inside the output is taken for its end; lines typed
ahead answer for the next command: with each of these `command` types while the last
one still runs.  The example in the class calls `expect_prompt` after `command`, which
has read the prompt already: it waits until it times out.  `no_prompt=True` is what
sets a prompt.  None for the end of the stream is delivered once, and bytes not read
when the channel closes are lost.

## 4. Proofs

Every invariant and action property of a passing run is a theorem, for any sets of
sessions, workers, meters, tests, packages and any bounds.  The assumptions are those
the modules make on their constants; what a theorem assumes beyond them it states as a
hypothesis:

| Hypothesis | Of | Why the property needs it |
|---|---|---|
| `NoForeignUnlock` | `MutualExclusion`, `NoRowTaken`, `OwnershipRefined`, `GroupApart` | no unlock reply is lost, no operator interferes, and no close raises in an outage; `lock_retry` shows what happens with the first, section 3 says what with the last |
| `NamedOnce` | `ExclusiveTests` | meters of the command line have no rows: nothing else keeps two workers of one apart |
| `~Interrupts` | `QuietRows`, `AllReported`, `QuietUnharmed` | after a signal the servers go before the workers, and tests stay unrun |
| `ThreadGiven` | `AllReported` | `--cpus 0`, see section 3 |
| `NoFault` | `ZeroIsInstalled`, `UpgradesFit` | neither "early" nor "overlap", see section 3 |
| `ExactBase` | `UpgradesFit` | the base of an upgrade is found by a part of its name, see section 3 |
| `EveryUnlockSucceeds` | `QuietUnharmed`, `RowsFreed` | an unlock that raises leaves a busy row and a file that says otherwise, see section 3 |
| `Signals` | the theorems of `CleanLocksProofs` | without a process id, or the time for a signal, the script unlocks at once |
| `Careful` | `StaysInStep`, `ReturnsOwn` | no pause inside the output, no `readline`, no line ahead: each breaks it, see section 3 |

All of them hold of the constants of some run, so no theorem is empty.

**Locks.**  `TypeCorrect`, `ListsMatch`, `GivesUp` and `HostKept` hold under all faults,
`MutualExclusion`, `NoRowTaken` and `OwnershipRefined` under `NoForeignUnlock`.
`BaseInv` is the type invariant, the agreement of list and flags, and `OpInv`: which
operation a session can have in progress and over which meters.  Without `OpInv` the
list of a closing session could not be related to the rows that are still to free.  Each
step of a session has an effect on `Owned` from a short list (`SessionEffect`: it took
one free row, kept all, freed one, gave all up), and every property is a consequence of
that list.  `OwnInv` adds that an owned row is busy and has one owner, and that no close
has raised; it is inductive only when nobody frees a row that is not its own
(`NoCloseRaises`).  The refinement maps a step to `Acquire`, `Release`, `Leak`,
`Abandon` or a stutter.

**Managers on one group.**  A step of `GNext` is a step of `Next` of MeterLocks or leaves its
variables alone (`GroupNextIsNext`), so `BaseInv` and `OwnInv` hold under any number of
mm's.  On top, `GroupInv` says where threads can be: `PhaseInv` (threads run only while
the session is open and nothing closes it, and an unlock in progress is that of a thread
in "unlock") and `ListInv`, the relation of threads and list, which is
`ThreadsFreeOrList` and needs `PhaseInv` because a close empties the list.  `GroupApart`
combines it with `OwnInv`.

**`parallel.py`.**  `BasicInv` holds under all faults and signals: types, `Items` (who may
hold a test), `OpenCounts` (`TestsCounted`), `Balanced` (the counters of the other queues) and
`Calls` (which lock calls a worker can have in progress where).  What a step can do is stated
once: `StepsAlone` (the step of a worker touches its own row of each variable),
`Shrinks` (queues of tests only get shorter) and `NotWorkerStep`.  On top of that:

- `LoopInv`: a lock loop ends with all meters of the worker or with an empty queue; the
  second looks wrong and is what `LockedToRun` has to exclude.  `JoinedInv`: a joined queue
  stays at zero, because nothing is added any more (`JoinedIdle`).
- `BatchInv`: at any time only workers of one batch run, and the groups come second if they
  share meters with others.  `RowInv`: of two workers of lock servers only one has a
  meter, and its row is the session's while the servers run.  `ExclusiveTests` needs
  both, as meters locked over RPC are kept apart by rows and those of different
  servers by batches.  `HeldRows` follows from `RowInv`; `QuietRows` extends it to the end of
  the session, where `QuietInv` says that no worker is left when the servers close.
- `TrackInv`, `LateInv`: a row of the session is on one of the two lists, also after an
  unlock or a close that raised,
  and after `close` only a call that was still being served can add to a list
  (`RowsGivenBack`).
- `StageInv`, `PlaceInv`, `EndInv`, `DataInv`: each test has been run, or waits, or is at a
  worker; without an error all workers have ended when the queues are drained, and one
  with its meters ends only when its queue is empty (`NothingWaits`); what has run is on
  its way to the log, which has it all before the processor quits, if it lives (`AllReported`).

**`clean_locks`.**  The module takes the steps of ParallelRunner, so its lemmas about one
step are used as they are.  `ScriptInv`: the first signal of a loop makes the next one
deadly or finds the parent gone, so the file is read only then (`CleanUpWaits`).  `FileInv`
relates the file to the lists of the two servers.  `LeftInv` says until the kill that the
session's invariants hold (`AliveInv`) and after it that the rows left are listed, but
for one whose locking was cut in two (`RowsFreed`); `UnharmedInv` that the lists of a session
that ended unsignalled are empty (`QuietUnharmed`).

**Schedulers.**  `LockInv` is about meters: a worker of `First` that lives is on a list
of locks, the lists have no meter twice, name the rows of the session and agree with the
counters (`ApartWorkers`, `LiveHold`, `ListsMatch`).  It says nothing of replacements
but that they are on no list and have no row, which is what keeps the counters right
when one of them ends.  That `Groups` is a list of lists of meters, none of them empty,
is `GroupsAreLists`, from the sort and the sweep: `Places` shows that the rows have the
places 1 to N (an injection of a finite set into itself is onto).  `WorkInv` is about
tests: `Good` says of the record of all schedulers that queues and workers have tests of
their affinity (`Sorted`), that no test of a scheduled affinity is lost (`Kept`), and
that what a worker was given and has not completed was sent to it and is still to run or
to report (`Tracked`). `EndsComplete` needs `Tracked`: a worker that ends without a
crash has run all that it was given, so no test comes back when the others have been
told to shut down.  For each operator a lemma says that it keeps `Good` (`AssignKeeps`,
`Rescheduled`, `Added`, `Marked`, `Left`), which for the renumbering means that the two
numberings undo each other (`KeepsAffinity`).  `EndInv`: the session shuts workers down
only when all affinities have been scheduled and no test waits (`EndsComplete`).

**Installer.**  `FileInv`: the part is whole when the installer renames it (`CacheIsWhole`,
under all faults).  `PlanInv`: the last package of a plan is the build asked for.
`ProgressInv`: while the installer works nobody else has a task at the meter, and while it
watches, its task is asked for, begun, failed or installed; this is what "overlap" and
"early" break (`ZeroIsInstalled`).  `BaseRuns`: from the choice of an upgrade to its ImProv
the meter runs its base (`UpgradesFit`).  `DowngradesOlder` is about text: `Digits` is what its
recursion says (`DigitsOf`), the last digit decides if the others are the same
(`TextOfAppend`), and so text orders numbers with equally many digits as numbers
(`TextIsOrder`).

**Calls on a meter.**  `JobInv` says which calls drive the installer, and that a reboot does not
go on to install; each step of the installer raises, returns a code or goes on
(`EndsWithResult`), and `ReturnConnection` looks at the ends.

**Shell.**  `ConsoleTypes` holds under all faults.  `InStep` needs to know what a prompt means:
`StepInv` says that, while the channel is open, at most one line is on its way, that
the last symbol of all that has come is a prompt only if the shell waits, that a call
sends only then (`SendsInStep`), and that the line tested last ends in a prompt only
then, because every expect that ended has tested a line since the last one was sent
(`LineIsNew`).  `OwnInv` adds whose text is where: nothing of an earlier line is left on the
channel when `command` sends one (`CleanInv`), so that what comes until the prompt is of
this line (`PromptInv`, `RetInv`), and the only exit status that can come is its own
(`StatusInv`, `CodeInv`).  Timeouts, Ctrl-C, messages of others and a channel that closes
are all allowed.

**Recursion.**  The prover has no induction over data, but the library has that `<` on the
naturals is well-founded as a fact about sets.  `LeastNatural` is that fact; `StepByStep` and
`Recurs` get from it what a recursive function over an interval is, which is how
`Groups`, the numberings of tests (`upto`), the offers to other workers (`offered`) and `Digits`
are reasoned about.

**Model-checked only.**  Liveness (`UnlockTerminates`, `TurnComes`, `SessionEnds`, `PytestEnds`,
`SessionCloses`, `InstallEnds`, `CallsEnd`, `CallsReturn`): the prover has no rules for
fairness or ENABLED.  That the lists of groups are all peer groups of two and more
(`ListsArePeerGroups`), which no theorem needs.

## 5. Plan

1. Done: locks, operator, `mm --dut-db`, `parallel.py`, `clean_locks`, the schedulers, the
   installer, calls on one meter, the remote shell; theorems for all their safety and
   action properties.
2. An abstract specification of a test session (each test is run at most once, on
   meters that no other test uses, and reported) that ParallelRunner and MeterSched both
   implement, with the refinement checked by TLC and proved.
3. `MasterReady` as a theorem: it is the enabling condition of `MasterStep` in all but name.
4. More of MeterDB's users: what `resetlocks` and a retried unlock can do at worst, as an
   action property weaker than `NoRowTaken` that holds under all faults.

## 6. Not modelled

- Serial consoles (`uart.py`, `remoteserial.py`, `serialmeter.py`): loops of reads over
  a serial port with the commands of the shell above; the relay boards and
  micro-controllers of `tools`: bytes out, bytes in.
- `AsMan`, `AgentMan`, `didc`, `Walker`, `utils`, `Repack`, `otapack.py`, `signerclient.py`: each call
  is a sequence of file, tool or HTTP operations without state that outlives it.
- Queries of a meter and their text (most of `Gen5Meter.py`), `capture`, and how builds
  are stored and unpacked (`FwMan.py`): their failures are failures of a command.
- Option parsing, log files, pickling of exceptions, fixtures of `parallel.py`; callbacks of
  `MeterExitHandler`, whose promised place before the unlock a signal can break.
- The sqlite database, which `MeterDB()` cannot construct.
