--------------------------- MODULE ParallelRunner ---------------------------
(***************************************************************************)
(* One session of the plugin plugins/parallel.py: the parent process       *)
(* (ParallelRunner), its worker processes and threads, the queues of the   *)
(* manager between them, and the lock servers in the parent through which  *)
(* the workers lock rows of the meter database.                            *)
(*                                                                         *)
(* A worker needs no meter (a thread of process_with_threads), one meter   *)
(* (ThreadWorkerMeter) or a group (ThreadWorkerMultiMeter).  Meters come   *)
(* from a database (RemoteMeter) or from the command line                  *)
(* (MeterInstanceUser, whose lock is a flag of the process).               *)
(***************************************************************************)
EXTENDS Naturals, Sequences, FiniteSets

CONSTANTS Worker, Meter, Test,
          Order,      \* the workers with meters, in the order of the lists
          Kind,       \* Kind[w]: which queue worker w takes its tests from
          Needs,      \* Needs[w]: the list of meters worker w locks before it starts
          Setups,     \* what a session may be given, a subset of SetupType
          MaxTries,   \* attempts to lock that fit into --lock_timeout
          Interrupts, \* whether Ctrl-C, SIGTERM or SIGHUP reaches the parent
          Fault,      \* what else may go wrong, a subset of Faults
          NoMeter, NoTest, Quit

MeterKinds == {"meter", "multi"}
Kinds == MeterKinds \cup {"nometer"}
Queues == Kinds \cup {"responses", "errors"}

\* callback: the handler of a report raises.  lock_reply: a locking UPDATE is
\* committed and its answer lost.  database: every attempt to free a row fails.
Faults == {"callback", "lock_reply", "database"}

\* The order in which the exit stack drains and joins the queues.
CleanupOrder == <<"responses", "multi", "meter", "nometer", "errors">>

\* workers: the configured ones; local: the kinds whose meters were named on
\* the command line; tests: the collected tests of each kind.
SetupType == [workers : SUBSET Worker, local : SUBSET MeterKinds,
              tests : [Kinds -> Seq(Test)]]

ASSUME WorkerAssumption ==
  /\ Kind \in [Worker -> Kinds]
  /\ Needs \in [Worker -> Seq(Meter)]
  /\ \A w \in Worker :
       /\ Kind[w] = "nometer" <=> Needs[w] = <<>>
       /\ \A i, j \in DOMAIN Needs[w] : Needs[w][i] = Needs[w][j] => i = j
  /\ Order \in Seq({w \in Worker : Kind[w] # "nometer"})
  /\ \A w \in Worker : Kind[w] # "nometer" => \E i \in DOMAIN Order : Order[i] = w
  /\ IsFiniteSet(Worker)
ASSUME SetupAssumption == Setups \subseteq SetupType
ASSUME TriesAssumption == MaxTries \in Nat \ {0}
ASSUME InterruptsAssumption == Interrupts \in BOOLEAN
ASSUME FaultAssumption == Fault \subseteq Faults
ASSUME NoneAssumption == NoMeter \notin Meter /\ NoTest \notin Test /\ Quit \notin Test

VARIABLES
  setup,     \* the setup of this session
  pc,        \* where each worker is
  got,       \* the meters whose instance in the worker has locked = True
  untried,   \* the rest of the list that the lock loop has not come to
  rpc,       \* the lock_node call a worker has at its lock server
  item,      \* the test a worker has taken
  tries,     \* attempts to lock so far
  sigint,    \* workers with a SIGINT to handle
  queue, open,  \* queue.Queue of the manager: its items and unfinished_tasks
  row,       \* rows of the database: "free", "mine", "other" session's, or
             \* "lost": busy after a locking call whose answer nobody got
  tracked,   \* lock_result of the MeterDB behind each lock server
  locks,     \* list of each RemoteDBServer
  file,      \* content of parallel.locks.json
  parent,    \* where the parent is
  batch,     \* the processes it starts and joins, in the order of Order
  started,   \* whether self.started holds that list, or None
  reaped,    \* processes whose exit status has been collected
  cleaning,  \* index in CleanupOrder of the queue being cleaned up
  outcome,   \* "none", "ok", "error" once the run loop raises, "raised" once
             \* the closing of a client raises
  processor, \* the responses_processor thread: "on", "off" or "dead"
  joined,    \* queues whose join has returned
  ran, reported \* tests that ended normally; tests logged by the parent

loopVars    == <<got, untried, tries>>
workerVars  == <<pc, loopVars, rpc, item, sigint>>
queueVars   == <<queue, open>>
lockVars    == <<row, tracked, locks, file>>
procVars    == <<batch, started, reaped>>
endVars     == <<cleaning, outcome, processor, joined>>
parentVars  == <<parent, procVars, endVars>>
testVars    == <<ran, reported>>
sessionVars == <<setup, parentVars, testVars>>
outerVars   == <<setup, workerVars, queueVars, lockVars, testVars>>
vars        == <<workerVars, queueVars, lockVars, sessionVars>>

NoCall == [meter |-> NoMeter, answer |-> "none"]

\* Workers that are created: those whose queue exists.
Active == {w \in setup.workers : Kind[w] = "nometer" \/ setup.tests[Kind[w]] # <<>>}
Local(w) == Kind[w] \in setup.local

MeterSet(w) == {Needs[w][i] : i \in DOMAIN Needs[w]}

\* Meters named for single and for group tests (configured, used or not).
MetersOf(k) == UNION {MeterSet(w) : w \in {v \in setup.workers : Kind[v] = k}}
CommonMeters == MetersOf("meter") \cap MetersOf("multi")

\* Mutant: groups always run together with single meters.
FirstKindsAll == MeterKinds

\* Groups run together with single meters, or after them if they share meters.
FirstKinds == IF CommonMeters = {} THEN MeterKinds ELSE {"meter"}
Batch(kinds) == {w \in Active : Kind[w] \in kinds}

\* Those that come before w in the list of processes.
Earlier(w) == {v \in batch : \E i, j \in DOMAIN Order : i < j /\ Order[i] = v /\ Order[j] = w}

\* Tests were collected for which no meters were given.
MissingMeters == \E k \in MeterKinds : setup.tests[k] # <<>> /\ MetersOf(k) = {}

ServersUp == parent \in {"start", "join", "joinnm", "signal", "servers"}
Closing == {"close", "closemulti", "cleanup", "cleanupmulti", "end"}
ManagerUp == parent \notin Closing \cup {"exit"}
Ended(w) == pc[w] \in {"exit", "dead"}
Running(w) == pc[w] # "new" /\ ~Ended(w)

Init ==
  /\ setup \in Setups
  /\ pc = [w \in Worker |->
            IF Kind[w] = "nometer" /\ w \in Active THEN "take" ELSE "new"]
  /\ got = [w \in Worker |-> {}]
  /\ untried = [w \in Worker |-> <<>>]
  /\ rpc = [w \in Worker |-> NoCall]
  /\ item = [w \in Worker |-> NoTest]
  /\ tries = [w \in Worker |-> 0]
  /\ sigint = {}
  /\ queue = [q \in Queues |-> IF q \in Kinds THEN setup.tests[q] ELSE <<>>]
  /\ open = [q \in Queues |-> Len(queue[q])]
  /\ row = [m \in Meter |-> "free"]
  /\ tracked = [k \in MeterKinds |-> {}]
  /\ locks = [k \in MeterKinds |-> {}]
  /\ file = {}
  /\ parent = (IF MissingMeters THEN "servers" ELSE "start")
  /\ batch = Batch(FirstKinds)
  /\ started = FALSE /\ reaped = {} /\ cleaning = 1
  /\ outcome = (IF MissingMeters THEN "error" ELSE "none")
  /\ processor = "on" /\ joined = {}
  /\ ran = {} /\ reported = {}

-----------------------------------------------------------------------------
(* Queues of the manager. *)

Put(q, x) ==
  /\ queue' = [queue EXCEPT ![q] = Append(@, x)]
  /\ open' = [open EXCEPT ![q] = @ + 1]

Goto(w, where) == pc' = [pc EXCEPT ![w] = where]

\* The memory of the process goes with it.  item stays for OpenCounts.
Die(w) ==
  /\ Goto(w, "dead")
  /\ sigint' = sigint \ {w}
  /\ got' = [got EXCEPT ![w] = {}]
  /\ untried' = [untried EXCEPT ![w] = <<>>]
  /\ tries' = [tries EXCEPT ![w] = 0]

\* Mutant: nothing is put on the errors queue.
FailSilently(w) == Die(w) /\ UNCHANGED queueVars

\* An exception leaves run.  A worker with meters puts it on the errors queue
\* before its process ends; without a manager the put raises too, and nobody
\* hears of it.
Fail(w) ==
  /\ Die(w)
  /\ IF ManagerUp /\ Kind[w] # "nometer" THEN Put("errors", w)
     ELSE UNCHANGED queueVars

-----------------------------------------------------------------------------
(* A worker locks its meters: ThreadWorkerMeter.run, ThreadWorkerMultiMeter.run. *)

\* process_with_meters, process_with_multi_meters: connect to the lock server.
\* Nothing is caught yet, so a failure ends the process without a word.
Boot(w) ==
  /\ pc[w] = "boot"
  /\ IF ServersUp THEN Goto(w, "idle") /\ UNCHANGED <<loopVars, sigint>>
     ELSE Die(w)
  /\ UNCHANGED <<sessionVars, rpc, item, queueVars, lockVars>>

\* while not self.queue.empty()
CheckQueue(w) ==
  /\ pc[w] = "idle"
  /\ \/ /\ ManagerUp /\ queue[Kind[w]] = <<>>
        /\ Goto(w, "take")
        /\ UNCHANGED <<loopVars, sigint, queueVars>>
     \/ /\ ManagerUp /\ queue[Kind[w]] # <<>>
        /\ Goto(w, "lock")
        /\ untried' = [untried EXCEPT ![w] = Needs[w]]
        /\ UNCHANGED <<got, tries, sigint, queueVars>>
     \/ ~ManagerUp /\ Fail(w)
  /\ UNCHANGED <<sessionVars, rpc, item, lockVars>>

\* meter.lock(): every member is tried, also after one was refused.
CallLock(w) ==
  LET m == Head(untried[w])
  IN /\ pc[w] = "lock" /\ untried[w] # <<>>
     /\ \/ /\ Local(w)
           /\ untried' = [untried EXCEPT ![w] = Tail(@)]
           /\ got' = [got EXCEPT ![w] = @ \cup {m}]
           /\ UNCHANGED <<pc, rpc, tries, sigint, queueVars>>
        \/ /\ ~Local(w) /\ ServersUp
           /\ untried' = [untried EXCEPT ![w] = Tail(@)]
           /\ rpc' = [rpc EXCEPT ![w] = [meter |-> m, answer |-> "none"]]
           /\ Goto(w, "wait")
           /\ UNCHANGED <<got, tries, sigint, queueVars>>
        \/ /\ ~Local(w) /\ ~ServersUp
           /\ Fail(w)
           /\ UNCHANGED rpc
     /\ UNCHANGED <<sessionVars, item, lockVars>>

\* Mutant: the file is written before the list changes.
update_locks_late(k) == file' = locks[k]

\* Each server writes the file anew, with its own list.
update_locks(k) == file' = locks'[k]

\* RemoteDBServer.lock_node in a thread of the parent: the row, the list of the
\* MeterDB, the server's own list and the file.  A call that was being served
\* when the server was closed is served all the same, and nobody is answered.
\* An exception of the UPDATE counts as a refusal, committed or not.
ServeLock(w) ==
  LET m == rpc[w].meter
      k == Kind[w]
      Answer(a) == rpc' = [rpc EXCEPT ![w].answer = IF ServersUp THEN a ELSE "late"]
  IN /\ m # NoMeter /\ rpc[w].answer = "none" /\ parent # "exit"
     /\ \/ /\ row[m] = "free"
           /\ row' = [row EXCEPT ![m] = "mine"]
           /\ tracked' = [tracked EXCEPT ![k] = @ \cup {m}]
           /\ locks' = [locks EXCEPT ![k] = @ \cup {m}]
           /\ update_locks(k)
           /\ Answer("yes")
        \/ /\ row[m] = "free" /\ "lock_reply" \in Fault
           /\ row' = [row EXCEPT ![m] = "lost"]
           /\ Answer("no")
           /\ UNCHANGED <<tracked, locks, file>>
        \/ /\ row[m] # "free"
           /\ Answer("no")
           /\ UNCHANGED lockVars
     /\ UNCHANGED <<sessionVars, pc, loopVars, item, sigint, queueVars>>

\* The answer, or EOFError once the server has closed its connections.
LockReturns(w) ==
  /\ pc[w] = "wait"
  /\ \/ /\ rpc[w].answer \in {"yes", "no"}
        /\ got' = IF rpc[w].answer = "yes"
                  THEN [got EXCEPT ![w] = @ \cup {rpc[w].meter}] ELSE got
        /\ rpc' = [rpc EXCEPT ![w] = NoCall]
        /\ Goto(w, "lock")
        /\ UNCHANGED <<untried, tries, sigint, queueVars>>
     \/ /\ ~ServersUp /\ rpc[w].answer \in {"none", "late"}
        /\ Fail(w)
        /\ UNCHANGED rpc
  /\ UNCHANGED <<sessionVars, item, lockVars>>

\* Mutant: one member is enough.
LockDoneAny(w) ==
  /\ pc[w] = "lock" /\ untried[w] = <<>>
  /\ Goto(w, IF got[w] # {} THEN "take" ELSE "rollback")
  /\ UNCHANGED <<sessionVars, loopVars, rpc, item, sigint, queueVars, lockVars>>

\* All members were tried: the exit handlers are made, or the locks given back.
LockDone(w) ==
  /\ pc[w] = "lock" /\ untried[w] = <<>>
  /\ Goto(w, IF got[w] = MeterSet(w) THEN "take" ELSE "rollback")
  /\ UNCHANGED <<sessionVars, loopVars, rpc, item, sigint, queueVars, lockVars>>

\* meter.unlock() of the first of its meters: RemoteDBServer.unlock_node, then
\* the flag of the instance.  The MeterDB frees the row only while the meter is
\* in its list.  The call raises once the server is closed, and when the row
\* cannot be freed: then the server's own list has lost the meter already.
NextHeld(w) ==
  CHOOSE m \in got[w] : \E i \in DOMAIN Needs[w] :
    Needs[w][i] = m /\ \A j \in 1..(i - 1) : Needs[w][j] \notin got[w]

UnlockNext(w, then) ==
  LET k == Kind[w]
      m == NextHeld(w)
  IN \/ /\ Local(w) \/ ServersUp
        /\ got' = [got EXCEPT ![w] = @ \ {m}]
        /\ Goto(w, then)
        /\ IF Local(w) THEN UNCHANGED lockVars
           ELSE /\ tracked' = [tracked EXCEPT ![k] = @ \ {m}]
                /\ row' = IF m \in tracked[k] THEN [row EXCEPT ![m] = "free"] ELSE row
                /\ locks' = [locks EXCEPT ![k] = @ \ {m}]
                /\ update_locks(k)
        /\ UNCHANGED <<untried, tries, sigint, queueVars>>
     \/ /\ ~Local(w) /\ ~ServersUp
        /\ Fail(w)
        /\ UNCHANGED lockVars
     \/ /\ ~Local(w) /\ ServersUp /\ "database" \in Fault /\ m \in tracked[k]
        /\ Fail(w)
        /\ locks' = [locks EXCEPT ![k] = @ \ {m}]
        /\ UNCHANGED <<row, tracked, file>>

Rollback(w) ==
  /\ pc[w] = "rollback" /\ got[w] # {}
  /\ UnlockNext(w, "rollback")
  /\ UNCHANGED <<sessionVars, rpc, item>>

\* Mutant: the time of the first attempt is taken anew in every attempt.
TryAgainForever(w) ==
  /\ pc[w] = "rollback" /\ got[w] = {}
  /\ Goto(w, "idle")
  /\ UNCHANGED <<sessionVars, loopVars, rpc, item, sigint, queueVars, lockVars>>

\* Mutant: one attempt too many.
TryAgainOnce(w) ==
  /\ pc[w] = "rollback" /\ got[w] = {} /\ tries[w] < MaxTries
  /\ tries' = [tries EXCEPT ![w] = @ + 1]
  /\ Goto(w, "idle")
  /\ UNCHANGED <<sessionVars, got, untried, rpc, item, sigint, queueVars, lockVars>>

\* After an attempt in vain: the lock timeout has passed, or sleep and try again.
TryAgain(w) ==
  /\ pc[w] = "rollback" /\ got[w] = {}
  /\ \/ Fail(w)
     \/ /\ tries[w] + 1 < MaxTries
        /\ tries' = [tries EXCEPT ![w] = @ + 1]
        /\ Goto(w, "idle")
        /\ UNCHANGED <<got, untried, sigint, queueVars>>
  /\ UNCHANGED <<sessionVars, rpc, item, lockVars>>

-----------------------------------------------------------------------------
(* A worker runs tests: ThreadWorkerBase.run and process_item. *)

\* queue.get(block=False); Empty ends the loop, and with it the worker, which
\* first gives back what it locked.
Take(w) ==
  LET k == Kind[w]
  IN /\ pc[w] = "take"
     /\ \/ /\ ManagerUp /\ queue[k] # <<>>
           /\ item' = [item EXCEPT ![w] = Head(queue[k])]
           /\ queue' = [queue EXCEPT ![k] = Tail(@)]
           /\ Goto(w, "taken")
           /\ UNCHANGED <<loopVars, sigint, open>>
        \/ /\ ManagerUp /\ queue[k] = <<>>
           /\ Goto(w, IF got[w] # {} THEN "release" ELSE "exit")
           /\ UNCHANGED <<loopVars, item, sigint, queueVars>>
        \/ /\ ~ManagerUp
           /\ Fail(w)
           /\ UNCHANGED item
     /\ UNCHANGED <<sessionVars, rpc, lockVars>>

\* prepare_args, up to the try statement of process_item.
BeginItem(w) ==
  /\ pc[w] = "taken"
  /\ Goto(w, "run")
  /\ UNCHANGED <<sessionVars, loopVars, rpc, item, sigint, queueVars, lockVars>>

\* run_test: the test ends and pytest_runtest_logreport sends its report.
Report(w) ==
  /\ pc[w] = "run"
  /\ IF ManagerUp
     THEN /\ Put("responses", item[w])
          /\ Goto(w, "ran")
          /\ UNCHANGED <<loopVars, sigint>>
     ELSE Fail(w)
  /\ UNCHANGED <<sessionVars, rpc, item, lockVars>>

\* queue.task_done() in the finally clause; raised says whether run_test raised.
ItemDone(w, raised) ==
  LET k == Kind[w]
  IN /\ item' = [item EXCEPT ![w] = NoTest]
     /\ queue' = IF raised THEN [queue EXCEPT !["errors"] = Append(@, w)] ELSE queue
     /\ open' = IF raised THEN [open EXCEPT !["errors"] = @ + 1, ![k] = @ - 1]
                ELSE [open EXCEPT ![k] = @ - 1]
     /\ Goto(w, "take")
     /\ UNCHANGED loopVars

\* After the manager has gone, task_done raises too.
TaskDone(w) ==
  /\ pc[w] = "ran"
  /\ IF ManagerUp
     THEN /\ ItemDone(w, FALSE)
          /\ ran' = ran \cup {item[w]}
          /\ UNCHANGED sigint
     ELSE Fail(w) /\ UNCHANGED <<item, ran>>
  /\ UNCHANGED <<setup, rpc, lockVars, parentVars, reported>>

\* run_test raises: a test calls pytest.exit, or the session should stop after
\* it was reported.
RunRaises(w) ==
  /\ pc[w] \in {"run", "ran"} /\ ManagerUp
  /\ ItemDone(w, TRUE)
  /\ UNCHANGED <<sessionVars, rpc, sigint, lockVars>>

\* MeterExitHandler.shutdown of one meter: its callbacks, then unlock.
Release(w) ==
  /\ pc[w] = "release"
  /\ UnlockNext(w, IF Cardinality(got[w]) = 1 THEN "exit" ELSE "release")
  /\ UNCHANGED <<sessionVars, rpc, item>>

\* SIGINT raises KeyboardInterrupt.  process_item catches it while a test runs,
\* and the worker goes on; anywhere else it ends the worker, which keeps its
\* rows and, before the try statement and in the finally clause, its test.
Interrupted(w) ==
  /\ w \in sigint
  /\ \/ /\ pc[w] = "boot"
        /\ Die(w)
        /\ UNCHANGED <<item, queueVars>>
     \/ /\ pc[w] \notin {"boot", "run", "exit"}
        /\ Fail(w)
        /\ UNCHANGED item
     \/ /\ pc[w] \in {"run", "ran"}
        /\ IF ManagerUp THEN ItemDone(w, TRUE) /\ sigint' = sigint \ {w}
           ELSE Fail(w) /\ UNCHANGED item
     \/ /\ pc[w] = "exit"
        /\ sigint' = sigint \ {w}
        /\ UNCHANGED <<pc, loopVars, item, queueVars>>
  /\ UNCHANGED <<sessionVars, rpc, lockVars>>

WorkerStep(w) ==
  \/ Boot(w) \/ CheckQueue(w) \/ CallLock(w) \/ LockReturns(w) \/ LockDone(w)
  \/ Rollback(w) \/ TryAgain(w)
  \/ Take(w) \/ BeginItem(w) \/ Report(w) \/ TaskDone(w) \/ RunRaises(w)
  \/ Release(w) \/ Interrupted(w)

-----------------------------------------------------------------------------
(* The parent starts the workers and waits for them: execute. *)

Advance(where) == parent' = where

\* Process.start also collects the children that have ended.
StartWorker(w) ==
  /\ parent = "start" /\ w \in batch
  /\ pc[w] = "new" /\ \A v \in Earlier(w) : pc[v] # "new"
  /\ Goto(w, "boot")
  /\ reaped' = reaped \cup {v \in Active : Ended(v)}
  /\ UNCHANGED <<setup, loopVars, rpc, item, sigint, queueVars, lockVars, parent, batch,
                 started, endVars, testVars>>

AllStarted ==
  /\ parent = "start"
  /\ \A w \in batch : pc[w] # "new"
  /\ started' = TRUE
  /\ Advance("join")
  /\ UNCHANGED <<outerVars, batch, reaped, endVars>>

\* Mutant: the parent does not wait.
JoinWorkerEarly(w) ==
  /\ parent = "join" /\ w \in batch \ reaped /\ Earlier(w) \subseteq reaped
  /\ reaped' = reaped \cup {w}
  /\ UNCHANGED <<outerVars, parent, batch, started, endVars>>

\* [p.join() for p in processes]
JoinWorker(w) ==
  /\ parent = "join" /\ w \in batch \ reaped /\ Earlier(w) \subseteq reaped /\ Ended(w)
  /\ reaped' = reaped \cup {w}
  /\ UNCHANGED <<outerVars, parent, batch, started, endVars>>

\* The groups that share meters with the first batch follow it.
AllJoined ==
  /\ parent = "join"
  /\ batch \subseteq reaped
  /\ started' = FALSE
  /\ \E rest \in {Batch(MeterKinds \ FirstKinds)} :
       IF rest # {} /\ rest # batch
       THEN batch' = rest /\ Advance("start")
       ELSE Advance("joinnm") /\ UNCHANGED batch
  /\ UNCHANGED <<outerVars, reaped, endVars>>

JoinNoMeter ==
  /\ parent = "joinnm"
  /\ \A w \in Active : Kind[w] = "nometer" => Ended(w)
  /\ Advance("servers")
  /\ UNCHANGED <<outerVars, procVars, endVars>>

\* One signal while the parent starts or joins.  Ctrl-C at a terminal reaches
\* the workers as well; in a nometer process it ends only the main thread.
Interrupt ==
  /\ Interrupts
  /\ parent \in {"start", "join", "joinnm"}
  /\ sigint' \in {{}, {w \in Active : Kind[w] # "nometer" /\ Running(w)}}
  /\ Advance("signal")
  /\ UNCHANGED <<setup, pc, loopVars, rpc, item, queueVars, lockVars, procVars, endVars,
                 testVars>>

\* SIGINT to self.started in its order, up to the first process whose exit
\* status was collected: os.kill raises for it, and the loop is left.
terminate_children ==
  /\ parent = "signal"
  /\ sigint' = sigint \cup
       {w \in batch : started /\ ~Ended(w) /\ (Earlier(w) \cup {w}) \cap reaped = {}}
  /\ started' = FALSE
  /\ Advance("servers")
  /\ UNCHANGED <<setup, pc, loopVars, rpc, item, queueVars, lockVars, batch, reaped,
                 endVars, testVars>>

-----------------------------------------------------------------------------
(* The parent ends: the exit stacks and the finally clause of the run loop. *)

CloseServers ==
  /\ parent = "servers"
  /\ Advance("errors")
  /\ UNCHANGED <<outerVars, procVars, endVars>>

\* if not errors.empty(): take the first and raise.  The assertion about
\* missing meters leaves execute before this point.
CheckErrors ==
  /\ parent = "errors"
  /\ IF outcome = "none" /\ queue["errors"] # <<>>
     THEN /\ queue' = [queue EXCEPT !["errors"] = Tail(@)]
          /\ open' = [open EXCEPT !["errors"] = @ - 1]
          /\ outcome' = "error"
     ELSE /\ outcome' = (IF outcome = "none" THEN "ok" ELSE outcome)
          /\ UNCHANGED queueVars
  /\ Advance("quit")
  /\ UNCHANGED <<setup, workerVars, lockVars, procVars, cleaning, processor, joined,
                 testVars>>

\* queue.put(('quit', {})); thread.join()
PutQuit ==
  /\ parent = "quit"
  /\ Put("responses", Quit)
  /\ Advance("joinproc")
  /\ UNCHANGED <<setup, workerVars, lockVars, procVars, endVars, testVars>>

JoinProcessor ==
  /\ parent = "joinproc" /\ processor # "on"
  /\ Advance("check")
  /\ UNCHANGED <<outerVars, procVars, endVars>>

\* process_responses, in a thread of the parent.  The handler of a report may
\* raise; noting that raises too (there is no _log), and the thread ends.
process_responses ==
  /\ processor = "on" /\ ManagerUp /\ queue["responses"] # <<>>
  /\ queue' = [queue EXCEPT !["responses"] = Tail(@)]
  /\ open' = [open EXCEPT !["responses"] = @ - 1]
  /\ \/ /\ Head(queue["responses"]) = Quit
        /\ processor' = "off" /\ UNCHANGED reported
     \/ /\ Head(queue["responses"]) # Quit
        /\ reported' = reported \cup {Head(queue["responses"])} /\ UNCHANGED processor
     \/ /\ Head(queue["responses"]) # Quit /\ "callback" \in Fault
        /\ processor' = "dead" /\ UNCHANGED reported
  /\ UNCHANGED <<setup, workerVars, lockVars, parent, procVars, cleaning, outcome, joined,
                 ran>>

\* The queue that queue_wrapper is cleaning up.
Current == CleanupOrder[cleaning]

NextQueue ==
  IF cleaning < Len(CleanupOrder)
  THEN cleaning' = cleaning + 1 /\ Advance("check")
  ELSE Advance("close") /\ UNCHANGED cleaning

\* while not queue.empty()
CheckEmpty ==
  /\ parent = "check"
  /\ Advance(IF queue[Current] = <<>> THEN "joinq" ELSE "drain")
  /\ UNCHANGED <<outerVars, procVars, endVars>>

\* Mutant: no task_done for a drained item.
DrainOnly ==
  /\ parent = "drain" /\ queue[Current] # <<>>
  /\ queue' = [queue EXCEPT ![Current] = Tail(@)]
  /\ Advance("check")
  /\ UNCHANGED <<setup, workerVars, open, lockVars, procVars, endVars, testVars>>

\* get_nowait and task_done.  If a worker was faster, Empty is raised: the
\* join is skipped and the exit stack goes on with the next queue.
Drain ==
  /\ parent = "drain"
  /\ IF queue[Current] # <<>>
     THEN /\ queue' = [queue EXCEPT ![Current] = Tail(@)]
          /\ open' = [open EXCEPT ![Current] = @ - 1]
          /\ Advance("check")
          /\ UNCHANGED <<cleaning, outcome>>
     ELSE /\ outcome' = "error"
          /\ NextQueue
          /\ UNCHANGED queueVars
  /\ UNCHANGED <<setup, workerVars, lockVars, procVars, processor, joined, testVars>>

\* Mutant: join does not wait for unfinished tasks.
JoinQueueEarly ==
  /\ parent = "joinq"
  /\ joined' = joined \cup {Current}
  /\ NextQueue
  /\ UNCHANGED <<outerVars, procVars, outcome, processor>>

\* queue.join()
JoinQueue ==
  /\ parent = "joinq" /\ open[Current] = 0
  /\ joined' = joined \cup {Current}
  /\ NextQueue
  /\ UNCHANGED <<outerVars, procVars, outcome, processor>>

\* unlock_all goes through the list of client k: it can free the rows that are
\* busy, whoever holds them now, and raises at one that is free or, with a
\* fault, at any.
Freeable(k) == {m \in tracked[k] : row[m] # "free"}
PartlyFreed(k) ==
  IF Freeable(k) # tracked[k] \/ (tracked[k] # {} /\ "database" \in Fault)
  THEN SUBSET Freeable(k) ELSE {}
Free(done) == row' = [m \in Meter |-> IF m \in done THEN "free" ELSE row[m]]

\* Mutant: the list is emptied before it is worked through.
ForgetTracked(k) ==
  /\ tracked' = [tracked EXCEPT ![k] = {}]
  /\ UNCHANGED <<row, locks, file>>

\* unlock_all frees every row of the list.
FreeTracked(k) ==
  /\ Freeable(k) = tracked[k]
  /\ Free(tracked[k])
  /\ tracked' = [tracked EXCEPT ![k] = {}]
  /\ UNCHANGED <<locks, file>>

\* unlock_all raises on its way: the list stays as it was, with the rows that
\* were freed before.
RaiseUnlocking(k) ==
  /\ \E done \in PartlyFreed(k) : Free(done)
  /\ UNCHANGED <<tracked, locks, file>>

\* db_client.close(), then mdb_client.close() and atexit.unregister
CloseClient ==
  /\ \/ parent = "close" /\ FreeTracked("meter") /\ Advance("closemulti")
     \/ parent = "closemulti" /\ FreeTracked("multi") /\ Advance("end")
  /\ UNCHANGED <<setup, workerVars, queueVars, procVars, endVars, testVars>>

\* A client's close raises: what follows it in the finally clause is skipped,
\* and the session ends with an internal error.  cleanup stays registered.
CloseRaises ==
  /\ \/ parent = "close" /\ RaiseUnlocking("meter")
     \/ parent = "closemulti" /\ RaiseUnlocking("multi")
  /\ outcome' = "raised"
  /\ Advance("cleanup")
  /\ UNCHANGED <<setup, workerVars, queueVars, procVars, cleaning, processor, joined,
                 testVars>>

\* The exit handler: unlock_all of both clients, of the first only if it raises.
\* It runs before multiprocessing waits for the workers.
cleanup ==
  /\ \/ parent = "cleanup" /\ FreeTracked("meter") /\ Advance("cleanupmulti")
     \/ parent = "cleanup" /\ RaiseUnlocking("meter") /\ Advance("end")
     \/ /\ parent = "cleanupmulti"
        /\ FreeTracked("multi") \/ RaiseUnlocking("multi")
        /\ Advance("end")
  /\ UNCHANGED <<setup, workerVars, queueVars, procVars, endVars, testVars>>

\* What MeterDBBase.__del__ of client k frees by closing it once more; the
\* interpreter does not promise to call it.
FreedByDel(k) == {{}, Freeable(k)} \cup PartlyFreed(k)

\* At exit multiprocessing waits for the workers.
Exit ==
  /\ parent = "end"
  /\ \A w \in Active : ~Running(w)
  /\ \E single \in FreedByDel("meter"), multi \in FreedByDel("multi") :
       Free(single \cup multi)
  /\ Advance("exit")
  /\ UNCHANGED <<setup, workerVars, queueVars, tracked, locks, file, procVars, endVars,
                 testVars>>

-----------------------------------------------------------------------------

\* Another session locks a free meter that matters here, or unlocks its own.
OtherSession(m) ==
  /\ \E w \in Active : ~Local(w) /\ m \in MeterSet(w)
  /\ \/ row[m] = "free" /\ row' = [row EXCEPT ![m] = "other"]
     \/ row[m] = "other" /\ row' = [row EXCEPT ![m] = "free"]
  /\ UNCHANGED <<sessionVars, workerVars, queueVars, tracked, locks, file>>

ParentStep ==
  \/ \E w \in Worker : StartWorker(w) \/ JoinWorker(w)
  \/ AllStarted \/ AllJoined \/ JoinNoMeter \/ terminate_children
  \/ CloseServers \/ CheckErrors \/ PutQuit \/ JoinProcessor
  \/ CheckEmpty \/ Drain \/ JoinQueue \/ CloseClient \/ CloseRaises \/ cleanup \/ Exit

\* The process has ended.
Done == parent = "exit" /\ UNCHANGED vars

Next ==
  \/ \E w \in Worker : WorkerStep(w) \/ ServeLock(w)
  \/ ParentStep \/ process_responses \/ Interrupt \/ Done
  \/ \E m \in Meter : OtherSession(m)

\* Every process and thread is scheduled, and every test ends.  Nothing is
\* assumed of other sessions, of signals or of who wins a race.
Fairness ==
  /\ \A w \in Worker : WF_vars(WorkerStep(w)) /\ WF_vars(ServeLock(w))
  /\ WF_vars(ParentStep)
  /\ WF_vars(process_responses)

Spec == Init /\ [][Next]_vars /\ Fairness

-----------------------------------------------------------------------------
(* Properties *)

Phases == {"new", "boot", "idle", "lock", "wait", "rollback", "take", "taken", "run", "ran",
           "release", "exit", "dead"}
Stages == {"start", "join", "joinnm", "signal", "servers", "errors", "quit", "joinproc",
           "check", "drain", "joinq", "exit"} \cup Closing

WorkerTypes ==
  /\ pc \in [Worker -> Phases]
  /\ got \in [Worker -> SUBSET Meter]
  /\ untried \in [Worker -> Seq(Meter)]
  /\ rpc \in [Worker -> [meter : Meter \cup {NoMeter}, answer : {"none", "yes", "no", "late"}]]
  /\ item \in [Worker -> Test \cup {NoTest}]
  /\ tries \in [Worker -> 0..(MaxTries - 1)]
  /\ sigint \subseteq Worker

QueueTypes ==
  /\ DOMAIN queue = Queues
  /\ \A q \in Kinds : queue[q] \in Seq(Test)
  /\ queue["responses"] \in Seq(Test \cup {Quit})
  /\ queue["errors"] \in Seq(Worker)
  /\ open \in [Queues -> Nat]

LockTypes ==
  /\ row \in [Meter -> {"free", "mine", "other", "lost"}]
  /\ tracked \in [MeterKinds -> SUBSET Meter]
  /\ locks \in [MeterKinds -> SUBSET Meter]
  /\ file \subseteq Meter

SessionTypes ==
  /\ setup \in Setups
  /\ parent \in Stages
  /\ batch \subseteq Worker
  /\ started \in BOOLEAN
  /\ reaped \subseteq Worker
  /\ cleaning \in 1..Len(CleanupOrder)
  /\ outcome \in {"none", "ok", "error", "raised"}
  /\ processor \in {"on", "off", "dead"}
  /\ joined \subseteq Queues
  /\ ran \subseteq Test /\ reported \subseteq Test

TypeOK == WorkerTypes /\ QueueTypes /\ LockTypes /\ SessionTypes

\* The phases of a worker in which it talks to its meters: from the first test
\* to the end of its exit handlers.
UsesMeters(w) == pc[w] \in {"taken", "run", "ran", "release"}

\* A test never runs on a meter that the worker's process does not hold, and
\* exit handlers never run without one: the loop over the lock ends when the
\* queue is empty, locked or not, and ThreadWorkerBase.run follows either way.
RunsOnlyLocked ==
  \A w \in Worker : pc[w] \in {"taken", "run", "ran"} => got[w] = MeterSet(w)

\* While a worker uses database meters their rows are this session's, from the
\* point of view of every other session.
RowsHeldInUse ==
  \A w \in Worker : UsesMeters(w) /\ ~Local(w) =>
    \A m \in got[w] : row[m] = "mine"

\* No two workers use one meter at the same time.  For meters of the command
\* line no row arbitrates: what keeps them apart is that groups which share
\* meters with single tests run after them.
TestsExclusive ==
  \A v, w \in Worker : v # w /\ UsesMeters(v) /\ UsesMeters(w) =>
    got[v] \cap got[w] = {}

\* unfinished_tasks of a queue of tests counts the tests that wait in it and
\* those that a worker has taken and not finished: dead workers included.
OpenCounts ==
  \A k \in Kinds :
    open[k] = Len(queue[k]) + Cardinality({w \in Worker : Kind[w] = k /\ item[w] # NoTest})

\* The join of a queue returns only when no test of it runs any more, after a
\* signal too: the manager and the lock servers' rows outlive every test whose
\* queue could be joined.
JoinedMeansIdle ==
  \A w \in Worker : Kind[w] \in joined => pc[w] \notin {"taken", "run", "ran"}

\* A session that ends well has run all its tests and logged them, unless the
\* handler of a report raised: no report is overtaken by the quit of the
\* responses processor, none is drained unread while the processor lives, and a
\* worker that gives up its tests leaves an error behind, whatever fails.
WellMeansAllReported ==
  parent = "exit" /\ outcome = "ok" =>
    \A k \in Kinds : \A i \in DOMAIN setup.tests[k] :
      /\ setup.tests[k][i] \in ran
      /\ processor # "dead" => setup.tests[k][i] \in reported

\* When the session has ended it holds no row that it knows of, also after an
\* unlock that raised in a worker, a lost lock reply or a signal.  What may stay
\* is the row of a call that a lock server was still serving when the clients
\* were closed and, when closing a client raised (the session then ends with an
\* internal error), rows on the list of a client.
NoRowLeftBehind ==
  parent = "exit" =>
    \A m \in Meter : row[m] = "mine" =>
      \/ \E w \in Worker : rpc[w] = [meter |-> m, answer |-> "late"]
      \/ outcome = "raised" /\ \E k \in MeterKinds : m \in tracked[k]

\* The session ends: no queue is joined for ever, no worker waits for ever.
\* "fixed cleanup code hang when error queue has items" (README.md:28).
SessionEnds == <>(parent = "exit")

=============================================================================
