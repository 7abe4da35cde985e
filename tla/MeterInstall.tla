---------------------------- MODULE MeterInstall ----------------------------
(***************************************************************************)
(* Firmware is put on a meter (meter/MeterMan.py: coldstart_auto, upgrade, *)
(* install_with_reboot, update_image_cache, monitor_task_complete; called  *)
(* by SSHGen5Meter.coldstart).  The installer sends commands over ssh and  *)
(* then watches the ImageProcessStatus table of a meter that reboots.      *)
(*                                                                         *)
(* The meter is external: what it does is taken from what the code expects *)
(* of it.  Ids in its table are 1, 2, ... in the order of the rows, and a  *)
(* coldstart may empty it or leave only its own row.                       *)
(***************************************************************************)
EXTENDS FirmwareVersions

CONSTANTS CacheLimit,    \* files update_image_cache tolerates (10 in the code)
          Retries,       \* of monitor_task_complete (4 in the code)
          Fault,         \* what may go wrong, a subset of Faults
          Leftover,      \* what may be in the image cache at the start
          MaxAttempts,   \* bound: calls of coldstart
          MaxOutages     \* bound: reboots nobody asked for, and lost pings

Faults == {"early",     \* the meter is out of reach before a task has begun
           "overlap"}   \* coldstart is called while an abandoned task goes on

ASSUME CacheLimitAssumption == CacheLimit \in Nat \ {0}
ASSUME InstallRetriesAssumption == Retries \in Nat
ASSUME InstallFaultAssumption == Fault \subseteq Faults
ASSUME LeftoverAssumption == Leftover \subseteq SUBSET Package
ASSUME ListingAssumption == Listing \in Seq(Package) /\ Listing # <<>>
ASSUME BoundsAssumption == MaxAttempts \in Nat /\ MaxOutages \in Nat

VARIABLES
  up,            \* the meter answers
  running,       \* its firmware version
  asked,         \* images ImProv was started for whose task has not begun
  table,         \* ImageProcessStatus; fresh: begun since start_time
  cache, part,   \* the state of each image in imagecache, and of its .part file
  outages,
  pc,            \* where the installer is; "idle": no coldstart is running
  request, cur,  \* the version asked for, cur_ver of coldstart_auto
  plan,          \* packages still to install, the first one is in progress
  found, task_id, boot_started, retry,   \* of monitor_task_complete
  connected,     \* its connection, left over from an iteration that failed
  late,          \* its timeout has passed
  result, attempts

meterVars   == <<up, running, asked, table, outages>>
fileVars    == <<cache, part>>
planVars    == <<request, cur, plan>>
monitorVars == <<found, task_id, boot_started, retry, connected, late>>
endVars     == <<result, attempts>>
vars == <<meterVars, fileVars, pc, planVars, monitorVars, endVars>>

FileState == {"absent", "partial", "whole"}
Entry == [image : Package, code : {"pending", "ok", "failed"}, fresh : BOOLEAN]
NoTask == 0

Image == Head(plan)
Pending == {i \in DOMAIN table : table[i].code = "pending"}
Fresh == {i \in DOMAIN table : table[i].fresh}

Init ==
  /\ up = TRUE /\ running \in Version /\ asked = <<>> /\ outages = 0
  /\ table \in {<<>>, <<[image |-> Listing[1], code |-> "ok", fresh |-> FALSE]>>}
  /\ \E files \in Leftover :
       cache = [p \in Package |-> IF p \in files THEN "whole" ELSE "absent"]
  /\ part = [p \in Package |-> "absent"]
  /\ pc = "idle" /\ request = running /\ cur = running /\ plan = <<>>
  /\ found = FALSE /\ task_id = NoTask /\ boot_started = FALSE
  /\ retry = 0 /\ connected = FALSE /\ late = FALSE
  /\ result = "none" /\ attempts = 0

-----------------------------------------------------------------------------
(* coldstart_auto and upgrade *)

Goto(label) == pc' = label /\ UNCHANGED result
Raise == pc' = "idle" /\ result' = "error"
Quiet == asked = <<>> /\ Pending = {}

NewMonitor ==
  /\ found' = FALSE /\ task_id' = NoTask /\ boot_started' = FALSE
  /\ retry' = 0 /\ connected' = FALSE /\ late' = FALSE

\* A test asks for a version.  The current one is read before a GMR.
coldstart(v) ==
  /\ pc = "idle" /\ up /\ attempts < MaxAttempts
  /\ Quiet \/ "overlap" \in Fault
  /\ attempts' = attempts + 1 /\ request' = v /\ cur' = running
  /\ \/ get_build(v) = {} /\ pc' = "idle" /\ result' = "error"
     \/ get_build(v) # {} /\ pc' \in {"gmr", "choose"} /\ result' = "none"
  /\ plan' = <<>> /\ NewMonitor
  /\ UNCHANGED <<meterVars, fileVars>>

\* _reboot_and_wait, with the script of the global reset.
gmr ==
  /\ pc = "gmr" /\ up
  /\ up' = FALSE /\ Goto("resetting")
  /\ UNCHANGED <<running, asked, table, outages, fileVars, planVars, monitorVars, attempts>>

wait_reconnect ==
  /\ pc = "resetting" /\ up /\ Goto("choose")
  /\ UNCHANGED <<meterVars, fileVars, planVars, monitorVars, attempts>>

\* info['version']: that of the build whose directory the request has matched,
\* which is the version asked for if its name was given in full.
new_ver == CHOOSE v \in get_build(request) : TRUE

\* Mutant: an upgrade is installed without the build it upgrades from.
UpgradeAtOnce == {<<p>> : p \in UpgradeFrom(new_ver, cur)}

\* Install what the upgrade upgrades from, unless it runs, and then the upgrade.
upgrade ==
  {<<p>> : p \in {q \in UpgradeFrom(new_ver, cur) : q.from = cur}}
    \cup UNION {{<<c, p>> : c \in UNION {Offered(b, "cold") : b \in get_build(p.from)}} :
                  p \in {q \in UpgradeFrom(new_ver, cur) : q.from # cur}}

\* The sequences of packages coldstart_auto may install: at most one.
Plans ==
  LET cmp == compare_versions(cur, new_ver)
  IN IF cmp = "older" THEN {<<p>> : p \in Offered(new_ver, "down")}
     ELSE IF cmp = "newer" /\ UpgradeFrom(new_ver, cur) # {} THEN upgrade
     ELSE {<<p>> : p \in Offered(new_ver, "cold")}

\* A package that does not exist raises.  Without an upgrade from the current
\* version Logger.trace is called, which raises unless a conftest defines it.
Choose ==
  /\ pc = "choose"
  /\ \/ \E p \in Plans : plan' = p /\ Goto("tidy")
     \/ /\ \/ Plans = {}
           \/ compare_versions(cur, new_ver) = "newer" /\ UpgradeFrom(new_ver, cur) = {}
        /\ Raise /\ UNCHANGED plan
  /\ UNCHANGED <<meterVars, fileVars, request, cur, monitorVars, attempts>>

-----------------------------------------------------------------------------
(* install_with_reboot: update_image_cache, then ImProv *)

\* rm -f *.part
RemoveParts ==
  /\ pc = "tidy" /\ up
  /\ part' = [p \in Package |-> "absent"] /\ Goto("list")
  /\ UNCHANGED <<meterVars, cache, planVars, monitorVars, attempts>>

Cached(c) == SelectSeq(Listing, LAMBDA p : c[p] # "absent")

\* With too many files, the last one popped from the list is removed, unless it
\* is the image that is wanted.
Prune(c) ==
  LET files == Cached(c)
      file == files[Len(files) - (CacheLimit - 1)]
  IN IF Len(files) > CacheLimit /\ file # Image THEN [c EXCEPT ![file] = "absent"] ELSE c

\* The pattern ends in $ and is searched in the joined list: only its last file
\* can be found.
InCache(c) == Cached(c) # <<>> /\ Cached(c)[Len(Cached(c))] = Image

ListCache ==
  /\ pc = "list" /\ up
  /\ cache' = Prune(cache)
  /\ Goto(IF InCache(cache') THEN "improv" ELSE "copy")
  /\ UNCHANGED <<meterVars, part, planVars, monitorVars, attempts>>

\* Mutant: the copy goes straight into the cache.
CopyIntoCache ==
  /\ pc = "copy" /\ up
  /\ cache' = [cache EXCEPT ![Image] = "partial"]
  /\ part' = [part EXCEPT ![Image] = "partial"] /\ Goto("copying")
  /\ UNCHANGED <<meterVars, planVars, monitorVars, attempts>>

\* rcp_internal_package, with use_partial.
rcp_internal_package ==
  /\ pc = "copy" /\ up
  /\ part' = [part EXCEPT ![Image] = "partial"] /\ Goto("copying")
  /\ UNCHANGED <<meterVars, cache, planVars, monitorVars, attempts>>

Copied ==
  /\ pc = "copying" /\ up
  /\ part' = [part EXCEPT ![Image] = "whole"] /\ Goto("rename")
  /\ UNCHANGED <<meterVars, cache, planVars, monitorVars, attempts>>

Rename ==
  /\ pc = "rename" /\ up
  /\ cache' = [cache EXCEPT ![Image] = part[Image]]
  /\ part' = [part EXCEPT ![Image] = "absent"] /\ Goto("improv")
  /\ UNCHANGED <<meterVars, planVars, monitorVars, attempts>>

\* start_time is taken before the command; the command may start the task and
\* yet raise, and so may the getfwver after it.
improv ==
  /\ pc = "improv" /\ up
  /\ asked' = Append(asked, Image)
  /\ table' = [i \in DOMAIN table |-> [table[i] EXCEPT !.fresh = FALSE]]
  /\ NewMonitor
  /\ Goto("monitor") \/ Raise
  /\ UNCHANGED <<up, running, outages, fileVars, planVars, attempts>>

\* A command raises: no answer, an error, or the meter is gone.
CommandFails ==
  /\ pc \in {"gmr", "resetting", "tidy", "list", "copy", "copying", "rename", "improv", "login"}
  /\ Raise
  /\ UNCHANGED <<meterVars, fileVars, planVars, monitorVars, attempts>>

-----------------------------------------------------------------------------
(* monitor_task_complete, one iteration per step, and the step after it *)

monitoring == pc = "monitor" /\ ~connected

\* An iteration that failed left its connection; close_channel does not exist.
CloseLeftover ==
  /\ pc = "monitor" /\ connected /\ Raise
  /\ UNCHANGED <<meterVars, fileVars, planVars, monitorVars, attempts>>

\* Out of reach: the meter is down, or one ping of a meter that is up is lost.
MayBeLost == outages < MaxOutages /\ (Pending # {} \/ "early" \in Fault)

PingFails ==
  /\ monitoring
  /\ \/ ~up /\ UNCHANGED outages
     \/ up /\ MayBeLost /\ outages' = outages + 1
  /\ boot_started' = TRUE /\ Goto("waiting")
  /\ UNCHANGED <<up, running, asked, table, fileVars, planVars,
                 found, task_id, retry, connected, late, attempts>>

\* wait_up returns with a login, fails after its own timeout, or meets an
\* exception it does not know (logger.execption does not exist).
wait_up ==
  /\ pc = "waiting"
  /\ \/ up /\ Goto("monitor")
     \/ Raise
  /\ UNCHANGED <<meterVars, fileVars, planVars, monitorVars, attempts>>

\* Mutant: retries are not counted.
RetryForEver == Goto("sleep") /\ UNCHANGED retry

\* Mutant: the count is compared before it is raised.
RetryOnceMore == retry' = retry + 1 /\ IF retry > Retries THEN Raise ELSE Goto("sleep")

Retry == retry' = retry + 1 /\ IF retry' > Retries THEN Raise ELSE Goto("sleep")

LoginFails ==
  /\ monitoring /\ Retry
  /\ UNCHANGED <<meterVars, fileVars, planVars, found, task_id, boot_started,
                 connected, late, attempts>>

\* The socket times out while the table is read: the meter is taken to be down.
ReadTimesOut ==
  /\ monitoring /\ connected' = TRUE /\ boot_started' = TRUE /\ Goto("waiting")
  /\ UNCHANGED <<meterVars, fileVars, planVars, found, task_id, retry, late, attempts>>

\* paramiko's pipe times out: a retry, with the connection left over.
PipeTimesOut ==
  /\ monitoring /\ connected' = TRUE /\ Retry
  /\ UNCHANGED <<meterVars, fileVars, planVars, found, task_id, boot_started,
                 late, attempts>>

\* Any other exception, such as a database that stays locked.
ReadRaises ==
  /\ monitoring /\ Raise
  /\ UNCHANGED <<meterVars, fileVars, planVars, monitorVars, attempts>>

\* A result ends the installation of a package; before an upgrade it must be 0.
Return(code) ==
  IF code = "ok" THEN Goto("login")
  ELSE pc' = "idle" /\ result' = IF Len(plan) = 1 THEN "failed" ELSE "error"

PollAgain == IF late THEN Raise ELSE Goto("sleep")

\* Mutant: the row is taken to be final as soon as it exists.
JudgeAtOnce(i) == Return(IF table[i].code = "failed" THEN "failed" ELSE "ok")

Judge(i) == IF table[i].code = "pending" THEN PollAgain ELSE Return(table[i].code)

\* The last row begun since start_time becomes the task.
Search ==
  IF found \/ Fresh = {} THEN UNCHANGED <<found, task_id>>
  ELSE found' = TRUE /\ task_id' = CHOOSE i \in Fresh : \A j \in Fresh : j <= i

Poll ==
  /\ monitoring /\ up
  /\ \/ found /\ task_id = NoTask /\ Raise /\ UNCHANGED <<found, task_id>>
     \/ /\ ~found \/ task_id # NoTask
        /\ \/ Search /\ found' /\ task_id' <= Len(table) /\ Judge(task_id')
           \/ /\ found /\ task_id > Len(table) /\ UNCHANGED found
              /\ \/ ~boot_started /\ PollAgain /\ UNCHANGED task_id
                 \/ boot_started /\ table # <<>> /\ PollAgain /\ task_id' = NoTask
                 \/ boot_started /\ table = <<>> /\ Return("ok") /\ UNCHANGED task_id
           \/ /\ ~found /\ Fresh = {} /\ UNCHANGED <<found, task_id>>
              /\ IF boot_started THEN Return("ok") ELSE PollAgain
  /\ UNCHANGED <<meterVars, fileVars, planVars, boot_started, retry, connected, late, attempts>>

Wake ==
  /\ pc = "sleep" /\ Goto("monitor")
  /\ UNCHANGED <<meterVars, fileVars, planVars, monitorVars, attempts>>

\* After a result of 0 the meter is logged in to, for the next package if any.
Login ==
  /\ pc = "login" /\ up
  /\ IF Len(plan) = 1 THEN pc' = "idle" /\ result' = "ok" /\ UNCHANGED plan
     ELSE plan' = Tail(plan) /\ Goto("tidy")
  /\ UNCHANGED <<meterVars, fileVars, request, cur, monitorVars, attempts>>

TimePasses ==
  /\ pc \in {"monitor", "waiting", "sleep"} /\ ~late /\ late' = TRUE
  /\ UNCHANGED <<meterVars, fileVars, pc, planVars, found, task_id, boot_started,
                 retry, connected, endVars>>

-----------------------------------------------------------------------------
(* The meter: external *)

installerVars == <<fileVars, pc, planVars, monitorVars, endVars>>

TaskBegins ==
  /\ up /\ asked # <<>> /\ Pending = {}
  /\ table' = Append(table, [image |-> Head(asked), code |-> "pending", fresh |-> TRUE])
  /\ asked' = Tail(asked)
  /\ UNCHANGED <<up, running, outages, installerVars>>

TaskFails(i) ==
  /\ up /\ table' = [table EXCEPT ![i].code = "failed"]
  /\ UNCHANGED <<up, running, asked, outages, installerVars>>

\* An upgrade applies only to the version it is made from.
TaskInstalls(i) ==
  LET row == [table[i] EXCEPT !.code = "ok"]
  IN /\ up /\ row.image.kind = "diff" => running = row.image.from
     /\ running' = row.image.to /\ up' = FALSE
     /\ table' \in {[table EXCEPT ![i] = row]}
                     \cup IF row.image.kind = "diff" THEN {} ELSE {<<>>, <<row>>}
     /\ UNCHANGED <<asked, outages, installerVars>>

Reboot ==
  /\ up /\ MayBeLost
  /\ up' = FALSE /\ outages' = outages + 1
  /\ UNCHANGED <<running, asked, table, installerVars>>

Boot ==
  /\ ~up /\ up' = TRUE
  /\ UNCHANGED <<running, asked, table, outages, installerVars>>

-----------------------------------------------------------------------------

Progress == gmr \/ wait_reconnect \/ Choose \/ RemoveParts \/ ListCache
              \/ rcp_internal_package \/ Copied \/ Rename \/ improv
              \/ CloseLeftover \/ PingFails \/ wait_up \/ Poll \/ Wake \/ Login

Failure == CommandFails \/ LoginFails \/ ReadTimesOut \/ PipeTimesOut \/ ReadRaises

Next ==
  \/ \E v \in Version : coldstart(v)
  \/ Progress \/ Failure \/ TimePasses
  \/ TaskBegins \/ \E i \in Pending : TaskFails(i) \/ TaskInstalls(i)
  \/ Reboot \/ Boot

\* The installer goes on, time passes, and a meter comes up again.  No failure
\* has to happen, tasks need not end, and no test has to call coldstart.
Fairness == WF_vars(Progress) /\ WF_vars(TimePasses) /\ WF_vars(Boot)

Spec == Init /\ [][Next]_vars /\ Fairness

-----------------------------------------------------------------------------
(* Properties *)

\* The variables keep their types: one unfinished task at most, and never more
\* than one retry beyond the limit.
TypeOK ==
  /\ up \in BOOLEAN /\ running \in Version /\ asked \in Seq(Package)
  /\ table \in Seq(Entry) /\ Cardinality(Pending) <= 1 /\ outages \in 0..MaxOutages
  /\ cache \in [Package -> FileState] /\ part \in [Package -> FileState]
  /\ pc \in {"idle", "gmr", "resetting", "choose", "tidy", "list", "copy", "copying",
             "rename", "improv", "monitor", "waiting", "sleep", "login"}
  /\ request \in Version /\ cur \in Version /\ plan \in Seq(Package) /\ Len(plan) <= 2
  /\ found \in BOOLEAN /\ task_id \in Nat /\ boot_started \in BOOLEAN
  /\ retry \in 0..(Retries + 1) /\ connected \in BOOLEAN /\ late \in BOOLEAN
  /\ result \in {"none", "ok", "failed", "error"} /\ attempts \in 0..MaxAttempts

\* When coldstart returns 0, the meter runs the build that was asked for,
\* whatever reboots, lost pings, failed tasks and an emptied table came between
\* (SSHGen5Meter.coldstart: "install the coldstart image specified").
ZeroMeansInstalled == result = "ok" => running \in get_build(request)

\* An image that is listed in the cache is complete, although a copy can break
\* anywhere and the next coldstart trusts the list (update_image_cache, .part).
CacheWhole == \A p \in Package : cache[p] # "partial"

\* An upgrade package is handed to ImProv only on the build it was made from,
\* across the reboots of the installation before it (upgrade, to_ver # cur_ver).
UpgradeOnItsBase ==
  [][\A p \in Package : asked' = Append(asked, p) /\ p.kind = "diff" => running = p.from]_vars

\* The downgrade package is used exactly for older firmware, as far as the
\* compared numbers are written with equally many digits (compare_versions).
DowngradeIffOlder ==
  [][pc = "choose" /\ pc' = "tidy" =>
       LET cold == plan'[Len(plan')]
           older == \/ new_ver[1] < cur[1]
                    \/ new_ver[1] = cur[1] /\ new_ver[2] < cur[2]
           sameWidth == \A k \in 1..2 : Len(Digits[new_ver[k]]) = Len(Digits[cur[k]])
       IN sameWidth => (cold.kind = "down" <=> older)]_vars

\* Every coldstart comes to an end, also when the task never does, the meter
\* reboots, or connections fail (the retries and the timeout of the monitor).
InstallEnds == pc # "idle" ~> pc = "idle"
=============================================================================
