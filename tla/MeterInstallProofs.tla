------------------------- MODULE MeterInstallProofs -------------------------
(* Proofs about MeterInstall, for any packages, faults and numbers of attempts. *)
EXTENDS MeterInstall, SequenceTheorems, FiniteSetTheorems, WellFoundedInduction, TLAPS

Installing == {"tidy", "list", "copy", "copying", "rename", "improv",
               "monitor", "waiting", "sleep", "login"}

\* CacheWhole is not inductive: what Rename moves into the cache must have been
\* copied to its end, and that depends on where the installer is in its plan.
FileInv ==
  /\ cache \in [Package -> FileState] /\ part \in [Package -> FileState]
  /\ plan \in Seq(Package)
  /\ pc \in Installing => plan # <<>>
  /\ pc = "rename" => part[Image] = "whole"
  /\ CacheWhole

\* A step that leaves files and plan alone and does not lead to Rename.
Aside ==
  /\ UNCHANGED <<cache, part, plan>>
  /\ pc' # "rename" \/ pc' = pc
  /\ pc' \in Installing => pc \in Installing

\* What coldstart_auto decides to install: one package of the new version, which
\* if it is an upgrade upgrades the version that runs; or a coldstart of the build
\* an upgrade is made from, and then this upgrade (coldstart_auto, upgrade).
Fits(p) == p \in Package /\ p.to = new_ver
Alone(p) == Fits(p) /\ (p.kind = "diff" => p.from = cur)
Together(c, p) ==
  Fits(p) /\ c \in Package /\ c.kind = "cold" /\ c.to \in get_build(p.from)

LEMMA PlanShapes ==
  \A s \in Plans : \/ \E p \in Package : s = <<p>> /\ Alone(p)
                   \/ \E c, p \in Package : s = <<c, p>> /\ Together(c, p)
<1>1. \A v, k : \A p \in Offered(v, k) : p \in Package /\ p.to = v /\ p.kind = k
  BY DEF Offered
<1>2. \A p \in UpgradeFrom(new_ver, cur) : Fits(p)
  BY <1>1 DEF UpgradeFrom, Fits
<1>3. \A s \in upgrade : \/ \E p \in Package : s = <<p>> /\ Alone(p)
                         \/ \E c, p \in Package : s = <<c, p>> /\ Together(c, p)
  <2> SUFFICES ASSUME NEW s \in upgrade
               PROVE  \/ \E p \in Package : s = <<p>> /\ Alone(p)
                      \/ \E c, p \in Package : s = <<c, p>> /\ Together(c, p)
    OBVIOUS
  <2>1. CASE \E p \in {q \in UpgradeFrom(new_ver, cur) : q.from = cur} : s = <<p>>
    BY <1>2, <2>1 DEF Alone, Fits
  <2>2. CASE \E p \in UpgradeFrom(new_ver, cur) :
               \E c \in UNION {Offered(b, "cold") : b \in get_build(p.from)} : s = <<c, p>>
    <3>1. PICK p \in UpgradeFrom(new_ver, cur) :
            \E c \in UNION {Offered(b, "cold") : b \in get_build(p.from)} : s = <<c, p>>
      BY <2>2
    <3>2. PICK c \in UNION {Offered(b, "cold") : b \in get_build(p.from)} : s = <<c, p>>
      BY <3>1
    <3>3. PICK b \in get_build(p.from) : c \in Offered(b, "cold")
      BY <3>2
    <3>4. Together(c, p) /\ p \in Package
      BY <1>1, <1>2, <3>3 DEF Together, Fits
    <3> QED BY <3>2, <3>4 DEF Together
  <2> QED BY <2>1, <2>2 DEF upgrade
<1>4. \A k \in {"cold", "down"} : \A s \in {<<p>> : p \in Offered(new_ver, k)} :
        \E p \in Package : s = <<p>> /\ Alone(p)
  BY <1>1 DEF Alone, Fits
<1>5. \A s \in Plans : \/ s \in upgrade
                       \/ s \in {<<p>> : p \in Offered(new_ver, "cold")}
                       \/ s \in {<<p>> : p \in Offered(new_ver, "down")}
  BY Zenon DEF Plans
<1> QED BY <1>3, <1>4, <1>5

LEMMA PlansAreSequences ==
  \A p \in Plans : p \in Seq(Package) /\ p # <<>> /\ Len(p) <= 2
<1>3. \A p \in Package : <<p>> \in Seq(Package) /\ <<p>> # <<>> /\ Len(<<p>>) = 1
  OBVIOUS
<1>4. \A p, q \in Package : <<p, q>> \in Seq(Package) /\ <<p, q>> # <<>> /\ Len(<<p, q>>) = 2
  OBVIOUS
<1>7. \A s \in Plans : s \in Seq(Package) /\ s # <<>> /\ (Len(s) = 1 \/ Len(s) = 2)
  BY <1>3, <1>4, PlanShapes, Zenon
<1>8. \A n : n = 1 \/ n = 2 => n <= 2
  OBVIOUS
<1> QED BY <1>7, <1>8, Zenon

LEMMA AsideKeeps == FileInv /\ Aside => FileInv'
BY DEF FileInv, Aside, CacheWhole, Image

\* FileInv holds at the start and is kept by every step of installer and meter.
LEMMA InitFiles == Init => FileInv
<1> SUFFICES ASSUME Init PROVE FileInv
  OBVIOUS
<1>1. PICK files \in Leftover :
        cache = [p \in Package |-> IF p \in files THEN "whole" ELSE "absent"]
  BY DEF Init
<1> QED BY <1>1 DEF Init, FileInv, CacheWhole, FileState, Installing

LEMMA NextFiles == FileInv /\ [Next]_vars => FileInv'
<1> SUFFICES ASSUME FileInv, [Next]_vars PROVE FileInv'
  OBVIOUS
<1> USE DEF FileInv, FileState, Installing, Goto, Raise, Image
<1>1. CASE Choose
  <2>1. plan' \in Seq(Package) /\ (pc' \in Installing => plan' # <<>>)
    <3>1. CASE \E p \in Plans : plan' = p
      BY <3>1, PlansAreSequences
    <3>2. CASE pc' = "idle" /\ UNCHANGED plan
      BY <3>2
    <3> QED BY <1>1, <3>1, <3>2 DEF Choose
  <2> QED BY <1>1, <2>1 DEF Choose, fileVars, CacheWhole
<1>2. CASE RemoveParts
  BY <1>2 DEF RemoveParts, planVars, CacheWhole
<1>3. CASE ListCache
  <2>1. cache' \in [Package -> FileState] /\ CacheWhole'
    <3> DEFINE file == Cached(cache)[Len(Cached(cache)) - (CacheLimit - 1)]
    <3>1. cache' = cache \/ cache' = [cache EXCEPT ![file] = "absent"]
      BY <1>3 DEF ListCache, Prune
    <3> HIDE DEF file
    <3> QED BY <3>1 DEF CacheWhole
  <2> QED BY <1>3, <2>1 DEF ListCache, planVars
<1>4. CASE rcp_internal_package
  BY <1>4 DEF rcp_internal_package, planVars, CacheWhole
<1>5. CASE Copied
  <2>1. Head(plan) \in Package
    BY <1>5 DEF Copied
  <2> QED BY <1>5, <2>1 DEF Copied, planVars, CacheWhole
<1>6. CASE Rename
  BY <1>6 DEF Rename, planVars, CacheWhole
<1>7. CASE Login
  <2>1. plan' \in Seq(Package) /\ (pc' \in Installing => plan' # <<>>)
    <3>1. CASE Len(plan) = 1
      BY <1>7, <3>1 DEF Login
    <3>2. CASE Len(plan) # 1
      <4>1. plan \in Seq(Package) /\ plan # <<>> /\ plan' = Tail(plan)
        BY <1>7, <3>2 DEF Login
      <4>2. Len(plan) \in Nat /\ Len(plan) # 0
        BY <4>1
      <4>3. plan' \in Seq(Package) /\ Len(plan') = Len(plan) - 1
        BY <4>1, HeadTailProperties
      <4> QED BY <3>2, <4>2, <4>3
    <3> QED BY <3>1, <3>2
  <2> QED BY <1>7, <2>1 DEF Login, fileVars, CacheWhole
<1>8. CASE gmr \/ wait_reconnect \/ improv \/ CloseLeftover \/ PingFails \/ wait_up
             \/ Wake \/ Failure \/ TimePasses
  <2>1. Aside
    BY <1>8 DEF Aside, gmr, wait_reconnect, improv, CloseLeftover, PingFails, wait_up, Wake,
         Failure, CommandFails, LoginFails, ReadTimesOut, PipeTimesOut, ReadRaises, Retry,
         TimePasses, monitoring, fileVars, planVars, endVars
  <2> QED BY <2>1, AsideKeeps
<1>9. CASE Poll
  <2>1. pc \in Installing /\ pc' # "rename"
    BY <1>9 DEF Poll, monitoring, Judge, PollAgain, Return
  <2>2. Aside
    BY <1>9, <2>1 DEF Aside, Poll, fileVars, planVars
  <2> QED BY <2>2, AsideKeeps
<1>10. CASE TaskBegins \/ Reboot \/ Boot \/ \E i \in Pending : TaskFails(i) \/ TaskInstalls(i)
  <2>1. UNCHANGED installerVars
    BY <1>10 DEF TaskBegins, Reboot, Boot, TaskFails, TaskInstalls
  <2>2. Aside
    BY <2>1 DEF Aside, installerVars, fileVars, planVars
  <2> QED BY <2>2, AsideKeeps
<1>11. CASE \E v \in Version : coldstart(v)
  <2>1. plan' = <<>> /\ pc' \in {"idle", "gmr", "choose"} /\ UNCHANGED <<cache, part>>
    BY <1>11 DEF coldstart, fileVars
  <2>2. plan' \in Seq(Package)
    BY <2>1
  <2> QED BY <2>1, <2>2 DEF CacheWhole
<1>12. CASE UNCHANGED vars
  <2>1. Aside
    BY <1>12 DEF Aside, vars, fileVars, planVars
  <2> QED BY <2>1, AsideKeeps
<1> QED
  BY <1>1, <1>2, <1>3, <1>4, <1>5, <1>6, <1>7, <1>8, <1>9, <1>10, <1>11, <1>12
  DEF Next, Progress

\* An image listed in the cache of a meter is complete, for any packages, limits,
\* outages and failing commands (update_image_cache, rcp_internal_package).
THEOREM CacheIsWhole == Spec => []CacheWhole
<1>1. FileInv => CacheWhole
  BY DEF FileInv
<1> QED BY InitFiles, NextFiles, <1>1, PTL DEF Spec

-----------------------------------------------------------------------------
(* Types *)

Watching == {"monitor", "waiting", "sleep"}

\* The table of the meter has one unfinished task at most, and what has begun
\* since start_time stands at its end: Search finds the last row.
MeterTypes ==
  /\ up \in BOOLEAN /\ running \in Version /\ asked \in Seq(Package)
  /\ table \in Seq(Entry) /\ outages \in 0..MaxOutages
  /\ \A i, j \in Pending : i = j
  /\ Fresh # {} => Len(table) \in Fresh

\* While the monitor goes on, its retries are not used up.
InstallerTypes ==
  /\ pc \in Installing \cup {"idle", "gmr", "resetting", "choose"}
  /\ request \in Version /\ cur \in Version /\ Len(plan) <= 2
  /\ found \in BOOLEAN /\ task_id \in Nat /\ boot_started \in BOOLEAN
  /\ retry \in 0..(Retries + 1) /\ connected \in BOOLEAN /\ late \in BOOLEAN
  /\ result \in {"none", "ok", "failed", "error"} /\ attempts \in 0..MaxAttempts
  /\ pc \in Watching => retry <= Retries

LEMMA Versions ==
  /\ \A p \in Package : p.from \in Version /\ p.to \in Version
                        /\ p.kind \in {"cold", "down", "diff"}
  /\ Listing[1] \in Package
<1>1. Listing \in Seq(Package) /\ Listing # <<>>
  BY ListingAssumption
<1>2. 1 \in DOMAIN Listing
  BY <1>1, LenProperties, EmptySeq
<1> QED BY <1>1, <1>2, PackageAssumption DEF Package

\* The installer's image is a package while it installs one.
LEMMA ImageIsPackage == FileInv /\ pc \in Installing => Image \in Package
BY DEF FileInv, Image

LEMMA InitTypes == Init => MeterTypes /\ InstallerTypes
<1> SUFFICES ASSUME Init PROVE MeterTypes /\ InstallerTypes
  OBVIOUS
<1>1. table = <<>> \/ table = <<[image |-> Listing[1], code |-> "ok", fresh |-> FALSE]>>
  BY DEF Init
<1>2. /\ table \in Seq(Entry)
      /\ \A i \in DOMAIN table : table[i].code = "ok" /\ ~table[i].fresh
  <2>1. [image |-> Listing[1], code |-> "ok", fresh |-> FALSE] \in Entry
    BY Versions DEF Entry
  <2>2. CASE table = <<>>
    BY <2>2
  <2>3. CASE table = <<[image |-> Listing[1], code |-> "ok", fresh |-> FALSE]>>
    BY <2>1, <2>3
  <2> QED BY <1>1, <2>2, <2>3
<1>3. Pending = {} /\ Fresh = {}
  BY <1>2 DEF Pending, Fresh
<1>4. asked = <<>> /\ asked \in Seq(Package)
  BY DEF Init
<1>5. MeterTypes
  BY <1>2, <1>3, <1>4, BoundsAssumption DEF Init, MeterTypes
<1>6. InstallerTypes
  <2>1. Len(plan) = 0 /\ pc = "idle" /\ retry = 0 /\ attempts = 0 /\ task_id = 0
    BY DEF Init, NoTask
  <2>2. retry \in 0..(Retries + 1) /\ attempts \in 0..MaxAttempts
    BY <2>1, BoundsAssumption, InstallRetriesAssumption
  <2>3. Len(plan) <= 2
    BY <2>1
  <2>4. pc \notin Watching /\ pc \in Installing \cup {"idle", "gmr", "resetting", "choose"}
    BY <2>1 DEF Watching
  <2>5. /\ request \in Version /\ cur \in Version /\ result = "none"
        /\ found = FALSE /\ boot_started = FALSE /\ connected = FALSE /\ late = FALSE
    BY DEF Init
  <2> QED BY <2>1, <2>2, <2>3, <2>4, <2>5, Zenon DEF InstallerTypes
<1> QED BY <1>5, <1>6

\* Every step keeps the types of what belongs to the meter.
LEMMA NextMeterTypes == MeterTypes /\ FileInv /\ [Next]_vars => MeterTypes'
<1> SUFFICES ASSUME MeterTypes, FileInv, [Next]_vars PROVE MeterTypes'
  OBVIOUS
<1>a. /\ DOMAIN table = 1..Len(table) /\ Len(table) \in Nat
      /\ \A i \in DOMAIN table : table[i] \in Entry
  BY LenProperties, ElementOfSeq DEF MeterTypes
<1>1. CASE gmr \/ Reboot \/ Boot \/ PingFails
  <2>1. up' \in BOOLEAN /\ outages' \in 0..MaxOutages /\ UNCHANGED <<running, asked, table>>
    <3>1. outages' = outages \/ (outages < MaxOutages /\ outages' = outages + 1)
      <4>1. gmr => outages' = outages
        BY DEF gmr
      <4>2. Reboot => outages < MaxOutages /\ outages' = outages + 1
        BY DEF Reboot, MayBeLost
      <4>3. Boot => outages' = outages
        BY DEF Boot
      <4>4. PingFails => outages' = outages \/ (outages < MaxOutages /\ outages' = outages + 1)
        BY DEF PingFails, MayBeLost
      <4> QED BY <1>1, <4>1, <4>2, <4>3, <4>4
    <3>2. outages' \in 0..MaxOutages
      BY <3>1, BoundsAssumption DEF MeterTypes
    <3> QED BY <1>1, <3>2 DEF gmr, Reboot, Boot, PingFails, MeterTypes
  <2> QED BY <2>1 DEF MeterTypes, Pending, Fresh
<1>2. CASE improv
  <2>1. Image \in Package
    BY <1>2, ImageIsPackage DEF improv, Installing
  <2>2. asked' \in Seq(Package)
    BY <1>2, <2>1, AppendProperties DEF improv, MeterTypes
  <2>3. /\ table' \in Seq(Entry) /\ DOMAIN table' = DOMAIN table
        /\ \A i \in DOMAIN table : table'[i].code = table[i].code /\ ~table'[i].fresh
    <3> DEFINE e(i) == [table[i] EXCEPT !.fresh = FALSE]
    <3>1. \A i \in 1..Len(table) : e(i) \in Entry /\ e(i).code = table[i].code /\ ~e(i).fresh
      BY <1>a DEF Entry
    <3>2. table' = [i \in 1..Len(table) |-> e(i)]
      BY <1>2, <1>a DEF improv
    <3> HIDE DEF e
    <3> QED BY <1>a, <3>1, <3>2, IsASeq
  <2>4. Pending' = Pending /\ Fresh' = {}
    BY <2>3 DEF Pending, Fresh
  <2> QED BY <1>2, <2>2, <2>3, <2>4 DEF improv, MeterTypes
<1>3. CASE TaskBegins
  <2> DEFINE row == [image |-> Head(asked), code |-> "pending", fresh |-> TRUE]
  <2>1. row \in Entry /\ asked' \in Seq(Package)
    BY <1>3, HeadTailProperties DEF TaskBegins, MeterTypes, Entry
  <2>2. /\ table' \in Seq(Entry) /\ Len(table') = Len(table) + 1
        /\ \A i \in 1..Len(table) : table'[i] = table[i]
        /\ table'[Len(table) + 1] = row
    BY <1>3, <2>1, AppendProperties DEF TaskBegins, MeterTypes
  <2>3. DOMAIN table' = 1..(Len(table) + 1)
    BY <2>2, LenProperties
  <2>4. \A i \in Pending' : i = Len(table) + 1
    BY <1>3, <1>a, <2>2, <2>3 DEF TaskBegins, Pending
  <2>5. Len(table') \in Fresh'
    BY <1>a, <2>2, <2>3 DEF Fresh
  <2> QED BY <1>3, <2>1, <2>2, <2>4, <2>5 DEF TaskBegins, MeterTypes
<1>4. ASSUME NEW i \in Pending, TaskFails(i) PROVE MeterTypes'
  <2>1. /\ table' \in Seq(Entry) /\ Len(table') = Len(table) /\ DOMAIN table' = DOMAIN table
        /\ \A j \in DOMAIN table : table'[j].fresh = table[j].fresh
                                   /\ (table'[j].code = "pending" => table[j].code = "pending")
    <3>1. i \in 1..Len(table) /\ [table[i] EXCEPT !.code = "failed"] \in Entry
      BY <1>a DEF Pending, Entry
    <3>2. table' = [table EXCEPT ![i] = [table[i] EXCEPT !.code = "failed"]]
      BY <1>4 DEF TaskFails
    <3> QED BY <1>a, <3>1, <3>2, ExceptSeq DEF MeterTypes, Entry
  <2>2. Pending' \subseteq Pending /\ Fresh' = Fresh
    BY <2>1 DEF Pending, Fresh
  <2> QED BY <1>4, <2>1, <2>2 DEF TaskFails, MeterTypes
<1>5. ASSUME NEW i \in Pending, TaskInstalls(i) PROVE MeterTypes'
  <2> DEFINE row == [table[i] EXCEPT !.code = "ok"]
  <2>1. i \in 1..Len(table) /\ row \in Entry /\ row.code = "ok" /\ row.fresh = table[i].fresh
        /\ row.image \in Package
    BY <1>a DEF Pending, Entry
  <2>2. running' \in Version
    BY <1>5, <2>1, Versions DEF TaskInstalls
  <2>3. CASE table' = [table EXCEPT ![i] = row]
    <3>1. /\ table' \in Seq(Entry) /\ Len(table') = Len(table) /\ DOMAIN table' = DOMAIN table
          /\ \A j \in DOMAIN table : table'[j].fresh = table[j].fresh
                                   /\ (table'[j].code = "pending" => table[j].code = "pending")
      <4> HIDE DEF row
      <4> QED BY <1>a, <2>1, <2>3, ExceptSeq DEF MeterTypes
    <3>2. Pending' \subseteq Pending /\ Fresh' = Fresh
      BY <3>1 DEF Pending, Fresh
    <3> QED BY <1>5, <2>2, <3>1, <3>2 DEF TaskInstalls, MeterTypes
  <2>4. CASE table' = <<>>
    <3>1. Pending' = {} /\ Fresh' = {} /\ table' \in Seq(Entry)
      BY <2>4 DEF Pending, Fresh
    <3> QED BY <1>5, <2>2, <3>1 DEF TaskInstalls, MeterTypes
  <2>5. CASE table' = <<row>>
    <3>1. /\ table' \in Seq(Entry) /\ Len(table') = 1 /\ DOMAIN table' = {1}
          /\ table'[1] = row
      <4> HIDE DEF row
      <4> QED BY <2>1, <2>5
    <3>2. Pending' = {} /\ (Fresh' # {} => Len(table') \in Fresh')
      <4>1. table'[1].code # "pending"
        BY <2>1, <3>1
      <4> QED BY <3>1, <4>1 DEF Pending, Fresh
    <3> QED BY <1>5, <2>2, <3>1, <3>2 DEF TaskInstalls, MeterTypes
  <2> QED BY <1>5, <2>3, <2>4, <2>5 DEF TaskInstalls
<1>6. CASE UNCHANGED meterVars
  BY <1>6 DEF meterVars, MeterTypes, Pending, Fresh
<1>7. (\/ wait_reconnect \/ Choose \/ RemoveParts \/ ListCache \/ rcp_internal_package
       \/ Copied \/ Rename \/ CloseLeftover \/ wait_up \/ Poll \/ Wake \/ Login
       \/ Failure \/ TimePasses \/ (\E v \in Version : coldstart(v)) \/ UNCHANGED vars)
      => UNCHANGED meterVars
  BY DEF wait_reconnect, Choose, RemoveParts, ListCache, rcp_internal_package, Copied,
         Rename, CloseLeftover, wait_up, Poll, Wake, Login, Failure, CommandFails,
         LoginFails, ReadTimesOut, PipeTimesOut, ReadRaises, TimePasses, coldstart, vars
<1> QED
  BY <1>1, <1>2, <1>3, <1>4, <1>5, <1>6, <1>7 DEF Next, Progress

\* Judge and PollAgain end the installation or go on with what the monitor has.
LEMMA PollResult ==
  ASSUME Poll
  PROVE  /\ pc = "monitor"
         /\ pc' \in {"idle", "sleep", "login"}
         /\ result' \in {result, "failed", "error"}
<1>1. pc = "monitor"
  BY DEF Poll, monitoring
<1>2. \A i : Judge(i) => /\ pc' \in {"idle", "sleep", "login"}
                          /\ result' \in {result, "failed", "error"}
  BY DEF Judge, Return, PollAgain, Goto, Raise
<1>3. Return("ok") \/ PollAgain \/ Raise => /\ pc' \in {"idle", "sleep", "login"}
                                            /\ result' \in {result, "failed", "error"}
  BY DEF Return, PollAgain, Goto, Raise
<1> QED BY <1>1, <1>2, <1>3, Zenon DEF Poll

\* The task that is found is the last row of the table: it was begun last.
LEMMA SearchFinds ==
  ASSUME MeterTypes, Search
  PROVE  \/ UNCHANGED <<found, task_id>>
         \/ ~found /\ found' = TRUE /\ Fresh # {} /\ task_id' = Len(table)
<1> SUFFICES ASSUME ~(found \/ Fresh = {})
             PROVE  found' = TRUE /\ task_id' = Len(table)
  BY DEF Search
<1>1. Len(table) \in Fresh /\ Fresh \subseteq 1..Len(table)
  BY LenProperties DEF MeterTypes, Fresh
<1> DEFINE Last(i) == \A j \in Fresh : j <= i
<1>2. Last(Len(table)) /\ \A i \in Fresh : Last(i) => i = Len(table)
  BY <1>1, LenProperties DEF MeterTypes
<1>3. (CHOOSE i \in Fresh : Last(i)) = Len(table)
  <2> HIDE DEF Last
  <2> QED BY <1>1, <1>2
<1> QED BY <1>3 DEF Search

\* A monitor that starts has the types of one that runs.
NewTypes ==
  /\ found' \in BOOLEAN /\ task_id' \in Nat /\ boot_started' \in BOOLEAN
  /\ retry' \in 0..(Retries + 1) /\ retry' <= Retries
  /\ connected' \in BOOLEAN /\ late' \in BOOLEAN

LEMMA NewMonitorTypes == NewMonitor => NewTypes
<1> SUFFICES ASSUME NewMonitor PROVE NewTypes
  OBVIOUS
<1>1. retry' \in 0..(Retries + 1) /\ retry' <= Retries /\ task_id' \in Nat
  BY InstallRetriesAssumption DEF NewMonitor, NoTask
<1> QED BY <1>1, Zenon DEF NewMonitor, NewTypes

\* Every step keeps the types of what belongs to the installer.
LEMMA NextInstallerTypes ==
  InstallerTypes /\ MeterTypes /\ FileInv /\ [Next]_vars => InstallerTypes'
<1> SUFFICES ASSUME InstallerTypes, MeterTypes, FileInv, [Next]_vars PROVE InstallerTypes'
  OBVIOUS
<1> USE DEF InstallerTypes, Installing, Watching, Goto, Raise
<1>1. CASE Choose
  <2>1. Len(plan') <= 2
    BY <1>1, PlansAreSequences DEF Choose
  <2>2. pc' \in {"tidy", "idle"} /\ result' \in {result, "error"}
    BY <1>1 DEF Choose
  <2> QED BY <1>1, <2>1, <2>2 DEF Choose, monitorVars
<1>2. CASE Login
  <2>1. Len(plan') <= 2
    BY <1>2, HeadTailProperties, LenProperties, EmptySeq DEF Login, FileInv
  <2>2. pc' \in {"tidy", "idle"} /\ result' \in {result, "ok"}
    BY <1>2 DEF Login
  <2> QED BY <1>2, <2>1, <2>2 DEF Login, monitorVars
<1>3. CASE improv
  <2>1. pc' \in {"monitor", "idle"} /\ result' \in {result, "error"}
    BY <1>3 DEF improv
  <2>2. NewTypes
    BY <1>3, NewMonitorTypes DEF improv
  <2>3. UNCHANGED <<planVars, attempts>>
    BY <1>3 DEF improv
  <2> QED BY <2>1, <2>2, <2>3 DEF planVars, NewTypes
<1>4. ASSUME NEW v \in Version, coldstart(v) PROVE InstallerTypes'
  <2>1. pc' \in {"gmr", "choose", "idle"} /\ result' \in {"none", "error"}
    BY <1>4 DEF coldstart
  <2>2. NewTypes
    BY <1>4, NewMonitorTypes DEF coldstart
  <2>3. Len(plan') = 0 /\ request' \in Version /\ cur' \in Version
    BY <1>4 DEF coldstart, MeterTypes
  <2>4. attempts' \in 0..MaxAttempts
    BY <1>4, BoundsAssumption DEF coldstart
  <2> QED BY <2>1, <2>2, <2>3, <2>4 DEF NewTypes
<1>5. CASE LoginFails \/ PipeTimesOut
  <2>1. pc = "monitor" /\ retry' = retry + 1
    BY <1>5 DEF LoginFails, PipeTimesOut, monitoring, Retry
  <2>2. \/ pc' = "idle" /\ result' = "error"
        \/ pc' = "sleep" /\ result' = result /\ retry' <= Retries
    BY <1>5, <2>1, InstallRetriesAssumption DEF LoginFails, PipeTimesOut, Retry
  <2>3. retry' \in 0..(Retries + 1)
    BY <2>1, InstallRetriesAssumption
  <2>4. connected' \in BOOLEAN /\ UNCHANGED <<planVars, found, task_id, boot_started, late, attempts>>
    BY <1>5 DEF LoginFails, PipeTimesOut
  <2> QED BY <2>2, <2>3, <2>4 DEF planVars
<1>6. CASE Poll
  <2>1. found' \in BOOLEAN /\ task_id' \in Nat
    <3>1. UNCHANGED <<found, task_id>> => found' \in BOOLEAN /\ task_id' \in Nat
      OBVIOUS
    <3>2. Search => found' \in BOOLEAN /\ task_id' \in Nat
      BY <3>1, SearchFinds, LenProperties DEF MeterTypes
    <3>3. \/ UNCHANGED <<found, task_id>> \/ Search
          \/ UNCHANGED found /\ task_id' \in {task_id, NoTask}
      BY <1>6 DEF Poll
    <3> QED BY <3>1, <3>2, <3>3 DEF NoTask
  <2> QED BY <1>6, <2>1, PollResult DEF Poll, planVars
<1>7. CASE gmr \/ wait_reconnect \/ RemoveParts \/ ListCache \/ rcp_internal_package
           \/ Copied \/ Rename \/ CloseLeftover \/ wait_up \/ Wake
           \/ CommandFails \/ ReadRaises
  <2>1. /\ UNCHANGED <<planVars, monitorVars, attempts>>
        /\ pc' \in Installing \cup {"idle", "gmr", "resetting", "choose"}
        /\ result' \in {result, "error"}
        /\ pc' \in Watching => pc \in Watching
    BY <1>7 DEF gmr, wait_reconnect, RemoveParts, ListCache, rcp_internal_package,
         Copied, Rename, CloseLeftover, wait_up, Wake, CommandFails, ReadRaises, monitoring
  <2> QED BY <2>1 DEF planVars, monitorVars
<1>8. CASE PingFails \/ ReadTimesOut \/ TimePasses
  <2>1. /\ UNCHANGED <<planVars, found, task_id, retry, attempts, result>>
        /\ pc \in Watching /\ pc' \in {pc, "waiting"}
        /\ connected' \in BOOLEAN /\ boot_started' \in BOOLEAN /\ late' \in BOOLEAN
    BY <1>8 DEF PingFails, ReadTimesOut, TimePasses, monitoring, endVars
  <2> QED BY <2>1 DEF planVars
<1>9. CASE TaskBegins \/ Reboot \/ Boot \/ \E i \in Pending : TaskFails(i) \/ TaskInstalls(i)
  <2>1. UNCHANGED installerVars
    BY <1>9 DEF TaskBegins, Reboot, Boot, TaskFails, TaskInstalls
  <2> QED BY <2>1 DEF installerVars, planVars, monitorVars, endVars
<1>10. CASE UNCHANGED vars
  BY <1>10 DEF vars, planVars, monitorVars, endVars
<1> QED
  BY <1>1, <1>2, <1>3, <1>4, <1>5, <1>6, <1>7, <1>8, <1>9, <1>10 DEF Next, Progress, Failure

TypeInv == FileInv /\ MeterTypes /\ InstallerTypes

LEMMA TypesKept == Spec => []TypeInv
<1>1. Init => TypeInv
  BY InitFiles, InitTypes DEF TypeInv
<1>2. TypeInv /\ [Next]_vars => TypeInv'
  BY NextFiles, NextMeterTypes, NextInstallerTypes DEF TypeInv
<1> QED BY <1>1, <1>2, PTL DEF Spec

\* The variables keep their types, with one unfinished task at most and one retry
\* too many at most, for any packages and faults (monitor_task_complete, upgrade).
THEOREM InstallTypes == Spec => []TypeOK
<1>1. TypeInv => TypeOK
  <2> SUFFICES ASSUME TypeInv PROVE TypeOK
    OBVIOUS
  <2>1. Cardinality(Pending) <= 1
    <3>1. CASE Pending = {}
      BY <3>1, FS_EmptySet
    <3>2. CASE Pending # {}
      <4>1. PICK i \in Pending : TRUE
        BY <3>2
      <4>2. Pending = {i}
        BY <4>1 DEF TypeInv, MeterTypes
      <4>3. Cardinality({i}) = 1
        BY FS_Singleton, Zenon
      <4> QED BY <4>2, <4>3
    <3> QED BY <3>1, <3>2
  <2> QED BY <2>1, Zenon DEF TypeInv, FileInv, MeterTypes, InstallerTypes, TypeOK, Installing
<1> QED BY TypesKept, <1>1, PTL

-----------------------------------------------------------------------------
(* A result of 0 *)

Preparing == {"tidy", "list", "copy", "copying", "rename", "improv"}
Starting == {"gmr", "resetting", "choose"}

\* The last package of a plan brings the build that is asked for, and a package
\* before it the build the last one upgrades.
PlanInv ==
  pc \in Installing =>
    /\ plan[Len(plan)].to \in get_build(request)
    /\ Len(plan) = 2 => plan[1].kind = "cold" /\ plan[1].to \in get_build(plan[2].from)

\* What has become of the task that improv has started.  Before it begins, the
\* monitor may not take the meter to be down and go on to look at the table.
Newest == Len(table)
Asked == /\ asked = <<Image>> /\ Pending = {} /\ Fresh = {} /\ up
         /\ ~found /\ (boot_started => connected)
Underway == asked = <<>> /\ Fresh = {Newest} /\ (found => task_id = Newest)
Begun == Underway /\ Pending = {Newest} /\ table[Newest].image = Image
Failed == Underway /\ Pending = {} /\ table[Newest].code = "failed"
Installed == Quiet /\ running = Image.to

\* While the installer works, nobody else has a task at the meter.
ProgressInv ==
  /\ pc # "idle" => result = "none" /\ get_build(request) # {}
  /\ result = "ok" => Quiet /\ running \in get_build(request)
  /\ pc \in Starting => Quiet /\ running = cur
  /\ pc \in Preparing => Quiet
  /\ pc = "login" => Installed
  /\ pc \in Watching => Asked \/ Begun \/ Failed \/ Installed

InstallInv == TypeInv /\ PlanInv /\ ProgressInv

\* No test calls coldstart while a task it has given up goes on, and the meter can
\* be reached until the task begins.
NoFault == "early" \notin Fault /\ "overlap" \notin Fault

LEMMA InitInstall == Init => PlanInv /\ ProgressInv
<1> SUFFICES ASSUME Init PROVE PlanInv /\ ProgressInv
  OBVIOUS
<1>1. pc = "idle" /\ result = "none"
  BY DEF Init
<1> QED BY <1>1 DEF PlanInv, ProgressInv, Installing, Preparing, Starting, Watching

LEMMA PlansFit ==
  ASSUME NEW p \in Plans, get_build(request) # {}
  PROVE  /\ p[Len(p)].to \in get_build(request)
         /\ Len(p) = 2 => p[1].kind = "cold" /\ p[1].to \in get_build(p[2].from)
         /\ Len(p) = 1 /\ p[1].kind = "diff" => p[1].from = cur
<1>1. new_ver \in get_build(request)
  BY DEF new_ver
<1>2. CASE \E q \in Package : p = <<q>> /\ Alone(q)
  <2>1. PICK q \in Package : p = <<q>> /\ Alone(q)
    BY <1>2
  <2>2. Len(p) = 1 /\ p[1] = q
    BY <2>1
  <2> QED BY <1>1, <2>1, <2>2 DEF Alone, Fits
<1>3. CASE \E c, q \in Package : p = <<c, q>> /\ Together(c, q)
  <2>1. PICK c \in Package, q \in Package : p = <<c, q>> /\ Together(c, q)
    BY <1>3
  <2>2. Len(p) = 2 /\ p[1] = c /\ p[2] = q
    BY <2>1
  <2> QED BY <1>1, <2>1, <2>2 DEF Together, Fits
<1> QED BY <1>2, <1>3, PlanShapes

\* The plan changes when it is made, when its first package is installed, and
\* when the next coldstart begins.
LEMMA NextPlan == InstallInv /\ [Next]_vars => PlanInv'
<1> SUFFICES ASSUME InstallInv, [Next]_vars PROVE PlanInv'
  OBVIOUS
<1>1. CASE Choose
  <2>1. CASE \E p \in Plans : plan' = p
    <3>1. get_build(request) # {} /\ request' = request
      BY <1>1 DEF Choose, InstallInv, ProgressInv
    <3> QED BY <2>1, <3>1, PlansFit DEF PlanInv
  <2>2. CASE pc' = "idle"
    BY <2>2 DEF PlanInv, Installing
  <2> QED BY <1>1, <2>1, <2>2 DEF Choose, Raise
<1>2. CASE Login
  <2>1. plan \in Seq(Package) /\ plan # <<>> /\ Len(plan) <= 2 /\ request' = request
    BY <1>2 DEF Login, InstallInv, TypeInv, FileInv, InstallerTypes, Installing
  <2>2. CASE pc' = "idle"
    BY <2>2 DEF PlanInv, Installing
  <2>3. CASE Len(plan) # 1 /\ plan' = Tail(plan)
    <3>1. Len(plan) = 2
      <4>1. Len(plan) \in Nat /\ Len(plan) # 0
        BY <2>1
      <4>2. \A n \in Nat : n # 0 /\ n # 1 /\ n <= 2 => n = 2
        OBVIOUS
      <4> QED BY <2>1, <2>3, <4>1, <4>2, Zenon
    <3>2. Len(plan') = 1 /\ plan'[1] = plan[2]
      <4>1. Len(plan') = Len(plan) - 1 /\ \A i \in 1..Len(plan') : plan'[i] = plan[i + 1]
        BY <2>1, <2>3, HeadTailProperties
      <4> QED BY <3>1, <4>1
    <3>3. plan[2].to \in get_build(request)
      BY <1>2, <3>1 DEF Login, InstallInv, PlanInv, Installing
    <3> QED BY <2>1, <3>2, <3>3 DEF PlanInv
  <2> QED BY <1>2, <2>2, <2>3 DEF Login
<1>3. CASE \E v \in Version : coldstart(v)
  <2>1. pc' \in {"idle", "gmr", "choose"}
    BY <1>3 DEF coldstart
  <2> QED BY <2>1 DEF PlanInv, Installing
<1>4. ASSUME UNCHANGED <<plan, request>>, pc' \in Installing => pc \in Installing
      PROVE  PlanInv'
  BY <1>4 DEF InstallInv, PlanInv
<1>5. (\/ gmr \/ wait_reconnect \/ RemoveParts \/ ListCache \/ rcp_internal_package \/ Copied
       \/ Rename \/ improv \/ CloseLeftover \/ PingFails \/ wait_up \/ Wake \/ Poll)
      => UNCHANGED <<plan, request>> /\ (pc' \in Installing => pc \in Installing)
  BY PollResult
  DEF gmr, wait_reconnect, RemoveParts, ListCache, rcp_internal_package, Copied, Rename,
      improv, CloseLeftover, PingFails, wait_up, Wake, Poll, monitoring, Installing, Goto,
      Raise, planVars
<1>6. Failure \/ TimePasses
      => UNCHANGED <<plan, request>> /\ (pc' \in Installing => pc \in Installing)
  BY DEF Failure, CommandFails, LoginFails, ReadTimesOut, PipeTimesOut, ReadRaises, Retry,
         TimePasses, monitoring, Installing, Goto, Raise, planVars
<1>7. (\/ TaskBegins \/ Reboot \/ Boot \/ (\E i \in Pending : TaskFails(i) \/ TaskInstalls(i))
       \/ UNCHANGED vars)
      => UNCHANGED <<plan, request, pc>>
  BY DEF TaskBegins, Reboot, Boot, TaskFails, TaskInstalls, vars, installerVars, planVars
<1> QED
  BY <1>1, <1>2, <1>3, <1>4, <1>5, <1>6, <1>7 DEF Next, Progress

\* A step to which the end of the installation is all that matters.
LEMMA EndsBadly ==
  ASSUME pc' = "idle", result' \in {"failed", "error"}
  PROVE  ProgressInv'
BY DEF ProgressInv, Starting, Preparing, Watching

\* A step that leaves the commands and tasks of the meter alone, while the
\* installer has none there or watches one.
LEMMA WatchKeeps ==
  ASSUME ProgressInv, pc \in Watching, pc' \in Watching,
         UNCHANGED <<asked, table, running, plan, request, found, task_id, result>>,
         Asked => up' /\ (boot_started' => connected')
  PROVE  ProgressInv'
<1>1. (Asked => Asked') /\ (Begun => Begun') /\ (Failed => Failed') /\ (Installed => Installed')
  BY DEF Asked, Begun, Failed, Installed, Underway, Newest, Quiet, Pending, Fresh, Image
<1>2. Asked' \/ Begun' \/ Failed' \/ Installed'
  BY <1>1 DEF ProgressInv
<1> QED BY <1>2 DEF ProgressInv, Starting, Preparing, Watching

LEMMA QuietKeeps ==
  ASSUME ProgressInv, Quiet, pc \in Starting \cup Preparing,
         UNCHANGED <<asked, table, running, request, cur, result>>,
         pc' \in Preparing \/ (pc' \in Starting /\ pc \in Starting)
  PROVE  ProgressInv'
<1>1. Quiet'
  BY DEF Quiet, Pending
<1> QED BY <1>1 DEF ProgressInv, Starting, Preparing, Watching

\* What Poll reads decides the result: 0 only once the new image runs.
LEMMA PollProgress == InstallInv /\ Poll => ProgressInv'
<1> SUFFICES ASSUME InstallInv, Poll PROVE ProgressInv'
  OBVIOUS
<1>1. /\ pc = "monitor" /\ ~connected
      /\ UNCHANGED <<asked, table, running, up, plan, request, boot_started, connected>>
  BY DEF Poll, monitoring, meterVars, planVars
<1>2. CASE pc' = "idle"
  <2>1. result = "none" /\ result' \in {result, "failed", "error"}
    BY <1>1, PollResult DEF InstallInv, ProgressInv
  <2>2. CASE result' = result
    BY <1>2, <2>1, <2>2 DEF ProgressInv, Starting, Preparing, Watching
  <2> QED BY <1>2, <2>1, <2>2, EndsBadly
<1>a. Len(table) \in Nat
  BY LenProperties DEF InstallInv, TypeInv, MeterTypes
<1>3. ASSUME pc' # "idle" PROVE result' = result
  <2>1. \A i : Judge(i) => result' = result
    BY <1>3 DEF Judge, Return, PollAgain, Goto, Raise
  <2>2. Return("ok") \/ PollAgain \/ Raise => result' = result
    BY <1>3 DEF Return, PollAgain, Goto, Raise
  <2> QED BY <2>1, <2>2, Zenon DEF Poll
<1>4. CASE Installed /\ pc' # "idle"
  <2>1. Installed'
    BY <1>1, <1>4 DEF Installed, Quiet, Pending, Image
  <2>2. result' = result
    BY <1>3, <1>4
  <2> QED BY <1>1, <1>4, <2>1, <2>2, PollResult
      DEF InstallInv, ProgressInv, Starting, Preparing, Watching
<1>5. CASE Asked /\ pc' # "idle"
  <2>1. ~found /\ Fresh = {} /\ ~boot_started
    BY <1>1, <1>5 DEF Asked
  <2>2. ~Search \/ ~found'
    BY <2>1 DEF Search
  <2>3. UNCHANGED <<found, task_id>> /\ PollAgain
    BY <1>5, <2>1, <2>2 DEF Poll
  <2>4. pc' = "sleep"
    BY <1>5, <2>3 DEF PollAgain, Goto, Raise
  <2> QED BY <1>1, <1>3, <1>5, <2>3, <2>4, WatchKeeps DEF InstallInv, Watching, Asked
<1>6. CASE (Begun \/ Failed) /\ pc' # "idle"
  <2>1. Fresh = {Newest} /\ (found => task_id = Newest) /\ Newest \in Nat /\ Newest # 0
    <3>1. Len(table) \in DOMAIN table
      BY <1>6 DEF Begun, Failed, Underway, Newest, Fresh
    <3>2. DOMAIN table = 1..Len(table)
      BY LenProperties DEF InstallInv, TypeInv, MeterTypes
    <3> QED BY <1>6, <3>1, <3>2 DEF Begun, Failed, Underway, Newest
  <2>2. Search /\ found' => task_id' = Newest
    BY <2>1, SearchFinds DEF InstallInv, TypeInv, Newest, Search
  <2>3. Search /\ found' /\ Judge(Newest)
    BY <1>6, <2>1, <2>2 DEF Poll, Raise, NoTask, Newest
  <2>4. CASE Failed
    <3>1. Return("failed")
      BY <2>3, <2>4 DEF Judge, Failed
    <3> QED BY <1>6, <3>1 DEF Return
  <2>5. CASE Begun
    <3>1. PollAgain
      BY <2>3, <2>5 DEF Judge, Begun, Pending
    <3>2. pc' = "sleep"
      BY <1>6, <3>1 DEF PollAgain, Goto, Raise
    <3>3. Begun'
      BY <1>1, <2>2, <2>3, <2>5 DEF Begun, Underway, Newest, Pending, Fresh, Image
    <3>4. result' = result
      BY <1>3, <1>6
    <3> QED BY <1>1, <3>2, <3>3, <3>4
        DEF InstallInv, ProgressInv, Starting, Preparing, Watching
  <2> QED BY <1>6, <2>4, <2>5
<1> QED BY <1>1, <1>2, <1>4, <1>5, <1>6 DEF InstallInv, ProgressInv, Watching

LEMMA CoreProgress ==
  NoFault /\ InstallInv /\ (\/ Progress \/ Failure \/ TimePasses \/ UNCHANGED vars
                            \/ \E v \in Version : coldstart(v)) => ProgressInv'
<1> SUFFICES ASSUME NoFault, InstallInv,
                    \/ Progress \/ Failure \/ TimePasses \/ UNCHANGED vars
                    \/ \E v \in Version : coldstart(v)
             PROVE  ProgressInv'
  OBVIOUS
<1> USE DEF InstallInv
<1>1. CASE \E v \in Version : coldstart(v)
  <2>1. PICK v \in Version : coldstart(v)
    BY <1>1
  <2>2. Quiet /\ UNCHANGED <<asked, table, running>> /\ cur' = running
    BY <2>1 DEF coldstart, NoFault, meterVars
  <2>3. Quiet'
    BY <2>2 DEF Quiet, Pending
  <2>4. CASE pc' = "idle" /\ result' = "error"
    BY <2>4, EndsBadly
  <2>5. CASE get_build(v) # {} /\ pc' \in {"gmr", "choose"} /\ result' = "none"
    <3>1. get_build(request)' # {}
      BY <2>1, <2>5 DEF coldstart, get_build, Offered
    <3> QED BY <2>2, <2>3, <2>5, <3>1 DEF ProgressInv, Starting, Preparing, Watching
  <2> QED BY <2>1, <2>4, <2>5 DEF coldstart
<1>2. CASE gmr \/ wait_reconnect
  BY <1>2, QuietKeeps
  DEF gmr, wait_reconnect, Goto, ProgressInv, Starting, meterVars, planVars
<1>3. CASE Choose
  <2>1. CASE Raise
    BY <2>1, EndsBadly DEF Raise
  <2>2. CASE Goto("tidy")
    BY <1>3, <2>2, QuietKeeps
    DEF Choose, Goto, ProgressInv, Starting, Preparing, meterVars
  <2> QED BY <1>3, <2>1, <2>2 DEF Choose
<1>4. CASE RemoveParts \/ ListCache \/ rcp_internal_package \/ Copied \/ Rename
  <2>1. /\ pc \in Preparing /\ pc' \in Preparing
        /\ UNCHANGED <<asked, table, running, request, cur, result>>
    BY <1>4 DEF RemoveParts, ListCache, rcp_internal_package, Copied, Rename, Goto, Preparing,
         meterVars, planVars
  <2> QED BY <2>1, QuietKeeps DEF ProgressInv
<1>5. CASE improv
  <2>1. CASE Raise
    BY <2>1, EndsBadly DEF Raise
  <2>2. CASE Goto("monitor")
    <3>1. Quiet /\ result = "none" /\ get_build(request) # {}
      BY <1>5 DEF improv, ProgressInv, Preparing
    <3>2. asked' = <<Image>>
      BY <1>5, <3>1 DEF improv, Quiet
    <3>3. Fresh' = {} /\ Pending' = {}
      <4>1. \A i \in DOMAIN table : table[i] \in Entry
        BY LenProperties, ElementOfSeq DEF TypeInv, MeterTypes
      <4>2. \A i \in DOMAIN table' : /\ i \in DOMAIN table /\ ~table'[i].fresh
                                     /\ table'[i].code = table[i].code
        BY <1>5, <4>1 DEF improv, Entry
      <4> QED BY <3>1, <4>2 DEF Quiet, Pending, Fresh
    <3>4. Asked'
      BY <1>5, <3>2, <3>3 DEF improv, NewMonitor, Asked, Image, planVars
    <3> QED BY <1>5, <2>2, <3>1, <3>4
        DEF improv, Goto, planVars, ProgressInv, Starting, Preparing, Watching
  <2> QED BY <1>5, <2>1, <2>2 DEF improv
<1>6. CASE CloseLeftover \/ CommandFails \/ ReadRaises
  <2>1. Raise
    BY <1>6 DEF CloseLeftover, CommandFails, ReadRaises
  <2> QED BY <2>1, EndsBadly DEF Raise
<1>7. CASE PingFails \/ ReadTimesOut \/ Wake \/ TimePasses
  <2>1. pc \in Watching /\ pc' \in Watching
    BY <1>7 DEF PingFails, ReadTimesOut, Wake, TimePasses, monitoring, Goto, Watching
  <2>2. UNCHANGED <<asked, table, running, plan, request, found, task_id, result, up>>
    BY <1>7 DEF PingFails, ReadTimesOut, Wake, TimePasses, Goto, meterVars, planVars, monitorVars,
         endVars
  <2>3. Asked => up' /\ (boot_started' => connected')
    <3>1. Asked => ~PingFails
      BY DEF Asked, PingFails, MayBeLost, NoFault
    <3> QED BY <1>7, <2>2, <3>1 DEF Asked, ReadTimesOut, Wake, TimePasses, monitorVars
  <2> QED BY <2>1, <2>2, <2>3, WatchKeeps
<1>8. CASE wait_up \/ LoginFails \/ PipeTimesOut
  <2>1. pc \in Watching
    BY <1>8 DEF wait_up, LoginFails, PipeTimesOut, monitoring, Watching
  <2>2. /\ UNCHANGED <<asked, table, running, plan, request, found, task_id, up, boot_started>>
        /\ connected' \in {connected, TRUE}
    BY <1>8 DEF wait_up, LoginFails, PipeTimesOut, meterVars, planVars, monitorVars
  <2>3. Raise \/ (pc' \in Watching /\ result' = result)
    BY <1>8 DEF wait_up, LoginFails, PipeTimesOut, Retry, Goto, Watching
  <2>4. CASE Raise
    BY <2>4, EndsBadly DEF Raise
  <2>5. CASE pc' \in Watching /\ result' = result
    <3>1. Asked => up' /\ (boot_started' => connected')
      BY <2>2 DEF Asked
    <3> QED BY <2>1, <2>2, <2>5, <3>1, WatchKeeps
  <2> QED BY <2>3, <2>4, <2>5
<1>9. CASE Poll
  BY <1>9, PollProgress
<1>10. CASE Login
  <2>1. /\ Installed /\ pc = "login" /\ result = "none" /\ get_build(request) # {}
        /\ UNCHANGED <<asked, table, running, request>>
    BY <1>10 DEF Login, ProgressInv, meterVars
  <2>2. Quiet'
    BY <2>1 DEF Installed, Quiet, Pending
  <2>3. CASE Len(plan) = 1 /\ pc' = "idle" /\ result' = "ok"
    <3>1. running' \in get_build(request)'
      <4>1. plan[Len(plan)].to \in get_build(request)
        BY <2>1 DEF PlanInv, Installing
      <4>2. plan[Len(plan)] = Image
        BY <2>3 DEF Image
      <4> QED BY <2>1, <4>1, <4>2 DEF Installed, get_build, Offered
    <3> QED BY <2>2, <2>3, <3>1 DEF ProgressInv, Starting, Preparing, Watching
  <2>4. CASE Goto("tidy")
    BY <2>1, <2>2, <2>4 DEF Goto, ProgressInv, Starting, Preparing, Watching
  <2> QED BY <1>10, <2>3, <2>4 DEF Login
<1>11. CASE UNCHANGED vars
  BY <1>11 DEF vars, meterVars, planVars, monitorVars, endVars, ProgressInv, Quiet, Pending,
       Asked, Begun, Failed, Installed, Underway, Newest, Fresh, Image
<1> QED
  BY <1>1, <1>2, <1>3, <1>4, <1>5, <1>6, <1>7, <1>8, <1>9, <1>10, <1>11
  DEF Progress, Failure

\* The meter's own steps: the task of the installer begins, fails or installs
\* its image, and reboots come only while it goes on.
LEMMA MeterProgress ==
  NoFault /\ InstallInv
    /\ (TaskBegins \/ Reboot \/ Boot \/ \E i \in Pending : TaskFails(i) \/ TaskInstalls(i))
    => ProgressInv'
<1> SUFFICES ASSUME NoFault, InstallInv,
                    \/ TaskBegins \/ Reboot \/ Boot
                    \/ \E i \in Pending : TaskFails(i) \/ TaskInstalls(i)
             PROVE  ProgressInv'
  OBVIOUS
<1> USE DEF InstallInv
<1>a. /\ UNCHANGED <<pc, plan, request, cur, found, task_id, boot_started, connected, result>>
      /\ Image' = Image
  BY DEF TaskBegins, Reboot, Boot, TaskFails, TaskInstalls, installerVars, planVars, monitorVars,
         endVars, Image
<1>b. /\ table \in Seq(Entry) /\ DOMAIN table = 1..Len(table) /\ Len(table) \in Nat
      /\ \A i \in DOMAIN table : table[i] \in Entry
  BY LenProperties, ElementOfSeq DEF TypeInv, MeterTypes
<1>c. ASSUME ~Quiet, ~(Asked \/ Begun \/ Failed \/ Installed) PROVE ProgressInv'
  <2>1. pc \notin Starting \cup Preparing \cup Watching \cup {"login"} /\ result # "ok"
    BY <1>c DEF ProgressInv, Installed
  <2>2. pc = "idle"
    BY <2>1 DEF TypeInv, InstallerTypes, Installing, Starting, Preparing, Watching
  <2> QED BY <1>a, <2>1, <2>2 DEF ProgressInv, Starting, Preparing, Watching
<1>d. ASSUME ~Quiet, Asked \/ Begun \/ Failed \/ Installed,
             Asked' \/ Begun' \/ Failed' \/ Installed'
      PROVE  ProgressInv'
  <2>1. pc \notin Starting \cup Preparing \cup {"login"} /\ result # "ok"
    BY <1>d DEF ProgressInv, Installed
  <2>2. get_build(request)' = get_build(request)
    BY <1>a DEF get_build, Offered
  <2> QED BY <1>a, <1>d, <2>1, <2>2 DEF ProgressInv
<1>1. CASE TaskBegins
  <2> DEFINE row == [image |-> Head(asked), code |-> "pending", fresh |-> TRUE]
  <2>1. ~Quiet
    BY <1>1 DEF TaskBegins, Quiet
  <2>2. CASE Asked
    <3>1. asked' = <<>> /\ Head(asked) = Image
      BY <1>1, <2>2 DEF TaskBegins, Asked
    <3>2. row \in Entry
      BY <1>1, HeadTailProperties DEF TaskBegins, TypeInv, MeterTypes, Entry
    <3>3. /\ DOMAIN table' = 1..(Len(table) + 1) /\ Len(table') = Len(table) + 1
          /\ \A i \in 1..Len(table) : table'[i] = table[i]
          /\ table'[Len(table) + 1] = row
      <4>1. table' = Append(table, row)
        BY <1>1 DEF TaskBegins
      <4> HIDE DEF row
      <4> QED BY <1>b, <3>2, <4>1, AppendProperties, LenProperties
    <3>4. Pending' = {Newest'} /\ Fresh' = {Newest'}
      BY <1>b, <2>2, <3>3 DEF Asked, Pending, Fresh, Newest
    <3>5. Begun'
      BY <1>a, <2>2, <3>1, <3>3, <3>4 DEF Begun, Underway, Newest, Asked
    <3> QED BY <1>d, <2>1, <2>2, <3>5
  <2>3. CASE ~Asked
    BY <1>1, <1>c, <2>1, <2>3 DEF Begun, Failed, Underway, Installed, Quiet, TaskBegins
  <2> QED BY <2>2, <2>3
<1>2. ASSUME NEW i \in Pending, TaskFails(i) PROVE ProgressInv'
  <2>1. ~Quiet
    BY DEF Quiet
  <2>2. CASE Begun
    <3>1. i = Newest
      BY <2>2 DEF Begun
    <3>2. /\ table' = [table EXCEPT ![i] = [table[i] EXCEPT !.code = "failed"]]
          /\ asked' = asked
      BY <1>2 DEF TaskFails
    <3>3. i \in 1..Len(table) /\ [table[i] EXCEPT !.code = "failed"] \in Entry
      BY <1>b DEF Pending, Entry
    <3>4. /\ DOMAIN table' = DOMAIN table /\ Len(table') = Len(table)
          /\ table'[i].code = "failed"
          /\ \A j \in DOMAIN table : table'[j].fresh = table[j].fresh
                                     /\ (j # i => table'[j] = table[j])
      BY <1>b, <3>2, <3>3, ExceptSeq DEF Entry
    <3>5. Pending' = {} /\ Fresh' = Fresh
      BY <2>2, <3>1, <3>4 DEF Begun, Pending, Fresh
    <3>6. Failed'
      BY <1>a, <2>2, <3>1, <3>2, <3>4, <3>5 DEF Begun, Failed, Underway, Newest
    <3> QED BY <1>d, <2>1, <2>2, <3>6
  <2>3. CASE ~Begun
    BY <1>c, <2>1, <2>3 DEF Asked, Failed, Installed, Quiet
  <2> QED BY <2>2, <2>3
<1>3. ASSUME NEW i \in Pending, TaskInstalls(i) PROVE ProgressInv'
  <2> DEFINE row == [table[i] EXCEPT !.code = "ok"]
  <2>1. ~Quiet
    BY DEF Quiet
  <2>2. CASE Begun
    <3>1. i = Newest /\ Pending = {i} /\ asked = <<>> /\ table[i].image = Image
      BY <2>2 DEF Begun, Underway
    <3>2. i \in 1..Len(table) /\ row \in Entry /\ row.code = "ok" /\ row.image = table[i].image
      BY <1>b DEF Pending, Entry
    <3>3. running' = Image.to /\ asked' = <<>>
      BY <1>3, <3>1, <3>2 DEF TaskInstalls
    <3>4. ASSUME table' = [table EXCEPT ![i] = row] PROVE Pending' = {}
      <4>1. /\ DOMAIN table' = DOMAIN table /\ table'[i].code = "ok"
            /\ \A j \in DOMAIN table : j # i => table'[j] = table[j]
        <5> HIDE DEF row
        <5> QED BY <1>b, <3>2, <3>4, ExceptSeq
      <4> QED BY <3>1, <4>1 DEF Pending
    <3>5. ASSUME table' = <<>> PROVE Pending' = {}
      BY <3>5 DEF Pending
    <3>6. ASSUME table' = <<row>> PROVE Pending' = {}
      <4>1. DOMAIN table' = {1} /\ table'[1] = row
        <5> HIDE DEF row
        <5> QED BY <3>6
      <4> QED BY <3>2, <4>1 DEF Pending
    <3>7. Pending' = {}
      BY <1>3, <3>4, <3>5, <3>6 DEF TaskInstalls, Pending
    <3>8. Installed'
      BY <1>a, <3>3, <3>7 DEF Installed, Quiet
    <3> QED BY <1>d, <2>1, <2>2, <3>8
  <2>3. CASE ~Begun
    BY <1>c, <2>1, <2>3 DEF Asked, Failed, Installed, Quiet
  <2> QED BY <2>2, <2>3
<1>4. CASE Reboot \/ Boot
  <2>1. UNCHANGED <<asked, table, running>>
    BY <1>4 DEF Reboot, Boot
  <2>2. Asked => up'
    BY <1>4 DEF Reboot, Boot, Asked, MayBeLost, NoFault
  <2>3. (Asked => Asked') /\ (Begun => Begun') /\ (Failed => Failed') /\ (Installed => Installed')
    BY <1>a, <2>1, <2>2 DEF Asked, Begun, Failed, Installed, Underway, Newest, Quiet, Pending, Fresh
  <2>4. Quiet' = Quiet /\ get_build(request)' = get_build(request)
    BY <1>a, <2>1 DEF Quiet, Pending, get_build, Offered
  <2> QED BY <1>a, <2>1, <2>3, <2>4 DEF ProgressInv
<1> QED BY <1>1, <1>2, <1>3, <1>4

LEMMA InstallProgress == NoFault => (Spec => []InstallInv)
<1> SUFFICES ASSUME NoFault PROVE Spec => []InstallInv
  OBVIOUS
<1>1. Init => InstallInv
  BY InitFiles, InitTypes, InitInstall DEF InstallInv, TypeInv
<1>2. InstallInv /\ [Next]_vars => InstallInv'
  <2>1. InstallInv /\ [Next]_vars => TypeInv'
    BY NextFiles, NextMeterTypes, NextInstallerTypes DEF InstallInv, TypeInv
  <2>2. InstallInv /\ [Next]_vars => ProgressInv'
    BY CoreProgress, MeterProgress DEF Next
  <2> QED BY <2>1, <2>2, NextPlan DEF InstallInv
<1> QED BY <1>1, <1>2, PTL DEF Spec

\* When coldstart returns 0 the meter runs the build that was asked for, for any
\* packages and limits, whatever reboots, lost pings, failed tasks and an emptied
\* table come between, as long as no abandoned task is still on its way and no
\* ping is lost before the task begins (SSHGen5Meter.coldstart).
THEOREM ZeroIsInstalled == NoFault => (Spec => []ZeroMeansInstalled)
<1>1. InstallInv => ZeroMeansInstalled
  BY DEF InstallInv, ProgressInv, ZeroMeansInstalled
<1> QED BY InstallProgress, <1>1, PTL

-----------------------------------------------------------------------------
(* Upgrades *)

\* Of the builds get_build may find for the version an upgrade is made from, only
\* that version itself is one: no other directory name contains it.
ExactBase == \A p \in Package : p.kind = "diff" => get_build(p.from) \subseteq {p.from}

\* From the choice of an upgrade to its ImProv the meter runs what it upgrades.
BaseRuns == pc \in Preparing /\ Image.kind = "diff" => running = Image.from
BaseInv == InstallInv /\ BaseRuns

LEMMA NextBase == NoFault /\ ExactBase /\ BaseInv /\ [Next]_vars => BaseRuns'
<1> SUFFICES ASSUME NoFault, ExactBase, BaseInv, [Next]_vars,
                    pc' \in Preparing, Image'.kind = "diff"
             PROVE  running' = Image'.from
  BY DEF BaseRuns
<1> USE DEF BaseInv, InstallInv, Preparing
<1>1. CASE Choose
  <2>1. /\ plan' \in Plans /\ pc = "choose"
        /\ UNCHANGED <<running, request, cur>>
    BY <1>1 DEF Choose, Raise, meterVars
  <2>2. plan' \in Seq(Package) /\ plan' # <<>>
    BY <2>1, PlansAreSequences
  <2>3. Image' = plan'[1]
    BY <2>2 DEF Image
  <2>4. \/ \E p \in Package : plan' = <<p>> /\ Alone(p)
        \/ \E c, p \in Package : plan' = <<c, p>> /\ Together(c, p)
    BY <2>1, PlanShapes
  <2>5. Image'.from = cur
    <3>1. CASE \E p \in Package : plan' = <<p>> /\ Alone(p)
      BY <2>3, <3>1 DEF Alone
    <3>2. CASE \E c, p \in Package : plan' = <<c, p>> /\ Together(c, p)
      BY <2>3, <3>2 DEF Together
    <3> QED BY <2>4, <3>1, <3>2
  <2> QED BY <2>1, <2>5 DEF ProgressInv, Starting
<1>2. CASE Login
  <2>1. /\ pc = "login" /\ Len(plan) # 1 /\ plan' = Tail(plan)
        /\ UNCHANGED <<running, request, cur>>
    BY <1>2 DEF Login, meterVars
  <2>2. plan \in Seq(Package) /\ plan # <<>> /\ Len(plan) <= 2
    BY <2>1 DEF TypeInv, FileInv, InstallerTypes, Installing
  <2>3. Len(plan) = 2
    <3>1. Len(plan) \in Nat /\ Len(plan) # 0
      BY <2>2
    <3>2. \A n \in Nat : n # 0 /\ n # 1 /\ n <= 2 => n = 2
      OBVIOUS
    <3> QED BY <2>1, <2>2, <3>1, <3>2, Zenon
  <2>4. plan[2] \in Package
    BY <2>2, <2>3, ElementOfSeq
  <2>5. Image' = plan[2]
    <3>1. /\ Len(plan') = Len(plan) - 1 /\ plan' \in Seq(Package)
          /\ \A i \in 1..Len(plan') : plan'[i] = plan[i + 1]
      BY <2>1, <2>2, HeadTailProperties
    <3> QED BY <2>3, <3>1 DEF Image
  <2>6. running = plan[1].to /\ plan[1].to \in get_build(plan[2].from)
    BY <2>1, <2>2, <2>3 DEF ProgressInv, Installed, Image, PlanInv, Installing
  <2> QED BY <2>1, <2>4, <2>5, <2>6 DEF ExactBase
<1>3. ASSUME pc \in Preparing, UNCHANGED <<plan, running>> PROVE running' = Image'.from
  <2>1. Image' = Image
    BY <1>3 DEF Image
  <2> QED BY <1>3, <2>1 DEF BaseRuns
<1>4. (RemoveParts \/ ListCache \/ rcp_internal_package \/ Copied \/ Rename \/ UNCHANGED vars
         \/ TaskBegins \/ Reboot \/ Boot \/ \E i \in Pending : TaskFails(i))
      => pc \in Preparing /\ UNCHANGED <<plan, running>>
  BY DEF RemoveParts, ListCache, rcp_internal_package, Copied, Rename, vars, meterVars, planVars,
         TaskBegins, Reboot, Boot, TaskFails, installerVars
<1>5. ~ \E i \in Pending : TaskInstalls(i)
  <2>1. SUFFICES ASSUME NEW i \in Pending, TaskInstalls(i) PROVE FALSE
    OBVIOUS
  <2>2. pc' = pc
    BY <2>1 DEF TaskInstalls, installerVars
  <2>3. Quiet
    BY <2>2 DEF ProgressInv
  <2> QED BY <2>3 DEF Quiet
<1>6. ~(gmr \/ wait_reconnect \/ improv \/ CloseLeftover \/ PingFails \/ wait_up \/ Poll \/ Wake
          \/ Failure \/ TimePasses \/ \E v \in Version : coldstart(v))
  BY PollResult
  DEF gmr, wait_reconnect, improv, CloseLeftover, PingFails, wait_up, Wake, Goto, Raise,
      Failure, CommandFails, LoginFails, ReadTimesOut, PipeTimesOut, ReadRaises, Retry,
      TimePasses, coldstart
<1> QED BY <1>1, <1>2, <1>3, <1>4, <1>5, <1>6 DEF Next, Progress

\* ImProv gets one more image when the installer asks it to install one.
LEMMA AskedByImprov ==
  ASSUME TypeInv, [Next]_vars, NEW p \in Package, asked' = Append(asked, p)
  PROVE  improv /\ p = Image
<1>1. asked \in Seq(Package) /\ Len(asked) \in Nat
  BY LenProperties DEF TypeInv, MeterTypes
<1>2. Len(asked') = Len(asked) + 1
  BY <1>1, AppendProperties
<1>3. asked' # asked
  BY <1>1, <1>2
<1>4. CASE improv
  <2>1. Image \in Package /\ asked' = Append(asked, Image)
    BY <1>4, ImageIsPackage DEF improv, Installing, TypeInv
  <2>2. Append(asked, p) = Append(asked, Image)
    BY <2>1
  <2> HIDE DEF Image
  <2>3. p = Image
    BY <1>1, <2>1, <2>2, AppendInjective
  <2> QED BY <1>4, <2>3
<1>5. ~TaskBegins
  <2>1. SUFFICES ASSUME TaskBegins PROVE FALSE
    OBVIOUS
  <2>2. Len(asked') = Len(asked) - 1
    BY <1>1, <2>1, HeadTailProperties DEF TaskBegins
  <2> QED BY <1>1, <1>2, <2>2
<1>6. ~(\/ gmr \/ wait_reconnect \/ Choose \/ RemoveParts \/ ListCache \/ rcp_internal_package
        \/ Copied \/ Rename \/ CloseLeftover \/ PingFails \/ wait_up \/ Poll \/ Wake \/ Login
        \/ Failure \/ TimePasses \/ (\E v \in Version : coldstart(v)) \/ UNCHANGED vars
        \/ Reboot \/ Boot \/ (\E i \in Pending : TaskFails(i) \/ TaskInstalls(i)))
  BY <1>3
  DEF gmr, wait_reconnect, Choose, RemoveParts, ListCache, rcp_internal_package, Copied,
      Rename, CloseLeftover, PingFails, wait_up, Poll, Wake, Login, Failure, CommandFails,
      LoginFails, ReadTimesOut, PipeTimesOut, ReadRaises, TimePasses, coldstart, vars,
      meterVars, Reboot, Boot, TaskFails, TaskInstalls
<1> QED BY <1>4, <1>5, <1>6 DEF Next, Progress

\* An upgrade package is handed to ImProv only while the meter runs the build it
\* was made from, for any packages and limits, also when this build has to be
\* installed before it (upgrade, install_with_reboot).
THEOREM UpgradesFit == NoFault /\ ExactBase => (Spec => UpgradeOnItsBase)
<1> SUFFICES ASSUME NoFault, ExactBase PROVE Spec => UpgradeOnItsBase
  OBVIOUS
<1>1. Init => BaseRuns
  BY DEF Init, BaseRuns, Preparing
<1>2. InstallInv /\ BaseRuns /\ [Next]_vars => BaseRuns'
  BY NextBase DEF BaseInv
<1>3. InstallInv /\ BaseRuns /\ [Next]_vars
        => [\A p \in Package : asked' = Append(asked, p) /\ p.kind = "diff"
                                 => running = p.from]_vars
  <2> SUFFICES ASSUME InstallInv, BaseRuns, [Next]_vars, NEW p \in Package,
                      asked' = Append(asked, p), p.kind = "diff"
               PROVE  running = p.from
    OBVIOUS
  <2>1. improv /\ p = Image
    BY AskedByImprov DEF InstallInv
  <2> QED BY <2>1 DEF improv, BaseRuns, Preparing
<1> QED BY InstallProgress, <1>1, <1>2, <1>3, PTL DEF Spec, UpgradeOnItsBase
-----------------------------------------------------------------------------
(* Versions as text *)

\* That < is well-founded, in a form that speaks of sets only.
LEMMA LeastNatural ==
  ASSUME NEW T \in SUBSET Nat, T # {}
  PROVE  \E x \in T : \A y \in T : x <= y
<1> DEFINE R == {ss \in Nat \X Nat : ss[1] < ss[2]}
<1>1. IsWellFoundedOn(R, Nat)
  BY NatLessThanWellFounded DEF OpToRel
<1>2. \E x \in T : \A y \in T : ~(<<y, x>> \in R)
  <2> HIDE DEF R
  <2> QED
    BY <1>1, WFMin
<1>3. PICK x \in T : \A y \in T : ~(<<y, x>> \in R)
  BY <1>2
<1>4. \A y \in T : x <= y
  <2> TAKE y \in T
  <2>1. <<y, x>> \in Nat \X Nat /\ <<y, x>>[1] = y /\ <<y, x>>[2] = x
    OBVIOUS
  <2>2. ~(y < x)
    BY <1>3, <2>1, Zenon
  <2> QED
    BY <2>2
<1> QED
  BY <1>4

Parts == 0..MaxPart
Figures == 0..9

LEMMA Tenth ==
  ASSUME NEW n \in Nat
  PROVE  /\ n \div 10 \in Nat /\ n % 10 \in Figures /\ n = 10 * (n \div 10) + (n % 10)
         /\ n >= 10 => n \div 10 < n
         /\ n \div 10 <= n
<1>1. \E q, r \in Int : q = n \div 10 /\ r = n % 10 /\ 0 <= r /\ r < 10 /\ n = 10 * q + r
  BY Z3
<1>2. PICK q, r \in Int : q = n \div 10 /\ r = n % 10 /\ 0 <= r /\ r < 10 /\ n = 10 * q + r
  BY <1>1, Zenon
<1>3. q \in Nat /\ r \in Figures /\ q <= n /\ (n >= 10 => q < n) /\ n = 10 * q + r
  BY <1>2 DEF Figures
<1> QED BY <1>2, <1>3, Zenon

\* Digits is the function its recursion describes, because n \div 10 < n.
LEMMA DigitsOf ==
  /\ Digits \in [Parts -> Seq(Figures)]
  /\ \A n \in Parts :
       Digits[n] = IF n < 10 THEN <<n>> ELSE Append(Digits[n \div 10], n % 10)
<1> DEFINE Rule(f, n) == IF n < 10 THEN <<n>> ELSE Append(f[n \div 10], n % 10)
           Solves(f, n) == f \in [0..n -> Seq(Figures)] /\ \A i \in 0..n : f[i] = Rule(f, i)
           U == {n \in Nat : ~ \E f : Solves(f, n)}
<1>1. U = {}
  <2>1. SUFFICES ASSUME U # {} PROVE FALSE
    OBVIOUS
  <2>2. PICK n \in U : \A k \in U : n <= k
    <3>1. U \in SUBSET Nat
      OBVIOUS
    <3> HIDE DEF U
    <3> QED BY <2>1, <3>1, LeastNatural
  <2>3. CASE n = 0
    <3> DEFINE f == [i \in 0..0 |-> <<i>>]
    <3>1. \A i \in 0..0 : i \in Figures /\ i < 10
      BY DEF Figures
    <3>2. f \in [0..0 -> Seq(Figures)]
      BY <3>1
    <3>3. \A i \in 0..0 : f[i] = Rule(f, i)
      BY <3>1
    <3> HIDE DEF f, Rule
    <3>4. Solves(f, 0)
      BY <3>2, <3>3
    <3> HIDE DEF Solves
    <3> QED BY <2>2, <2>3, <3>4
  <2>4. CASE n # 0
    <3>1. n - 1 \in Nat /\ ~(n <= n - 1)
      BY <2>4
    <3>2. PICK g : Solves(g, n - 1)
      <4> HIDE DEF Solves
      <4> QED BY <2>2, <3>1
    <3> DEFINE x == Rule(g, n)
               f == [i \in 0..n |-> IF i = n THEN x ELSE g[i]]
    <3>3. x \in Seq(Figures)
      <4>1. CASE n < 10
        BY <4>1 DEF Figures
      <4>2. CASE ~(n < 10)
        <5>1. n \div 10 \in 0..(n - 1) /\ n % 10 \in Figures
          BY <4>2, Tenth
        <5>2. g[n \div 10] \in Seq(Figures)
          BY <3>2, <5>1
        <5>3. Append(g[n \div 10], n % 10) \in Seq(Figures)
          BY <5>1, <5>2, AppendProperties
        <5> QED BY <4>2, <5>3
      <4> QED BY <4>1, <4>2
    <3> HIDE DEF x
    <3>4. \A i \in 0..n : i # n => i \in 0..(n - 1)
      OBVIOUS
    <3>5. f \in [0..n -> Seq(Figures)]
      <4>1. \A i \in 0..n : (IF i = n THEN x ELSE g[i]) \in Seq(Figures)
        BY <3>2, <3>3, <3>4
      <4> QED BY <4>1
    <3>6. f[n] = x /\ \A i \in 0..(n - 1) : f[i] = g[i]
      OBVIOUS
    <3> HIDE DEF f
    <3>7. ASSUME NEW i \in 0..n PROVE f[i] = Rule(f, i) /\ Rule(f, i) = Rule(g, i)
      <4>1. i >= 10 => i \div 10 \in 0..(n - 1)
        BY Tenth
      <4>2. Rule(f, i) = Rule(g, i)
        BY <3>6, <4>1
      <4>3. CASE i = n
        BY <3>6, <4>2, <4>3 DEF x
      <4>4. CASE i # n
        <5>1. i \in 0..(n - 1)
          BY <4>4
        <5>2. g[i] = Rule(g, i) /\ f[i] = g[i]
          BY <3>2, <3>6, <5>1
        <5> QED BY <4>2, <5>2
      <4> QED BY <4>2, <4>3, <4>4
    <3> HIDE DEF Rule
    <3>8. Solves(f, n)
      BY <3>5, <3>7
    <3> HIDE DEF Solves
    <3> QED BY <2>2, <3>8
  <2> QED BY <2>3, <2>4
<1>2. MaxPart \in Nat
  BY VersionAssumption
<1>3. PICK f : Solves(f, MaxPart)
  <2> HIDE DEF Solves
  <2> QED BY <1>1, <1>2
<1> DEFINE D(g) == [n \in Parts |-> Rule(g, n)]
<1>4. f = D(f)
  BY <1>3 DEF Parts
<1>5. Digits = CHOOSE g : g = D(g)
  BY DEF Digits, Parts
<1>6. Digits = D(Digits)
  <2> HIDE DEF D
  <2> QED BY <1>4, <1>5
<1>7. \A n \in Parts : Digits[n] = Rule(Digits, n)
  <2> HIDE DEF Rule
  <2> QED BY <1>6
<1>8. \A n \in Parts : Digits[n] \in Seq(Figures)
  <2> DEFINE V == {n \in Parts : Digits[n] \notin Seq(Figures)}
  <2>1. SUFFICES ASSUME V # {} PROVE FALSE
    OBVIOUS
  <2>2. PICK n \in V : \A k \in V : n <= k
    <3>1. V \in SUBSET Nat
      BY DEF Parts
    <3> HIDE DEF V
    <3> QED BY <2>1, <3>1, LeastNatural
  <2>3. n \in Parts /\ n \in Nat
    BY DEF Parts
  <2>4. CASE n < 10
    <3>1. n \in Figures
      BY <2>3, <2>4 DEF Figures
    <3>2. <<n>> \in Seq(Figures)
      BY <3>1
    <3>3. Digits[n] = <<n>>
      BY <1>7, <2>3, <2>4
    <3> QED BY <2>2, <3>2, <3>3
  <2>5. CASE ~(n < 10)
    <3>1. n \div 10 \in Parts /\ n % 10 \in Figures /\ ~(n <= n \div 10)
      BY <1>2, <2>3, <2>5, Tenth DEF Parts
    <3>2. Digits[n \div 10] \in Seq(Figures)
      BY <2>2, <3>1
    <3>3. Append(Digits[n \div 10], n % 10) \in Seq(Figures)
      BY <3>1, <3>2, AppendProperties
    <3> QED BY <1>7, <2>3, <2>5, <3>3
  <2> QED BY <2>4, <2>5
<1>9. Digits = [n \in Parts |-> Digits[n]]
  <2> HIDE DEF Rule
  <2> QED BY <1>6
<1> QED BY <1>7, <1>8, <1>9

\* The order of digits compares as many of them, and the first that differ decide.
LEMMA TextOfAppend ==
  ASSUME NEW s \in Seq(Figures), NEW t \in Seq(Figures), Len(s) = Len(t),
         NEW a \in Figures, NEW b \in Figures
  PROVE  TextLess(Append(s, a), Append(t, b)) <=> TextLess(s, t) \/ (s = t /\ a < b)
<1> DEFINE N == Len(t)
           u == Append(s, a)
           v == Append(t, b)
<1>1. N \in Nat /\ DOMAIN s = 1..N /\ DOMAIN t = 1..N
  BY LenProperties
<1>2. /\ DOMAIN u = 1..(N + 1) /\ DOMAIN v = 1..(N + 1)
      /\ \A i \in 1..N : u[i] = s[i] /\ v[i] = t[i]
      /\ u[N + 1] = a /\ v[N + 1] = b
  BY <1>1, AppendProperties, LenProperties
<1>3. \A i \in 1..N : s[i] \in Nat /\ t[i] \in Nat
  BY <1>1 DEF Figures
<1>4. s = t <=> \A i \in 1..N : s[i] = t[i]
  BY <1>1, SeqEqual
<1> HIDE DEF N, u, v
<1>5. TextLess(s, t) <=> \E k \in 1..N : s[k] < t[k] /\ \A i \in 1..(k - 1) : s[i] = t[i]
  BY <1>1 DEF TextLess
<1>6. TextLess(u, v) <=> \E k \in 1..(N + 1) : u[k] < v[k] /\ \A i \in 1..(k - 1) : u[i] = v[i]
  BY <1>1, <1>2 DEF TextLess
<1>7. ASSUME TextLess(u, v) PROVE TextLess(s, t) \/ (s = t /\ a < b)
  <2>1. PICK k \in 1..(N + 1) : u[k] < v[k] /\ \A i \in 1..(k - 1) : u[i] = v[i]
    BY <1>6, <1>7
  <2>2. CASE k = N + 1
    <3>1. a < b /\ \A i \in 1..N : s[i] = t[i]
      BY <1>1, <1>2, <2>1, <2>2
    <3> QED BY <1>4, <3>1
  <2>3. CASE k # N + 1
    <3>1. k \in 1..N /\ \A i \in 1..(k - 1) : i \in 1..N
      BY <1>1, <2>3
    <3>2. s[k] < t[k] /\ \A i \in 1..(k - 1) : s[i] = t[i]
      BY <1>2, <2>1, <3>1
    <3> QED BY <1>5, <3>1, <3>2
  <2> QED BY <2>2, <2>3
<1>8. ASSUME TextLess(s, t) PROVE TextLess(u, v)
  <2>1. PICK k \in 1..N : s[k] < t[k] /\ \A i \in 1..(k - 1) : s[i] = t[i]
    BY <1>5, <1>8
  <2>2. k \in 1..(N + 1) /\ \A i \in 1..(k - 1) : i \in 1..N
    BY <1>1
  <2>3. u[k] < v[k] /\ \A i \in 1..(k - 1) : u[i] = v[i]
    BY <1>2, <2>1, <2>2
  <2> QED BY <1>6, <2>2, <2>3
<1>9. ASSUME s = t, a < b PROVE TextLess(u, v)
  <2>1. N + 1 \in 1..(N + 1) /\ (N + 1) - 1 = N
    BY <1>1
  <2>2. u[N + 1] < v[N + 1] /\ \A i \in 1..((N + 1) - 1) : u[i] = v[i]
    BY <1>2, <1>9, <2>1
  <2> QED BY <1>6, <2>1, <2>2
<1> QED BY <1>7, <1>8, <1>9 DEF u, v

LEMMA SingleFigures ==
  ASSUME NEW a \in Figures, NEW b \in Figures
  PROVE  TextLess(<<a>>, <<b>>) <=> a < b
<1>1. \A s \in Seq(Figures) : Len(s) = 0 => ~TextLess(s, s)
  BY LenProperties DEF TextLess
<1>2. <<>> \in Seq(Figures) /\ Len(<<>>) = 0
  OBVIOUS
<1>3. Append(<<>>, a) = <<a>> /\ Append(<<>>, b) = <<b>>
  OBVIOUS
<1>4. TextLess(Append(<<>>, a), Append(<<>>, b)) <=> TextLess(<<>>, <<>>) \/ a < b
  BY <1>2, TextOfAppend
<1>5. ~TextLess(<<>>, <<>>)
  BY <1>1, <1>2
<1> QED BY <1>3, <1>4, <1>5, Zenon

\* Text orders numbers with equally many digits as numbers, and no two alike.
LEMMA TextIsOrder ==
  ASSUME NEW m \in Parts, NEW n \in Parts, Len(Digits[m]) = Len(Digits[n])
  PROVE  /\ TextLess(Digits[m], Digits[n]) <=> m < n
         /\ Digits[m] = Digits[n] => m = n
<1> DEFINE Ordered(j, k) == Len(Digits[j]) = Len(Digits[k]) =>
             /\ TextLess(Digits[j], Digits[k]) <=> j < k
             /\ Digits[j] = Digits[k] => j = k
           U == {k \in Parts : ~ \A j \in Parts : Ordered(j, k)}
<1>1. SUFFICES ASSUME U # {} PROVE FALSE
  OBVIOUS
<1>2. PICK k \in U : \A l \in U : k <= l
  <2>1. U \in SUBSET Nat
    BY VersionAssumption DEF Parts
  <2> HIDE DEF U
  <2> QED BY <1>1, <2>1, LeastNatural
<1>3. k \in Parts
  OBVIOUS
<1>4. PICK j \in Parts : ~Ordered(j, k)
  <2> HIDE DEF Ordered
  <2> QED OBVIOUS
<1>5. ASSUME NEW l \in Parts, l < k PROVE \A i \in Parts : Ordered(i, l)
  <2>1. l \notin U
    <3>1. ~(k <= l)
      BY <1>3, <1>5 DEF Parts
    <3> HIDE DEF U
    <3> QED BY <1>2, <3>1
  <2> HIDE DEF Ordered
  <2> QED BY <2>1
<1> HIDE DEF U
<1>6. Parts \subseteq Nat /\ \A i \in Parts : \A l \in Nat : l <= i => l \in Parts
  BY VersionAssumption DEF Parts
<1>7. ASSUME NEW i \in Parts, i < 10
      PROVE  Digits[i] = <<i>> /\ i \in Figures /\ Len(Digits[i]) = 1
  BY <1>6, <1>7, DigitsOf DEF Figures
<1>8. ASSUME NEW i \in Parts, ~(i < 10)
      PROVE  /\ i \div 10 \in Parts /\ i \div 10 < i /\ i % 10 \in Figures
             /\ i = 10 * (i \div 10) + (i % 10)
             /\ Digits[i \div 10] \in Seq(Figures)
             /\ Digits[i] = Append(Digits[i \div 10], i % 10)
             /\ Len(Digits[i]) = Len(Digits[i \div 10]) + 1
             /\ Len(Digits[i \div 10]) \in Nat \ {0}
  <2>1. /\ i \div 10 \in Nat /\ i \div 10 < i /\ i \div 10 <= i /\ i % 10 \in Figures
        /\ i = 10 * (i \div 10) + (i % 10)
    BY <1>6, <1>8, Tenth
  <2>2. i \div 10 \in Parts
    BY <1>6, <2>1
  <2>3. Digits[i \div 10] \in Seq(Figures) /\ Digits[i] = Append(Digits[i \div 10], i % 10)
    BY <1>8, <2>2, DigitsOf
  <2>4. Digits[i \div 10] # <<>>
    <3>1. \A l \in Parts : Digits[l] # <<>>
      <4> TAKE l \in Parts
      <4>1. CASE l < 10
        BY <1>7, <4>1
      <4>2. CASE ~(l < 10)
        <5>1. l \div 10 \in Nat /\ l \div 10 <= l /\ l % 10 \in Figures
          BY <1>6, Tenth
        <5>2. Digits[l \div 10] \in Seq(Figures) /\ Digits[l] = Append(Digits[l \div 10], l % 10)
          BY <1>6, <4>2, <5>1, DigitsOf
        <5> QED BY <5>1, <5>2, AppendProperties
      <4> QED BY <4>1, <4>2
    <3> QED BY <2>2, <3>1
  <2>5. Len(Digits[i \div 10]) \in Nat \ {0}
    BY <2>3, <2>4, EmptySeq, LenProperties
  <2>6. Len(Digits[i]) = Len(Digits[i \div 10]) + 1
    BY <2>1, <2>3, AppendProperties
  <2> QED BY <2>1, <2>2, <2>3, <2>5, <2>6
<1>9. Len(Digits[j]) = Len(Digits[k])
  BY <1>4
<1>10. CASE k < 10 /\ j < 10
  <2>1. /\ Digits[j] = <<j>> /\ Digits[k] = <<k>> /\ j \in Figures /\ k \in Figures
    BY <1>3, <1>7, <1>10
  <2>2. TextLess(<<j>>, <<k>>) <=> j < k
    BY <2>1, SingleFigures
  <2>3. <<j>> = <<k>> => j = k
    OBVIOUS
  <2> QED BY <1>4, <2>1, <2>2, <2>3
<1>11. CASE (k < 10 /\ ~(j < 10)) \/ (j < 10 /\ ~(k < 10))
  <2>1. ASSUME NEW x \in Parts, NEW y \in Parts, x < 10, ~(y < 10)
        PROVE  Len(Digits[x]) # Len(Digits[y])
    <3>1. Len(Digits[x]) = 1
      BY <1>7, <2>1
    <3>2. Len(Digits[y]) = Len(Digits[y \div 10]) + 1 /\ Len(Digits[y \div 10]) \in Nat \ {0}
      BY <1>8, <2>1
    <3> QED BY <3>1, <3>2
  <2> QED BY <1>3, <1>9, <1>11, <2>1
<1>12. CASE ~(k < 10) /\ ~(j < 10)
  <2> HIDE DEF Ordered
  <2> DEFINE p == j \div 10
             q == k \div 10
             a == j % 10
             b == k % 10
  <2>1. /\ p \in Parts /\ q \in Parts /\ q < k /\ a \in Figures /\ b \in Figures
        /\ j = 10 * p + a /\ k = 10 * q + b
        /\ Digits[p] \in Seq(Figures) /\ Digits[q] \in Seq(Figures)
        /\ Digits[j] = Append(Digits[p], a) /\ Digits[k] = Append(Digits[q], b)
        /\ Len(Digits[j]) = Len(Digits[p]) + 1 /\ Len(Digits[k]) = Len(Digits[q]) + 1
        /\ Len(Digits[p]) \in Nat /\ Len(Digits[q]) \in Nat
    <3>1. /\ p \in Parts /\ a \in Figures /\ j = 10 * p + a
          /\ Digits[p] \in Seq(Figures) /\ Digits[j] = Append(Digits[p], a)
          /\ Len(Digits[j]) = Len(Digits[p]) + 1 /\ Len(Digits[p]) \in Nat
      BY <1>8, <1>12
    <3>2. /\ q \in Parts /\ q < k /\ b \in Figures /\ k = 10 * q + b
          /\ Digits[q] \in Seq(Figures) /\ Digits[k] = Append(Digits[q], b)
          /\ Len(Digits[k]) = Len(Digits[q]) + 1 /\ Len(Digits[q]) \in Nat
      BY <1>3, <1>8, <1>12
    <3> HIDE DEF p, q, a, b
    <3> QED BY <3>1, <3>2
  <2> HIDE DEF p, q, a, b
  <2>2. Len(Digits[p]) = Len(Digits[q])
    BY <1>9, <2>1
  <2>3. Ordered(p, q)
    BY <1>5, <2>1
  <2>4. (TextLess(Digits[p], Digits[q]) <=> p < q) /\ (Digits[p] = Digits[q] <=> p = q)
    BY <2>2, <2>3 DEF Ordered
  <2>5. TextLess(Digits[j], Digits[k]) <=> p < q \/ (p = q /\ a < b)
    BY <2>1, <2>2, <2>4, TextOfAppend
  <2>6. j < k <=> p < q \/ (p = q /\ a < b)
    BY <1>6, <2>1 DEF Figures
  <2>7. ASSUME Digits[j] = Digits[k] PROVE j = k
    <3>1. Digits[p] = Digits[q] /\ a = b
      <4>1. Append(Digits[p], a) = Append(Digits[q], b)
        BY <2>1, <2>7
      <4>2. /\ Digits[p] \in Seq(Figures) /\ Digits[q] \in Seq(Figures)
            /\ a \in Figures /\ b \in Figures
        BY <2>1
      <4>3. \A s, u \in Seq(Figures), x, y \in Figures :
              Append(s, x) = Append(u, y) => s = u /\ x = y
        BY AppendInjective
      <4> HIDE DEF Figures
      <4> QED BY ONLY <4>1, <4>2, <4>3
    <3> QED BY <2>1, <2>4, <3>1
  <2> QED BY <1>4, <2>5, <2>6, <2>7 DEF Ordered
<1> QED BY <1>10, <1>11, <1>12

\* What compare_versions finds where text and numbers agree.
LEMMA OlderIsLess ==
  ASSUME NEW v \in Version, NEW c \in Version,
         \A k \in 1..2 : Len(Digits[v[k]]) = Len(Digits[c[k]])
  PROVE  compare_versions(c, v) = "older" <=> v[1] < c[1] \/ (v[1] = c[1] /\ v[2] < c[2])
<1>1. v \in Parts \X Parts \X Parts /\ c \in Parts \X Parts \X Parts
  BY VersionAssumption DEF Parts
<1>2. v[1] \in Parts /\ v[2] \in Parts /\ c[1] \in Parts /\ c[2] \in Parts
  BY <1>1
<1>3. \A k \in 1..2 : TextLess(Digits[v[k]], Digits[c[k]]) <=> v[k] < c[k]
  <2>1. TextLess(Digits[v[1]], Digits[c[1]]) <=> v[1] < c[1]
    BY <1>2, TextIsOrder
  <2>2. TextLess(Digits[v[2]], Digits[c[2]]) <=> v[2] < c[2]
    BY <1>2, TextIsOrder
  <2> QED BY <2>1, <2>2
<1>4. SR(c) = SR(v) <=> c[1] = v[1] /\ c[2] = v[2]
  BY DEF SR
<1>5. v[1] \in Int /\ v[2] \in Int /\ c[1] \in Int /\ c[2] \in Int
  BY <1>2 DEF Parts
<1>6. CASE c[1] = v[1] /\ c[2] = v[2]
  BY <1>4, <1>5, <1>6 DEF compare_versions
<1>7. CASE c[1] = v[1] /\ c[2] # v[2]
  <2>1. compare_versions(c, v) = IF TextLess(Digits[v[2]], Digits[c[2]]) THEN "older" ELSE "newer"
    BY <1>4, <1>7, Zenon DEF compare_versions
  <2> QED BY <1>3, <1>5, <1>7, <2>1
<1>8. CASE c[1] # v[1]
  <2>1. compare_versions(c, v) = IF TextLess(Digits[v[1]], Digits[c[1]]) THEN "older" ELSE "newer"
    BY <1>4, <1>8, Zenon DEF compare_versions
  <2> QED BY <1>3, <1>5, <1>8, <2>1
<1> QED BY <1>6, <1>7, <1>8

\* The package that brings the new version, which is the last, is a downgrade
\* package if the version compares as older.
LEMMA PlanKinds ==
  \A s \in Plans :
    LET p == s[Len(s)]
    IN p \in Package /\ p.to = new_ver
       /\ (p.kind = "down" <=> compare_versions(cur, new_ver) = "older")
<1> SUFFICES ASSUME NEW s \in Plans
             PROVE  LET p == s[Len(s)]
                    IN p \in Package /\ p.to = new_ver
                       /\ (p.kind = "down" <=> compare_versions(cur, new_ver) = "older")
  OBVIOUS
<1> DEFINE cmp == compare_versions(cur, new_ver)
<1>1. \A v, k : \A p \in Offered(v, k) : p \in Package /\ p.to = v /\ p.kind = k
  BY DEF Offered
<1>2. \A p : <<p>>[Len(<<p>>)] = p
  OBVIOUS
<1>3. \A c, p : <<c, p>>[Len(<<c, p>>)] = p
  OBVIOUS
<1>4. CASE cmp = "older"
  <2>1. PICK p \in Offered(new_ver, "down") : s = <<p>>
    BY <1>4, Zenon DEF Plans
  <2> QED BY <1>1, <1>2, <1>4, <2>1
<1>5. CASE cmp # "older"
  <2>1. s \in upgrade \/ \E p \in Offered(new_ver, "cold") : s = <<p>>
    BY <1>5, Zenon DEF Plans
  <2>2. CASE s \in upgrade
    <3>1. \E p \in UpgradeFrom(new_ver, cur) : s = <<p>> \/ \E c : s = <<c, p>>
      BY <2>2, Zenon DEF upgrade
    <3>2. PICK p \in UpgradeFrom(new_ver, cur) : s[Len(s)] = p
      <4>1. PICK p \in UpgradeFrom(new_ver, cur) : s = <<p>> \/ \E c : s = <<c, p>>
        BY <3>1
      <4>2. s[Len(s)] = p
        BY <1>2, <1>3, <4>1
      <4> QED BY <4>2
    <3>3. p \in Package /\ p.to = new_ver /\ p.kind = "diff"
      BY <1>1 DEF UpgradeFrom
    <3> QED BY <1>5, <3>2, <3>3
  <2>3. CASE \E p \in Offered(new_ver, "cold") : s = <<p>>
    <3>1. PICK p \in Offered(new_ver, "cold") : s = <<p>>
      BY <2>3
    <3> QED BY <1>1, <1>2, <1>5, <3>1
  <2> QED BY <2>1, <2>2, <2>3
<1> QED BY <1>4, <1>5

\* A downgrade package is installed exactly on a meter with newer firmware than
\* the one asked for, for any versions whose numbers are written with equally many
\* digits (coldstart_auto, compare_versions).
THEOREM DowngradesOlder == Spec => DowngradeIffOlder
<1>1. TypeInv /\ [Next]_vars =>
        [pc = "choose" /\ pc' = "tidy" =>
           LET cold == plan'[Len(plan')]
               older == \/ new_ver[1] < cur[1]
                        \/ new_ver[1] = cur[1] /\ new_ver[2] < cur[2]
               sameWidth == \A k \in 1..2 : Len(Digits[new_ver[k]]) = Len(Digits[cur[k]])
           IN sameWidth => (cold.kind = "down" <=> older)]_vars
  <2> SUFFICES ASSUME TypeInv, [Next]_vars, pc = "choose", pc' = "tidy",
                      \A k \in 1..2 : Len(Digits[new_ver[k]]) = Len(Digits[cur[k]])
               PROVE  plan'[Len(plan')].kind = "down" <=>
                        \/ new_ver[1] < cur[1]
                        \/ new_ver[1] = cur[1] /\ new_ver[2] < cur[2]
    BY Zenon
  <2>1. plan' \in Plans
    <3>1. ~(gmr \/ wait_reconnect \/ RemoveParts \/ ListCache \/ rcp_internal_package
              \/ Copied \/ Rename \/ improv \/ CloseLeftover \/ PingFails \/ wait_up \/ Poll
              \/ Wake \/ Login \/ UNCHANGED vars)
      BY DEF gmr, wait_reconnect, RemoveParts, ListCache, rcp_internal_package, Copied, Rename,
             improv, CloseLeftover, PingFails, wait_up, Poll, Wake, Login, vars, monitoring
    <3>2. ~(Failure \/ TimePasses \/ (\E v \in Version : coldstart(v)) \/ TaskBegins \/ Reboot
              \/ Boot \/ \E i \in Pending : TaskFails(i) \/ TaskInstalls(i))
      BY DEF Failure, CommandFails, LoginFails, ReadTimesOut, PipeTimesOut, ReadRaises, Raise,
             Retry, monitoring, TimePasses, coldstart, TaskBegins, Reboot, Boot, TaskFails,
             TaskInstalls, installerVars
    <3>3. Choose
      BY <3>1, <3>2 DEF Next, Progress
    <3> QED BY <3>3 DEF Choose, Raise
  <2> DEFINE p == plan'[Len(plan')]
  <2>2. /\ p \in Package /\ p.to = new_ver
        /\ p.kind = "down" <=> compare_versions(cur, new_ver) = "older"
    BY <2>1, PlanKinds, Zenon
  <2>3. new_ver \in Version /\ cur \in Version
    BY <2>2, Versions DEF TypeInv, InstallerTypes
  <2> HIDE DEF p
  <2>4. compare_versions(cur, new_ver) = "older" <=>
          new_ver[1] < cur[1] \/ (new_ver[1] = cur[1] /\ new_ver[2] < cur[2])
    BY <2>3, OlderIsLess
  <2> QED BY <2>2, <2>4 DEF p
<1> QED BY TypesKept, <1>1, PTL DEF Spec, DowngradeIffOlder
=============================================================================
