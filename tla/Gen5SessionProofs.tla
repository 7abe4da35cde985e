------------------------- MODULE Gen5SessionProofs -------------------------
(* Proofs about Gen5Session, for any builds, faults and sequences of calls. *)
EXTENDS Gen5Session, TLAPS

Drives == {"reboot", "coldstart", "install", "cold", "fill"}

\* ReturnsConnected is not inductive: it depends on which calls drive the
\* installer, and on a reboot that does not go on to install anything.
JobInv ==
  /\ job \in Drives \cup {"none", "connect"}
  /\ pc # "idle" <=> job \in Drives
  /\ job = "reboot" => pc \in {"gmr", "resetting"}

\* The installer ends with a result: each of its steps either raises, or returns
\* a code, or goes on (coldstart_auto, monitor_task_complete).
LEMMA EndsWithResult ==
  ASSUME Progress \/ Failure, pc # "idle"
  PROVE  /\ pc' = "idle" => result' \in {"ok", "failed", "error"}
         /\ pc = "gmr" => pc' \in {"resetting", "idle"}
<1>1. Raise => pc' = "idle" /\ result' = "error"
  BY DEF Raise
<1>2. \A label : Goto(label) => pc' = label
  BY DEF Goto
<1>3. CASE gmr \/ wait_reconnect \/ Choose \/ RemoveParts \/ ListCache
             \/ rcp_internal_package \/ Copied \/ Rename
  BY <1>3, <1>1, <1>2
  DEF gmr, wait_reconnect, Choose, RemoveParts, ListCache, rcp_internal_package, Copied, Rename
<1>4. CASE improv \/ CloseLeftover \/ PingFails \/ wait_up \/ Wake
  BY <1>4, <1>1, <1>2 DEF improv, CloseLeftover, PingFails, wait_up, Wake, monitoring
<1>5. CASE Poll
  <2>1. pc = "monitor"
    BY <1>5 DEF Poll, monitoring
  <2>2. PollAgain => pc' = "sleep" \/ Raise
    BY DEF PollAgain, Goto
  <2>3. \A code : Return(code) => pc' = "login" \/ result' \in {"failed", "error"}
    BY DEF Return, Goto
  <2>4. \A i : Judge(i) => pc' \in {"sleep", "login"} \/ result' \in {"failed", "error"}
    BY <1>1, <2>2, <2>3 DEF Judge
  <2>5. pc' \in {"sleep", "login"} \/ result' \in {"failed", "error"}
    BY <1>1, <1>5, <2>2, <2>3, <2>4, Zenon DEF Poll
  <2> QED BY <2>1, <2>5
<1>6. CASE Login
  BY <1>6 DEF Login, Goto
<1>7. CASE Failure
  BY <1>7, <1>1, <1>2
  DEF Failure, CommandFails, LoginFails, ReadTimesOut, PipeTimesOut, ReadRaises, Retry, monitoring
<1> QED BY <1>3, <1>4, <1>5, <1>6, <1>7 DEF Progress

\* Any step of the meter, and time, leave the installer where it is.
LEMMA OutsideSteps ==
  ASSUME Ticks \/ Meter \/ Boots
  PROVE  UNCHANGED <<pc, job>>
BY DEF Ticks, TimePasses, Meter, TaskBegins, TaskFails, TaskInstalls, Reboot, Boots, Boot,
       installerVars

LEMMA NextJobs == JobInv /\ [SNext]_sessionVars => JobInv'
<1> SUFFICES ASSUME JobInv, [SNext]_sessionVars PROVE JobInv'
  OBVIOUS
<1> USE DEF JobInv, Drives
<1>1. CASE connect \/ disconnect \/ reboot_meter \/ Unusable \/ InstallNothing
  BY <1>1 DEF connect, disconnect, reboot_meter, Unusable, InstallNothing, Free, vars
<1>2. ASSUME NEW v \in Version, Coldstart(v) PROVE JobInv'
  BY <1>2 DEF Coldstart, coldstart, Free
<1>3. ASSUME NEW p \in Package, install(p) PROVE JobInv'
  BY <1>3 DEF install, Free
<1>4. ASSUME NEW p \in Package, NEW kind \in {"cold", "fill"}, cmd_coldstart(p, kind)
      PROVE  JobInv'
  BY <1>4 DEF cmd_coldstart, Free
<1>5. CASE Connected \/ ConnectTimesOut \/ SkipColdstart \/ InstallReturns
  BY <1>5 DEF Connected, ConnectTimesOut, SkipColdstart, InstallReturns, Goto, vars
<1>6. CASE Reconnected
  BY <1>6 DEF Reconnected
<1>7. CASE GoesOn \/ Breaks
  <2>1. pc # "idle" /\ (Progress \/ Failure) /\ job' = NextJob
    BY <1>7 DEF GoesOn, Breaks, Handles
  <2>2. CASE pc' = "idle"
    BY <2>1, <2>2 DEF NextJob
  <2>3. CASE pc' # "idle"
    <3>1. job' = job
      BY <2>1, <2>3 DEF NextJob
    <3>2. job = "reboot" => pc' \in {"gmr", "resetting"}
      <4>1. CASE GoesOn
        BY <2>1, <2>3, <4>1, EndsWithResult DEF GoesOn, Departs
      <4>2. CASE Breaks
        <5>1. pc \in {"gmr", "resetting"} /\ Failure => pc' = "idle"
          BY DEF Failure, CommandFails, LoginFails, ReadTimesOut, PipeTimesOut, ReadRaises,
                 Raise, monitoring
        <5> QED BY <2>3, <4>2, <5>1 DEF Breaks
      <4> QED BY <1>7, <4>1, <4>2
    <3> QED BY <2>1, <2>3, <3>1, <3>2
  <2> QED BY <2>2, <2>3
<1>8. CASE RebootRaises
  BY <1>8 DEF RebootRaises, Raise
<1>9. CASE Ticks \/ Meter \/ Boots \/ UNCHANGED sessionVars
  <2>1. UNCHANGED <<pc, job>>
    BY <1>9, OutsideSteps DEF sessionVars, vars
  <2> QED BY <2>1
<1> QED
  BY <1>1, <1>2, <1>3, <1>4, <1>5, <1>6, <1>7, <1>8, <1>9 DEF SNext, Calls, Proceeds

\* Whichever step ends a call, it has raised or there is a connection that works.
LEMMA CallReturns ==
  ASSUME JobInv, [SNext]_sessionVars, job' = "none",
         job \in {"connect", "reboot", "coldstart", "install"}
  PROVE  \/ result' = "error"
         \/ connection' = IF job = "coldstart" /\ result' = "failed" THEN "none" ELSE "live"
<1>1. ~Free /\ job' # job
  BY DEF Free
<1>2. ~(\/ connect \/ disconnect \/ reboot_meter \/ Unusable \/ InstallNothing
        \/ (\E v \in Version : Coldstart(v))
        \/ \E p \in Package : install(p) \/ \E kind \in {"cold", "fill"} : cmd_coldstart(p, kind))
  BY <1>1
  DEF connect, disconnect, reboot_meter, Unusable, InstallNothing, Coldstart, install,
      cmd_coldstart
<1>3. ~(Ticks \/ Meter \/ Boots \/ UNCHANGED sessionVars \/ SkipColdstart \/ InstallReturns)
  BY <1>1, OutsideSteps DEF SkipColdstart, InstallReturns, sessionVars
<1>4. CASE Connected \/ ConnectTimesOut
  BY <1>4 DEF Connected, ConnectTimesOut
<1>5. CASE Reconnected
  BY <1>5 DEF Reconnected, JobInv, endVars
<1>6. CASE RebootRaises
  BY <1>6 DEF RebootRaises, Raise
<1>7. CASE GoesOn \/ Breaks
  <2>1. pc # "idle" /\ (Progress \/ Failure) /\ job' = NextJob /\ connection' = HandOver
    BY <1>7 DEF GoesOn, Breaks, Handles
  <2>2. pc' = "idle" /\ (job = "install" => result' = "error")
    BY <1>1, <2>1 DEF NextJob
  <2>3. result' \in {"ok", "failed", "error"}
    BY <2>1, <2>2, EndsWithResult
  <2>4. job = "reboot" => result' = "error"
    <3>1. ASSUME job = "reboot" PROVE pc \in {"gmr", "resetting"}
      BY <3>1 DEF JobInv
    <3>2. Progress /\ pc = "gmr" => pc' = "resetting"
      BY DEF Progress, gmr, wait_reconnect, Choose, RemoveParts, ListCache,
             rcp_internal_package, Copied, Rename, improv, CloseLeftover, PingFails, wait_up,
             Poll, Wake, Login, monitoring, Goto
    <3>3. Failure /\ pc \in {"gmr", "resetting"} => result' = "error"
      BY DEF Failure, CommandFails, LoginFails, ReadTimesOut, PipeTimesOut, ReadRaises, Raise,
             monitoring
    <3> QED BY <1>7, <2>2, <3>1, <3>2, <3>3 DEF GoesOn, Breaks, Departs
  <2>5. job # "connect"
    BY <2>1 DEF JobInv, Drives
  <2> QED BY <2>1, <2>2, <2>3, <2>4, <2>5 DEF HandOver
<1> QED BY <1>2, <1>3, <1>4, <1>5, <1>6, <1>7 DEF SNext, Calls, Proceeds

\* A call that returns without an exception leaves a connection that works, for any
\* builds, faults and calls before it; a coldstart that failed leaves none
\* (SSHGen5Meter: connect, gmr, reboot_meter, coldstart, install).
THEOREM ReturnConnection == SSpec => ReturnsConnected
<1>1. SInit => JobInv
  BY DEF SInit, Init, JobInv, Drives
<1>2. JobInv /\ [SNext]_sessionVars => JobInv'
  BY NextJobs
<1>3. JobInv /\ [SNext]_sessionVars
        => [job' = "none" /\ job \in {"connect", "reboot", "coldstart", "install"} =>
              \/ result' = "error"
              \/ connection' = IF job = "coldstart" /\ result' = "failed" THEN "none" ELSE "live"
           ]_sessionVars
  BY CallReturns
<1> QED BY <1>1, <1>2, <1>3, PTL DEF SSpec, ReturnsConnected
=============================================================================
