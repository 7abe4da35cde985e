---------------------------- MODULE Gen5Session ----------------------------
(***************************************************************************)
(* A meter under test as its users see it: the object SSHGen5Meter with    *)
(* its one connection (meter/Gen5Meter.py: connect, disconnect, gmr,       *)
(* reboot_meter, coldstart, install) and the commands of mm that install   *)
(* (meter/MeterMan.py: cmd_install, cmd_coldstart).  All of them drive the *)
(* installer of MeterInstall; one call goes on at a time.                  *)
(*                                                                         *)
(* A connection that was opened before the meter last went down is stale:  *)
(* each command over it raises, as it does when there is none.             *)
(***************************************************************************)
EXTENDS MeterInstall

VARIABLES connection,  \* self.connection of the SSHGen5Meter: "none", "live", "stale"
          job          \* the call in progress

sessionVars == <<vars, connection, job>>

\* "cold" and "fill" are mm coldstart, without and with --no-coldstart.
Jobs == {"none", "connect", "reboot", "coldstart", "install", "cold", "fill"}

SInit == Init /\ connection = "none" /\ job = "none"

\* The connection as a step of the meter leaves it.
Kept == IF up /\ ~up' /\ connection = "live" THEN "stale" ELSE connection

Free == job = "none" /\ pc = "idle"

-----------------------------------------------------------------------------
(* Calls of SSHGen5Meter *)

connect ==
  /\ Free
  /\ job' = "connect" /\ connection' = "none" /\ result' = "none"
  /\ UNCHANGED <<meterVars, fileVars, pc, planVars, monitorVars, attempts>>

\* The loop of connect: ping and login until one succeeds or time is up.
Connected ==
  /\ job = "connect" /\ up
  /\ job' = "none" /\ connection' = "live"
  /\ UNCHANGED vars

ConnectTimesOut ==
  /\ job = "connect"
  /\ job' = "none" /\ result' = "error"
  /\ UNCHANGED <<meterVars, fileVars, pc, planVars, monitorVars, attempts, connection>>

disconnect ==
  /\ Free /\ connection # "none"
  /\ connection' = "none"
  /\ UNCHANGED <<vars, job>>

\* gmr and reboot_meter: the script or /sbin/reboot goes out first.
reboot_meter ==
  /\ Free /\ connection = "live"
  /\ job' = "reboot" /\ pc' = "gmr" /\ result' = "none"
  /\ NewMonitor /\ UNCHANGED <<meterVars, fileVars, planVars, attempts, connection>>

Coldstart(v) ==
  /\ Free /\ connection = "live"
  /\ coldstart(v)
  /\ job' = IF pc' = "idle" THEN "none" ELSE "coldstart"
  /\ UNCHANGED connection

\* Any call over a stale connection, or none at all, raises.
Unusable ==
  /\ Free /\ connection # "live"
  /\ result' = "error"
  /\ UNCHANGED <<meterVars, fileVars, pc, planVars, monitorVars, attempts, connection, job>>

\* cmd_install logs in by itself.  A local file is copied to a place of its own,
\* which no other call reads; a remote one is there.
install(p) ==
  /\ Free /\ up /\ Quiet /\ attempts < MaxAttempts
  /\ job' = "install" /\ pc' = "improv" /\ result' = "none"
  /\ attempts' = attempts + 1 /\ request' = p.to /\ cur' = running /\ plan' = <<p>>
  /\ NewMonitor
  /\ UNCHANGED <<meterVars, fileVars, connection>>

\* No such file, or only a version, which cmd_install ignores: 1 is returned,
\* and install connects again.
InstallNothing ==
  /\ Free /\ up
  /\ job' = "connect" /\ connection' = "none" /\ result' = "failed"
  /\ UNCHANGED <<meterVars, fileVars, pc, planVars, monitorVars, attempts>>

-----------------------------------------------------------------------------
(* mm coldstart with a file or --downgrade: one package, whatever runs.     *)
(* The options decide on a reset before, and on installing at all.          *)

cmd_coldstart(p, kind) ==
  /\ Free /\ up /\ Quiet /\ attempts < MaxAttempts
  /\ p.kind # "diff"
  /\ job' = kind /\ pc' \in {"gmr", "tidy"} /\ result' = "none"
  /\ attempts' = attempts + 1 /\ plan' = <<p>> /\ cur' = running
  /\ request' = IF kind = "cold" THEN p.to ELSE running
  /\ NewMonitor
  /\ UNCHANGED <<meterVars, fileVars, connection>>

\* --no-coldstart: the image is in the cache, and that was all.
SkipColdstart ==
  /\ job = "fill" /\ pc = "improv"
  /\ Goto("login")
  /\ UNCHANGED <<meterVars, fileVars, planVars, monitorVars, attempts, connection, job>>

-----------------------------------------------------------------------------
(* Calls in progress *)

\* Mutant: a coldstart returns the connection it was given.
HandOverOld == Kept

\* What coldstart_auto returns replaces the connection: the last login after a
\* result of 0, None after another.  An exception leaves the old one.
HandOver ==
  IF job = "coldstart" /\ pc' = "idle" /\ result' = "ok" THEN "live"
  ELSE IF job = "coldstart" /\ pc' = "idle" /\ result' = "failed" THEN "none"
  ELSE Kept

\* Mutant: install does not connect again after a failure.
NextJobIfOk ==
  IF pc' # "idle" THEN job
  ELSE IF job = "install" /\ result' = "ok" THEN "connect" ELSE "none"

\* install connects again when cmd_install has returned, whatever the code.
NextJob ==
  IF pc' # "idle" THEN job
  ELSE IF job = "install" /\ result' # "error" THEN "connect" ELSE "none"

\* Where a call departs from what coldstart_auto does in the same place.
Departs == \/ pc = "resetting" /\ job # "coldstart"
           \/ pc = "login" /\ job = "install"
           \/ pc = "improv" /\ job = "fill"

Handles ==
  /\ job' = NextJob
  /\ connection' = IF job' = "connect" THEN "none" ELSE HandOver

GoesOn == pc # "idle" /\ ~Departs /\ Progress /\ Handles

Breaks == pc # "idle" /\ ~(pc = "login" /\ job = "install") /\ Failure /\ Handles

Ticks == TimePasses /\ UNCHANGED <<connection, job>>

\* The end of wait_reconnect: a reboot is done, mm coldstart goes on.
Reconnected ==
  /\ pc = "resetting" /\ job # "coldstart" /\ up
  /\ IF job = "reboot" THEN pc' = "idle" /\ job' = "none" /\ connection' = "live"
     ELSE pc' = "tidy" /\ UNCHANGED <<job, connection>>
  /\ UNCHANGED <<meterVars, fileVars, planVars, monitorVars, endVars>>

\* cmd_install returns the code of the monitor without logging in.
InstallReturns ==
  /\ pc = "login" /\ job = "install"
  /\ pc' = "idle" /\ result' = "ok"
  /\ job' = "connect" /\ connection' = "none"
  /\ UNCHANGED <<meterVars, fileVars, planVars, monitorVars, attempts>>

\* The command that reboots raises although it has reached the meter: its exit
\* status is lost with the connection, and command asserts that it is 0.
RebootRaises ==
  /\ pc = "gmr" /\ up
  /\ up' = FALSE /\ Raise /\ job' = "none" /\ connection' = Kept
  /\ UNCHANGED <<running, asked, table, outages, fileVars, planVars, monitorVars, attempts>>

Meter ==
  /\ TaskBegins \/ (\E i \in Pending : TaskFails(i) \/ TaskInstalls(i)) \/ Reboot
  /\ connection' = Kept /\ UNCHANGED job

Boots == Boot /\ UNCHANGED <<connection, job>>

-----------------------------------------------------------------------------

Calls ==
  \/ connect \/ disconnect \/ reboot_meter \/ Unusable \/ InstallNothing
  \/ \E v \in Version : Coldstart(v)
  \/ \E p \in Package : install(p) \/ \E kind \in {"cold", "fill"} : cmd_coldstart(p, kind)

Proceeds == Connected \/ ConnectTimesOut \/ SkipColdstart \/ Reconnected \/ InstallReturns

SNext == Calls \/ Proceeds \/ GoesOn \/ Breaks \/ Ticks \/ RebootRaises \/ Meter \/ Boots

\* A call goes on, time passes, and a meter comes up again.
SFairness ==
  /\ WF_sessionVars(Proceeds \/ GoesOn)
  /\ WF_sessionVars(Ticks)
  /\ WF_sessionVars(Boots)

SSpec == SInit /\ [][SNext]_sessionVars /\ SFairness

-----------------------------------------------------------------------------
(* Properties *)

\* A call that returns without an exception leaves a connection that works, in
\* spite of every reboot in between; only a coldstart that failed leaves none
\* (SSHGen5Meter: install, "re-login in case above command logged us out").
ReturnsConnected ==
  [][job' = "none" /\ job \in {"connect", "reboot", "coldstart", "install"} =>
       \/ result' = "error"
       \/ connection' = IF job = "coldstart" /\ result' = "failed" THEN "none" ELSE "live"
    ]_sessionVars

\* Every call comes to an end: meters that stay down, tasks that never end and
\* connections that fail run into the timeouts of connect and of the monitor.
CallsEnd == job # "none" ~> job = "none"

=============================================================================
