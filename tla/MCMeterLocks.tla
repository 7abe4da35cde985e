---------------------------- MODULE MCMeterLocks ----------------------------
(* MeterLocks with two sessions on two hosts.                               *)
EXTENDS MeterLocks

CONSTANTS s1, s2, h1, h2

MCSession == {s1, s2}
MCHost == {h1, h2}
MCLockHost == [s \in MCSession |-> IF s = s1 THEN h1 ELSE h2]
=============================================================================
