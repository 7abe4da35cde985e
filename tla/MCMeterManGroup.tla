--------------------------- MODULE MCMeterManGroup ---------------------------
(* Two mm on one group of two meters, and a third session on another host.  *)
EXTENDS MeterManGroup

CONSTANTS s1, s2, s3, h1, h2

MCSession == {s1, s2, s3}
MCHost == {h1, h2}
MCLockHost == [s \in MCSession |-> IF s = s3 THEN h2 ELSE h1]
=============================================================================
