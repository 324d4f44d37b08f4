-------------------------- MODULE MCTimeBasedCover --------------------------
(***************************************************************************)
(* TimeBasedCover for TLC: a cover of a few units, of either kind, set to  *)
(* its middle.                                                             *)
(***************************************************************************)
EXTENDS TimeBasedCover, TLC

CONSTANTS t1, t2

MCKinds == {"time", "venetian"}
MCThreads == {t1, t2}
MCTargets == {1}
MCRestored == [k \in MCKinds |-> IF k = "time" THEN 0..2 ELSE {1}]
MCThresholds == {1}

=============================================================================
