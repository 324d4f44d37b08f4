----------------------------- MODULE MCOutputs ------------------------------
(***************************************************************************)
(* Outputs for TLC: three outputs, the second one in an interlock group    *)
(* with each of the others, the first one momentary.                       *)
(***************************************************************************)
EXTENDS Outputs, TLC

CONSTANTS t1, t2, m1, m2

MCTasks == {t1, t2}
MCTimers == {m1, m2}
MCGroups == {{1, 2}, {2, 3}}
MCMomentary == {1}
\* Restored at startup: nothing, two rivals, of which the second is denied, or the momentary one.
MCSavedOn == {{}, {2, 3}, {1}}

=============================================================================
