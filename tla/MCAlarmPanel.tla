---------------------------- MODULE MCAlarmPanel ----------------------------
(***************************************************************************)
(* AlarmPanel for TLC: a door with entry delay and a window without.       *)
(***************************************************************************)
EXTENDS AlarmPanel, TLC

CONSTANTS t1, t2, door, window, home, away

MCModes == {home, away}
MCInputs == {door, window}
MCTasks == {t1, t2}
\* The hall is guarded when nobody is at home, the windows always.
MCZoneInputs == <<{door}, {door, window}>>
MCArmModes == <<{away}, {home, away}>>
MCEntryDelay == <<TRUE, FALSE>>

=============================================================================
