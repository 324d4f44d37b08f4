---------------------------- MODULE MCIrrigation ----------------------------
(***************************************************************************)
(* Instances of Irrigation for TLC: the zones' run_every_n, and the ways   *)
(* of ordering pump and valve that the configurations select.              *)
(***************************************************************************)
EXTENDS Irrigation

CONSTANTS city, rain   \* water sources: a bare valve, and a tank with a pump

MCEvery == [z \in Zones |-> IF z = NumZones THEN 2 ELSE 1]
MCSources == {city}
MCTwoSources == {city, rain}

Mixed == [s \in Sources |-> IF s = rain THEN "valveFirst" ELSE "pumpFirst"]
PumpRests == [s \in Sources |-> TRUE]

\* Any settings at all, or the defaults with any repeat count; all zones, or all but one.
AnySaved == Options
OneDisabled == {[z \in Zones |-> z # y] : y \in Zones \cup {None}}
Defaults == {o \in Options : o.autoAdvance /\ ~o.reverse /\ ~o.standby /\ ~o.skipNext}
AllEnabled == {[z \in Zones |-> TRUE]}
=============================================================================
