---------------------------- MODULE MCGateCover ----------------------------
\* GateCover in each of its modes.
EXTENDS GateCover

Config(m, s) == [mode |-> m, sensors |-> s, held |-> FALSE, stop |-> FALSE]
MCConfigs ==
    {Config("cycle", {}), Config("cycle", {"closed"}), Config("cycle", Sensors),
     [Config("separate", Sensors) EXCEPT !.stop = TRUE], Config("separate", {"open"}),
     [Config("open_only", {"open"}) EXCEPT !.held = TRUE]}
=============================================================================
