------------------------------ MODULE MCClicks ------------------------------
\* Clicks with ticks of 100 ms: the default times of components/input/event.py, rounded.
EXTENDS Clicks

MCModes == {"immediate", "exclusive"}
MCEnabledSets == {{<<Double, Long>>}, {<<Single, Long>>, <<Double, Single>>}}
MCTriples == BOOLEAN
=============================================================================
