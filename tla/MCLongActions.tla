--------------------------- MODULE MCLongActions ---------------------------
\* LongActions with one action of each kind.
EXTENDS LongActions

Plain == [min |-> 0, repeat |-> 0, mqtt |-> FALSE]
MCActions == << Plain, [Plain EXCEPT !.min = 3], [Plain EXCEPT !.repeat = 2] >>
=============================================================================
