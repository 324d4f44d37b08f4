---------------------------- MODULE MCStateStore ----------------------------
\* StateStore with two attributes and two executor threads.
EXTENDS StateStore, TLC

CONSTANTS a, b, w1, w2
MCKeys == {a, b}
MCWriters == {w1, w2}
=============================================================================
