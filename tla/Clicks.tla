------------------------------- MODULE Clicks -------------------------------
(***************************************************************************)
(* A push button seen through MultiClickDetector (components/input/        *)
(* detectors.py): from the edges of its GPIO line to the clicks, long      *)
(* presses and sequences that are reported for it.                         *)
(*                                                                         *)
(* The unit of time is the debounce time or a multiple of it; every timer  *)
(* is a countdown that Tick decrements and that must fire at 0 before time *)
(* goes on.  Edges come before or after the timers of the same tick, as    *)
(* the loop happens to poll them.  An edge may be lost.  A report is the   *)
(* tuple of the clicks it stands for: <<"single">>, or <<"double",         *)
(* "long">> for the sequence double_then_long.                             *)
(*                                                                         *)
(* Abstractions: loop time and the kernel's time stamps of edges agree;    *)
(* the duration passed with a report, and the actions of long presses      *)
(* kept in the same record (InputActions), are left out.                   *)
(***************************************************************************)
EXTENDS Integers, Sequences, SequencesExt

CONSTANTS
    Debounce,    \* ticks within which an edge is a bounce
    Window,      \* ticks after a release for another click
    Hold,        \* ticks after which a press is long
    SeqWindow,   \* ticks within which a click continues a sequence
    Period,      \* ticks between the reports of a long press
    MaxLong,     \* ticks after which a long press is given up
    Modes,       \* values of sequence_mode to consider
    EnabledSets, \* sets of enabled sequences to consider
    Triples,     \* values of enable_triple_click to consider
    MaxEdges,    \* bound on the edges of the button
    MaxLost      \* bound on the edges that are lost

Single == "single"
Double == "double"
Triple == "triple"
Long == "long"

ClickSequences == {<<Double, Long>>, <<Single, Long>>, <<Double, Single>>}

ASSUME ClicksAssumption ==
    /\ {Debounce, Window, Hold, SeqWindow, Period, MaxLong} \subseteq Nat \ {0}
    /\ {MaxEdges, MaxLost} \subseteq Nat
    /\ Debounce <= Hold /\ Hold <= MaxLong
    /\ Modes \subseteq {"immediate", "exclusive"}
    /\ EnabledSets \subseteq SUBSET ClickSequences

VARIABLES
    config,     \* the sequence mode, the enabled sequences, triple clicks
    down,       \* the button is physically pressed
    pressAge,   \* ticks since last_press_ts, or None
    releaseAge, \* ticks since last_release_ts, or None
    clicks,     \* click_count
    finalizer,  \* countdown of the finalizer, or None
    longs,      \* countdowns of long-press timers, oldest first
    longHandle, \* long_press_timer is the last of them
    periods,    \* countdowns of periodic timers, oldest first
    periodHandle, \* "none", "live": the last of them, "spent": one that fired
    memory,     \* the pending click with its timer, and the last click
    reports,    \* what the last step reported
    edges, lost, astray, heldFor, burst, owed  \* history: see below

vars == <<config, down, pressAge, releaseAge, clicks, finalizer, longs, longHandle,
          periods, periodHandle, memory, reports, edges, lost, astray, heldFor, burst,
          owed>>

None == -1
Nothing == "none"
Init ==
    /\ config \in [mode : Modes, enabled : EnabledSets, triple : Triples]
    /\ down = FALSE
    /\ pressAge = None /\ releaseAge = None
    /\ clicks = 0 /\ finalizer = None
    /\ longs = <<>> /\ longHandle = FALSE
    /\ periods = <<>> /\ periodHandle = "none"
    /\ memory = [pending |-> Nothing, timer |-> None, last |-> Nothing, age |-> 0]
    /\ reports = <<>>
    /\ edges = 0 /\ lost = 0 /\ astray = FALSE
    /\ heldFor = 0 /\ burst = 0 /\ owed = 0

(***************************************************************************)
(* Reporting one click: what is remembered and what is reported.           *)
(***************************************************************************)
CheckSequence(m, click) ==
    /\ m.last # Nothing
    /\ m.age <= SeqWindow
    /\ <<m.last, click>> \in config.enabled

\* A click is remembered even if it has just ended a sequence.
EmitImmediate(m, click) ==
    [memory  |-> [m EXCEPT !.last = click, !.age = 0],
     reports |-> IF CheckSequence(m, click) THEN << <<m.last, click>>, <<click>> >>
                                            ELSE << <<click>> >>]

StartsSequence(click) == \E s \in config.enabled : s[1] = click

\* The last click is not tracked here: nothing reads it in this mode.
EmitExclusive(m, click) ==
    LET cleared == [m EXCEPT !.pending = Nothing, !.timer = None]
        flushed == IF m.pending = Nothing THEN <<>> ELSE << <<m.pending>> >>
    IN  IF m.pending # Nothing /\ <<m.pending, click>> \in config.enabled
        THEN [memory |-> cleared, reports |-> << <<m.pending, click>> >>]
        ELSE IF StartsSequence(click)
        THEN [memory  |-> [cleared EXCEPT !.pending = click, !.timer = SeqWindow],
              reports |-> flushed]
        ELSE [memory |-> cleared, reports |-> Append(flushed, <<click>>)]

EmitOne(m, click) ==
    IF config.mode = "exclusive" THEN EmitExclusive(m, click) ELSE EmitImmediate(m, click)

EmitNothing == UNCHANGED memory /\ reports' = <<>>

Emit(click) ==
    LET e == EmitOne(memory, click)
    IN  memory' = e.memory /\ reports' = e.reports

EmitBoth(first, second) ==
    LET e == EmitOne(memory, first)
        f == EmitOne(e.memory, second)
    IN  memory' = f.memory /\ reports' = e.reports \o f.reports

(***************************************************************************)
(* History, kept from the line of the button and not from click_count.     *)
(* heldFor is how long the line has been down, a bounce of it left out,    *)
(* and Hold + 1 once that is a long press; burst counts the short presses  *)
(* since the last ones were reported or given up; owed those that are      *)
(* still to be reported.  astray says that an edge was lost, or that the   *)
(* detector took the button for held when it was not, or the other way     *)
(* round, while time passed.                                               *)
(***************************************************************************)
Weight(click) ==
    CASE click = Single -> 1 [] click = Double -> 2 [] click = Triple -> 3 [] OTHER -> 0

\* In immediate mode a sequence is reported besides its clicks.
ReportWeight(r) ==
    IF Len(r) = 1 THEN Weight(r[1])
    ELSE IF config.mode = "exclusive" THEN Weight(r[1]) + Weight(r[2]) ELSE 0

\* A step emits two clicks at most, each in two reports at most.
Worth(rs, i) == IF i \in DOMAIN rs THEN ReportWeight(rs[i]) ELSE 0
TotalWeight(rs) == Worth(rs, 1) + Worth(rs, 2) + Worth(rs, 3) + Worth(rs, 4)

Account(presses, dropped) == owed' = owed + presses - dropped - TotalWeight(reports')

\* The line goes down or up: a press as short as a click ends, or none.
CountPress(pressed) ==
    LET short == ~pressed /\ heldFor \in Debounce .. Hold
        presses == IF short THEN 1 ELSE 0
    IN  /\ burst' = burst + presses
        /\ heldFor' = IF ~pressed /\ heldFor >= Debounce THEN 0 ELSE heldFor
        /\ Account(presses, 0)

\* The short presses of a burst are over, and so many are given up.
EndBurst(dropped) == burst' = 0 /\ Account(0, dropped)

\* What is reported, if anything, was clicked before.
SameBurst == UNCHANGED <<heldFor, burst>> /\ Account(0, 0)

Held == pressAge # None /\ releaseAge = None

(***************************************************************************)
(* Edges.                                                                  *)
(***************************************************************************)
Within(age, limit) == age # None /\ age < limit

IgnoreEdge == UNCHANGED <<pressAge, releaseAge, clicks, finalizer, longs, longHandle,
                          periods, periodHandle, memory>> /\ reports' = <<>>

\* Fault for the runs: a press forgets the clicks counted before it.
HandlePressForgets ==
    IF Within(pressAge, Debounce) THEN IgnoreEdge
    ELSE /\ pressAge' = 0
         /\ releaseAge' = None
         /\ finalizer' = None
         /\ clicks' = 0
         /\ memory' = IF config.mode = "exclusive" THEN [memory EXCEPT !.timer = None]
                                                   ELSE memory
         /\ longs' = Append(longs, Hold)
         /\ longHandle' = TRUE
         /\ reports' = <<>>
         /\ UNCHANGED <<periods, periodHandle>>

HandlePress ==
    IF Within(pressAge, Debounce) THEN IgnoreEdge
    ELSE /\ pressAge' = 0
         /\ releaseAge' = None
         /\ finalizer' = None
         /\ memory' = IF config.mode = "exclusive" THEN [memory EXCEPT !.timer = None]
                                                   ELSE memory
         /\ longs' = Append(longs, Hold)
         /\ longHandle' = TRUE
         /\ reports' = <<>>
         /\ UNCHANGED <<clicks, periods, periodHandle>>

\* The long press is over: its timer is cancelled and it is reported once more.
EndPeriods ==
    /\ periods' = IF periodHandle = "live" THEN Front(periods) ELSE periods
    /\ periodHandle' = "none"
    /\ IF periodHandle = "none" THEN EmitNothing ELSE Emit(Long)

\* Fault for the runs: the long-press timer is forgotten instead of cancelled.
CountClickTimerKept ==
    /\ longHandle' = FALSE
    /\ UNCHANGED longs
    /\ IF longHandle THEN clicks' = clicks + 1 /\ finalizer' = Window
                     ELSE UNCHANGED <<clicks, finalizer>>

\* A press that was not held: one more click.
CountClick ==
    /\ longHandle' = FALSE
    /\ IF longHandle
       THEN /\ longs' = Front(longs)
            /\ clicks' = clicks + 1
            /\ finalizer' = Window
       ELSE UNCHANGED <<longs, clicks, finalizer>>

HandleRelease ==
    IF Within(releaseAge, Debounce) \/ Within(pressAge, Debounce) THEN IgnoreEdge
    ELSE /\ releaseAge' = 0
         /\ UNCHANGED pressAge
         /\ EndPeriods
         /\ CountClick

\* The button moves; the edge is handled unless it is lost.
Edge(pressed) ==
    /\ edges < MaxEdges
    /\ down = ~pressed
    /\ down' = pressed
    /\ edges' = edges + 1
    /\ UNCHANGED config
    /\ \/ /\ IF pressed THEN HandlePress ELSE HandleRelease
          /\ UNCHANGED <<lost, astray>>
       \/ /\ lost < MaxLost
          /\ lost' = lost + 1
          /\ astray' = TRUE
          /\ IgnoreEdge
    /\ CountPress(pressed)

Press == Edge(TRUE)
Release == Edge(FALSE)

(***************************************************************************)
(* Timers.                                                                 *)
(***************************************************************************)
EdgesUnchanged == UNCHANGED <<config, down, edges, lost, astray>>

\* Of more than three clicks one is reported.
FinalizeClicks ==
    /\ finalizer = 0
    /\ finalizer' = None
    /\ clicks' = 0
    /\ CASE clicks = 2 -> Emit(Double)
         [] clicks = 3 -> IF config.triple THEN Emit(Triple) ELSE EmitBoth(Double, Single)
         [] OTHER -> Emit(Single)
    /\ EndBurst(IF burst > 3 THEN burst - 1 ELSE 0)
    /\ EdgesUnchanged
    /\ UNCHANGED <<heldFor, pressAge, releaseAge, longs, longHandle, periods, periodHandle>>

\* Whichever long-press timer fires, the handle is forgotten.  Only a press that was held
\* gives up the clicks before it.
DetectLongPress ==
    /\ longs # <<>> /\ Head(longs) = 0
    /\ longs' = Tail(longs)
    /\ longHandle' = FALSE
    /\ clicks' = 0
    /\ Emit(Long)
    /\ EndBurst(IF heldFor >= Hold THEN burst ELSE 0)
    /\ heldFor' = IF heldFor = Hold THEN Hold + 1 ELSE heldFor
    /\ periods' = Append(periods, Period)
    /\ periodHandle' = "live"
    /\ EdgesUnchanged
    /\ UNCHANGED <<pressAge, releaseAge, finalizer>>

\* The handle is live and its timer is the one that fires.
HandleFires == periodHandle = "live" /\ Len(periods) = 1

\* The press is given up as if its release had been seen at its start.
ForceStop ==
    /\ periods' = IF periodHandle = "live" /\ ~HandleFires THEN Front(Tail(periods))
                                                         ELSE Tail(periods)
    /\ periodHandle' = "none"
    /\ longs' = IF longHandle THEN Front(longs) ELSE longs
    /\ longHandle' = FALSE
    /\ releaseAge' = pressAge
    /\ EmitNothing

ReportPeriod ==
    /\ Emit(Long)
    /\ periods' = Append(Tail(periods), Period)
    /\ periodHandle' = "live"
    /\ UNCHANGED <<releaseAge, longs, longHandle>>

\* Released meanwhile: the timer ends, its handle stays.
EndPeriod ==
    /\ EmitNothing
    /\ periods' = Tail(periods)
    /\ periodHandle' = IF HandleFires THEN "spent" ELSE periodHandle
    /\ UNCHANGED <<releaseAge, longs, longHandle>>

\* Fault for the runs: a long press has no longest duration.
SendPeriodicLongEventForEver ==
    /\ periods # <<>> /\ Head(periods) = 0
    /\ IF Held THEN ReportPeriod ELSE EndPeriod
    /\ SameBurst
    /\ EdgesUnchanged
    /\ UNCHANGED <<pressAge, clicks, finalizer>>

SendPeriodicLongEvent ==
    /\ periods # <<>> /\ Head(periods) = 0
    /\ \/ Held /\ pressAge > MaxLong /\ ForceStop
       \/ Held /\ pressAge <= MaxLong /\ ReportPeriod
       \/ ~Held /\ EndPeriod
    /\ SameBurst
    /\ EdgesUnchanged
    /\ UNCHANGED <<pressAge, clicks, finalizer>>

EmitPendingClick ==
    /\ memory.timer = 0
    /\ memory' = [memory EXCEPT !.pending = Nothing, !.timer = None]
    /\ reports' = << <<memory.pending>> >>
    /\ SameBurst
    /\ EdgesUnchanged
    /\ UNCHANGED <<pressAge, releaseAge, clicks, finalizer, longs, longHandle, periods,
                   periodHandle>>

(***************************************************************************)
(* Time.  Ages beyond what they are compared with are not told apart.      *)
(***************************************************************************)
Due ==
    \/ finalizer = 0
    \/ memory.timer = 0
    \/ longs # <<>> /\ Head(longs) = 0
    \/ periods # <<>> /\ Head(periods) = 0

Later(countdown) == IF countdown = None THEN None ELSE countdown - 1
AllLater(countdowns) == [i \in DOMAIN countdowns |-> countdowns[i] - 1]
Older(age, cap) == IF age = None THEN None ELSE IF age < cap THEN age + 1 ELSE cap

Tick ==
    /\ ~Due
    /\ pressAge' = Older(pressAge, IF Held THEN MaxLong + 1 ELSE Debounce)
    /\ releaseAge' = Older(releaseAge, Debounce)
    /\ finalizer' = Later(finalizer)
    /\ longs' = AllLater(longs)
    /\ periods' = AllLater(periods)
    /\ memory' = [memory EXCEPT !.timer = Later(@),
                   !.age = IF memory.last = Nothing THEN 0 ELSE Older(@, SeqWindow + 1)]
    /\ astray' = (astray \/ Held # down)
    /\ reports' = <<>>
    /\ heldFor' = IF down THEN Older(heldFor, Hold + 1) ELSE 0
    /\ UNCHANGED <<config, down, clicks, longHandle, periodHandle, edges, lost, burst, owed>>

FireTimer ==
    \/ FinalizeClicks
    \/ DetectLongPress
    \/ SendPeriodicLongEvent
    \/ EmitPendingClick

Next == Press \/ Release \/ FireTimer \/ Tick

\* Time passes and due callbacks run; the button owes nothing.
Spec == Init /\ [][Next]_vars /\ WF_vars(FireTimer) /\ WF_vars(Tick)

(***************************************************************************)
(* Properties.                                                             *)
(***************************************************************************)
\* A timer is None or has ticks to go, and a handle that is live has a timer.
TypeOK ==
    /\ down \in BOOLEAN /\ astray \in BOOLEAN
    /\ pressAge \in {None} \union Nat /\ releaseAge \in {None} \union Nat
    /\ heldFor \in 0 .. Hold + 1 /\ burst \in Nat
    /\ clicks \in Nat /\ edges \in 0 .. MaxEdges /\ lost \in 0 .. MaxLost
    /\ finalizer \in {None} \union 0 .. Window
    /\ longs \in Seq(0 .. Hold) /\ (longHandle => longs # <<>>)
    /\ periods \in Seq(0 .. Period) /\ (periodHandle = "live" => periods # <<>>)

\* Of the short presses of the button, as its line shows them, each is reported once, in
\* one report or another (a single, a double, a triple, or in exclusive mode a sequence),
\* or is still counted or pending: cancelled, replaced and late timers neither lose one
\* nor report it twice.  Two kinds are given up and reported never: those followed within
\* the window by a press that is held, and all but one of four or more in a burst.
\* Nothing is said once the detector was led astray.
EveryClickReportedOnce ==
    astray \/ owed = clicks + Weight(memory.pending)

\* A long press is reported only while the button is down or as it is released, however
\* timers and edges interleave, as long as the detector has not been led astray by a
\* bounce or a lost edge.
ReportsLong == \E i \in DOMAIN reports : Last(reports[i]) = Long
LongWhileDown == [][~astray /\ Held = down /\ ReportsLong' => down]_vars

\* Once the edges stop, lost releases and bounces included, everything comes to rest:
\* nothing stays counted or pending for ever and no long press is reported for ever.
Settles ==
    <>[](clicks = 0 /\ memory.pending = Nothing /\ finalizer = None
         /\ longs = <<>> /\ periods = <<>>)
=============================================================================
