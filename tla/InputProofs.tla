---------------------------- MODULE InputProofs -----------------------------
(***************************************************************************)
(* Theorems about Clicks, for any times and enabled sequences and any      *)
(* number of edges; and, at the end, about LongActions, for any sequence   *)
(* of actions that have a threshold or an interval but not both, and any   *)
(* number of presses of any duration.                                      *)
(***************************************************************************)
EXTENDS Clicks, LongPresses, SequenceTheorems, TLAPS

-----------------------------------------------------------------------------
\* What emitting a click reports and remembers.

ClickTypes == {Single, Double, Triple, Long}
Memories == [pending : {Nothing, Single, Double, Triple}, timer : Int,
             last : {Nothing} \union ClickTypes, age : Int]
Reports == {<<a>> : a \in ClickTypes} \union {<<a, b>> : a \in ClickTypes, b \in ClickTypes}

\* Reports of short presses only.
Short(rs) == \A i \in DOMAIN rs : Last(rs[i]) # Long

Configured == config \in [mode : Modes, enabled : EnabledSets, triple : Triples]

LEMMA WeightTyped ==
  /\ \A c \in ClickTypes \union {Nothing} : Weight(c) \in Nat
  /\ Weight(Nothing) = 0 /\ Weight(Long) = 0 /\ Weight(Single) = 1
  /\ Weight(Double) = 2 /\ Weight(Triple) = 3
BY DEF Weight, ClickTypes, Nothing, Single, Double, Triple, Long

\* One report, and one of two clicks.
LEMMA OneClick ==
  ASSUME NEW a \in ClickTypes
  PROVE  /\ <<a>> \in Reports /\ Last(<<a>>) = a /\ ReportWeight(<<a>>) = Weight(a)
<1>1. Len(<<a>>) = 1 /\ <<a>>[1] = a
  OBVIOUS
<1> QED
  BY <1>1 DEF Reports, Last, ReportWeight

LEMMA TwoClicks ==
  ASSUME NEW a \in ClickTypes, NEW b \in ClickTypes
  PROVE  /\ <<a, b>> \in Reports /\ Last(<<a, b>>) = b
         /\ ReportWeight(<<a, b>>) =
              IF config.mode = "exclusive" THEN Weight(a) + Weight(b) ELSE 0
<1>1. Len(<<a, b>>) = 2 /\ <<a, b>>[1] = a /\ <<a, b>>[2] = b
  OBVIOUS
<1> QED
  BY <1>1 DEF Reports, Last, ReportWeight

LEMMA ReportTyped ==
  ASSUME NEW r \in Reports
  PROVE  ReportWeight(r) \in Nat
<1>1. \A a \in ClickTypes : Weight(a) \in Nat
  BY WeightTyped
<1>2. CASE \E a \in ClickTypes : r = <<a>>
  BY <1>1, <1>2, OneClick
<1>3. CASE \E a, b \in ClickTypes : r = <<a, b>>
  <2>1. PICK a \in ClickTypes, b \in ClickTypes : r = <<a, b>>
    BY <1>3
  <2>2. Weight(a) \in Nat /\ Weight(b) \in Nat
    BY <1>1
  <2> QED
    BY <2>1, <2>2, TwoClicks
<1> QED
  BY <1>2, <1>3 DEF Reports

\* What the reports of a step are worth.
LEMMA NoReports ==
  TotalWeight(<<>>) = 0 /\ Short(<<>>) /\ <<>> \in Seq(Reports) /\ Len(<<>>) = 0
BY DEF TotalWeight, Worth, Short

LEMMA OneReport ==
  ASSUME NEW r \in Reports
  PROVE  /\ TotalWeight(<<r>>) = ReportWeight(r)
         /\ <<r>> \in Seq(Reports) /\ Len(<<r>>) = 1
         /\ Last(r) # Long => Short(<<r>>)
<1>1. DOMAIN <<r>> = {1} /\ <<r>>[1] = r
  OBVIOUS
<1>2. ReportWeight(r) \in Nat
  BY ReportTyped
<1>3. <<r>> \in Seq(Reports) /\ Len(<<r>>) = 1
  OBVIOUS
<1> QED
  BY <1>1, <1>2, <1>3 DEF TotalWeight, Worth, Short

LEMMA TwoReports ==
  ASSUME NEW r \in Reports, NEW s \in Reports
  PROVE  /\ TotalWeight(<<r, s>>) = ReportWeight(r) + ReportWeight(s)
         /\ <<r, s>> \in Seq(Reports) /\ Len(<<r, s>>) = 2
         /\ Last(r) # Long /\ Last(s) # Long => Short(<<r, s>>)
<1>1. DOMAIN <<r, s>> = {1, 2} /\ <<r, s>>[1] = r /\ <<r, s>>[2] = s
  OBVIOUS
<1>2. ReportWeight(r) \in Nat /\ ReportWeight(s) \in Nat
  BY ReportTyped
<1>3. <<r, s>> \in Seq(Reports) /\ Len(<<r, s>>) = 2
  OBVIOUS
<1> QED
  BY <1>1, <1>2, <1>3 DEF TotalWeight, Worth, Short

\* The reports of two clicks, one after the other.
LEMMA BothReports ==
  ASSUME NEW q \in Seq(Reports), NEW r \in Seq(Reports), Len(q) <= 2, Len(r) <= 2
  PROVE  /\ TotalWeight(q \o r) = TotalWeight(q) + TotalWeight(r)
         /\ Short(q) /\ Short(r) => Short(q \o r)
<1> DEFINE n == Len(q)
           m == Len(r)
           b == q \o r
<1>1. /\ n \in Nat /\ m \in Nat /\ DOMAIN q = 1..n /\ DOMAIN r = 1..m
      /\ b \in Seq(Reports) /\ Len(b) = n + m /\ DOMAIN b = 1..(n + m)
      /\ \A i \in 1..n : b[i] = q[i]
      /\ \A i \in 1..m : b[n + i] = r[i]
  <2>1. /\ n \in Nat /\ m \in Nat /\ DOMAIN q = 1..n /\ DOMAIN r = 1..m
        /\ b \in Seq(Reports) /\ Len(b) = n + m
    BY ConcatProperties, LenProperties
  <2>2. DOMAIN b = 1..(n + m)
    BY <2>1, LenProperties
  <2>3. \A i \in 1..n : b[i] = q[i]
    BY <2>1
  <2>4. \A i \in 1..m : b[n + i] = r[i]
    BY <2>1
  <2> QED
    BY <2>1, <2>2, <2>3, <2>4
<1>2. /\ \A i \in 1..n : ReportWeight(q[i]) \in Nat
      /\ \A i \in 1..m : ReportWeight(r[i]) \in Nat
  BY <1>1, ReportTyped, ElementOfSeq
<1> HIDE DEF n, m, b
<1>3. n \in {0, 1, 2} /\ m \in {0, 1, 2}
  BY <1>1 DEF n, m
<1>4. TotalWeight(b) = TotalWeight(q) + TotalWeight(r)
  <2>1. CASE n = 0
    BY <1>1, <1>2, <1>3, <2>1 DEF TotalWeight, Worth
  <2>2. CASE n = 1
    BY <1>1, <1>2, <1>3, <2>2 DEF TotalWeight, Worth
  <2>3. CASE n = 2
    BY <1>1, <1>2, <1>3, <2>3 DEF TotalWeight, Worth
  <2> QED
    BY <1>3, <2>1, <2>2, <2>3
<1>5. ASSUME Short(q), Short(r)
      PROVE  Short(b)
  <2> SUFFICES ASSUME NEW i \in 1..(n + m)
               PROVE  Last(b[i]) # Long
    BY <1>1 DEF Short
  <2>1. CASE i <= n
    BY <1>1, <1>5, <2>1 DEF Short
  <2>2. CASE i > n
    <3>1. i - n \in 1..m /\ i = n + (i - n)
      BY <1>1, <2>2
    <3> QED
      BY <1>1, <1>5, <3>1 DEF Short
  <2> QED
    BY <1>1, <2>1, <2>2
<1> QED
  BY <1>4, <1>5 DEF b

\* No enabled sequence starts with a long press.
LEMMA LongStartsNone == Configured => ~StartsSequence(Long)
<1>1. \A s \in ClickSequences : s[1] # Long
  BY DEF ClickSequences, Single, Double, Long
<1>2. Configured => config.enabled \subseteq ClickSequences
  BY ClicksAssumption DEF Configured
<1> QED
  BY <1>1, <1>2 DEF StartsSequence

\* A click that is emitted is reported or remembered, once; what was pending is still pending
\* or was reported.
Conserves(m, click, e) ==
    /\ e.memory \in Memories
    /\ e.reports \in Seq(Reports) /\ Len(e.reports) <= 2
    /\ Weight(e.memory.pending) + TotalWeight(e.reports) = Weight(m.pending) + Weight(click)
    /\ click # Long => Short(e.reports)

LEMMA PendingSet ==
  ASSUME NEW m \in Memories, NEW p \in {Nothing, Single, Double, Triple}, NEW t \in Int
  PROVE  /\ [m EXCEPT !.pending = p, !.timer = t] \in Memories
         /\ [m EXCEPT !.pending = p, !.timer = t].pending = p
<1>1. ASSUME NEW n, n = [m EXCEPT !.pending = p, !.timer = t]
      PROVE  n \in Memories /\ n.pending = p
  <2>1. n = [pending |-> p, timer |-> t, last |-> m.last, age |-> m.age]
    BY <1>1 DEF Memories
  <2> QED
    BY <2>1 DEF Memories
<1> QED
  BY <1>1

LEMMA EmitConserves ==
  ASSUME Configured, NEW m \in Memories, NEW click \in ClickTypes
  PROVE  Conserves(m, click, EmitOne(m, click))
<1> DEFINE e == EmitOne(m, click)
<1>1. /\ m.pending \in {Nothing, Single, Double, Triple}
      /\ m.pending # Nothing => m.pending \in ClickTypes /\ m.pending # Long
      /\ m.last \in {Nothing} \union ClickTypes
  BY DEF Memories, ClickTypes, Nothing, Single, Double, Triple, Long
<1>2. /\ Weight(m.pending) \in Nat /\ Weight(click) \in Nat /\ Weight(Nothing) = 0
      /\ \A a \in ClickTypes : Weight(a) \in Nat
  BY <1>1, WeightTyped
<1>3. CASE config.mode # "exclusive"
  <2>1. /\ e.memory = [m EXCEPT !.last = click, !.age = 0]
        /\ e.reports = IF CheckSequence(m, click) THEN << <<m.last, click>>, <<click>> >>
                                                 ELSE << <<click>> >>
    BY <1>3 DEF EmitOne, EmitImmediate
  <2>2. e.memory \in Memories /\ e.memory.pending = m.pending
    <3>1. e.memory = [pending |-> m.pending, timer |-> m.timer, last |-> click, age |-> 0]
      BY <2>1 DEF Memories
    <3> HIDE DEF e
    <3> QED
      BY <3>1 DEF Memories
  <2>3. CASE CheckSequence(m, click)
    <3>1. m.last \in ClickTypes
      BY <1>1, <2>3 DEF CheckSequence
    <3>2. /\ <<m.last, click>> \in Reports /\ ReportWeight(<<m.last, click>>) = 0
          /\ Last(<<m.last, click>>) = click
      BY <1>3, <3>1, TwoClicks
    <3>3. <<click>> \in Reports /\ ReportWeight(<<click>>) = Weight(click) /\ Last(<<click>>) = click
      BY OneClick
    <3>4. /\ TotalWeight(e.reports) = Weight(click) /\ e.reports \in Seq(Reports) /\ Len(e.reports) = 2
          /\ click # Long => Short(e.reports)
      <4>1. e.reports = << <<m.last, click>>, <<click>> >>
        BY <2>1, <2>3
      <4> HIDE DEF e
      <4> QED
        BY <1>2, <3>2, <3>3, <4>1, TwoReports
    <3> HIDE DEF e
    <3> QED
      BY <1>2, <2>2, <3>4 DEF Conserves, e
  <2>4. CASE ~CheckSequence(m, click)
    <3>3. <<click>> \in Reports /\ ReportWeight(<<click>>) = Weight(click) /\ Last(<<click>>) = click
      BY OneClick
    <3>4. /\ TotalWeight(e.reports) = Weight(click) /\ e.reports \in Seq(Reports) /\ Len(e.reports) = 1
          /\ click # Long => Short(e.reports)
      <4>1. e.reports = << <<click>> >>
        BY <2>1, <2>4
      <4> HIDE DEF e
      <4> QED
        BY <1>2, <3>3, <4>1, OneReport
    <3> HIDE DEF e
    <3> QED
      BY <1>2, <2>2, <3>4 DEF Conserves, e
  <2> QED
    BY <2>3, <2>4
<1>4. CASE config.mode = "exclusive"
  <2> DEFINE cleared == [m EXCEPT !.pending = Nothing, !.timer = None]
             kept == [cleared EXCEPT !.pending = click, !.timer = SeqWindow]
             flushed == IF m.pending = Nothing THEN <<>> ELSE << <<m.pending>> >>
  <2>1. e = IF m.pending # Nothing /\ <<m.pending, click>> \in config.enabled
            THEN [memory |-> cleared, reports |-> << <<m.pending, click>> >>]
            ELSE IF StartsSequence(click)
            THEN [memory |-> kept, reports |-> flushed]
            ELSE [memory |-> cleared, reports |-> Append(flushed, <<click>>)]
    BY <1>4 DEF EmitOne, EmitExclusive
  <2>2. cleared \in Memories /\ cleared.pending = Nothing
    <3>1. None \in Int
      BY DEF None
    <3> QED
      BY <3>1, PendingSet
  <2>3. StartsSequence(click) => kept \in Memories /\ kept.pending = click /\ click # Long
    <3>1. StartsSequence(click) => click \in {Single, Double, Triple} /\ click # Long
      BY LongStartsNone DEF ClickTypes
    <3>2. SeqWindow \in Int
      BY ClicksAssumption
    <3> HIDE DEF cleared
    <3> QED
      BY <2>2, <3>1, <3>2, PendingSet
  <2>4. /\ flushed \in Seq(Reports) /\ Len(flushed) <= 1 /\ TotalWeight(flushed) = Weight(m.pending)
        /\ Short(flushed)
    <3>1. CASE m.pending = Nothing
      <4>1. flushed = <<>>
        BY <3>1
      <4> QED
        BY <1>2, <3>1, <4>1, NoReports
    <3>2. CASE m.pending # Nothing
      <4>1. flushed = << <<m.pending>> >>
        BY <3>2
      <4>2. /\ <<m.pending>> \in Reports /\ ReportWeight(<<m.pending>>) = Weight(m.pending)
            /\ Last(<<m.pending>>) # Long
        BY <1>1, <3>2, OneClick
      <4> HIDE DEF flushed
      <4> QED
        BY <4>1, <4>2, OneReport
    <3> QED
      BY <3>1, <3>2
  <2>5. /\ <<click>> \in Reports /\ ReportWeight(<<click>>) = Weight(click) /\ Last(<<click>>) = click
        /\ TotalWeight(<< <<click>> >>) = Weight(click)
        /\ << <<click>> >> \in Seq(Reports) /\ Len(<< <<click>> >>) = 1
        /\ click # Long => Short(<< <<click>> >>)
    BY OneClick, OneReport
  <2> HIDE DEF cleared, kept, flushed
  <2>6. CASE m.pending # Nothing /\ <<m.pending, click>> \in config.enabled
    <3>1. e.memory = cleared /\ e.reports = << <<m.pending, click>> >>
      BY <2>1, <2>6
    <3>2. /\ <<m.pending, click>> \in Reports /\ Last(<<m.pending, click>>) = click
          /\ ReportWeight(<<m.pending, click>>) = Weight(m.pending) + Weight(click)
      BY <1>1, <1>4, <2>6, TwoClicks
    <3>3. /\ TotalWeight(e.reports) = Weight(m.pending) + Weight(click) /\ e.reports \in Seq(Reports)
          /\ Len(e.reports) = 1 /\ (click # Long => Short(e.reports))
      <4> HIDE DEF e
      <4> QED
        BY <3>1, <3>2, OneReport
    <3> HIDE DEF e
    <3> QED
      BY <1>2, <2>2, <3>1, <3>3 DEF Conserves, e
  <2>7. CASE ~(m.pending # Nothing /\ <<m.pending, click>> \in config.enabled) /\ StartsSequence(click)
    <3>1. e.memory = kept /\ e.reports = flushed
      BY <2>1, <2>7
    <3> HIDE DEF e
    <3> QED
      BY <1>2, <2>3, <2>4, <2>7, <3>1 DEF Conserves, e
  <2>8. CASE ~(m.pending # Nothing /\ <<m.pending, click>> \in config.enabled) /\ ~StartsSequence(click)
    <3>1. e.memory = cleared /\ e.reports = Append(flushed, <<click>>)
      BY <2>1, <2>8
    <3>2. Append(flushed, <<click>>) = flushed \o << <<click>> >>
      BY <2>4, <2>5
    <3>3. /\ TotalWeight(e.reports) = Weight(m.pending) + Weight(click)
          /\ click # Long => Short(e.reports)
      <4>1. Len(flushed) <= 2 /\ Len(<< <<click>> >>) <= 2
        BY <2>4, <2>5
      <4>2. /\ TotalWeight(flushed \o << <<click>> >>)
                 = TotalWeight(flushed) + TotalWeight(<< <<click>> >>)
            /\ Short(flushed) /\ Short(<< <<click>> >>) => Short(flushed \o << <<click>> >>)
        BY <2>4, <2>5, <4>1, BothReports
      <4> HIDE DEF e
      <4> QED
        BY <2>4, <2>5, <3>1, <3>2, <4>2
    <3>4. e.reports \in Seq(Reports) /\ Len(e.reports) <= 2
      <4> HIDE DEF e
      <4> QED
        BY <2>4, <2>5, <3>1
    <3> HIDE DEF e
    <3> QED
      BY <1>2, <2>2, <3>1, <3>3, <3>4 DEF Conserves, e
  <2> QED
    BY <2>6, <2>7, <2>8
<1> QED
  BY <1>3, <1>4

LEMMA TotalTyped ==
  ASSUME NEW q \in Seq(Reports)
  PROVE  TotalWeight(q) \in Nat
<1>1. \A i \in DOMAIN q : ReportWeight(q[i]) \in Nat
  <2>1. \A i \in DOMAIN q : q[i] \in Reports
    OBVIOUS
  <2> QED
    BY <2>1, ReportTyped
<1> QED
  BY <1>1 DEF TotalWeight, Worth

-----------------------------------------------------------------------------
\* The invariant.

Typed ==
    /\ Configured
    /\ down \in BOOLEAN /\ astray \in BOOLEAN /\ longHandle \in BOOLEAN
    /\ pressAge \in {None} \union Nat /\ releaseAge \in {None} \union Nat
    /\ clicks \in Nat /\ owed \in Int /\ burst \in Nat /\ heldFor \in 0..Hold + 1
    /\ longs \in Seq(Int)
    /\ memory \in Memories

\* A long-press timer is that of the press under way, after which nothing finalizes; what
\* finalizes has clicks to report; and a press held without the button is a bounce.
Led ==
    ~astray =>
        /\ finalizer # None => clicks > 0
        /\ longs # <<>> => Len(longs) = 1 /\ longHandle /\ Held /\ finalizer = None
        /\ longHandle => longs # <<>>
        /\ Held /\ ~down => pressAge < Debounce

\* The detector counts the short presses of the button: the timer of a press has as long to
\* go as the line has to stay down, and no press comes too close to the last one.
Followed ==
    ~astray =>
        /\ burst = clicks
        /\ Held /\ longHandle => heldFor = pressAge /\ pressAge <= Hold
                                 /\ longs = <<Hold - heldFor>>
        /\ Held /\ ~longHandle => heldFor = Hold + 1 /\ pressAge >= Hold
        /\ ~Held /\ ~down => heldFor = 0
        /\ ~Held /\ down => heldFor = Hold + 1 /\ releaseAge >= Debounce
        /\ ~Held => pressAge = None \/ pressAge >= Debounce

IInv == Typed /\ Led /\ Followed /\ EveryClickReportedOnce

\* What a step reports and keeps pending is what was pending and n clicks more.
Conserved(n) ==
    /\ memory' \in Memories /\ TotalWeight(reports') \in Nat
    /\ Weight(memory'.pending) + TotalWeight(reports') = Weight(memory.pending) + n

LEMMA PendingTyped ==
  ASSUME NEW m \in Memories
  PROVE  Weight(m.pending) \in Nat /\ m.pending # Long
<1>1. m.pending \in {Nothing, Single, Double, Triple}
  BY DEF Memories
<1> QED
  BY <1>1, WeightTyped DEF ClickTypes, Nothing, Single, Double, Triple, Long

LEMMA NothingEmitted ==
  ASSUME memory \in Memories, memory' \in Memories, memory'.pending = memory.pending,
         reports' = <<>>
  PROVE  Conserved(0) /\ Short(reports')
<1>1. Weight(memory.pending) \in Nat
  BY PendingTyped
<1> QED
  BY <1>1, NoReports DEF Conserved

LEMMA Emitted ==
  ASSUME Configured, memory \in Memories, NEW click \in ClickTypes, Emit(click)
  PROVE  Conserved(Weight(click)) /\ (click # Long => Short(reports'))
<1>1. Conserves(memory, click, EmitOne(memory, click))
  BY EmitConserves
<1>2. memory' = EmitOne(memory, click).memory /\ reports' = EmitOne(memory, click).reports
  BY DEF Emit
<1> QED
  BY <1>1, <1>2, TotalTyped DEF Conserves, Conserved

LEMMA BothEmitted ==
  ASSUME Configured, memory \in Memories, NEW a \in ClickTypes, NEW b \in ClickTypes,
         a # Long, b # Long, EmitBoth(a, b)
  PROVE  Conserved(Weight(a) + Weight(b)) /\ Short(reports')
<1> DEFINE e == EmitOne(memory, a)
           f == EmitOne(e.memory, b)
<1>1. Conserves(memory, a, e)
  BY EmitConserves
<1>2. Conserves(e.memory, b, f)
  BY <1>1, EmitConserves DEF Conserves
<1>3. memory' = f.memory /\ reports' = e.reports \o f.reports
  BY DEF EmitBoth
<1>4. /\ Weight(a) \in Nat /\ Weight(b) \in Nat /\ Weight(memory.pending) \in Nat
      /\ Weight(e.memory.pending) \in Nat /\ Weight(f.memory.pending) \in Nat
      /\ TotalWeight(e.reports) \in Nat /\ TotalWeight(f.reports) \in Nat
  BY <1>1, <1>2, WeightTyped, PendingTyped, TotalTyped DEF Conserves
<1> HIDE DEF e, f
<1>5. /\ TotalWeight(reports') = TotalWeight(e.reports) + TotalWeight(f.reports)
      /\ Short(reports')
  BY <1>1, <1>2, <1>3, BothReports DEF Conserves
<1>6. /\ Weight(e.memory.pending) + TotalWeight(e.reports) = Weight(memory.pending) + Weight(a)
      /\ Weight(f.memory.pending) + TotalWeight(f.reports) = Weight(e.memory.pending) + Weight(b)
      /\ f.memory \in Memories
  BY <1>1, <1>2 DEF Conserves
<1>7. /\ Weight(f.memory.pending) + TotalWeight(reports')
           = Weight(memory.pending) + (Weight(a) + Weight(b))
      /\ TotalWeight(reports') \in Nat
  BY <1>4, <1>5, <1>6
<1> QED
  BY <1>3, <1>5, <1>6, <1>7 DEF Conserved

\* The balance, when the clicks that are counted no longer were given up or emitted, and those
\* that are counted anew are presses.
LEMMA Balance ==
  ASSUME Typed, NEW n \in Nat, NEW k \in Int, NEW d \in Int, Conserved(n), Account(k, d)
  PROVE  /\ owed' \in Int
         /\ EveryClickReportedOnce /\ (astray => astray')
               /\ (~astray' => clicks' = clicks + k - d - n)
            => EveryClickReportedOnce'
<1>1. /\ owed' = owed + k - d - TotalWeight(reports') /\ TotalWeight(reports') \in Nat
      /\ owed \in Int /\ clicks \in Nat
      /\ Weight(memory.pending) \in Nat /\ Weight(memory'.pending) \in Nat
      /\ Weight(memory'.pending) + TotalWeight(reports') = Weight(memory.pending) + n
  BY PendingTyped DEF Typed, Account, Conserved
<1>2. owed' \in Int
  BY <1>1
<1>3. ASSUME ~astray, EveryClickReportedOnce, clicks' = clicks + k - d - n
      PROVE  EveryClickReportedOnce'
  <2>1. owed = clicks + Weight(memory.pending)
    BY <1>3 DEF EveryClickReportedOnce
  <2>2. owed' = clicks' + Weight(memory'.pending)
    BY <1>1, <1>3, <2>1
  <2> QED
    BY <2>2 DEF EveryClickReportedOnce
<1>4. astray' => EveryClickReportedOnce'
  BY DEF EveryClickReportedOnce
<1> QED
  BY <1>2, <1>3, <1>4

\* Where the account is not touched.
LEMMA BalanceKept ==
  ASSUME Typed, EveryClickReportedOnce, Conserved(0), SameBurst, clicks' = clicks,
         astray' = astray
  PROVE  owed' \in Int /\ EveryClickReportedOnce'
<1>1. 0 \in Nat /\ 0 \in Int /\ clicks' = clicks + 0 - 0 - 0
  BY DEF Typed
<1> QED
  BY <1>1, Balance DEF SameBurst

-----------------------------------------------------------------------------
\* Edges.

LEMMA EdgeIgnored ==
  ASSUME Typed, IgnoreEdge
  PROVE  Conserved(0) /\ Short(reports')
<1>1. memory' = memory /\ reports' = <<>>
  BY DEF IgnoreEdge
<1> QED
  BY <1>1, NothingEmitted DEF Typed

LEMMA PressHandled ==
  ASSUME Typed, HandlePress
  PROVE  Conserved(0) /\ Short(reports')
<1>1. CASE Within(pressAge, Debounce)
  BY <1>1, EdgeIgnored DEF HandlePress
<1>2. CASE ~Within(pressAge, Debounce)
  <2>1. reports' = <<>> /\ memory' \in {memory, [memory EXCEPT !.timer = None]}
    BY <1>2 DEF HandlePress
  <2>2. memory' \in Memories /\ memory'.pending = memory.pending
    <3>1. None \in Int
      BY DEF None
    <3> QED
      BY <2>1, <3>1 DEF Typed, Memories
  <2> QED
    BY <2>1, <2>2, NothingEmitted DEF Typed
<1> QED
  BY <1>1, <1>2

LEMMA ReleaseHandled ==
  ASSUME Typed, HandleRelease
  PROVE  Conserved(0)
<1>1. CASE Within(releaseAge, Debounce) \/ Within(pressAge, Debounce)
  BY <1>1, EdgeIgnored DEF HandleRelease
<1>2. CASE ~(Within(releaseAge, Debounce) \/ Within(pressAge, Debounce))
  <2>1. EmitNothing \/ Emit(Long)
    BY <1>2 DEF HandleRelease, EndPeriods
  <2>2. CASE EmitNothing
    BY <2>2, NothingEmitted DEF EmitNothing, Typed
  <2>3. CASE Emit(Long)
    <3>1. Long \in ClickTypes /\ Weight(Long) = 0
      BY WeightTyped DEF ClickTypes
    <3> QED
      BY <2>3, <3>1, Emitted DEF Typed
  <2> QED
    BY <2>1, <2>2, <2>3
<1> QED
  BY <1>1, <1>2

\* Cancelling the last timer of a list.
LEMMA FrontTyped ==
  ASSUME NEW q \in Seq(Int), q # <<>>
  PROVE  Front(q) \in Seq(Int) /\ (Len(q) = 1 => Front(q) = <<>>)
<1>1. Front(q) = SubSeq(q, 1, Len(q) - 1) /\ Len(q) \in Nat
  BY LenProperties DEF Front
<1> QED
  BY <1>1, SubSeqProperties, LenProperties, EmptySeq

\* The edge of a button that moves.
LEMMA EdgeKeeps ==
  ASSUME IInv, NEW pressed \in BOOLEAN, Edge(pressed)
  PROVE  IInv' /\ (pressed => Short(reports'))
<1> DEFINE short == ~pressed /\ heldFor \in Debounce..Hold
           k == IF short THEN 1 ELSE 0
<1>1. /\ down = ~pressed /\ down' = pressed /\ config' = config
      /\ burst' = burst + k /\ Account(k, 0)
      /\ heldFor' = IF ~pressed /\ heldFor >= Debounce THEN 0 ELSE heldFor
      /\ \/ /\ IF pressed THEN HandlePress ELSE HandleRelease
            /\ astray' = astray
         \/ astray' = TRUE /\ IgnoreEdge
  BY DEF Edge, CountPress
<1>2. Configured'
  BY <1>1 DEF IInv, Typed, Configured
<1>3. Conserved(0) /\ (pressed => Short(reports'))
  BY <1>1, EdgeIgnored, PressHandled, ReleaseHandled DEF IInv
<1>7. /\ Debounce \in Nat \ {0} /\ Hold \in Nat \ {0} /\ MaxLong \in Nat \ {0}
      /\ Debounce <= Hold /\ Hold <= MaxLong
  BY ClicksAssumption
<1>8. k \in {0, 1} /\ burst' \in Nat /\ heldFor' \in 0..Hold + 1
  BY <1>1, <1>7 DEF IInv, Typed
<1>9. ASSUME ~astray' => clicks' = clicks + k
      PROVE  owed' \in Int /\ EveryClickReportedOnce'
  <2>1. 0 \in Nat /\ 0 \in Int /\ k \in Int /\ (~astray' => clicks' = clicks + k - 0 - 0)
    BY <1>8, <1>9 DEF IInv, Typed
  <2>2. astray => astray'
    BY <1>1
  <2> HIDE DEF k
  <2> QED
    BY <1>1, <1>3, <2>1, <2>2, Balance DEF IInv
<1>4. CASE /\ IgnoreEdge
           /\ astray' = TRUE \/ (astray' = astray /\ (pressed => Within(pressAge, Debounce))
                                /\ (~pressed /\ Held => pressAge < Debounce)
                                /\ (~pressed => Within(releaseAge, Debounce)
                                                \/ Within(pressAge, Debounce)))
  <2>1. UNCHANGED <<pressAge, releaseAge, clicks, finalizer, longs, longHandle, memory>>
    BY <1>4 DEF IgnoreEdge
  <2>2. ~astray' => ~astray /\ Held /\ longHandle /\ heldFor < Debounce
    <3> SUFFICES ASSUME ~astray'
                 PROVE  Held /\ longHandle /\ heldFor < Debounce /\ ~astray
      OBVIOUS
    <3>1. ~astray
      BY <1>4
    <3>2. CASE pressed
      <4>1. pressAge # None /\ pressAge < Debounce /\ pressAge \in Nat
        BY <1>4, <3>1, <3>2 DEF Within, IInv, Typed
      <4>2. Held
        BY <1>7, <3>1, <4>1 DEF IInv, Followed
      <4>3. longHandle
        BY <1>7, <3>1, <4>1, <4>2 DEF IInv, Followed
      <4> QED
        BY <3>1, <4>1, <4>2, <4>3 DEF IInv, Followed
    <3>3. CASE ~pressed
      <4>1. down
        BY <1>1, <3>3
      <4>2. Held
        <5> SUFFICES ASSUME ~Held
                     PROVE  FALSE
          OBVIOUS
        <5>1. releaseAge >= Debounce /\ (pressAge = None \/ pressAge >= Debounce)
          BY <3>1, <4>1 DEF IInv, Followed
        <5>2. (releaseAge # None /\ releaseAge < Debounce) \/ (pressAge # None /\ pressAge < Debounce)
          BY <1>4, <3>1, <3>3 DEF Within
        <5> QED
          BY <1>7, <5>1, <5>2 DEF IInv, Typed, None
      <4>3. pressAge < Debounce /\ pressAge \in Nat
        BY <1>4, <3>1, <3>3, <4>2 DEF IInv, Typed, Held
      <4>4. longHandle
        BY <1>7, <3>1, <4>2, <4>3 DEF IInv, Followed
      <4> QED
        BY <3>1, <4>2, <4>3, <4>4 DEF IInv, Followed
    <3> QED
      BY <3>2, <3>3
  <2>3. ~astray' => k = 0 /\ heldFor' = heldFor
    BY <1>1, <1>7, <2>2 DEF IInv, Typed
  <2>4. owed' \in Int /\ EveryClickReportedOnce'
    BY <1>9, <2>1, <2>3 DEF IInv, Typed
  <2>5. Typed'
    BY <1>1, <1>2, <1>4, <1>8, <2>1, <2>4 DEF IInv, Typed
  <2>6. Led'
    BY <1>1, <1>4, <2>1 DEF IInv, Typed, Led, Held
  <2>7. Followed'
    <3> SUFFICES ASSUME ~astray'
                 PROVE  Followed'
      BY DEF Followed
    <3>1. burst' = clicks'
      BY <1>1, <2>1, <2>2, <2>3 DEF IInv, Typed, Followed
    <3>2. Held' = Held /\ longHandle' = longHandle /\ pressAge' = pressAge /\ longs' = longs
      BY <2>1 DEF Held
    <3> HIDE DEF k
    <3> QED
      BY <2>2, <2>3, <3>1, <3>2 DEF IInv, Followed
  <2> QED
    BY <1>3, <2>4, <2>5, <2>6, <2>7 DEF IInv
<1>5. CASE pressed /\ HandlePress /\ ~Within(pressAge, Debounce) /\ astray' = astray
  <2>1. /\ pressAge' = 0 /\ releaseAge' = None /\ finalizer' = None
        /\ longs' = Append(longs, Hold) /\ longHandle' = TRUE /\ clicks' = clicks
        /\ k = 0 /\ heldFor' = heldFor
    BY <1>1, <1>5 DEF HandlePress
  <2>2. owed' \in Int /\ EveryClickReportedOnce'
    BY <1>9, <2>1 DEF IInv, Typed
  <2>3. longs' \in Seq(Int) /\ (longs = <<>> => longs' = <<Hold>>) /\ longs' # <<>>
    <3>1. Hold \in Int /\ longs \in Seq(Int)
      BY ClicksAssumption DEF IInv, Typed
    <3>2. longs' \in Seq(Int) /\ longs' # <<>>
      BY <2>1, <3>1
    <3>3. Append(<<>>, Hold) = <<Hold>>
      BY <3>1
    <3> QED
      BY <2>1, <3>2, <3>3
  <2>4. Typed'
    BY <1>1, <1>2, <1>3, <1>5, <1>8, <2>1, <2>2, <2>3 DEF IInv, Typed, Conserved
  <2>5. ~astray => longs = <<>> /\ ~Held
    <3>1. ~astray => ~Held
      BY <1>1, <1>5 DEF IInv, Led, Within, Held
    <3> QED
      BY <3>1 DEF IInv, Led
  <2>6. Led'
    <3>1. ~astray => Len(longs') = 1
      BY <2>3, <2>5
    <3> QED
      BY <1>1, <1>5, <2>1, <2>3, <2>5, <3>1 DEF Led, Held, None
  <2>7. Followed'
    <3> SUFFICES ASSUME ~astray'
                 PROVE  Followed'
      BY DEF Followed
    <3>1. heldFor = 0 /\ burst = clicks
      BY <1>1, <1>5, <2>5 DEF IInv, Followed
    <3>2. Held' /\ longs' = <<Hold>> /\ Hold - 0 = Hold /\ 0 <= Hold
      BY <1>5, <1>7, <2>1, <2>3, <2>5 DEF Held, None
    <3>3. burst' = clicks'
      BY <1>1, <2>1, <3>1 DEF IInv, Typed
    <3>4. heldFor' = 0
      BY <2>1, <3>1
    <3> QED
      BY <2>1, <3>2, <3>3, <3>4 DEF Followed
  <2> QED
    BY <1>3, <2>2, <2>4, <2>6, <2>7 DEF IInv
<1>6. CASE /\ ~pressed /\ HandleRelease /\ astray' = astray
           /\ ~Within(releaseAge, Debounce) /\ ~Within(pressAge, Debounce)
  <2>1. releaseAge' = 0 /\ pressAge' = pressAge /\ CountClick
    BY <1>6 DEF HandleRelease
  <2>2. /\ longHandle' = FALSE
        /\ longHandle => longs' = Front(longs) /\ clicks' = clicks + 1 /\ finalizer' = Window
        /\ ~longHandle => longs' = longs /\ clicks' = clicks /\ finalizer' = finalizer
    BY <2>1 DEF CountClick
  <2>3. clicks' \in Nat
    BY <2>2 DEF IInv, Typed
  <2>9. ASSUME ~astray
        PROVE  /\ clicks' = clicks + k /\ heldFor' = 0
               /\ pressAge = None \/ pressAge >= Debounce
    <3>1. CASE Held /\ longHandle
      <4>1. heldFor = pressAge /\ pressAge <= Hold /\ pressAge \in Nat
        BY <2>9, <3>1 DEF IInv, Typed, Followed, Held
      <4>2. pressAge >= Debounce
        BY <1>6, <1>7, <3>1, <4>1 DEF Within, Held
      <4> QED
        BY <1>1, <1>6, <1>7, <2>2, <3>1, <4>1, <4>2
    <3>2. CASE ~(Held /\ longHandle)
      <4>1. down /\ ~longHandle
        <5>1. longHandle => Held
          BY <2>9 DEF IInv, Led
        <5> QED
          BY <1>1, <1>6, <3>2, <5>1
      <4>2. heldFor = Hold + 1 /\ (pressAge = None \/ pressAge >= Debounce)
        BY <1>7, <2>9, <4>1 DEF IInv, Typed, Followed, Held
      <4> QED
        BY <1>1, <1>6, <1>7, <2>2, <4>1, <4>2 DEF IInv, Typed
    <3> QED
      BY <3>1, <3>2
  <2>4. owed' \in Int /\ EveryClickReportedOnce'
    BY <1>6, <1>9, <2>9
  <2>5. longs' \in Seq(Int) /\ (~astray => longs' = <<>>)
    <3>1. CASE longs = <<>>
      <4>1. Front(<<>>) = <<>>
        BY DEF Front
      <4> QED
        BY <2>2, <3>1, <4>1 DEF IInv, Typed
    <3>2. CASE longs # <<>>
      BY <2>2, <3>2, FrontTyped DEF IInv, Typed, Led
    <3> QED
      BY <3>1, <3>2
  <2>6. Typed'
    BY <1>1, <1>2, <1>3, <1>6, <1>8, <2>1, <2>2, <2>3, <2>4, <2>5 DEF IInv, Typed, Conserved
  <2>10. ~Held'
    BY <2>1 DEF Held, None
  <2>7. Led'
    <3>2. ~astray /\ finalizer' # None => clicks' > 0
      BY <2>2 DEF IInv, Typed, Led
    <3> QED
      BY <1>6, <2>2, <2>5, <2>10, <3>2 DEF Led
  <2>8. Followed'
    <3> SUFFICES ASSUME ~astray'
                 PROVE  Followed'
      BY DEF Followed
    <3>1. burst' = clicks'
      BY <1>1, <1>6, <2>9 DEF IInv, Followed
    <3>2. heldFor' = 0 /\ ~down' /\ (pressAge' = None \/ pressAge' >= Debounce)
      BY <1>1, <1>6, <2>1, <2>9
    <3> QED
      BY <2>10, <3>1, <3>2 DEF Followed
  <2> QED
    BY <1>3, <1>6, <2>4, <2>6, <2>7, <2>8 DEF IInv
<1> QED
  <2>1. CASE IgnoreEdge /\ astray' = TRUE
    BY <1>4, <2>1
  <2>2. CASE pressed /\ HandlePress /\ astray' = astray
    BY <1>4, <1>5, <2>2 DEF HandlePress
  <2>3. CASE ~pressed /\ HandleRelease /\ astray' = astray
    <3>1. CASE Within(releaseAge, Debounce) \/ Within(pressAge, Debounce)
      <4>1. IgnoreEdge /\ (Held => pressAge < Debounce)
        BY <2>3, <3>1 DEF HandleRelease, Within, Held
      <4> QED
        BY <1>4, <2>3, <3>1, <4>1
    <3> QED
      BY <1>6, <2>3, <3>1
  <2> QED
    BY <1>1, <2>1, <2>2, <2>3

-----------------------------------------------------------------------------
\* Timers.

LEMMA FinalizeKeeps ==
  ASSUME IInv, FinalizeClicks
  PROVE  IInv' /\ Short(reports')
<1>1. /\ finalizer = 0 /\ finalizer' = None /\ clicks' = 0
      /\ burst' = 0 /\ Account(0, IF burst > 3 THEN burst - 1 ELSE 0)
      /\ UNCHANGED <<config, down, astray, heldFor, pressAge, releaseAge, longs, longHandle>>
  BY DEF FinalizeClicks, EndBurst, EdgesUnchanged
<1> DEFINE n == IF clicks \in {2, 3} THEN clicks ELSE 1
           s == IF burst > 3 THEN burst - 1 ELSE 0
<1>2. Conserved(n) /\ Short(reports')
  <2>1. /\ {Single, Double, Triple} \subseteq ClickTypes /\ Long \notin {Single, Double, Triple}
        /\ Weight(Single) = 1 /\ Weight(Double) = 2 /\ Weight(Triple) = 3
    BY WeightTyped DEF ClickTypes, Single, Double, Triple, Long
  <2>2. CASE clicks = 2
    <3>1. Emit(Double) /\ n = 2
      BY <2>2 DEF FinalizeClicks
    <3> QED
      BY <2>1, <3>1, Emitted DEF IInv, Typed
  <2>3. CASE clicks = 3 /\ config.triple
    <3>1. Emit(Triple) /\ n = 3
      BY <2>3 DEF FinalizeClicks
    <3> QED
      BY <2>1, <3>1, Emitted DEF IInv, Typed
  <2>4. CASE clicks = 3 /\ ~config.triple
    <3>1. EmitBoth(Double, Single) /\ n = 3
      BY <2>4 DEF FinalizeClicks
    <3>2. Conserved(Weight(Double) + Weight(Single)) /\ Short(reports')
      BY <2>1, <3>1, BothEmitted DEF IInv, Typed
    <3>3. Weight(Double) + Weight(Single) = n
      BY <2>1, <3>1
    <3> QED
      BY <3>2, <3>3
  <2>5. CASE clicks \notin {2, 3}
    <3>1. Emit(Single) /\ n = 1
      BY <2>5 DEF FinalizeClicks
    <3> QED
      BY <2>1, <3>1, Emitted DEF IInv, Typed
  <2> QED
    BY <2>2, <2>3, <2>4, <2>5
<1>3. /\ clicks \in Nat /\ n \in Nat /\ s \in Int
      /\ ~astray => clicks > 0 /\ burst = clicks
  BY <1>1 DEF IInv, Typed, Led, Followed, None
<1>4. ~astray => clicks' = clicks + 0 - s - n
  BY <1>1, <1>3
<1> HIDE DEF n, s
<1>5. owed' \in Int /\ EveryClickReportedOnce'
  <2>1. Account(0, s) /\ 0 \in Int
    BY <1>1 DEF s
  <2> QED
    BY <1>1, <1>2, <1>3, <1>4, <2>1, Balance DEF IInv
<1>6. Typed'
  BY <1>1, <1>2, <1>5 DEF IInv, Typed, Configured, Conserved
<1>7. Led'
  <2>1. finalizer # None
    BY <1>1 DEF None
  <2> QED
    BY <1>1, <2>1 DEF IInv, Led, Held
<1>8. Followed'
  BY <1>1 DEF IInv, Followed, Held
<1> QED
  BY <1>2, <1>5, <1>6, <1>7, <1>8 DEF IInv

LEMMA LongEmitted ==
  ASSUME IInv, Emit(Long)
  PROVE  Conserved(0)
<1>1. Long \in ClickTypes /\ Weight(Long) = 0
  BY WeightTyped DEF ClickTypes
<1> QED
  BY <1>1, Emitted DEF IInv, Typed

LEMMA DetectKeeps ==
  ASSUME IInv, DetectLongPress
  PROVE  IInv' /\ (~astray => Held)
<1> DEFINE d == IF heldFor >= Hold THEN burst ELSE 0
<1>1. /\ longs # <<>> /\ Head(longs) = 0 /\ longs' = Tail(longs) /\ longHandle' = FALSE
      /\ clicks' = 0 /\ Emit(Long) /\ burst' = 0 /\ Account(0, d)
      /\ heldFor' = IF heldFor = Hold THEN Hold + 1 ELSE heldFor
      /\ UNCHANGED <<config, down, astray, pressAge, releaseAge, finalizer>>
  BY DEF DetectLongPress, EndBurst, EdgesUnchanged
<1>2. Conserved(0)
  BY <1>1, LongEmitted
<1>9. Hold \in Nat
  BY ClicksAssumption
<1>3. /\ clicks \in Nat /\ d \in Nat
      /\ ~astray => Held /\ heldFor = Hold /\ pressAge = Hold /\ burst = clicks
  <2>1. clicks \in Nat /\ d \in Nat
    BY DEF IInv, Typed
  <2>2. ASSUME ~astray
        PROVE  Held /\ heldFor = Hold /\ pressAge = Hold /\ burst = clicks
    <3>1. Held /\ longHandle
      BY <1>1, <2>2 DEF IInv, Led
    <3>2. /\ heldFor = pressAge /\ longs = <<Hold - heldFor>> /\ burst = clicks
          /\ heldFor \in 0..Hold + 1
      BY <2>2, <3>1 DEF IInv, Typed, Followed
    <3>3. Head(longs) = Hold - heldFor
      BY <3>2
    <3> QED
      BY <1>1, <1>9, <3>1, <3>2, <3>3
  <2> QED
    BY <2>1, <2>2
<1>4. owed' \in Int /\ EveryClickReportedOnce'
  <2>1. ~astray => d = clicks
    BY <1>3, <1>9
  <2>2. 0 \in Nat /\ 0 \in Int /\ d \in Int /\ (~astray => clicks' = clicks + 0 - d - 0)
    BY <1>1, <1>3, <2>1
  <2> HIDE DEF d
  <2> QED
    BY <1>1, <1>2, <2>2, Balance DEF IInv
<1>5. longs' \in Seq(Int) /\ (~astray => longs' = <<>> /\ finalizer = None /\ Held)
  <2>1. longs \in Seq(Int)
    BY DEF IInv, Typed
  <2>2. Len(longs) = 1 => longs' = <<>>
    BY <1>1, <2>1, HeadTailProperties, EmptySeq
  <2> QED
    BY <1>1, <2>1, <2>2, HeadTailProperties DEF IInv, Led
<1>6. Typed'
  <2>1. heldFor' \in 0..Hold + 1 /\ burst' \in Nat
    BY <1>1, <1>9 DEF IInv, Typed
  <2> QED
    BY <1>1, <1>2, <1>4, <1>5, <2>1 DEF IInv, Typed, Configured, Conserved
<1>7. Led'
  BY <1>1, <1>5 DEF IInv, Led, Held
<1>8. Followed'
  <2> SUFFICES ASSUME ~astray'
               PROVE  Followed'
    BY DEF Followed
  <2>1. Held' /\ ~longHandle' /\ heldFor' = Hold + 1 /\ pressAge' >= Hold /\ burst' = clicks'
    BY <1>1, <1>3, <1>9 DEF Held
  <2> QED
    BY <2>1 DEF Followed
<1> QED
  BY <1>4, <1>5, <1>6, <1>7, <1>8 DEF IInv

LEMMA PeriodKeeps ==
  ASSUME IInv, SendPeriodicLongEvent
  PROVE  IInv' /\ (Held \/ Short(reports'))
<1>1. /\ SameBurst /\ UNCHANGED <<heldFor, burst>>
      /\ UNCHANGED <<config, down, astray, pressAge, clicks, finalizer>>
  BY DEF SendPeriodicLongEvent, SameBurst, EdgesUnchanged
<1>2. ASSUME Conserved(0)
      PROVE  owed' \in Int /\ EveryClickReportedOnce'
  BY <1>1, <1>2, BalanceKept DEF IInv
<1>3. CASE Held /\ pressAge > MaxLong /\ ForceStop
  <2>1. /\ longs' = IF longHandle THEN Front(longs) ELSE longs
        /\ longHandle' = FALSE /\ releaseAge' = pressAge
        /\ EmitNothing
    BY <1>3 DEF ForceStop
  <2>2. Conserved(0) /\ Short(reports')
    BY <2>1, NothingEmitted DEF EmitNothing, IInv, Typed
  <2>3. longs' \in Seq(Int) /\ (~astray => longs' = <<>>)
    <3>1. CASE longs = <<>>
      <4>1. Front(<<>>) = <<>>
        BY DEF Front
      <4> QED
        BY <2>1, <3>1, <4>1 DEF IInv, Typed
    <3>2. CASE longs # <<>>
      BY <2>1, <3>2, FrontTyped DEF IInv, Typed, Led
    <3> QED
      BY <3>1, <3>2
  <2>4. Typed'
    BY <1>1, <1>2, <2>1, <2>2, <2>3 DEF IInv, Typed, Configured, Conserved
  <2>5. Led'
    <3>1. ~Held'
      BY <1>3, <2>1 DEF Held
    <3> QED
      BY <1>1, <2>1, <2>3, <3>1 DEF IInv, Led
  <2>6. Followed'
    <3> SUFFICES ASSUME ~astray'
                 PROVE  Followed'
      BY DEF Followed
    <3>1. /\ Debounce \in Nat /\ Hold \in Nat /\ MaxLong \in Nat
          /\ Debounce <= Hold /\ Hold <= MaxLong
      BY ClicksAssumption
    <3>2. pressAge \in Nat /\ pressAge > Hold /\ pressAge >= Debounce /\ ~astray
      BY <1>1, <1>3, <3>1 DEF Held, IInv, Typed
    <3>3. ~longHandle /\ heldFor = Hold + 1
      BY <1>3, <3>1, <3>2 DEF IInv, Followed
    <3>4. down
      BY <1>3, <3>1, <3>2 DEF IInv, Led
    <3>5. /\ ~Held' /\ down' /\ heldFor' = Hold + 1 /\ burst' = clicks'
          /\ releaseAge' >= Debounce /\ pressAge' >= Debounce
      BY <1>1, <1>3, <2>1, <3>2, <3>3, <3>4 DEF Held, IInv, Followed
    <3> QED
      BY <3>5 DEF Followed
  <2> QED
    BY <1>2, <1>3, <2>2, <2>4, <2>5, <2>6 DEF IInv
<1>4. CASE (Held /\ ReportPeriod) \/ (~Held /\ EndPeriod)
  <2>1. UNCHANGED <<releaseAge, longs, longHandle>>
    BY <1>4 DEF ReportPeriod, EndPeriod
  <2>2. Conserved(0) /\ (Held \/ Short(reports'))
    <3>1. CASE Held /\ ReportPeriod
      BY <3>1, LongEmitted DEF ReportPeriod
    <3>2. CASE ~Held /\ EndPeriod
      BY <3>2, NothingEmitted DEF EndPeriod, EmitNothing, IInv, Typed
    <3> QED
      BY <1>4, <3>1, <3>2
  <2>3. Typed'
    BY <1>1, <1>2, <2>1, <2>2 DEF IInv, Typed, Configured, Conserved
  <2>4. Led'
    BY <1>1, <2>1 DEF IInv, Led, Held
  <2>5. Followed'
    BY <1>1, <2>1 DEF IInv, Followed, Held
  <2> QED
    BY <1>2, <2>2, <2>3, <2>4, <2>5 DEF IInv
<1> QED
  BY <1>3, <1>4 DEF SendPeriodicLongEvent

LEMMA PendingKeeps ==
  ASSUME IInv, EmitPendingClick
  PROVE  IInv' /\ Short(reports')
<1>1. /\ memory' = [memory EXCEPT !.pending = Nothing, !.timer = None]
      /\ reports' = << <<memory.pending>> >> /\ SameBurst
      /\ UNCHANGED <<heldFor, burst>>
      /\ UNCHANGED <<config, down, astray, pressAge, releaseAge, clicks, finalizer, longs,
                     longHandle>>
  BY DEF EmitPendingClick, SameBurst, EdgesUnchanged
<1>2. memory' \in Memories /\ memory'.pending = Nothing
  <2>1. None \in Int /\ memory \in Memories
    BY DEF None, IInv, Typed
  <2> QED
    BY <1>1, <2>1, PendingSet
<1>3. Conserved(0) /\ Short(reports')
  <2>1. Weight(memory.pending) \in Nat /\ memory.pending # Long /\ Weight(Nothing) = 0
    BY PendingTyped, WeightTyped DEF IInv, Typed
  <2>2. DOMAIN reports' = {1} /\ reports'[1] = <<memory.pending>>
    BY <1>1
  <2>3. /\ Len(<<memory.pending>>) = 1 /\ <<memory.pending>>[1] = memory.pending
        /\ Last(<<memory.pending>>) = memory.pending
    BY DEF Last
  <2>4. TotalWeight(reports') = Weight(memory.pending) /\ Short(reports')
    BY <2>1, <2>2, <2>3 DEF TotalWeight, Worth, ReportWeight, Short
  <2> QED
    BY <1>2, <2>1, <2>4 DEF Conserved
<1>4. owed' \in Int /\ EveryClickReportedOnce'
  BY <1>1, <1>3, BalanceKept DEF IInv
<1>5. Typed'
  BY <1>1, <1>2, <1>4 DEF IInv, Typed, Configured
<1>6. Led'
  BY <1>1 DEF IInv, Led, Held
<1>7. Followed'
  BY <1>1 DEF IInv, Followed, Held
<1> QED
  BY <1>3, <1>4, <1>5, <1>6, <1>7 DEF IInv

LEMMA TickKeeps ==
  ASSUME IInv, Tick
  PROVE  IInv' /\ Short(reports')
<1>1. /\ ~Due
      /\ heldFor' = IF down THEN Older(heldFor, Hold + 1) ELSE 0
      /\ pressAge' = Older(pressAge, IF Held THEN MaxLong + 1 ELSE Debounce)
      /\ releaseAge' = Older(releaseAge, Debounce)
      /\ finalizer' = Later(finalizer) /\ longs' = AllLater(longs)
      /\ memory' = [memory EXCEPT !.timer = Later(@),
                      !.age = IF memory.last = Nothing THEN 0 ELSE Older(@, SeqWindow + 1)]
      /\ astray' = (astray \/ Held # down) /\ reports' = <<>>
      /\ UNCHANGED <<config, down, clicks, longHandle, burst, owed>>
  BY DEF Tick
<1>2. memory' \in Memories /\ memory'.pending = memory.pending
  <2> DEFINE t == Later(memory.timer)
             a == IF memory.last = Nothing THEN 0 ELSE Older(memory.age, SeqWindow + 1)
  <2>1. t \in Int /\ a \in Int
    BY ClicksAssumption DEF IInv, Typed, Memories, Later, Older, None
  <2>2. memory' = [memory EXCEPT !.timer = t, !.age = a]
    BY <1>1
  <2> HIDE DEF t, a
  <2>3. memory' = [pending |-> memory.pending, timer |-> t, last |-> memory.last, age |-> a]
    BY <2>2 DEF IInv, Typed, Memories
  <2> QED
    BY <2>1, <2>3 DEF IInv, Typed, Memories
<1>3. Short(reports')
  BY <1>1, NoReports
<1>4. /\ pressAge' \in {None} \union Nat /\ releaseAge' \in {None} \union Nat
      /\ pressAge' = None <=> pressAge = None
      /\ releaseAge' = None <=> releaseAge = None
  <2>1. \A age \in {None} \union Nat, cap \in Nat :
            Older(age, cap) \in {None} \union Nat /\ (Older(age, cap) = None <=> age = None)
    BY DEF Older, None
  <2>2. Debounce \in Nat /\ MaxLong + 1 \in Nat
    BY ClicksAssumption
  <2> QED
    BY <1>1, <2>1, <2>2 DEF IInv, Typed
<1>5. finalizer' # None => finalizer # None
  BY <1>1 DEF Later
<1>6. longs' \in Seq(Int) /\ Len(longs') = Len(longs) /\ (longs' = <<>> <=> longs = <<>>)
  <2>1. longs \in Seq(Int) /\ Len(longs) \in Nat /\ DOMAIN longs = 1..Len(longs)
    BY LenProperties DEF IInv, Typed
  <2>2. longs' = [i \in 1..Len(longs) |-> longs[i] - 1]
    BY <1>1, <2>1 DEF AllLater
  <2>3. longs' \in Seq(Int) /\ Len(longs') = Len(longs)
    BY <2>1, <2>2
  <2> QED
    BY <2>1, <2>3, EmptySeq
<1>7. EveryClickReportedOnce'
  BY <1>1, <1>2 DEF IInv, EveryClickReportedOnce
<1>11. /\ Debounce \in Nat \ {0} /\ Hold \in Nat \ {0} /\ MaxLong \in Nat \ {0}
      /\ Debounce <= Hold /\ Hold <= MaxLong
  BY ClicksAssumption
<1>12. heldFor' \in 0..Hold + 1
  BY <1>1, <1>11 DEF IInv, Typed, Older, None
<1>8. Typed'
  BY <1>1, <1>2, <1>4, <1>6, <1>12 DEF IInv, Typed, Configured
<1>9. Led'
  <2>1. Held' = Held
    BY <1>4 DEF Held
  <2>2. ~astray' => ~astray /\ (Held => down)
    <3>1. CASE astray \/ Held # down
      BY <1>1, <3>1
    <3>2. CASE ~(astray \/ Held # down)
      <4>1. Held = down
        BY <3>2
      <4> QED
        BY <3>2, <4>1
    <3> QED
      BY <3>1, <3>2
  <2>3. ~astray' => (finalizer' # None => clicks' > 0)
    BY <1>1, <1>5, <2>2 DEF IInv, Led
  <2>4. ~astray' /\ longs' # <<>> => Len(longs') = 1 /\ longHandle' /\ Held' /\ finalizer' = None
    BY <1>1, <1>5, <1>6, <2>1, <2>2 DEF IInv, Led
  <2>5. ~astray' /\ longHandle' => longs' # <<>>
    BY <1>1, <1>6, <2>2 DEF IInv, Led
  <2> QED
    BY <1>1, <2>1, <2>2, <2>3, <2>4, <2>5 DEF Led
<1>10. Followed'
  <2> SUFFICES ASSUME ~astray'
               PROVE  Followed'
    BY DEF Followed
  <2>1. ~astray /\ Held = down
    <3>1. CASE Held = down
      BY <1>1, <3>1
    <3>2. CASE Held # down
      BY <1>1, <3>2
    <3> QED
      BY <3>1, <3>2
  <2>2. Held' = Held /\ burst' = clicks'
    BY <1>1, <1>4, <2>1 DEF IInv, Followed, Held
  <2>3. CASE Held /\ longHandle
    <3>1. heldFor = pressAge /\ pressAge <= Hold /\ longs = <<Hold - heldFor>> /\ pressAge \in Nat
      BY <2>1, <2>3 DEF IInv, Typed, Followed, Held
    <3>2. heldFor # Hold
      <4>1. longs # <<>> /\ Head(longs) = Hold - heldFor
        BY <3>1
      <4>2. Head(longs) # 0
        BY <1>1, <4>1 DEF Due
      <4> QED
        BY <1>11, <4>1, <4>2
    <3>3. heldFor' = heldFor + 1 /\ pressAge' = pressAge + 1
      BY <1>1, <1>11, <2>1, <2>3, <3>1, <3>2 DEF Older, None
    <3>4. longs' = <<Hold - heldFor'>>
      <4>1. longs' = <<Hold - heldFor - 1>>
        BY <1>1, <3>1 DEF AllLater
      <4>2. Hold - heldFor - 1 = Hold - heldFor'
        BY <1>11, <3>1, <3>3
      <4> QED
        BY <4>1, <4>2
    <3>5. heldFor' = pressAge' /\ pressAge' <= Hold
      BY <1>11, <3>1, <3>2, <3>3
    <3> QED
      BY <1>1, <2>2, <2>3, <3>4, <3>5 DEF Followed
  <2>4. CASE Held /\ ~longHandle
    <3>1. heldFor = Hold + 1 /\ pressAge >= Hold /\ pressAge \in Nat
      BY <2>1, <2>4 DEF IInv, Typed, Followed, Held
    <3>2. heldFor' = Hold + 1 /\ pressAge' >= Hold
      BY <1>1, <1>11, <2>1, <2>4, <3>1 DEF Older, None
    <3> QED
      BY <1>1, <2>2, <2>4, <3>2 DEF Followed
  <2>5. CASE ~Held
    <3>1. pressAge = None \/ pressAge >= Debounce
      BY <2>1, <2>5 DEF IInv, Followed
    <3>2. pressAge' = None \/ pressAge' >= Debounce
      BY <1>1, <1>11, <2>5, <3>1 DEF Older, IInv, Typed, None
    <3>3. heldFor' = 0 /\ ~down'
      BY <1>1, <2>1, <2>5
    <3> QED
      BY <2>2, <2>5, <3>2, <3>3 DEF Followed
  <2> QED
    BY <2>3, <2>4, <2>5
<1> QED
  BY <1>3, <1>7, <1>8, <1>9, <1>10 DEF IInv

-----------------------------------------------------------------------------
LEMMA InitHolds == Init => IInv
<1> SUFFICES ASSUME Init
             PROVE  IInv
  OBVIOUS
<1>1. /\ config \in [mode : Modes, enabled : EnabledSets, triple : Triples]
      /\ down = FALSE /\ pressAge = None /\ releaseAge = None /\ clicks = 0 /\ finalizer = None
      /\ longs = <<>> /\ longHandle = FALSE /\ astray = FALSE /\ owed = 0
      /\ heldFor = 0 /\ burst = 0
      /\ memory = [pending |-> Nothing, timer |-> None, last |-> Nothing, age |-> 0]
  BY DEF Init
<1>2. memory \in Memories /\ Weight(memory.pending) = 0
  BY <1>1, WeightTyped DEF Memories, None
<1>3. Typed
  <2>1. longs \in Seq(Int)
    BY <1>1
  <2>2. /\ pressAge \in {None} \union Nat /\ releaseAge \in {None} \union Nat /\ clicks \in Nat
        /\ owed \in Int /\ burst \in Nat /\ heldFor \in 0..Hold + 1
    BY <1>1, ClicksAssumption
  <2> QED
    BY <1>1, <1>2, <2>1, <2>2 DEF Typed, Configured
<1>4. Led
  BY <1>1 DEF Led, Held
<1>5. Followed
  BY <1>1 DEF Followed, Held
<1> QED
  BY <1>1, <1>2, <1>3, <1>4, <1>5 DEF IInv, EveryClickReportedOnce

\* What a step keeps, and when it may report a long press.
LEMMA StepHolds ==
  ASSUME IInv, Next
  PROVE  IInv' /\ (~astray /\ Held = down /\ ~down => Short(reports'))
<1>1. CASE Press
  BY <1>1, EdgeKeeps DEF Press
<1>2. CASE Release
  <2>1. IInv'
    BY <1>2, EdgeKeeps DEF Release
  <2>2. down
    BY <1>2 DEF Release, Edge, IInv, Typed
  <2> QED
    BY <2>1, <2>2
<1>3. CASE FireTimer
  BY <1>3, FinalizeKeeps, DetectKeeps, PeriodKeeps, PendingKeeps DEF FireTimer
<1>4. CASE Tick
  BY <1>4, TickKeeps
<1> QED
  BY <1>1, <1>2, <1>3, <1>4 DEF Next

LEMMA StutterHolds ==
  ASSUME IInv, UNCHANGED vars
  PROVE  IInv'
BY DEF vars, IInv, Typed, Configured, Led, Followed, Held, EveryClickReportedOnce

\* Each short press the line of the button shows is reported exactly once or still counted or
\* pending, but for those that a press held after them and a burst of four or more give up,
\* whatever the times and the enabled sequences, in both modes, and for any number of edges
\* that come before or after the timers of their tick, until an edge is lost or the detector
\* is led astray by a bounce.
THEOREM ClicksReported == Spec => []EveryClickReportedOnce
<1>1. Init => IInv
  BY InitHolds
<1>2. IInv /\ [Next]_vars => IInv'
  BY StepHolds, StutterHolds
<1>3. IInv => EveryClickReportedOnce
  BY DEF IInv
<1> QED
  BY <1>1, <1>2, <1>3, PTL DEF Spec

\* No timer and no pending click reports a long press while the button is up: the long-press
\* timer is cancelled in time, and the periodic one finds the button released.
THEOREM LongsWhileDown == Spec => LongWhileDown
<1>1. Init => IInv
  BY InitHolds
<1>2. IInv /\ [Next]_vars => IInv'
  BY StepHolds, StutterHolds
<1>3. IInv /\ [Next]_vars => [~astray /\ Held = down /\ ReportsLong' => down]_vars
  <2> SUFFICES ASSUME IInv, Next, ~astray, Held = down, ReportsLong'
               PROVE  down
    OBVIOUS
  <2>1. ~Short(reports')
    BY DEF ReportsLong, Short
  <2> QED
    BY <2>1, StepHolds DEF IInv, Typed
<1>4. IInv /\ [][Next]_vars => [][~astray /\ Held = down /\ ReportsLong' => down]_vars
  BY <1>2, <1>3, PTL
<1> QED
  BY <1>1, <1>4, PTL DEF Spec, LongWhileDown

-----------------------------------------------------------------------------
\* The timers of a kind: none is overdue, and the oldest is the first to fire.
Timers(q, n) ==
    /\ q \in Seq(0..n)
    /\ \A i, j \in 1..Len(q) : i < j => q[i] <= q[j]

Timed == TypeOK /\ Timers(longs, Hold) /\ Timers(periods, Period)

LEMMA TimerStarted ==
  ASSUME NEW n \in Nat, NEW q, Timers(q, n)
  PROVE  Timers(Append(q, n), n) /\ Append(q, n) # <<>>
<1>1. q \in Seq(0..n) /\ Len(q) \in Nat /\ n \in 0..n /\ \A i \in 1..Len(q) : q[i] \in 0..n
  BY LenProperties, ElementOfSeq DEF Timers
<1>2. /\ Append(q, n) \in Seq(0..n) /\ Len(Append(q, n)) = Len(q) + 1
      /\ \A i \in 1..Len(q) : Append(q, n)[i] = q[i]
      /\ Append(q, n)[Len(q) + 1] = n
  BY <1>1, AppendProperties
<1>3. Append(q, n) # <<>>
  BY <1>1, <1>2
<1> QED
  BY <1>1, <1>2, <1>3 DEF Timers

LEMMA FirstFired ==
  ASSUME NEW n \in Nat, NEW q, Timers(q, n), q # <<>>
  PROVE  Timers(Tail(q), n) /\ Len(Tail(q)) = Len(q) - 1 /\ Len(q) \in Nat \ {0}
<1>1. q \in Seq(0..n) /\ Len(q) \in Nat \ {0}
  BY LenProperties, EmptySeq DEF Timers
<1>2. /\ Tail(q) \in Seq(0..n) /\ Len(Tail(q)) = Len(q) - 1
      /\ \A i \in 1..Len(Tail(q)) : Tail(q)[i] = q[i + 1]
  BY <1>1, HeadTailProperties
<1> QED
  BY <1>1, <1>2 DEF Timers

LEMMA LastCancelled ==
  ASSUME NEW n \in Nat, NEW q, Timers(q, n), q # <<>>
  PROVE  Timers(Front(q), n)
<1>1. q \in Seq(0..n) /\ Len(q) \in Nat \ {0}
  BY LenProperties, EmptySeq DEF Timers
<1>2. Front(q) = SubSeq(q, 1, Len(q) - 1)
  BY DEF Front
<1>3. /\ Front(q) \in Seq(0..n) /\ Len(Front(q)) = Len(q) - 1
      /\ \A i \in 1..Len(q) - 1 : Front(q)[i] = q[i]
  <2> DEFINE m == Len(q) - 1
  <2>1. /\ 1 \in Int /\ m \in Nat /\ \A i \in 1..m : q[i] \in 0..n
        /\ m - 1 + 1 = m /\ \A i \in 1..m : 1 + i - 1 = i
    BY <1>1, ElementOfSeq
  <2> HIDE DEF m
  <2>2. /\ SubSeq(q, 1, m) \in Seq(0..n)
        /\ Len(SubSeq(q, 1, m)) = IF 1 <= m THEN m - 1 + 1 ELSE 0
        /\ \A i \in 1 .. m - 1 + 1 : SubSeq(q, 1, m)[i] = q[1 + i - 1]
    BY <2>1, SubSeqProperties
  <2>3. Len(SubSeq(q, 1, m)) = m
    BY <2>1, <2>2
  <2> QED
    BY <1>2, <2>1, <2>2, <2>3 DEF m
<1>4. \A i \in 1..Len(q) - 1 : i \in 1..Len(q)
  BY <1>1
<1>5. \A i, j \in 1..Len(q) - 1 : i < j => Front(q)[i] <= Front(q)[j]
  BY <1>3, <1>4 DEF Timers
<1> QED
  BY <1>3, <1>5 DEF Timers

LEMMA AllCountDown ==
  ASSUME NEW n \in Nat, NEW q, Timers(q, n), ~(q # <<>> /\ Head(q) = 0)
  PROVE  Timers(AllLater(q), n) /\ (q # <<>> => AllLater(q) # <<>>)
<1>1. /\ q \in Seq(0..n) /\ Len(q) \in Nat /\ DOMAIN q = 1..Len(q)
      /\ \A i \in 1..Len(q) : q[i] \in 0..n
  BY LenProperties, ElementOfSeq DEF Timers
<1>2. \A i \in 1..Len(q) : q[i] - 1 \in 0..n
  <2> SUFFICES ASSUME NEW i \in 1..Len(q)
               PROVE  q[i] > 0
    BY <1>1
  <2>1. q[1] \in 0..n /\ q[1] # 0
    <3>1. q # <<>> /\ 1 \in 1..Len(q)
      BY <1>1
    <3>2. Head(q) = q[1]
      BY <1>1, <3>1, HeadTailProperties
    <3> QED
      BY <1>1, <3>1, <3>2
  <2>2. i = 1 \/ q[1] <= q[i]
    BY <1>1 DEF Timers
  <2> QED
    BY <1>1, <2>1, <2>2
<1>3. AllLater(q) = [i \in 1..Len(q) |-> q[i] - 1]
  BY <1>1 DEF AllLater
<1>4. AllLater(q) \in Seq(0..n) /\ Len(AllLater(q)) = Len(q)
  BY <1>1, <1>2, <1>3
<1>5. Timers(AllLater(q), n)
  BY <1>1, <1>3, <1>4 DEF Timers
<1>6. q # <<>> => AllLater(q) # <<>>
  BY <1>1, <1>4, EmptySeq
<1> QED
  BY <1>5, <1>6

LEMMA EdgeTimed ==
  ASSUME Timed, NEW pressed \in BOOLEAN, Edge(pressed)
  PROVE  Timed'
<1>1. /\ edges < MaxEdges /\ edges' = edges + 1 /\ down' = pressed
      /\ burst' \in {burst, burst + 1} /\ heldFor' \in {0, heldFor}
      /\ \/ /\ HandlePress \/ HandleRelease
            /\ UNCHANGED <<lost, astray>>
         \/ lost < MaxLost /\ lost' = lost + 1 /\ astray' = TRUE /\ IgnoreEdge
  <2>1. burst \in Nat
    BY DEF Timed, TypeOK
  <2> QED
    BY <2>1 DEF Edge, CountPress
<1>2. /\ edges' \in 0..MaxEdges /\ lost' \in 0..MaxLost /\ astray' \in BOOLEAN
      /\ down' \in BOOLEAN /\ burst' \in Nat /\ heldFor' \in 0..Hold + 1
  <2>1. MaxEdges \in Nat /\ MaxLost \in Nat /\ Hold \in Nat
    BY ClicksAssumption
  <2>2. edges' \in 0..MaxEdges
    BY <1>1, <2>1 DEF Timed, TypeOK
  <2>3. lost' \in 0..MaxLost
    BY <1>1, <2>1 DEF Timed, TypeOK
  <2>4. astray' \in BOOLEAN
    BY <1>1 DEF Timed, TypeOK
  <2>5. burst' \in Nat /\ heldFor' \in 0..Hold + 1
    BY <1>1, <2>1 DEF Timed, TypeOK
  <2> QED
    BY <1>1, <2>1, <2>2, <2>3, <2>4, <2>5
<1>3. Hold \in Nat /\ Period \in Nat /\ Window \in Nat
  BY ClicksAssumption
<1>4. CASE IgnoreEdge
  BY <1>2, <1>4 DEF IgnoreEdge, Timed, TypeOK
<1>5. CASE HandlePress /\ ~Within(pressAge, Debounce)
  <2>1. /\ pressAge' = 0 /\ releaseAge' = None /\ finalizer' = None
        /\ longs' = Append(longs, Hold) /\ UNCHANGED <<clicks, periods, periodHandle>>
    BY <1>5 DEF HandlePress
  <2>2. Timers(longs', Hold) /\ longs' # <<>>
    BY <1>3, <2>1, TimerStarted DEF Timed
  <2> QED
    BY <1>2, <2>1, <2>2 DEF Timed, TypeOK, Timers
<1>6. CASE HandleRelease /\ ~(Within(releaseAge, Debounce) \/ Within(pressAge, Debounce))
  <2>1. /\ releaseAge' = 0 /\ pressAge' = pressAge /\ longHandle' = FALSE
        /\ periods' = IF periodHandle = "live" THEN Front(periods) ELSE periods
        /\ periodHandle' = "none"
        /\ IF longHandle THEN longs' = Front(longs) /\ clicks' = clicks + 1 /\ finalizer' = Window
                         ELSE UNCHANGED <<longs, clicks, finalizer>>
    BY <1>6 DEF HandleRelease, EndPeriods, CountClick
  <2>2. Timers(periods', Period)
    BY <1>3, <2>1, LastCancelled DEF Timed, TypeOK
  <2>3. Timers(longs', Hold)
    BY <1>3, <2>1, LastCancelled DEF Timed, TypeOK
  <2>4. clicks' \in Nat /\ finalizer' \in {None} \union 0 .. Window
    BY <1>3, <2>1 DEF Timed, TypeOK
  <2> QED
    BY <1>2, <2>1, <2>2, <2>3, <2>4 DEF Timed, TypeOK, Timers
<1> QED
  BY <1>1, <1>4, <1>5, <1>6 DEF HandlePress, HandleRelease

LEMMA TimerTimed ==
  ASSUME Timed, FireTimer
  PROVE  Timed'
<1>1. UNCHANGED <<down, edges, lost, astray, pressAge>>
  BY DEF FireTimer, FinalizeClicks, DetectLongPress, SendPeriodicLongEvent, EmitPendingClick,
         EdgesUnchanged
<1>2. Hold \in Nat /\ Period \in Nat
  BY ClicksAssumption
<1>7. burst' \in Nat /\ heldFor' \in 0..Hold + 1
  BY <1>2 DEF FireTimer, FinalizeClicks, DetectLongPress, SendPeriodicLongEvent,
              EmitPendingClick, EndBurst, SameBurst, Timed, TypeOK
<1>3. CASE FinalizeClicks
  BY <1>1, <1>3, <1>7 DEF FinalizeClicks, Timed, TypeOK
<1>4. CASE DetectLongPress
  <2>1. /\ longs # <<>> /\ longs' = Tail(longs) /\ longHandle' = FALSE /\ clicks' = 0
        /\ periods' = Append(periods, Period) /\ UNCHANGED <<releaseAge, finalizer>>
    BY <1>4 DEF DetectLongPress
  <2>2. Timers(longs', Hold) /\ Timers(periods', Period) /\ periods' # <<>>
    BY <1>2, <2>1, FirstFired, TimerStarted DEF Timed
  <2> QED
    BY <1>1, <1>7, <2>1, <2>2 DEF Timed, TypeOK, Timers
<1>5. CASE SendPeriodicLongEvent
  <2>1. periods # <<>> /\ UNCHANGED <<clicks, finalizer>>
    BY <1>5 DEF SendPeriodicLongEvent
  <2>2. /\ Timers(Tail(periods), Period)
        /\ periodHandle = "live" /\ ~HandleFires => Tail(periods) # <<>>
    <3>1. /\ Timers(Tail(periods), Period) /\ Len(Tail(periods)) = Len(periods) - 1
          /\ Len(periods) \in Nat \ {0}
      BY <1>2, <2>1, FirstFired DEF Timed
    <3>2. Len(periods) # 1 => Tail(periods) # <<>>
      BY <3>1
    <3> QED
      BY <3>1, <3>2 DEF HandleFires
  <2>3. CASE Held /\ ForceStop
    <3>1. /\ periods' = IF periodHandle = "live" /\ ~HandleFires THEN Front(Tail(periods))
                                                                 ELSE Tail(periods)
          /\ periodHandle' = "none" /\ longHandle' = FALSE /\ releaseAge' = pressAge
          /\ longs' = IF longHandle THEN Front(longs) ELSE longs
      BY <2>3 DEF ForceStop
    <3>2. Timers(periods', Period)
      BY <1>2, <2>2, <3>1, LastCancelled
    <3>3. Timers(longs', Hold)
      BY <1>2, <3>1, LastCancelled DEF Timed, TypeOK
    <3> QED
      BY <1>1, <1>7, <2>1, <3>1, <3>2, <3>3 DEF Timed, TypeOK, Timers
  <2>4. CASE ReportPeriod
    <3>1. /\ periods' = Append(Tail(periods), Period)
          /\ UNCHANGED <<releaseAge, longs, longHandle>>
      BY <2>4 DEF ReportPeriod
    <3>2. Timers(periods', Period) /\ periods' # <<>>
      BY <1>2, <2>2, <3>1, TimerStarted
    <3> QED
      BY <1>1, <1>7, <2>1, <3>1, <3>2 DEF Timed, TypeOK, Timers
  <2>5. CASE EndPeriod
    <3>1. /\ periods' = Tail(periods)
          /\ periodHandle' = IF HandleFires THEN "spent" ELSE periodHandle
          /\ UNCHANGED <<releaseAge, longs, longHandle>>
      BY <2>5 DEF EndPeriod
    <3>2. periodHandle' = "live" => periods' # <<>>
      BY <2>2, <3>1
    <3> QED
      BY <1>1, <1>7, <2>1, <2>2, <3>1, <3>2 DEF Timed, TypeOK, Timers
  <2> QED
    BY <1>5, <2>3, <2>4, <2>5 DEF SendPeriodicLongEvent
<1>6. CASE EmitPendingClick
  BY <1>1, <1>6, <1>7 DEF EmitPendingClick, Timed, TypeOK
<1> QED
  BY <1>3, <1>4, <1>5, <1>6 DEF FireTimer

LEMMA TickTimed ==
  ASSUME Timed, Tick
  PROVE  Timed'
<1>1. /\ ~Due
      /\ pressAge' = Older(pressAge, IF Held THEN MaxLong + 1 ELSE Debounce)
      /\ releaseAge' = Older(releaseAge, Debounce)
      /\ finalizer' = Later(finalizer) /\ longs' = AllLater(longs)
      /\ periods' = AllLater(periods) /\ astray' = (astray \/ Held # down)
      /\ heldFor' = IF down THEN Older(heldFor, Hold + 1) ELSE 0
      /\ UNCHANGED <<down, burst, clicks, longHandle, periodHandle, edges, lost>>
  BY DEF Tick
<1>2. Hold \in Nat /\ Period \in Nat /\ Debounce \in Nat /\ MaxLong + 1 \in Nat /\ Window \in Nat
  BY ClicksAssumption
<1>3. /\ Timers(longs', Hold) /\ (longs # <<>> => longs' # <<>>)
      /\ Timers(periods', Period) /\ (periods # <<>> => periods' # <<>>)
  BY <1>1, <1>2, AllCountDown DEF Due, Timed
<1>4. pressAge' \in {None} \union Nat /\ releaseAge' \in {None} \union Nat
  <2>1. \A age \in {None} \union Nat, cap \in Nat : Older(age, cap) \in {None} \union Nat
    BY DEF Older, None
  <2> QED
    BY <1>1, <1>2, <2>1 DEF Timed, TypeOK
<1>5. finalizer' \in {None} \union 0 .. Window
  BY <1>1, <1>2 DEF Due, Later, None, Timed, TypeOK
<1>6. astray' \in BOOLEAN
  BY <1>1
<1>7. heldFor' \in 0..Hold + 1
  BY <1>1, <1>2 DEF Older, None, Timed, TypeOK
<1> QED
  BY <1>1, <1>3, <1>4, <1>5, <1>6, <1>7 DEF Timed, TypeOK, Timers

\* A timer that was started is never overdue, fires in its turn, and can be cancelled while a
\* handle to it is kept.
THEOREM ClicksTypeCorrect == Spec => []TypeOK
<1>1. Init => Timed
  <2> SUFFICES ASSUME Init
               PROVE  Timed
    OBVIOUS
  <2>1. MaxEdges \in Nat /\ MaxLost \in Nat
    BY ClicksAssumption
  <2>2. Timers(<<>>, Hold) /\ Timers(<<>>, Period)
    BY DEF Timers
  <2>3. /\ edges = 0 /\ lost = 0 /\ clicks = 0 /\ pressAge = None /\ releaseAge = None
        /\ finalizer = None /\ longs = <<>> /\ periods = <<>> /\ down = FALSE
        /\ longHandle = FALSE /\ periodHandle = "none" /\ astray = FALSE
        /\ heldFor = 0 /\ burst = 0
    BY DEF Init
  <2>4. /\ edges \in 0..MaxEdges /\ lost \in 0..MaxLost /\ clicks \in Nat
        /\ heldFor \in 0..Hold + 1 /\ burst \in Nat
    BY <2>1, <2>3, ClicksAssumption
  <2>5. longs \in Seq(0..Hold) /\ periods \in Seq(0..Period)
    BY <2>2, <2>3 DEF Timers
  <2> QED
    BY <2>2, <2>3, <2>4, <2>5 DEF Timed, TypeOK
<1>2. Timed /\ [Next]_vars => Timed'
  <2> SUFFICES ASSUME Timed, [Next]_vars
               PROVE  Timed'
    OBVIOUS
  <2>1. CASE Press \/ Release
    BY <2>1, EdgeTimed DEF Press, Release
  <2>2. CASE UNCHANGED vars
    BY <2>2 DEF vars, Timed, TypeOK, Timers
  <2> QED
    BY <2>1, <2>2, TimerTimed, TickTimed DEF Next
<1>3. Timed => TypeOK
  BY DEF Timed
<1> QED
  BY <1>1, <1>2, <1>3, PTL DEF Spec

-----------------------------------------------------------------------------
\* LongActions: what a press that is held leads to.

CONSTANTS MaxDuration, MaxFaults
VARIABLE memo

Acts == INSTANCE LongActions

\* An action with both would be executed at every report after its threshold.
OneKindEach == \A i \in Indices : Actions[i].min = 0 \/ Actions[i].repeat = 0

Remembers(i) == ~Actions[i].mqtt

-----------------------------------------------------------------------------
\* The reports of a press, one after the other.

\* How often an action is due in the first h reports.
DueBy(i, h) == IF h = 0 THEN 0 ELSE Times(Actions[i], h)

\* Of an action with an interval, the report it was last due at.
LastDue(i, h) == IF h = 0 THEN 0 ELSE 1 + ((h - 1) \div Actions[i].repeat) * Actions[i].repeat

\* What a record has to say of an action after h reports.
Recorded(i, m, h) ==
    /\ i \in m.done <=> DueBy(i, h) > 0
    /\ Actions[i].repeat > 0 => m.last[i] = LastDue(i, h)

Memos == [done : SUBSET Indices, last : [Indices -> Nat]]

LEMMA ActionsTyped ==
  /\ Indices = 1..Len(Actions) /\ Len(Actions) \in Nat
  /\ \A i \in Indices : /\ Actions[i].min \in Nat /\ Actions[i].repeat \in Nat
                        /\ Actions[i].mqtt \in BOOLEAN
<1> DEFINE Kinds == [min : Nat, repeat : Nat, mqtt : BOOLEAN]
<1>1. Actions \in Seq(Kinds)
  BY LongPressesAssumption
<1>2. Len(Actions) \in Nat /\ Indices = 1..Len(Actions)
  BY <1>1, LenProperties DEF Indices
<1>3. \A i \in Indices : Actions[i] \in Kinds
  BY <1>1, <1>2, ElementOfSeq
<1> QED
  BY <1>2, <1>3

\* Whole intervals in a number of reports, and in one report more.
LEMMA Intervals ==
  ASSUME NEW n \in Nat, NEW r \in Nat, r > 0
  PROVE  /\ n \div r \in Nat /\ (n \div r) * r <= n /\ n < (n \div r) * r + r
         /\ (n \div r) * r \in Nat
OBVIOUS

LEMMA OneMore ==
  ASSUME NEW n \in Nat, NEW r \in Nat, r > 0
  PROVE  /\ (n + 1) - (n \div r) * r >= r =>
              (n + 1) \div r = n \div r + 1 /\ ((n + 1) \div r) * r = n + 1
         /\ ~((n + 1) - (n \div r) * r >= r) => (n + 1) \div r = n \div r
<1> DEFINE q == n \div r
           p == (n + 1) \div r
<1>1. /\ q \in Nat /\ q * r \in Nat /\ q * r <= n /\ n < q * r + r
      /\ p \in Nat /\ p * r \in Nat /\ p * r <= n + 1 /\ n + 1 < p * r + r
  BY Intervals
<1> HIDE DEF q, p
<1>2. \A a, b \in Nat : a < b => a * r + r <= b * r
  <2> SUFFICES ASSUME NEW a \in Nat, NEW b \in Nat, a < b
               PROVE  a * r + r <= b * r
    OBVIOUS
  <2>1. PICK d \in Nat : b = a + 1 + d
    <3>1. b - a - 1 \in Nat /\ b = a + 1 + (b - a - 1)
      OBVIOUS
    <3> QED
      BY <3>1
  <2>2. b * r = a * r + r + d * r /\ d * r \in Nat /\ a * r \in Nat
    BY <2>1
  <2> QED
    BY <2>2
<1>3. q <= p
  BY <1>1, <1>2
<1>4. p <= q + 1
  <2>1. q + 1 \in Nat /\ (q + 1) * r = q * r + r
    BY <1>1
  <2>2. ASSUME p > q + 1
        PROVE  FALSE
    <3>1. (q + 1) * r + r <= p * r
      BY <1>1, <1>2, <2>1, <2>2
    <3> QED
      BY <1>1, <2>1, <3>1
  <2> QED
    BY <1>1, <2>2
<1>5. p = q \/ p = q + 1
  BY <1>1, <1>3, <1>4
<1>6. p = q + 1 => p * r = q * r + r
  BY <1>1
<1> QED
  BY <1>1, <1>5, <1>6 DEF q, p

\* The record decides whether an action is due at the next report.
LEMMA NextReport ==
  ASSUME OneKindEach, NEW i \in Indices, NEW m \in Memos, NEW h \in Nat, Recorded(i, m, h)
  PROVE  /\ DueBy(i, h) \in Nat
         /\ Acts!Executes(i, m, h + 1) => /\ DueBy(i, h + 1) = DueBy(i, h) + 1
                                          /\ Recorded(i, Acts!Marked(m, i, h + 1), h + 1)
         /\ ~Acts!Executes(i, m, h + 1) => DueBy(i, h + 1) = DueBy(i, h) /\ Recorded(i, m, h + 1)
<1> DEFINE a == Actions[i]
           r == Actions[i].repeat
<1>1. a.min \in Nat /\ r \in Nat /\ (a.min = 0 \/ r = 0) /\ m.last[i] \in Nat
  BY ActionsTyped DEF OneKindEach, Memos
<1>2. /\ Acts!Marked(m, i, h + 1).done = m.done \union {i}
      /\ r > 0 => Acts!Marked(m, i, h + 1).last[i] = h + 1
  BY DEF Acts!Marked, Memos
<1>3. CASE r = 0
  <2>1. \A n \in Nat : DueBy(i, n) = IF n > 0 /\ n >= a.min THEN 1 ELSE 0
    BY <1>3 DEF DueBy, Times
  <2>2. Acts!Executes(i, m, h + 1) <=> (i \notin m.done /\ h + 1 >= a.min)
    BY <1>1, <1>3 DEF Acts!Executes
  <2> QED
    BY <1>1, <1>2, <1>3, <2>1, <2>2 DEF Recorded
<1>4. CASE r > 0
  <2>1. /\ DueBy(i, h + 1) = 1 + (h \div r) /\ LastDue(i, h + 1) = 1 + (h \div r) * r
        /\ h \div r \in Nat /\ (h \div r) * r \in Nat
    BY <1>1, <1>4, Intervals DEF DueBy, Times, LastDue
  <2>2. Acts!Executes(i, m, h + 1) <=> ~(m.last[i] > 0 /\ h + 1 - m.last[i] < r)
    BY <1>1, <1>4 DEF Acts!Executes, Acts!Throttled
  <2>3. CASE h = 0
    <3>1. 0 \div r = 0 /\ 0 * r = 0
      <4> DEFINE q == 0 \div r
      <4>1. q \in Nat /\ q * r <= 0
        BY <1>1, <1>4, Intervals
      <4> HIDE DEF q
      <4>2. q = 0
        BY <1>1, <1>4, <4>1
      <4> QED
        BY <1>1, <4>2 DEF q
    <3>2. DueBy(i, h) = 0 /\ m.last[i] = 0 /\ DueBy(i, h + 1) = 1 /\ LastDue(i, h + 1) = 1
      BY <1>1, <1>4, <2>1, <2>3, <3>1 DEF DueBy, LastDue, Recorded
    <3> QED
      BY <1>2, <1>4, <2>2, <2>3, <3>2 DEF Recorded
  <2>4. CASE h # 0
    <3> DEFINE n == h - 1
    <3>1. n \in Nat /\ h = n + 1
      BY <2>4
    <3>2. /\ DueBy(i, h) = 1 + (n \div r) /\ m.last[i] = 1 + (n \div r) * r
          /\ n \div r \in Nat /\ (n \div r) * r \in Nat /\ i \in m.done
      BY <1>1, <1>4, <2>4, <3>1, Intervals DEF DueBy, Times, LastDue, Recorded
    <3>3. Acts!Executes(i, m, h + 1) <=> (n + 1) - (n \div r) * r >= r
      BY <1>1, <2>2, <3>1, <3>2
    <3>4. Acts!Executes(i, m, h + 1) => (n + 1) \div r = n \div r + 1 /\ ((n + 1) \div r) * r = n + 1
      BY <1>1, <1>4, <3>1, <3>3, OneMore
    <3>5. ~Acts!Executes(i, m, h + 1) => (n + 1) \div r = n \div r
      BY <1>1, <1>4, <3>1, <3>3, OneMore
    <3> HIDE DEF n
    <3>6. ASSUME Acts!Executes(i, m, h + 1)
          PROVE  DueBy(i, h + 1) = DueBy(i, h) + 1 /\ Recorded(i, Acts!Marked(m, i, h + 1), h + 1)
      <4>1. DueBy(i, h + 1) = DueBy(i, h) + 1 /\ LastDue(i, h + 1) = h + 1
        BY <2>1, <3>1, <3>2, <3>4, <3>6
      <4> QED
        BY <1>2, <1>4, <2>1, <4>1 DEF Recorded
    <3>7. ASSUME ~Acts!Executes(i, m, h + 1)
          PROVE  DueBy(i, h + 1) = DueBy(i, h) /\ Recorded(i, m, h + 1)
      <4>1. DueBy(i, h + 1) = DueBy(i, h) /\ LastDue(i, h + 1) = m.last[i]
        BY <2>1, <3>1, <3>2, <3>5, <3>7
      <4> QED
        BY <2>1, <3>2, <4>1 DEF Recorded
    <3> QED
      BY <3>2, <3>6, <3>7
  <2> QED
    BY <2>3, <2>4
<1> QED
  BY <1>1, <1>3, <1>4

\* Marking one action leaves what is recorded of the others.
LEMMA OthersRecorded ==
  ASSUME NEW i \in Indices, NEW j \in Indices, i # j, NEW m \in Memos, NEW d, NEW h,
         Recorded(j, m, h)
  PROVE  Recorded(j, Acts!Marked(m, i, d), h)
BY DEF Recorded, Acts!Marked, Memos

\* When no action is pending, none is due.
LEMMA NonePending ==
  ASSUME OneKindEach, NEW m \in Memos, NEW h \in Nat, ~Acts!Pending(m, h + 1),
         \A i \in Indices : IF Remembers(i) THEN Recorded(i, m, h) ELSE i \notin m.done,
         NEW i \in Indices, Remembers(i)
  PROVE  ~Acts!Executes(i, m, h + 1)
<1>1. /\ Actions[i].min \in Nat /\ Actions[i].repeat \in Nat
      /\ (Actions[i].min = 0 \/ Actions[i].repeat = 0)
  BY ActionsTyped DEF OneKindEach
<1>2. CASE Actions[i].repeat > 0
  BY <1>1, <1>2 DEF Acts!Pending, Acts!Executes, Indices, Acts!Indices
<1>3. CASE Actions[i].repeat = 0
  <2>1. CASE i \in m.done
    BY <1>3, <2>1 DEF Acts!Executes
  <2>2. CASE i \notin m.done
    <3>1. Actions[i].min = 0 /\ m.done # {}
      BY <1>1, <1>3, <2>2 DEF Acts!Pending, Indices, Acts!Indices
    <3>2. h = 0
      BY <1>3, <2>2, <3>1 DEF Recorded, DueBy, Times
    <3>3. \A j \in Indices : j \notin m.done
      BY <3>2 DEF Recorded, DueBy
    <3> QED
      BY <3>1, <3>3 DEF Memos
  <2> QED
    BY <2>1, <2>2
<1> QED
  BY <1>1, <1>2, <1>3

-----------------------------------------------------------------------------
\* The course of a press.

Workers == [busy : {TRUE}, event : [press : Presses, duration : Nat], next : Nat,
            waits : BOOLEAN, shared : BOOLEAN, memo : Memos]

ActsTyped ==
    /\ held \in BOOLEAN /\ press \in 0 .. MaxPresses
    /\ duration \in [Presses -> Nat] /\ resets \in {0, 1} /\ (resets = 1 => ~held)
    /\ memo \in Memos
    /\ queue \in Seq([press : Presses, duration : Nat])
    /\ worker \in Workers \union {Acts!Idle}
    /\ worker.busy => worker.next >= 1 /\ (worker.waits => worker.next \in Indices)
    /\ counts \in [Presses -> [Indices -> Nat]]
    /\ press = 0 => ~held /\ resets = 0 /\ queue = <<>> /\ ~worker.busy

\* The last report queued, or else the one being handled, is of the press at hand, and one
\* of a press before it comes too late: its record is gone.
Queued ==
    /\ queue # <<>> => queue[Len(queue)].press = press
    /\ queue = <<>> /\ worker.busy => worker.event.press = press
    /\ \A p \in Presses : Unhandled(p) => p = press \/ (p < press /\ p \in late)
    /\ (~held /\ resets = 0 /\ press \notin late) => queue = <<>> /\ ~worker.busy

\* The presses at hand and before had their reports handled in time.
InTime == press # 0 /\ {press, press - 1} \intersect late = {}

\* The reports of the press that were taken from the queue.
Taken == duration[press] - Len(queue)

\* The reports come in order, to a handler that works on the detector's record.
InOrder ==
    InTime =>
        /\ duration[press] > 0 /\ Taken \in Nat
        /\ \A n \in DOMAIN queue : queue[n] = Acts!Event(press, Taken + n)
        /\ worker.busy => /\ Taken > 0 /\ worker.event = Acts!Event(press, Taken)
                          /\ worker.shared /\ worker.memo = memo

\* How many reports action i was counted for, and is recorded for.
CountedTo(i) ==
    IF worker.busy /\ (i > worker.next \/ (i = worker.next /\ ~worker.waits)) THEN Taken - 1
                                                                             ELSE Taken
RecordedTo(i) == IF worker.busy /\ i >= worker.next THEN Taken - 1 ELSE Taken

CountedSoFar ==
    InTime /\ press \notin failed =>
        \A i \in Indices : Remembers(i) => counts[press][i] = DueBy(i, CountedTo(i))

Remembered ==
    InTime /\ press \notin failed /\ (held \/ resets = 1) =>
        /\ \A i \in Indices : IF Remembers(i) THEN Recorded(i, memo, RecordedTo(i))
                                              ELSE i \notin memo.done
        /\ worker.busy /\ worker.waits =>
               Remembers(worker.next) /\ Acts!Executes(worker.next, memo, Taken)

\* The presses that are over, and those to come.
Past ==
    \A p \in Presses :
        /\ p < press /\ {p, p - 1} \intersect (late \union failed) = {} =>
               \A i \in Indices : Remembers(i) => counts[p][i] = Times(Actions[i], duration[p])
        /\ p > press => \A i \in Indices : counts[p][i] = 0

ActsInv == ActsTyped /\ Queued /\ InOrder /\ CountedSoFar /\ Remembered /\ Past

Events == [press : Presses, duration : Nat]

LEMMA WorkerTyped ==
  ASSUME ActsTyped
  PROVE  /\ worker.busy \in BOOLEAN
         /\ worker.busy => worker \in Workers
         /\ ~worker.busy => worker = Acts!Idle
         /\ Acts!Idle.busy = FALSE
<1>1. Acts!Idle.busy = FALSE /\ \A w \in Workers : w.busy = TRUE
  BY DEF Acts!Idle, Workers
<1>2. worker \in Workers \/ worker = Acts!Idle
  BY DEF ActsTyped
<1> QED
  BY <1>1, <1>2

LEMMA FreshTyped == Acts!Fresh \in Memos /\ \A i \in Indices : Recorded(i, Acts!Fresh, 0)
BY DEF Acts!Fresh, Memos, Recorded, DueBy, LastDue, Indices, Acts!Indices

LEMMA QueueTyped ==
  ASSUME ActsTyped
  PROVE  /\ queue \in Seq(Events) /\ Len(queue) \in Nat /\ DOMAIN queue = 1..Len(queue)
         /\ \A n \in DOMAIN queue : queue[n] \in Events
BY LenProperties, ElementOfSeq DEF ActsTyped, Events

\* A report goes to the end of the queue.
LEMMA ReportQueued ==
  ASSUME ActsTyped, NEW p \in Presses, NEW d \in Nat, Acts!Report(p, d)
  PROVE  /\ Acts!Event(p, d) \in Events /\ Acts!Event(p, d).press = p /\ Acts!Event(p, d).duration = d
         /\ queue' \in Seq(Events) /\ Len(queue') = Len(queue) + 1
         /\ DOMAIN queue' = 1..Len(queue) + 1 /\ queue' # <<>>
         /\ queue'[Len(queue) + 1] = Acts!Event(p, d)
         /\ \A n \in 1..Len(queue) : queue'[n] = queue[n]
         /\ duration' \in [Presses -> Nat] /\ duration'[p] = d
         /\ \A q \in Presses : q # p => duration'[q] = duration[q]
<1>1. Acts!Event(p, d) \in Events /\ Acts!Event(p, d).press = p /\ Acts!Event(p, d).duration = d
  BY DEF Acts!Event, Events
<1>2. queue \in Seq(Events) /\ Len(queue) \in Nat
  BY QueueTyped
<1>3. /\ queue' \in Seq(Events) /\ Len(queue') = Len(queue) + 1
      /\ DOMAIN queue' = 1..Len(queue) + 1
      /\ queue'[Len(queue) + 1] = Acts!Event(p, d)
      /\ \A n \in 1..Len(queue) : queue'[n] = queue[n]
  BY <1>1, <1>2 DEF Acts!Report
<1>4. queue' # <<>>
  BY <1>2, <1>3
<1>5. /\ duration' \in [Presses -> Nat] /\ duration'[p] = d
      /\ \A q \in Presses : q # p => duration'[q] = duration[q]
  BY DEF Acts!Report, ActsTyped
<1> QED
  BY <1>1, <1>3, <1>4, <1>5

\* What a report, with the handler as it is, leaves unhandled.
LEMMA ReportUnhandled ==
  ASSUME ActsTyped, NEW p \in Presses, NEW d \in Nat, Acts!Report(p, d),
         worker'.busy = worker.busy, worker.busy => worker'.event = worker.event,
         NEW q \in Presses
  PROVE  Unhandled(q)' => Unhandled(q) \/ q = p
<1>1. /\ DOMAIN queue = 1..Len(queue) /\ DOMAIN queue' = 1..Len(queue) + 1 /\ Len(queue) \in Nat
      /\ queue'[Len(queue) + 1].press = p /\ \A n \in 1..Len(queue) : queue'[n] = queue[n]
  BY QueueTyped, ReportQueued
<1>2. ASSUME NEW n \in DOMAIN queue', queue'[n].press = q
      PROVE  Unhandled(q) \/ q = p
  <2>1. n = Len(queue) + 1 \/ n \in DOMAIN queue
    BY <1>1
  <2> QED
    BY <1>1, <1>2, <2>1 DEF Unhandled
<1> QED
  BY <1>2 DEF Unhandled

-----------------------------------------------------------------------------
\* The detector.

\* The press goes on: its next report, or its last.
LEMMA PressGoesOn ==
  ASSUME OneKindEach, ActsInv, held, Acts!Report(press, duration[press] + 1),
         UNCHANGED <<press, memo, worker, counts, late, failed>>,
         \/ held' /\ resets' = resets
         \/ ~held' /\ resets' = resets + 1, held' \in BOOLEAN
  PROVE  ActsInv'
<1>1. press \in Presses /\ press # 0 /\ resets = 0 /\ duration[press] \in Nat
  BY DEF ActsInv, ActsTyped, Presses
<1> DEFINE d == duration[press] + 1
<1>2. d \in Nat
  BY <1>1
<1>3. /\ Acts!Event(press, d) \in Events /\ Acts!Event(press, d).press = press
      /\ queue' \in Seq(Events) /\ Len(queue') = Len(queue) + 1
      /\ DOMAIN queue' = 1..Len(queue) + 1 /\ queue' # <<>>
      /\ queue'[Len(queue) + 1] = Acts!Event(press, d)
      /\ \A n \in 1..Len(queue) : queue'[n] = queue[n]
      /\ duration' \in [Presses -> Nat] /\ duration'[press] = d
      /\ \A q \in Presses : q # press => duration'[q] = duration[q]
  BY <1>1, <1>2, ReportQueued DEF ActsInv
<1>4. Len(queue) \in Nat /\ DOMAIN queue = 1..Len(queue)
  BY QueueTyped DEF ActsInv
<1>5. ActsTyped'
  BY <1>1, <1>3 DEF ActsInv, ActsTyped, Events
<1>6. Queued'
  <2>1. \A q \in Presses : Unhandled(q)' => q = press \/ (q < press /\ q \in late)
    BY <1>1, <1>2, ReportUnhandled DEF ActsInv, Queued
  <2>2. held' \/ resets' # 0
    BY <1>1
  <2> QED
    BY <1>3, <2>1, <2>2 DEF Queued
<1>7. InTime' = InTime /\ (InTime => Taken' = Taken)
  BY <1>1, <1>2, <1>3, <1>4 DEF InTime, Taken
<1>8. InOrder'
  <2> SUFFICES ASSUME InTime
               PROVE  /\ duration'[press] > 0 /\ Taken \in Nat
                      /\ \A n \in DOMAIN queue' : queue'[n] = Acts!Event(press, Taken + n)
                      /\ worker.busy => /\ Taken > 0 /\ worker.event = Acts!Event(press, Taken)
                                        /\ worker.shared /\ worker.memo = memo
    BY <1>7 DEF InOrder, Acts!Event
  <2>1. /\ Taken \in Nat /\ \A n \in DOMAIN queue : queue[n] = Acts!Event(press, Taken + n)
        /\ worker.busy => /\ Taken > 0 /\ worker.event = Acts!Event(press, Taken)
                          /\ worker.shared /\ worker.memo = memo
    BY DEF ActsInv, InOrder
  <2>2. Taken + (Len(queue) + 1) = d
    BY <1>1, <1>4 DEF Taken
  <2>3. ASSUME NEW n \in DOMAIN queue'
        PROVE  queue'[n] = Acts!Event(press, Taken + n)
    <3>1. n = Len(queue) + 1 \/ n \in DOMAIN queue
      BY <1>3, <1>4
    <3> HIDE DEF d
    <3> QED
      BY <1>3, <1>4, <2>1, <2>2, <3>1
  <2> QED
    BY <1>1, <1>3, <2>1, <2>3
<1>9. CountedSoFar'
  <2>1. InTime => \A i \in Indices : CountedTo(i)' = CountedTo(i)
    BY <1>7 DEF CountedTo
  <2> QED
    BY <1>7, <2>1 DEF ActsInv, CountedSoFar
<1>10. Remembered'
  <2>1. InTime => \A i \in Indices : RecordedTo(i)' = RecordedTo(i)
    BY <1>7 DEF RecordedTo
  <2> QED
    BY <1>7, <2>1 DEF ActsInv, Remembered
<1>11. Past'
  <2>1. \A p \in Presses : p < press => duration'[p] = duration[p]
    BY <1>1, <1>3 DEF Presses
  <2> QED
    BY <2>1 DEF ActsInv, Past
<1> QED
  BY <1>5, <1>6, <1>8, <1>9, <1>10, <1>11 DEF ActsInv

LEMMA PressBegins ==
  ASSUME OneKindEach, ActsInv, Acts!LongPress
  PROVE  ActsInv'
<1> DEFINE p == press + 1
<1>1. /\ ~held /\ resets = 0 /\ press' = p /\ p \in Presses
      /\ press \in Nat /\ Acts!Report(p, 1) /\ Acts!Forget
      /\ held' = TRUE /\ UNCHANGED <<resets, counts, late, failed>>
  BY LongPressesAssumption DEF Acts!LongPress, ActsInv, ActsTyped, Presses
<1>2. /\ worker'.busy = worker.busy
      /\ worker.busy => worker' \in Workers /\ worker' = [worker EXCEPT !.shared = FALSE]
                        /\ worker'.event = worker.event
      /\ ~worker.busy => worker' = worker
  BY <1>1, WorkerTyped DEF Acts!Forget, ActsInv, Workers
<1>3. /\ queue' \in Seq(Events) /\ Len(queue') = Len(queue) + 1 /\ DOMAIN queue' = 1..Len(queue) + 1
      /\ queue' # <<>> /\ queue'[Len(queue) + 1] = Acts!Event(p, 1) /\ Acts!Event(p, 1).press = p
      /\ duration' \in [Presses -> Nat] /\ duration'[p] = 1
      /\ \A q \in Presses : q # p => duration'[q] = duration[q]
  BY <1>1, ReportQueued DEF ActsInv
<1>4. Len(queue) \in Nat /\ DOMAIN queue = 1..Len(queue)
  BY QueueTyped DEF ActsInv
<1>5. memo' = Acts!Fresh
  BY <1>1 DEF Acts!Forget
<1> HIDE DEF p
<1>6. ActsTyped'
  <2>1. worker' \in Workers \union {Acts!Idle}
    BY <1>2, WorkerTyped DEF ActsInv
  <2>2. worker'.busy => worker'.next >= 1 /\ (worker'.waits => worker'.next \in Indices)
    BY <1>2, WorkerTyped DEF ActsInv, ActsTyped, Workers
  <2>3. p \in 0 .. MaxPresses /\ p # 0
    BY <1>1 DEF p, Presses
  <2> QED
    BY <1>1, <1>3, <1>5, <2>1, <2>2, <2>3, FreshTyped DEF ActsInv, ActsTyped, Events
<1>7. press \notin late => queue = <<>> /\ ~worker.busy
  BY <1>1 DEF ActsInv, Queued
<1>8. Queued'
  <2>1. ASSUME NEW q \in Presses, Unhandled(q)'
        PROVE  q = p \/ (q < p /\ q \in late)
    <3>1. CASE q = p
      BY <3>1
    <3>2. CASE Unhandled(q)
      <4>1. q = press \/ (q < press /\ q \in late)
        BY <3>2 DEF ActsInv, Queued
      <4>2. q = press => q \in late
        BY <1>7, <3>2 DEF Unhandled
      <4> QED
        BY <1>1, <4>1, <4>2 DEF p, Presses
    <3> QED
      BY <1>1, <1>2, <2>1, <3>1, <3>2, ReportUnhandled DEF ActsInv
  <2> QED
    BY <1>1, <1>3, <2>1 DEF Queued
<1>9. InTime' => queue = <<>> /\ ~worker.busy
  BY <1>1, <1>7 DEF InTime, p
<1>10. InTime' => /\ Taken' = 0 /\ Len(queue) = 0 /\ ~worker'.busy
                  /\ queue'[1] = Acts!Event(p, 1) /\ DOMAIN queue' = 1..1
  <2> SUFFICES ASSUME InTime'
               PROVE  /\ Taken' = 0 /\ Len(queue) = 0 /\ ~worker'.busy
                      /\ queue'[1] = Acts!Event(p, 1) /\ DOMAIN queue' = 1..1
    OBVIOUS
  <2>1. Len(queue) = 0 /\ ~worker'.busy
    BY <1>2, <1>9
  <2> QED
    BY <1>1, <1>3, <2>1 DEF Taken
<1>11. InOrder'
  <2>1. InTime' => \A n \in DOMAIN queue' : queue'[n] = Acts!Event(p, 0 + n)
    BY <1>10
  <2> QED
    BY <1>1, <1>3, <1>10, <2>1 DEF InOrder, Acts!Event
<1>12. CountedSoFar'
  <2>1. \A i \in Indices : counts[p][i] = 0
    BY <1>1 DEF ActsInv, Past, p
  <2>2. InTime' => \A i \in Indices : CountedTo(i)' = 0
    BY <1>10 DEF CountedTo
  <2> QED
    BY <1>1, <2>1, <2>2 DEF CountedSoFar, DueBy
<1>13. Remembered'
  <2>1. InTime' => \A i \in Indices : RecordedTo(i)' = 0
    BY <1>10 DEF RecordedTo
  <2>2. \A i \in Indices : i \notin memo'.done
    BY <1>5 DEF Acts!Fresh, Indices, Acts!Indices
  <2> QED
    BY <1>5, <1>10, <2>1, <2>2, FreshTyped DEF Remembered
<1>14. Past'
  <2>1. ASSUME NEW q \in Presses, q < p, {q, q - 1} \intersect (late \union failed) = {},
               NEW i \in Indices, Remembers(i)
        PROVE  counts[q][i] = Times(Actions[i], duration'[q])
    <3>1. duration'[q] = duration[q]
      BY <1>1, <1>3, <2>1 DEF p, Presses
    <3>2. CASE q = press
      <4>1. InTime /\ press \notin failed /\ queue = <<>> /\ ~worker.busy
        BY <1>1, <1>7, <2>1, <3>2 DEF InTime, Presses
      <4>2. counts[press][i] = DueBy(i, CountedTo(i)) /\ duration[press] > 0
        BY <2>1, <4>1 DEF ActsInv, CountedSoFar, InOrder
      <4>3. CountedTo(i) = duration[press] /\ duration[press] \in Nat
        BY <3>2, <4>1 DEF CountedTo, Taken, ActsInv, ActsTyped
      <4> QED
        BY <3>1, <3>2, <4>2, <4>3 DEF DueBy
    <3>3. CASE q < press
      BY <2>1, <3>1, <3>3 DEF ActsInv, Past
    <3> QED
      BY <1>1, <2>1, <3>2, <3>3 DEF p, Presses
  <2>2. \A q \in Presses : q > p => \A i \in Indices : counts[q][i] = 0
    BY <1>1 DEF ActsInv, Past, p, Presses
  <2> QED
    BY <1>1, <2>1, <2>2 DEF Past
<1> QED
  BY <1>6, <1>8, <1>11, <1>12, <1>13, <1>14 DEF ActsInv

\* The reset, or the forced stop: a press whose reports are not all handled is late.
LEMMA ResetCounts ==
  ASSUME OneKindEach, ActsInv, Acts!Reset \/ Acts!ForceStop
  PROVE  ActsInv'
<1>1. /\ held' = FALSE /\ resets' = 0
      /\ Acts!Forget /\ UNCHANGED <<press, duration, queue, counts, failed>>
      /\ late' = late \union {p \in Presses : Unhandled(p)} /\ press \in Presses /\ press # 0
  <2>1. ASSUME NEW p \in Presses PROVE Unhandled(p) <=> Acts!Unhandled(p)
    BY DEF Unhandled, Acts!Unhandled
  <2>2. /\ Acts!Forget /\ UNCHANGED <<press, duration, queue, counts, failed>>
        /\ late' = late \union {p \in Presses : Unhandled(p)}
    BY <2>1 DEF Acts!Reset, Acts!ForceStop, Acts!ForgetUnhandled, Presses, Acts!Presses
  <2>3. CASE Acts!Reset
    BY <2>2, <2>3 DEF Acts!Reset, ActsInv, ActsTyped, Presses
  <2>4. CASE Acts!ForceStop
    BY <2>2, <2>4 DEF Acts!ForceStop, ActsInv, ActsTyped, Presses
  <2> QED
    BY <2>3, <2>4
<1>2. /\ worker'.busy = worker.busy
      /\ worker.busy => worker' \in Workers /\ worker' = [worker EXCEPT !.shared = FALSE]
                        /\ worker'.event = worker.event
      /\ ~worker.busy => worker' = worker
  BY <1>1, WorkerTyped DEF Acts!Forget, ActsInv, Workers
<1>3. memo' = Acts!Fresh
  BY <1>1 DEF Acts!Forget
<1>4. ActsTyped'
  <2>1. worker' \in Workers \union {Acts!Idle}
    BY <1>2, WorkerTyped DEF ActsInv
  <2>2. worker'.busy => worker'.next >= 1 /\ (worker'.waits => worker'.next \in Indices)
    BY <1>2, WorkerTyped DEF ActsInv, ActsTyped, Workers
  <2> QED
    BY <1>1, <1>3, <2>1, <2>2, FreshTyped DEF ActsInv, ActsTyped
<1>5. press \notin late' => queue = <<>> /\ ~worker.busy
  <2> SUFFICES ASSUME ~Unhandled(press)
               PROVE  queue = <<>> /\ ~worker.busy
    BY <1>1
  <2>1. queue = <<>>
    <3>1. Len(queue) \in Nat /\ DOMAIN queue = 1..Len(queue) /\ queue \in Seq(Events)
      BY QueueTyped DEF ActsInv
    <3>2. queue # <<>> => Len(queue) \in DOMAIN queue
      BY <3>1
    <3> QED
      BY <3>2 DEF ActsInv, Queued, Unhandled
  <2> QED
    BY <2>1 DEF ActsInv, Queued, Unhandled
<1>6. Queued'
  <2>1. \A q \in Presses : Unhandled(q)' => Unhandled(q)
    BY <1>1, <1>2 DEF Unhandled
  <2> QED
    BY <1>1, <1>2, <1>5, <2>1 DEF ActsInv, Queued
<1>7. InTime' => InTime /\ queue = <<>> /\ ~worker.busy
  BY <1>1, <1>5 DEF InTime
<1>8. InOrder'
  BY <1>1, <1>2, <1>7 DEF ActsInv, InOrder, Taken
<1>9. CountedSoFar'
  BY <1>1, <1>2, <1>7 DEF ActsInv, CountedSoFar, CountedTo, Taken
<1>10. Remembered'
  BY <1>1 DEF Remembered
<1>11. Past'
  BY <1>1 DEF ActsInv, Past
<1> QED
  BY <1>4, <1>6, <1>8, <1>9, <1>10, <1>11 DEF ActsInv

-----------------------------------------------------------------------------
\* The handler.

\* The next report leaves the queue.
LEMMA HandleCounts ==
  ASSUME OneKindEach, ActsInv, Acts!Handle
  PROVE  ActsInv'
<1>1. /\ ~worker.busy /\ queue # <<>> /\ queue' = Tail(queue)
      /\ UNCHANGED <<held, press, duration, resets, memo, counts, late, failed>>
  BY DEF Acts!Handle
<1> DEFINE e == Head(queue)
           w == [busy |-> TRUE, event |-> e, next |-> 1, waits |-> FALSE, shared |-> TRUE, memo |-> memo]
<1>2. /\ queue \in Seq(Events) /\ Len(queue) \in Nat /\ DOMAIN queue = 1..Len(queue) /\ Len(queue) > 0
      /\ e = queue[1] /\ e \in Events
      /\ queue' \in Seq(Events) /\ Len(queue') = Len(queue) - 1 /\ DOMAIN queue' = 1..Len(queue')
      /\ \A n \in 1..Len(queue') : queue'[n] = queue[n + 1]
  BY <1>1, QueueTyped, HeadTailProperties, EmptySeq, LenProperties DEF ActsInv
<1>3. worker' = IF Acts!Pending(memo, e.duration) THEN w ELSE worker
  BY DEF Acts!Handle
<1>2a. ASSUME NEW n \in DOMAIN queue'
       PROVE  n \in Nat /\ n + 1 \in DOMAIN queue /\ queue'[n] = queue[n + 1]
  <2>1. n \in 1..Len(queue')
    BY <1>2, <1>2a
  <2>2. n \in Nat /\ n >= 1 /\ n <= Len(queue) - 1
    BY <1>2, <2>1
  <2>3. n + 1 \in 1..Len(queue)
    BY <1>2, <2>2
  <2> QED
    BY <1>2, <2>1, <2>2, <2>3
<1>4. /\ w \in Workers /\ w.busy /\ w.event = e /\ w.next = 1 /\ ~w.waits /\ w.shared /\ w.memo = memo
      /\ worker = Acts!Idle /\ Acts!Idle.busy = FALSE
  BY <1>1, <1>2, WorkerTyped DEF ActsInv, ActsTyped, Workers, Events
<1> HIDE DEF e, w
<1>5. press # 0
  BY <1>1 DEF ActsInv, ActsTyped
<1>6. ActsTyped'
  BY <1>1, <1>2, <1>3, <1>4, <1>5 DEF ActsInv, ActsTyped, Events
<1>7. Queued'
  <2>1. \A q \in Presses : Unhandled(q)' => Unhandled(q)
    <3>1. \A n \in DOMAIN queue' : n + 1 \in DOMAIN queue /\ queue'[n] = queue[n + 1]
      BY <1>2a
    <3>2. 1 \in DOMAIN queue /\ (worker'.busy => worker'.event = queue[1])
      BY <1>1, <1>2, <1>3, <1>4
    <3> QED
      BY <3>1, <3>2 DEF Unhandled
  <2>2. queue' # <<>> => queue'[Len(queue')] = queue[Len(queue)]
    <3>1. queue' # <<>> => Len(queue') \in 1..Len(queue')
      BY <1>2, EmptySeq
    <3> QED
      BY <1>2, <3>1
  <2>3. queue' = <<>> => Len(queue) = 1
    <3> SUFFICES ASSUME queue' = <<>>
                 PROVE  Len(queue) = 1
      OBVIOUS
    <3>1. Len(queue') = 0
      OBVIOUS
    <3>2. Len(queue) \in Nat /\ Len(queue') = Len(queue) - 1
      BY <1>2
    <3> QED
      BY <3>1, <3>2
  <2>4. queue' = <<>> /\ worker'.busy => worker'.event = queue[Len(queue)]
    BY <1>1, <1>2, <1>3, <1>4, <2>3
  <2> QED
    BY <1>1, <2>1, <2>2, <2>4 DEF ActsInv, Queued
<1>8. /\ InTime' = InTime
      /\ InTime => Taken \in Nat /\ Taken' = Taken + 1 /\ e = Acts!Event(press, Taken')
  <2>1. InTime' = InTime
    BY <1>1 DEF InTime
  <2> SUFFICES ASSUME InTime
               PROVE  Taken \in Nat /\ Taken' = Taken + 1 /\ e = Acts!Event(press, Taken')
    BY <2>1
  <2>2. Taken \in Nat /\ queue[1] = Acts!Event(press, Taken + 1)
    BY <1>2 DEF ActsInv, InOrder
  <2>3. press \in Presses /\ duration[press] \in Nat
    BY <1>5 DEF ActsInv, ActsTyped, Presses
  <2>4. Taken' = Taken + 1
    BY <1>1, <1>2, <2>3 DEF Taken
  <2> QED
    BY <1>2, <2>2, <2>4
<1>9. InOrder'
  <2> SUFFICES ASSUME InTime
               PROVE  /\ duration[press] > 0 /\ Taken' \in Nat
                      /\ \A n \in DOMAIN queue' : queue'[n] = Acts!Event(press, Taken' + n)
                      /\ worker'.busy => /\ Taken' > 0 /\ worker'.event = Acts!Event(press, Taken')
                                         /\ worker'.shared /\ worker'.memo = memo
    BY <1>1, <1>8 DEF InOrder, Acts!Event
  <2>1. \A n \in DOMAIN queue : queue[n] = Acts!Event(press, Taken + n)
    BY DEF ActsInv, InOrder
  <2>2. ASSUME NEW n \in DOMAIN queue'
        PROVE  queue'[n] = Acts!Event(press, Taken' + n)
    <3>1. n \in Nat /\ n + 1 \in DOMAIN queue /\ queue'[n] = queue[n + 1]
      BY <1>2a
    <3>2. Taken + (n + 1) = Taken' + n
      BY <1>8, <3>1
    <3> QED
      BY <2>1, <3>1, <3>2
  <2> QED
    BY <1>1, <1>3, <1>4, <1>8, <2>2 DEF ActsInv, InOrder
<1>10. ASSUME InTime, press \notin failed, NEW i \in Indices, Remembers(i)
       PROVE  /\ Recorded(i, memo, Taken) /\ counts[press][i] = DueBy(i, Taken)
              /\ ~worker'.busy => /\ Recorded(i, memo, Taken + 1)
                                  /\ DueBy(i, Taken + 1) = DueBy(i, Taken)
  <2>1. held \/ resets = 1
    <3>1. press \notin late
      BY <1>10 DEF InTime
    <3> QED
      BY <1>1, <3>1 DEF ActsInv, Queued, ActsTyped
  <2>2. /\ \A j \in Indices : IF Remembers(j) THEN Recorded(j, memo, Taken) ELSE j \notin memo.done
        /\ counts[press][i] = DueBy(i, Taken)
    BY <1>1, <1>10, <2>1 DEF ActsInv, Remembered, RecordedTo, CountedSoFar, CountedTo
  <2>3. memo \in Memos
    BY DEF ActsInv, ActsTyped
  <2>4. ASSUME ~worker'.busy
        PROVE  Recorded(i, memo, Taken + 1) /\ DueBy(i, Taken + 1) = DueBy(i, Taken)
    <3>1. ~Acts!Pending(memo, Taken + 1)
      BY <1>3, <1>4, <1>8, <1>10, <2>4 DEF Acts!Event
    <3>2. ~Acts!Executes(i, memo, Taken + 1)
      BY <1>8, <1>10, <2>2, <2>3, <3>1, NonePending
    <3> QED
      BY <1>8, <1>10, <2>2, <2>3, <3>2, NextReport
  <2> QED
    BY <1>10, <2>2, <2>4
<1>11. ASSUME InTime, NEW i \in Indices
       PROVE  /\ CountedTo(i)' = IF worker'.busy THEN Taken ELSE Taken + 1
              /\ RecordedTo(i)' = IF worker'.busy THEN Taken ELSE Taken + 1
  <2>1. i >= 1 /\ i \in Nat /\ Taken' - 1 = Taken /\ Taken' = Taken + 1
    BY <1>8, <1>11, ActionsTyped
  <2>2. worker'.busy => worker'.next = 1 /\ ~worker'.waits
    BY <1>3, <1>4
  <2> QED
    BY <2>1, <2>2 DEF CountedTo, RecordedTo
<1>12. CountedSoFar'
  BY <1>1, <1>8, <1>10, <1>11 DEF CountedSoFar
<1>13. Remembered'
  <2> SUFFICES ASSUME InTime, press \notin failed, held \/ resets = 1
               PROVE  /\ \A i \in Indices : IF Remembers(i) THEN Recorded(i, memo, RecordedTo(i)')
                                                            ELSE i \notin memo.done
                      /\ ~(worker'.busy /\ worker'.waits)
    BY <1>1, <1>8 DEF Remembered
  <2>1. \A i \in Indices : ~Remembers(i) => i \notin memo.done
    BY DEF ActsInv, Remembered
  <2>2. ~(worker'.busy /\ worker'.waits)
    BY <1>1, <1>3, <1>4
  <2> QED
    BY <1>10, <1>11, <2>1, <2>2
<1>14. Past'
  BY <1>1 DEF ActsInv, Past
<1> QED
  BY <1>6, <1>7, <1>9, <1>12, <1>13, <1>14 DEF ActsInv

\* What the handler does with the reports that it has does not change them.
LEMMA HandlerQueued ==
  ASSUME ActsInv, Acts!HandlerUnchanged, worker.busy,
         worker' = Acts!Idle \/ (worker' \in Workers /\ worker'.event = worker.event)
  PROVE  Queued' /\ InTime' = InTime /\ Taken' = Taken
<1>1. Acts!Idle.busy = FALSE
  BY WorkerTyped DEF ActsInv
<1>2. UNCHANGED <<held, press, duration, resets, queue, late>>
  BY DEF Acts!HandlerUnchanged
<1>3. worker'.busy => worker'.event = worker.event
  BY <1>1
<1>4. \A q \in Presses : Unhandled(q)' => Unhandled(q)
  BY <1>2, <1>3 DEF Unhandled
<1>5. Queued'
  BY <1>2, <1>3, <1>4 DEF ActsInv, Queued
<1> QED
  BY <1>2, <1>5 DEF InTime, Taken

\* The action executed is counted for the press whose report is handled.
LEMMA CountKeepsPast ==
  ASSUME ActsInv, worker.busy, NEW i \in Indices, UNCHANGED <<press, duration, late, failed>>,
         Acts!Count(i) \/ UNCHANGED counts
  PROVE  Past' /\ counts' \in [Presses -> [Indices -> Nat]]
<1>1. worker.event.press \in Presses /\ worker \in Workers
  BY WorkerTyped DEF ActsInv, Workers
<1>2. worker.event.press = press \/ (worker.event.press < press /\ worker.event.press \in late)
  BY <1>1 DEF ActsInv, Queued, Unhandled
<1>3. /\ counts' \in [Presses -> [Indices -> Nat]]
      /\ \A p \in Presses : p # worker.event.press => counts'[p] = counts[p]
  <2> DEFINE q == worker.event.press
  <2>1. counts \in [Presses -> [Indices -> Nat]]
    BY DEF ActsInv, ActsTyped
  <2>2. CASE UNCHANGED counts
    BY <2>1, <2>2
  <2>3. CASE Acts!Count(i)
    <3> DEFINE c == [counts[q] EXCEPT ![i] = counts[q][i] + 1]
    <3>1. counts[q] \in [Indices -> Nat]
      BY <1>1, <2>1
    <3>2. counts' = [counts EXCEPT ![q] = c]
      BY <2>3 DEF Acts!Count
    <3>3. c \in [Indices -> Nat]
      BY <3>1
    <3> HIDE DEF c, q
    <3> QED
      BY <2>1, <3>2, <3>3 DEF q
  <2> QED
    BY <2>2, <2>3
<1>4. ASSUME NEW p \in Presses, p = worker.event.press
      PROVE  p = press \/ (p < press /\ p \in late)
  BY <1>2, <1>4
<1>5. press \in Nat /\ \A p \in Presses : p \in Nat
  BY DEF ActsInv, ActsTyped, Presses
<1>6. ASSUME NEW p \in Presses, p < press, {p, p - 1} \intersect (late' \union failed') = {}
      PROVE  \A j \in Indices : Remembers(j) => counts'[p][j] = Times(Actions[j], duration'[p])
  <2>1. p \notin late /\ p # press
    BY <1>5, <1>6
  <2>2. counts'[p] = counts[p]
    BY <1>3, <1>4, <2>1
  <2> QED
    BY <1>6, <2>2 DEF ActsInv, Past
<1>7. ASSUME NEW p \in Presses, p > press
      PROVE  \A j \in Indices : counts'[p][j] = 0
  <2>1. p # worker.event.press
    BY <1>4, <1>5, <1>7
  <2> QED
    BY <1>3, <1>7, <2>1 DEF ActsInv, Past
<1> QED
  BY <1>3, <1>6, <1>7 DEF Past

LEMMA ExecuteCounts ==
  ASSUME OneKindEach, ActsInv, Acts!Execute
  PROVE  ActsInv'
<1>0. PICK i \in Indices : i = worker.next
  BY DEF Acts!Execute, Indices, Acts!Indices
<1> DEFINE due == Acts!Executes(i, worker.memo, worker.event.duration)
<1>1. /\ worker.busy /\ ~worker.waits /\ i \in Indices
      /\ Acts!HandlerUnchanged /\ UNCHANGED <<memo, failed>>
      /\ IF due THEN Acts!Count(i) ELSE UNCHANGED counts
      /\ worker' = IF due /\ ~Actions[i].mqtt THEN [worker EXCEPT !.waits = TRUE]
                                              ELSE [worker EXCEPT !.next = i + 1]
  BY <1>0 DEF Acts!Execute, Indices, Acts!Indices
<1>2. worker \in Workers /\ i \in Nat
  BY <1>1, WorkerTyped, ActionsTyped DEF ActsInv
<1>3. /\ worker' \in Workers /\ worker'.busy /\ worker'.event = worker.event
      /\ worker'.shared = worker.shared /\ worker'.memo = worker.memo
      /\ IF due /\ Remembers(i) THEN worker'.next = i /\ worker'.waits
                                ELSE worker'.next = i + 1 /\ ~worker'.waits
  <2>1. CASE due /\ Remembers(i)
    BY <1>0, <1>1, <1>2, <2>1 DEF Workers, Remembers
  <2>2. CASE ~(due /\ Remembers(i))
    <3>1. worker' = [worker EXCEPT !.next = i + 1] /\ ~worker.waits
      BY <1>1, <2>2 DEF Remembers
    <3>2. i + 1 \in Nat
      BY <1>2
    <3> QED
      BY <1>2, <2>2, <3>1, <3>2 DEF Workers
  <2> QED
    BY <2>1, <2>2
<1>4. UNCHANGED <<held, press, duration, resets, queue, late>>
  BY <1>1 DEF Acts!HandlerUnchanged
<1>5. Past' /\ counts' \in [Presses -> [Indices -> Nat]]
  BY <1>1, <1>4, CountKeepsPast
<1>6. Queued' /\ InTime' = InTime /\ Taken' = Taken
  BY <1>1, <1>3, HandlerQueued
<1> HIDE DEF due
<1>7. ActsTyped'
  <2>1. worker'.next >= 1 /\ (worker'.waits => worker'.next \in Indices)
    BY <1>0, <1>1, <1>2, <1>3, ActionsTyped
  <2> QED
    BY <1>1, <1>3, <1>4, <1>5, <2>1 DEF ActsInv, ActsTyped
<1>8. InOrder'
  BY <1>1, <1>3, <1>4, <1>6 DEF ActsInv, InOrder, Acts!Event
<1>9. ASSUME InTime
      PROVE  /\ worker.event = Acts!Event(press, Taken) /\ worker.memo = memo
             /\ Taken \in Nat /\ Taken > 0
             /\ worker.event.press = press /\ worker.event.duration = Taken
             /\ due <=> Acts!Executes(i, memo, Taken)
  BY <1>1, <1>9 DEF ActsInv, InOrder, Acts!Event, due
<1>10. ASSUME InTime, press \notin failed, held \/ resets = 1, Remembers(i)
       PROVE  /\ Recorded(i, memo, Taken - 1)
              /\ DueBy(i, Taken - 1) \in Nat
              /\ due => DueBy(i, Taken) = DueBy(i, Taken - 1) + 1
              /\ ~due => DueBy(i, Taken) = DueBy(i, Taken - 1) /\ Recorded(i, memo, Taken)
  <2>1. Taken - 1 \in Nat /\ (Taken - 1) + 1 = Taken /\ memo \in Memos
    BY <1>9, <1>10 DEF ActsInv, ActsTyped
  <2>2. Recorded(i, memo, Taken - 1)
    BY <1>0, <1>1, <1>2, <1>10 DEF ActsInv, Remembered, RecordedTo
  <2> QED
    BY <1>1, <1>9, <1>10, <2>1, <2>2, NextReport
<1>11. InTime => held \/ resets = 1
  BY <1>1 DEF ActsInv, Queued, InTime, ActsTyped
<1>12. ASSUME InTime, NEW j \in Indices, j # i
       PROVE  CountedTo(j)' = CountedTo(j) /\ RecordedTo(j)' = RecordedTo(j)
  <2>1. j \in Nat
    BY ActionsTyped
  <2>3. (j > worker'.next \/ (j = worker'.next /\ ~worker'.waits)) <=> j > i
    <3>1. CASE worker'.next = i
      BY <1>2, <1>12, <2>1, <3>1
    <3>2. CASE worker'.next = i + 1 /\ ~worker'.waits
      BY <1>2, <1>12, <2>1, <3>2
    <3> QED
      BY <1>3, <3>1, <3>2
  <2>4. j >= worker'.next <=> j > i
    <3>1. CASE worker'.next = i
      BY <1>2, <1>12, <2>1, <3>1
    <3>2. CASE worker'.next = i + 1
      BY <1>2, <1>12, <2>1, <3>2
    <3> QED
      BY <1>3, <3>1, <3>2
  <2>5. (j > i \/ (j = i /\ ~worker.waits) <=> j > i) /\ (j >= i <=> j > i)
    BY <1>2, <1>12, <2>1
  <2> QED
    BY <1>0, <1>1, <1>3, <1>6, <2>3, <2>4, <2>5 DEF CountedTo, RecordedTo
<1>13. ASSUME InTime
       PROVE  /\ CountedTo(i) = Taken - 1 /\ CountedTo(i)' = Taken
              /\ RecordedTo(i) = Taken - 1
              /\ RecordedTo(i)' = IF due /\ Remembers(i) THEN Taken - 1 ELSE Taken
  <2>0. i \in Nat /\ i >= i /\ ~(i > i)
    BY <1>2
  <2>1. CountedTo(i) = Taken - 1 /\ RecordedTo(i) = Taken - 1
    BY <1>0, <1>1, <2>0 DEF CountedTo, RecordedTo
  <2>2. CASE due /\ Remembers(i)
    <3>1. worker'.next = i /\ worker'.waits
      BY <1>3, <2>2
    <3>2. CountedTo(i)' = Taken' /\ RecordedTo(i)' = Taken' - 1
      BY <1>3, <2>0, <3>1 DEF CountedTo, RecordedTo
    <3> QED
      BY <1>6, <2>1, <2>2, <3>2
  <2>3. CASE ~(due /\ Remembers(i))
    <3>1. worker'.next = i + 1 /\ ~(i > i + 1) /\ ~(i >= i + 1) /\ i # i + 1
      BY <1>2, <1>3, <2>3
    <3> QED
      BY <1>3, <1>6, <2>1, <2>3, <3>1 DEF CountedTo, RecordedTo
  <2> QED
    BY <2>2, <2>3
<1>14. CountedSoFar'
  <2> SUFFICES ASSUME InTime, press \notin failed, NEW j \in Indices, Remembers(j)
               PROVE  counts'[press][j] = DueBy(j, CountedTo(j)')
    BY <1>1, <1>4, <1>6 DEF CountedSoFar
  <2>1. counts[press][j] = DueBy(j, CountedTo(j))
    BY DEF ActsInv, CountedSoFar
  <2>2. press \in Presses
    BY DEF ActsInv, ActsTyped, Presses, InTime
  <2>3. counts'[press][j] = IF due /\ j = i THEN counts[press][j] + 1 ELSE counts[press][j]
    <3>1. CASE due
      <4>1. counts' = [counts EXCEPT ![press][i] = counts[press][i] + 1]
        BY <1>1, <1>9, <3>1 DEF Acts!Count
      <4> QED
        BY <1>1, <2>2, <3>1, <4>1 DEF ActsInv, ActsTyped
    <3>2. CASE ~due
      BY <1>1, <3>2
    <3> QED
      BY <3>1, <3>2
  <2>4. CASE j = i
    <3>1. counts[press][i] = DueBy(i, Taken - 1) /\ CountedTo(i)' = Taken /\ Remembers(i)
      BY <1>13, <2>1, <2>4
    <3>2. CASE due
      BY <1>10, <1>11, <2>3, <2>4, <3>1, <3>2
    <3>3. CASE ~due
      BY <1>10, <1>11, <2>3, <2>4, <3>1, <3>3
    <3> QED
      BY <3>2, <3>3
  <2>5. CASE j # i
    BY <1>12, <2>1, <2>3, <2>5
  <2> QED
    BY <2>4, <2>5
<1>15. Remembered'
  <2> SUFFICES ASSUME InTime, press \notin failed, held \/ resets = 1
               PROVE  /\ \A j \in Indices : IF Remembers(j) THEN Recorded(j, memo, RecordedTo(j)')
                                                            ELSE j \notin memo.done
                      /\ worker'.waits => /\ Remembers(worker'.next)
                                          /\ Acts!Executes(worker'.next, memo, Taken)
    BY <1>1, <1>4, <1>6 DEF Remembered
  <2>1. \A j \in Indices : IF Remembers(j) THEN Recorded(j, memo, RecordedTo(j))
                                           ELSE j \notin memo.done
    BY DEF ActsInv, Remembered
  <2>2. ASSUME NEW j \in Indices, Remembers(j)
        PROVE  Recorded(j, memo, RecordedTo(j)')
    <3>1. CASE j # i
      BY <1>12, <2>1, <2>2, <3>1
    <3>2. CASE j = i
      <4>1. CASE due
        BY <1>10, <1>13, <2>2, <3>2, <4>1
      <4>2. CASE ~due
        BY <1>10, <1>13, <2>2, <3>2, <4>2
      <4> QED
        BY <4>1, <4>2
    <3> QED
      BY <3>1, <3>2
  <2>3. worker'.waits => Remembers(worker'.next) /\ Acts!Executes(worker'.next, memo, Taken)
    BY <1>0, <1>3, <1>9
  <2> QED
    BY <2>1, <2>2, <2>3
<1> QED
  BY <1>5, <1>6, <1>7, <1>8, <1>14, <1>15 DEF ActsInv

LEMMA ExecutedCounts ==
  ASSUME OneKindEach, ActsInv, Acts!Executed
  PROVE  ActsInv'
<1>0. PICK i \in Indices : i = worker.next
  BY DEF Acts!Executed, ActsInv, ActsTyped
<1> DEFINE marked == Acts!Marked(worker.memo, i, worker.event.duration)
<1>1. /\ worker.busy /\ worker.waits /\ Acts!HandlerUnchanged /\ UNCHANGED <<counts, failed>>
      /\ worker' = [worker EXCEPT !.waits = FALSE, !.next = i + 1, !.memo = marked]
      /\ memo' = IF worker.shared THEN marked ELSE memo
  BY <1>0 DEF Acts!Executed
<1>2. /\ worker \in Workers /\ i \in Nat /\ i + 1 \in Nat
      /\ worker.memo \in Memos /\ worker.event.duration \in Nat
  <2>1. worker \in Workers
    BY <1>1, WorkerTyped DEF ActsInv
  <2>2. i \in Nat /\ i + 1 \in Nat
    BY ActionsTyped
  <2> QED
    BY <2>1, <2>2 DEF Workers
<1>3. marked \in Memos
  BY <1>2 DEF Acts!Marked, Memos
<1>4. /\ worker' \in Workers /\ worker'.busy /\ worker'.event = worker.event
      /\ worker'.shared = worker.shared /\ worker'.memo = marked
      /\ worker'.next = i + 1 /\ ~worker'.waits
  <2> HIDE DEF marked
  <2> QED
    BY <1>1, <1>2, <1>3 DEF Workers
<1>5. UNCHANGED <<held, press, duration, resets, queue, late>>
  BY <1>1 DEF Acts!HandlerUnchanged
<1>6. Past' /\ counts' \in [Presses -> [Indices -> Nat]]
  BY <1>0, <1>1, <1>5, CountKeepsPast
<1>7. Queued' /\ InTime' = InTime /\ Taken' = Taken
  BY <1>1, <1>4, HandlerQueued
<1>8. ActsTyped'
  <2> HIDE DEF marked
  <2>1. memo' \in Memos /\ worker'.next >= 1
    BY <1>1, <1>2, <1>3, <1>4 DEF ActsInv, ActsTyped
  <2> QED
    BY <1>1, <1>4, <1>5, <1>6, <2>1 DEF ActsInv, ActsTyped
<1>9. ASSUME InTime
      PROVE  /\ worker.event = Acts!Event(press, Taken) /\ worker.memo = memo
             /\ Taken \in Nat /\ Taken > 0
             /\ worker.shared /\ memo' = marked /\ marked = Acts!Marked(memo, i, Taken)
             /\ Taken - 1 \in Nat /\ (Taken - 1) + 1 = Taken
  <2>1. /\ worker.event = Acts!Event(press, Taken) /\ worker.memo = memo /\ Taken \in Nat
        /\ Taken > 0 /\ worker.shared
    BY <1>1, <1>9 DEF ActsInv, InOrder
  <2>2. worker.event.duration = Taken
    BY <2>1 DEF Acts!Event
  <2> QED
    BY <1>1, <2>1, <2>2
<1> HIDE DEF marked
<1>10. InOrder'
  <2> SUFFICES ASSUME InTime
               PROVE  /\ duration[press] > 0 /\ Taken \in Nat
                      /\ \A n \in DOMAIN queue : queue[n] = Acts!Event(press, Taken + n)
                      /\ Taken > 0 /\ worker'.event = Acts!Event(press, Taken)
                      /\ worker'.shared /\ worker'.memo = memo'
    BY <1>5, <1>7 DEF InOrder, Acts!Event
  <2> QED
    BY <1>4, <1>9 DEF ActsInv, InOrder
<1>11. ASSUME NEW j \in Indices
       PROVE  /\ CountedTo(j)' = CountedTo(j)
              /\ j # i => RecordedTo(j)' = RecordedTo(j)
              /\ RecordedTo(i) = Taken - 1 /\ RecordedTo(i)' = Taken
  <2>1. j \in Nat /\ i \in Nat
    BY <1>2, ActionsTyped
  <2>2. /\ j > i <=> (j > i + 1 \/ j = i + 1)
        /\ j # i => (j >= i <=> j >= i + 1)
        /\ i >= i /\ ~(i >= i + 1)
    BY <2>1
  <2> QED
    BY <1>0, <1>1, <1>4, <1>7, <2>2 DEF CountedTo, RecordedTo
<1>12. CountedSoFar'
  BY <1>1, <1>5, <1>7, <1>11 DEF ActsInv, CountedSoFar
<1>13. Remembered'
  <2> SUFFICES ASSUME InTime, press \notin failed, held \/ resets = 1
               PROVE  \A j \in Indices : IF Remembers(j) THEN Recorded(j, marked, RecordedTo(j)')
                                                         ELSE j \notin marked.done
    BY <1>1, <1>4, <1>5, <1>7, <1>9 DEF Remembered
  <2>1. /\ \A j \in Indices : IF Remembers(j) THEN Recorded(j, memo, RecordedTo(j))
                                              ELSE j \notin memo.done
        /\ Remembers(i) /\ Acts!Executes(i, memo, Taken)
    BY <1>0, <1>1 DEF ActsInv, Remembered
  <2>2. memo \in Memos /\ marked = Acts!Marked(memo, i, Taken)
    BY <1>9 DEF ActsInv, ActsTyped
  <2>3. ASSUME NEW j \in Indices, j # i
        PROVE  IF Remembers(j) THEN Recorded(j, marked, RecordedTo(j)') ELSE j \notin marked.done
    <3>1. CASE Remembers(j)
      BY <1>11, <2>1, <2>2, <2>3, <3>1, OthersRecorded
    <3>2. CASE ~Remembers(j)
      <4>1. marked.done = memo.done \union {i}
        BY <2>2 DEF Acts!Marked
      <4> QED
        BY <2>1, <2>3, <3>2, <4>1
    <3> QED
      BY <3>1, <3>2
  <2>4. Recorded(i, marked, RecordedTo(i)')
    <3>1. Recorded(i, memo, Taken - 1)
      BY <1>11, <2>1
    <3>2. Recorded(i, Acts!Marked(memo, i, (Taken - 1) + 1), (Taken - 1) + 1)
      BY <1>9, <2>1, <2>2, <3>1, NextReport
    <3> QED
      BY <1>9, <1>11, <2>2, <3>2
  <2> QED
    BY <2>1, <2>3, <2>4
<1> QED
  BY <1>6, <1>7, <1>8, <1>10, <1>12, <1>13 DEF ActsInv

\* Of the press of an action that raises nothing is promised any more.
LEMMA RaisedCounts ==
  ASSUME ActsInv, Acts!ActionRaises
  PROVE  ActsInv'
<1>1. /\ worker.busy /\ Acts!HandlerUnchanged /\ UNCHANGED <<memo, counts>> /\ worker' = Acts!Idle
      /\ failed' = failed \union {worker.event.press}
  BY DEF Acts!ActionRaises
<1>2. UNCHANGED <<held, press, duration, resets, queue, late>> /\ ~worker'.busy
  BY <1>1, WorkerTyped DEF ActsInv, Acts!HandlerUnchanged
<1>3. Queued' /\ InTime' = InTime /\ Taken' = Taken
  BY <1>1, HandlerQueued
<1>4. ActsTyped'
  BY <1>1, <1>2 DEF ActsInv, ActsTyped
<1>5. InOrder'
  BY <1>2, <1>3 DEF ActsInv, InOrder, Acts!Event
<1>6. InTime => press \in failed'
  BY <1>1 DEF ActsInv, InOrder, Acts!Event
<1>7. CountedSoFar' /\ Remembered'
  BY <1>2, <1>3, <1>6 DEF CountedSoFar, Remembered
<1>8. Past'
  <2>1. failed \subseteq failed'
    BY <1>1
  <2> QED
    BY <1>1, <1>2, <2>1 DEF ActsInv, Past
<1> QED
  BY <1>3, <1>4, <1>5, <1>7, <1>8 DEF ActsInv

LEMMA PutBackCounts ==
  ASSUME ActsInv, Acts!PutBack
  PROVE  ActsInv'
<1>1. /\ worker.busy /\ worker.next \notin Indices /\ memo' = worker.memo /\ worker' = Acts!Idle
      /\ Acts!HandlerUnchanged /\ UNCHANGED <<counts, failed>>
  BY DEF Acts!PutBack, Indices, Acts!Indices
<1>2. UNCHANGED <<held, press, duration, resets, queue, late>> /\ ~worker'.busy
  BY <1>1, WorkerTyped DEF ActsInv, Acts!HandlerUnchanged
<1>3. worker.memo \in Memos /\ worker.next \in Nat /\ ~worker.waits
  BY <1>1, WorkerTyped DEF ActsInv, ActsTyped, Workers
<1>4. Queued' /\ InTime' = InTime /\ Taken' = Taken
  BY <1>1, HandlerQueued
<1>5. ActsTyped'
  BY <1>1, <1>2, <1>3 DEF ActsInv, ActsTyped
<1>6. InOrder'
  BY <1>2, <1>4 DEF ActsInv, InOrder, Acts!Event
<1>7. ASSUME NEW j \in Indices
      PROVE  /\ CountedTo(j) = Taken /\ CountedTo(j)' = Taken
             /\ RecordedTo(j) = Taken /\ RecordedTo(j)' = Taken
  <2>1. j < worker.next
    <3>1. /\ j \in 1..Len(Actions) /\ Len(Actions) \in Nat /\ worker.next >= 1
          /\ worker.next \notin 1..Len(Actions)
      BY <1>1, ActionsTyped DEF ActsInv, ActsTyped
    <3> QED
      BY <1>3, <3>1
  <2>2. ~(j > worker.next) /\ j # worker.next /\ ~(j >= worker.next)
    <3>1. j \in Nat
      BY ActionsTyped
    <3> QED
      BY <1>3, <2>1, <3>1
  <2> QED
    BY <1>2, <1>4, <2>2 DEF CountedTo, RecordedTo
<1>8. CountedSoFar'
  BY <1>1, <1>2, <1>4, <1>7 DEF ActsInv, CountedSoFar
<1>9. InTime => memo' = memo
  BY <1>1 DEF ActsInv, InOrder
<1>10. Remembered'
  BY <1>1, <1>2, <1>4, <1>7, <1>9 DEF ActsInv, Remembered
<1>11. Past'
  BY <1>1, <1>2 DEF ActsInv, Past
<1> QED
  BY <1>4, <1>5, <1>6, <1>8, <1>10, <1>11 DEF ActsInv

-----------------------------------------------------------------------------
LEMMA InitCounts == Acts!Init => ActsInv
<1> SUFFICES ASSUME Acts!Init
             PROVE  ActsInv
  OBVIOUS
<1>1. /\ press = 0 /\ ~held /\ resets = 0 /\ queue = <<>>
      /\ worker = Acts!Idle /\ ~worker.busy /\ memo = Acts!Fresh
      /\ late = {} /\ counts = [p \in Presses |-> [i \in Indices |-> 0]]
      /\ held = FALSE /\ duration = [p \in Presses |-> 0]
  BY DEF Acts!Init, Acts!Idle, Presses, Acts!Presses, Indices, Acts!Indices
<1>2. ActsTyped
  <2>1. press \in 0..MaxPresses
    BY <1>1, LongPressesAssumption
  <2>2. counts \in [Presses -> [Indices -> Nat]] /\ duration \in [Presses -> Nat]
    BY <1>1
  <2>3. queue \in Seq(Events)
    BY <1>1
  <2> QED
    BY <1>1, <2>1, <2>2, <2>3, FreshTyped DEF ActsTyped, Events
<1>3. Queued
  BY <1>1 DEF Queued, Unhandled
<1>4. InOrder /\ CountedSoFar /\ Remembered
  BY <1>1 DEF InOrder, CountedSoFar, Remembered, InTime
<1>5. Past
  BY <1>1 DEF Past, Presses
<1> QED
  BY <1>2, <1>3, <1>4, <1>5 DEF ActsInv

LEMMA StepCounts ==
  ASSUME OneKindEach, ActsInv, [Acts!Next]_(Acts!vars)
  PROVE  ActsInv'
<1>1. CASE Acts!LongPress
  BY <1>1, PressBegins
<1>2. CASE Acts!Periodic
  BY <1>2, PressGoesOn DEF Acts!Periodic
<1>3. CASE Acts!Release
  BY <1>3, PressGoesOn DEF Acts!Release
<1>4. CASE Acts!Reset \/ Acts!ForceStop
  BY <1>4, ResetCounts
<1>5. CASE Acts!Handle
  BY <1>5, HandleCounts
<1>6. CASE Acts!Execute
  BY <1>6, ExecuteCounts
<1>7. CASE Acts!Executed
  BY <1>7, ExecutedCounts
<1>8. CASE Acts!ActionRaises
  BY <1>8, RaisedCounts
<1>9. CASE Acts!PutBack
  BY <1>9, PutBackCounts
<1>10. CASE UNCHANGED Acts!vars
  <2>1. UNCHANGED <<held, press, duration, resets, memo, queue, worker, counts, late, failed>>
    BY <1>10 DEF Acts!vars
  <2> QED
    BY <2>1 DEF ActsInv, ActsTyped, Queued, Unhandled, InOrder, InTime, Taken, CountedSoFar, CountedTo,
                Remembered, RecordedTo, Recorded, Acts!Executes, Acts!Throttled, Past
<1> QED
  BY <1>1, <1>2, <1>3, <1>4, <1>5, <1>6, <1>7, <1>8, <1>9, <1>10 DEF Acts!Next

LEMMA CountsAct == ActsInv => EachPressActs
<1> SUFFICES ASSUME ActsInv, NEW p \in 1..press, Settled(p), ~Unhandled(p),
                    {p, p - 1} \intersect (late \union failed) = {},
                    NEW i \in Indices, ~Actions[i].mqtt
             PROVE  counts[p][i] = Times(Actions[i], duration[p])
  BY DEF EachPressActs
<1>1. p \in Presses /\ press \in Nat /\ p \in Nat /\ press # 0 /\ Remembers(i) /\ p <= press
  <2>1. press \in 0..MaxPresses /\ MaxPresses \in Nat
    BY LongPressesAssumption DEF ActsInv, ActsTyped
  <2> QED
    BY <2>1 DEF Presses, Remembers
<1>2. CASE p < press
  BY <1>1, <1>2 DEF ActsInv, Past
<1>3. CASE ~(p < press)
  <2>1. p = press /\ ~held /\ resets = 0 /\ press \notin late /\ press \notin failed /\ InTime
    BY <1>1, <1>3 DEF Settled, InTime
  <2>2. queue = <<>> /\ ~worker.busy
    BY <2>1 DEF ActsInv, Queued
  <2>3. duration[press] \in Nat /\ duration[press] > 0 /\ Taken = duration[press]
    <3>1. Len(queue) = 0
      BY <2>2
    <3>2. duration[press] \in Nat /\ duration[press] > 0
      BY <1>1, <2>1 DEF ActsInv, ActsTyped, InOrder
    <3> QED
      BY <3>1, <3>2 DEF Taken
  <2>4. counts[press][i] = DueBy(i, Taken)
    BY <1>1, <2>1, <2>2 DEF ActsInv, CountedSoFar, CountedTo
  <2> QED
    BY <2>1, <2>3, <2>4 DEF DueBy
<1> QED
  BY <1>2, <1>3

\* Every action of a long press is executed exactly as often as its duration and interval
\* say, in every press whose reports were handled before its reset, as were those of the press
\* before, and in neither of which an action raised: handle_input_event never takes what it
\* remembers of one press for another's.
THEOREM PressesAct ==
  ASSUME OneKindEach
  PROVE  Acts!Spec => []EachPressActs
<1>1. Acts!Init => ActsInv
  BY InitCounts
<1>2. ActsInv /\ [Acts!Next]_(Acts!vars) => ActsInv'
  BY StepCounts
<1>3. ActsInv => EachPressActs
  BY CountsAct
<1> QED
  BY <1>1, <1>2, <1>3, PTL DEF Acts!Spec
=============================================================================
