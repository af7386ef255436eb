------------------------------- MODULE Report -------------------------------
(***************************************************************************)
(* src/tri_arb/report.py: the figures of a run and the verdicts drawn from *)
(* them.  The streaming accumulator sees every signal, latency and health  *)
(* line once, as it is recorded, and keeps counters and a sample of bounded *)
(* size; calculate_metrics computes the same figures from the lines read   *)
(* back from disk.  Both are here, each as the code has it.                *)
(*                                                                         *)
(* Edges, gains and delays are integers and their sums exact; percentages  *)
(* are compared by cross-multiplication.  An optional value is a set of at *)
(* most one.  A signal is recorded once, under an id of its own, and its   *)
(* latency line at any time: before it, or where it never is (see Scanner). *)
(***************************************************************************)
EXTENDS Integers, Sequences, FiniteSets, FiniteSetsExt, TLC

CONSTANTS
    Cycles,
    Ids,            \* of signals; as many as a run may detect (bound)
    Signals,        \* signal lines that the scanner may record
    Checks,         \* what a follow-up may see: [Buckets -> [profitable, elapsed]]
    Healths,        \* counters and book age of a health line: [resyncs, gaps, age]
    Buckets,        \* latency buckets, in milliseconds
    Tolerance,      \* lateness that is still on time
    FeeCosts,       \* edges eaten by the diagnostic fee rates
    SampleLimit,    \* sample_limit, at least 1
    TopLimit,       \* 20 in the code
    Gates,          \* the thresholds of the verdicts
    MaxHealth,      \* bound: health lines recorded
    MaxCheckpoints  \* bound: checkpoints published

ASSUME ReportAssumption ==
    /\ SampleLimit \in Nat \ {0} /\ TopLimit \in Nat \ {0} /\ Tolerance \in Nat
    /\ Buckets # {} /\ Buckets \subseteq Nat /\ IsFiniteSet(Buckets)
    /\ IsFiniteSet(Cycles)
    /\ Signals \subseteq
           [cycle : Cycles, raw : Int, net : Int, depth : Int, pnl : SUBSET Int,
            pessimistic : BOOLEAN, executable : BOOLEAN, rejected : BOOLEAN, age : Int]
    /\ \A s \in Signals : IsFiniteSet(s.pnl) /\ Cardinality(s.pnl) <= 1
    /\ \A s \in Signals : s.executable <=> s.pnl # {}
    /\ Checks \subseteq [Buckets -> [profitable : BOOLEAN, elapsed : Int]]
    /\ Healths \subseteq [resyncs : Nat, gaps : Nat, age : Int]
    /\ Gates \in [sample : Nat, decisionSample : Nat, ghostPercent : Nat, repeated : Nat,
                  checkpoints : Nat, survival : SUBSET Nat, totalPnl : Int]

VARIABLES
    disk,       \* the lines of the files; ids has the id of each line of signals
    acc,        \* the accumulator
    published   \* one entry per checkpoint: did the files then hold evidence?

vars == <<disk, acc, published>>

-----------------------------------------------------------------------------
(* What is read from a line.                                               *)

Executable(s) == s.executable /\ ~s.rejected
RealisticEdge(s) == IF Executable(s) THEN {s.depth} ELSE {}
Gain(s) == IF Executable(s) THEN s.pnl ELSE {}
BreakEven(s) == IF s.raw < 0 THEN {} ELSE {s.raw}
Positive(value) == \E v \in value : v > 0

\* profitable_after_depth and profitable_pessimistic, as the scanner sets them.
DepthProfitable(s) == Executable(s) /\ Positive(s.pnl)
PositiveRealistic(s) == DepthProfitable(s) /\ s.pessimistic

\* The latency line of a signal: a ghost was never profitable, or is gone at once.
FollowUp(id, s, checks) ==
    LET dead == {b \in Buckets : ~checks[b].profitable} IN
    [id |-> id, signal |-> s, cycle |-> s.cycle, checks |-> checks,
     ghost |-> ~DepthProfitable(s) \/ Min(Buckets) \in dead,
     lifetime |-> IF ~DepthProfitable(s) THEN 0
                  ELSE Min(dead \cup {Max(Buckets)})]

Lateness(line, b) == line.checks[b].elapsed - b

Slowest == Max(Buckets)

-----------------------------------------------------------------------------
(* The accumulator.                                                        *)

NoStats == [count |-> 0, sum |-> 0, min |-> 0, max |-> 0]

\* Mutated form: the extrema start at zero.
SeenFromZero(stats, v) ==
    [count |-> stats.count + 1, sum |-> stats.sum + v,
     min |-> Min({stats.min, v}), max |-> Max({stats.max, v})]

Seen(stats, v) ==
    [count |-> stats.count + 1, sum |-> stats.sum + v,
     min |-> IF stats.count = 0 THEN v ELSE Min({stats.min, v}),
     max |-> IF stats.count = 0 THEN v ELSE Max({stats.max, v})]

SeenAny(stats, value) ==
    IF value = {} THEN stats ELSE Seen(stats, CHOOSE v \in value : TRUE)

NoCycle == [signals |-> 0, pnl |-> NoStats, raw |-> NoStats, net |-> NoStats,
            ghosts |-> 0, followUps |-> 0, positive |-> 0]

NoBucket == [samples |-> 0, profitable |-> 0, late |-> 0, lateness |-> NoStats]

Empty ==
    [records |-> 0, signals |-> 0, latency |-> 0,
     feeProfitable |-> 0, depthProfitable |-> 0, pessimistic |-> 0,
     nonExecutable |-> 0, rejected |-> 0, ghosts |-> 0,
     raw |-> NoStats, net |-> NoStats, realistic |-> NoStats, pnl |-> NoStats,
     breakEven |-> NoStats, staleness |-> NoStats, lifetime |-> NoStats,
     sensitivity |-> [c \in FeeCosts |-> 0],
     buckets |-> [b \in Buckets |-> NoBucket],
     cycles |-> [c \in Cycles |-> NoCycle],
     top |-> {},                \* of pairs: edge, place
     resyncs |-> 0, gaps |-> 0,
     sample |-> <<>>,           \* of signals, for the medians
     checkpoints |-> 0, positive |-> 0]

Bit(condition) == IF condition THEN 1 ELSE 0

\* The heap of the best raw edges; among equals the earlier signal is better.
Worse(x, y) == x[1] < y[1] \/ (x[1] = y[1] /\ x[2] > y[2])
Pushed(top, item) ==
    IF Cardinality(top) < TopLimit THEN top \cup {item}
    ELSE LET worst == CHOOSE x \in top : \A y \in top \ {x} : Worse(x, y)
         IN  IF Worse(worst, item) THEN (top \ {worst}) \cup {item} ELSE top

CycleSeen(c, s) ==
    [c EXCEPT !.signals = @ + 1,
              !.pnl = SeenAny(@, Gain(s)),
              !.raw = Seen(@, s.raw),
              !.net = Seen(@, s.net),
              !.positive = @ + Bit(PositiveRealistic(s))]

\* The reservoir: full, it takes the newcomer for a random one of its members, or
\* for none.
Samples(sample, s) ==
    IF Len(sample) < SampleLimit THEN {Append(sample, s)}
    ELSE {sample} \cup {[sample EXCEPT ![i] = s] : i \in 1..SampleLimit}

SignalObserved(a, s, sample) ==
    [a EXCEPT !.records = @ + 1,
              !.signals = @ + 1,
              !.sample = sample,
              !.raw = Seen(@, s.raw),
              !.net = Seen(@, s.net),
              !.realistic = SeenAny(@, RealisticEdge(s)),
              !.pnl = SeenAny(@, Gain(s)),
              !.breakEven = SeenAny(@, BreakEven(s)),
              !.staleness = Seen(@, s.age),
              !.feeProfitable = @ + Bit(s.net > 0),
              !.depthProfitable = @ + Bit(Positive(RealisticEdge(s))),
              !.pessimistic = @ + Bit(s.pessimistic),
              !.nonExecutable = @ + Bit(~Executable(s)),
              !.rejected = @ + Bit(s.rejected),
              !.sensitivity = [c \in FeeCosts |-> @[c] + Bit(s.raw > c)],
              !.top = Pushed(@, <<s.raw, a.signals + 1>>),
              !.cycles[s.cycle] = CycleSeen(@, s)]

BucketSeen(bucket, line, b) ==
    [bucket EXCEPT !.samples = @ + 1,
                   !.profitable = @ + Bit(line.checks[b].profitable),
                   !.late = @ + Bit(Lateness(line, b) > Tolerance),
                   !.lateness = Seen(@, Lateness(line, b))]

CycleFollowed(c, line) ==
    [c EXCEPT !.followUps = @ + 1, !.ghosts = @ + Bit(line.ghost)]

LatencyObserved(a, line) ==
    [a EXCEPT !.records = @ + 1,
              !.latency = @ + 1,
              !.ghosts = @ + Bit(line.ghost),
              !.lifetime = Seen(@, line.lifetime),
              !.buckets = [b \in Buckets |-> BucketSeen(@[b], line, b)],
              !.cycles[line.cycle] = CycleFollowed(@, line)]

\* Health lines repeat cumulative counters.
HealthObserved(a, h) ==
    [a EXCEPT !.records = @ + 1,
              !.resyncs = Max({@, h.resyncs}),
              !.gaps = Max({@, h.gaps})]

-----------------------------------------------------------------------------
(* The figures of a report.                                                *)

RepeatedAtLeast(positiveOf) ==
    Cardinality({c \in Cycles : positiveOf[c] >= Max({1, Gates.repeated})})

LateAt(buckets) == Max({0} \cup {buckets[b].lateness.max : b \in Buckets})
SumOver(f) == MapThenSumSet(LAMBDA b : f[b], DOMAIN f)

\* Every check was timed, so that the run's lateness decides.
OnTime(buckets) ==
    SumOver([b \in Buckets |-> buckets[b].samples]) > 0 /\ LateAt(buckets) <= Tolerance

Enough(signals, covered) ==
    signals > 0 /\ (10 * covered >= 9 * signals \/ covered >= Gates.decisionSample)

Figures(a, covered, best) ==
    [records |-> a.records, signals |-> a.signals, latency |-> a.latency,
     feeProfitable |-> a.feeProfitable, depthProfitable |-> a.depthProfitable,
     pessimistic |-> a.pessimistic, nonExecutable |-> a.nonExecutable,
     rejected |-> a.rejected, ghosts |-> a.ghosts,
     raw |-> a.raw, net |-> a.net, realistic |-> a.realistic, pnl |-> a.pnl,
     breakEven |-> a.breakEven, staleness |-> a.staleness, lifetime |-> a.lifetime,
     sensitivity |-> a.sensitivity, buckets |-> a.buckets, cycles |-> a.cycles,
     resyncs |-> a.resyncs, gaps |-> a.gaps,
     covered |-> covered, best |-> best,
     covers |-> Enough(a.signals, covered),
     onTime |-> OnTime(a.buckets),
     atSlowest |-> a.buckets[Slowest].profitable,
     repeated |-> RepeatedAtLeast([c \in Cycles |-> a.cycles[c].positive])]

\* How often each edge is among the best.
EdgesOf(top) == [edge \in {x[1] : x \in top} |-> Cardinality({x \in top : x[1] = edge})]

\* Gains in the sample, for the median.
GainsOf(sample) ==
    LET kept == SelectSeq(sample, LAMBDA s : Gain(s) # {})
    IN  [i \in DOMAIN kept |-> CHOOSE v \in Gain(kept[i]) : TRUE]

\* Mutated form: the total gain stays that of the sample.
StreamedSampleTotal(a) ==
    [Figures(a, Min({a.signals, a.buckets[Slowest].samples}), EdgesOf(a.top))
        EXCEPT !.pnl.sum = SumOver(GainsOf(a.sample))]

\* _apply_streaming_metrics: the counters replace the figures of the sample.
Streamed(a) ==
    Figures(a, Min({a.signals, a.buckets[Slowest].samples}), EdgesOf(a.top))

\* Twice the median, which is an integer; 0 when there is no value.
TwiceMedian(values) ==
    LET sorted == SortSeq(values, <)
        n == Len(sorted)
    IN  IF n = 0 THEN 0 ELSE sorted[(n + 1) \div 2] + sorted[n \div 2 + 1]

-----------------------------------------------------------------------------
(* calculate_metrics on the lines read back: a report made offline, from   *)
(* files with a signal line.  Without one, it would take raw observations  *)
(* or latency lines for signals (report.py:398, 435).                      *)

Places == DOMAIN disk.signals
Count(P(_)) == Cardinality({i \in Places : P(disk.signals[i])})

StatsOf(f) ==
    IF f = <<>> THEN NoStats
    ELSE [count |-> Cardinality(DOMAIN f), sum |-> SumOver(f),
          min |-> Min({f[x] : x \in DOMAIN f}), max |-> Max({f[x] : x \in DOMAIN f})]

\* Statistics of the values that the signals at these places have.
OfSignals(places, Value(_)) ==
    StatsOf([i \in {p \in places : Value(disk.signals[p]) # {}} |->
                CHOOSE v \in Value(disk.signals[i]) : TRUE])

OfCycle(c) ==
    LET places == {i \in Places : disk.signals[i].cycle = c}
        lines == {line \in disk.latency : line.cycle = c}
    IN  [signals |-> Cardinality(places),
         pnl |-> OfSignals(places, Gain),
         raw |-> OfSignals(places, LAMBDA s : {s.raw}),
         net |-> OfSignals(places, LAMBDA s : {s.net}),
         ghosts |-> Cardinality({line \in lines : line.ghost}),
         followUps |-> Cardinality(lines),
         positive |-> Cardinality({i \in places : PositiveRealistic(disk.signals[i])})]

OfBucket(b) ==
    [samples |-> Cardinality(disk.latency),
     profitable |-> Cardinality({line \in disk.latency : line.checks[b].profitable}),
     late |-> Cardinality({line \in disk.latency : Lateness(line, b) > Tolerance}),
     lateness |-> StatsOf([line \in disk.latency |-> Lateness(line, b)])]

Counters(name) == {0} \cup {disk.health[i][name] : i \in DOMAIN disk.health}

\* nlargest by raw edge, of equals the one that is read first.
Largest ==
    {<<disk.signals[i].raw, i>> : i \in
        {p \in Places : Cardinality({q \in Places :
            Worse(<<disk.signals[p].raw, p>>, <<disk.signals[q].raw, q>>)}) < TopLimit}}

\* Signals on disk whose follow-up is.
Covered == Cardinality({i \in Places : \E line \in disk.latency : line.id = disk.ids[i]})

Recomputed ==
    [records |-> Len(disk.signals) + Cardinality(disk.latency) + Len(disk.health),
     signals |-> Len(disk.signals), latency |-> Cardinality(disk.latency),
     feeProfitable |-> Count(LAMBDA s : s.net > 0),
     depthProfitable |-> Count(LAMBDA s : Executable(s) /\ s.depth > 0),
     pessimistic |-> Count(LAMBDA s : s.pessimistic),
     nonExecutable |-> Count(LAMBDA s : ~Executable(s)),
     rejected |-> Count(LAMBDA s : s.rejected),
     ghosts |-> Cardinality({line \in disk.latency : line.ghost}),
     raw |-> OfSignals(Places, LAMBDA s : {s.raw}),
     net |-> OfSignals(Places, LAMBDA s : {s.net}),
     realistic |-> OfSignals(Places, RealisticEdge),
     pnl |-> OfSignals(Places, Gain),
     breakEven |-> OfSignals(Places, BreakEven),
     staleness |-> OfSignals(Places, LAMBDA s : {s.age}),
     lifetime |-> StatsOf([line \in disk.latency |-> line.lifetime]),
     sensitivity |-> [c \in FeeCosts |-> Count(LAMBDA s : s.raw > c)],
     buckets |-> [b \in Buckets |-> OfBucket(b)],
     cycles |-> [c \in Cycles |-> OfCycle(c)],
     resyncs |-> Max(Counters("resyncs")), gaps |-> Max(Counters("gaps"))]

Replayed == Figures(Recomputed, Covered, EdgesOf(Largest))

-----------------------------------------------------------------------------
(* The verdicts.                                                           *)

\* _decision.  The median is that of the sample.
Conclusion(m, twiceMedian) ==
    LET large == m.signals >= Gates.decisionSample
        measured == m.latency > 0 /\ m.covers /\ m.onTime
        hopeless == \/ m.depthProfitable = 0
                    \/ m.pessimistic = 0
                    \/ measured /\ m.atSlowest = 0 /\ twiceMedian <= 0
        hopeful == /\ measured /\ m.atSlowest > 0 /\ twiceMedian > 0
                   /\ 2 * m.ghosts <= m.latency
    IN  IF ~large \/ m.signals = 0 THEN "UNCLEAR"
        ELSE IF hopeless THEN "STOP" ELSE IF hopeful THEN "PROCEED" ELSE "UNCLEAR"

\* _positive_checkpoint_evidence.
Evidence(m) ==
    /\ m.depthProfitable > 0 /\ m.pessimistic > 0
    /\ \E b \in Gates.survival \cap Buckets : m.buckets[b].profitable > 0
    /\ m.repeated > 0
    /\ m.pnl.sum >= Gates.totalPnl

NoSurvivor(m) ==
    /\ m.depthProfitable = 0 /\ m.pessimistic = 0
    /\ 100 * m.ghosts > Gates.ghostPercent * m.latency
    /\ m.net.count > 0 /\ m.net.max <= 0

\* _decision_48h, of a run without an error that took its time.
Decision48h(m, positive) ==
    IF m.signals < Gates.sample THEN "UNCLEAR"
    ELSE IF NoSurvivor(m) THEN "STOP"
    ELSE IF Evidence(m) /\ positive >= Max({2, Gates.checkpoints}) THEN "CONTINUE_TO_7D"
    ELSE "UNCLEAR"

-----------------------------------------------------------------------------
Init ==
    /\ disk = [signals |-> <<>>, ids |-> <<>>, latency |-> {}, health |-> <<>>]
    /\ acc = Empty
    /\ published = <<>>

\* The append of a signal, if it succeeds; its follow-up, scheduled before, may be there.
RecordSignal(id, s) ==
    /\ \A i \in Places : disk.ids[i] # id
    /\ \A line \in disk.latency : line.id = id => line.signal = s
    /\ disk' = [disk EXCEPT !.signals = Append(@, s), !.ids = Append(@, id)]
    /\ \E sample \in Samples(acc.sample, s) : acc' = SignalObserved(acc, s, sample)
    /\ UNCHANGED published

RecordLatency(id, s, checks) ==
    /\ \A line \in disk.latency : line.id # id
    /\ \A i \in Places : disk.ids[i] = id => disk.signals[i] = s
    /\ LET line == FollowUp(id, s, checks) IN
        /\ disk' = [disk EXCEPT !.latency = @ \cup {line}]
        /\ acc' = LatencyObserved(acc, line)
    /\ UNCHANGED published

\* The counters of a run never fall.
RecordHealth(h) ==
    /\ Len(disk.health) < MaxHealth
    /\ h.resyncs >= acc.resyncs /\ h.gaps >= acc.gaps
    /\ disk' = [disk EXCEPT !.health = Append(@, h)]
    /\ acc' = HealthObserved(acc, h)
    /\ UNCHANGED published

\* What a checkpoint commits once it is on disk (see Observer).
Publish ==
    /\ Len(published) < MaxCheckpoints
    /\ acc' = [acc EXCEPT !.checkpoints = @ + 1, !.positive = @ + Bit(Evidence(Streamed(acc)))]
    /\ published' = Append(published, Evidence(Replayed))
    /\ UNCHANGED disk

Next ==
    \/ \E id \in Ids, s \in Signals : RecordSignal(id, s)
    \/ \E id \in Ids, s \in Signals, checks \in Checks : RecordLatency(id, s, checks)
    \/ \E h \in Healths : RecordHealth(h)
    \/ Publish

Spec == Init /\ [][Next]_vars

-----------------------------------------------------------------------------
(* Counts, sums, extrema, fee sensitivity, best opportunities and per-cycle *)
(* totals of the live report are exact (report.py:1782): once there is a    *)
(* signal line they are those of a report made from the files, whatever the *)
(* sample dropped.  The coverage is not: report.py:2060 takes the fewer of   *)
(* signals and follow-ups for the signals that have theirs, and so counts   *)
(* at most the follow-ups whose signal is not on disk too many.             *)
StreamIsExact ==
    LET live == Streamed(acc)
        offline == Replayed
        unmatched == {line \in disk.latency : \A i \in Places : disk.ids[i] # line.id}
    IN  disk.signals # <<>> =>
        /\ \A figure \in DOMAIN live :
               live[figure] = offline[figure] \/ (figure \in {"covered", "covers"} /\ unmatched # {})
        /\ offline.covered <= live.covered
        /\ live.covered <= offline.covered + Cardinality(unmatched)

(* Verdicts are earned by the whole run.  Continuing needs survivors of     *)
(* depth and stress that repeat in a cycle, one alive at a fast recheck, no *)
(* loss in total, and checkpoints that held all this (methodology.md:73);   *)
(* the 48-hour STOP that no signal survived.  PROCEED needs one alive at    *)
(* the slowest recheck, and where STOP is the conclusion of a run that may  *)
(* continue, none was.                                                      *)
VerdictsEarned ==
    LET m == Streamed(acc)
        verdict == Decision48h(m, acc.positive)
        conclusion == Conclusion(m, TwiceMedian(GainsOf(acc.sample)))
        survived(i) == Executable(disk.signals[i]) /\ disk.signals[i].depth > 0
        alive(b) == \E line \in disk.latency : line.checks[b].profitable
    IN
    /\ verdict = "CONTINUE_TO_7D" =>
        /\ \E i, j \in Places :
            /\ i # j \/ Gates.repeated < 2
            /\ disk.signals[i].cycle = disk.signals[j].cycle
            /\ PositiveRealistic(disk.signals[i]) /\ PositiveRealistic(disk.signals[j])
        /\ \E b \in Gates.survival \cap Buckets : alive(b)
        /\ OfSignals(Places, Gain).sum >= Gates.totalPnl
        /\ Cardinality({i \in DOMAIN published : published[i]}) >= 2
        /\ conclusion = "STOP" => ~alive(Slowest)
    /\ verdict = "STOP" =>
        \A i \in Places :
            ~survived(i) /\ ~disk.signals[i].pessimistic /\ disk.signals[i].net <= 0
    /\ conclusion = "PROCEED" => (\E i \in Places : survived(i)) /\ alive(Slowest)
=============================================================================
