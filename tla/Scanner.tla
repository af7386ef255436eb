------------------------------ MODULE Scanner ------------------------------
(***************************************************************************)
(* src/tri_arb/scanner.py and the follow-ups of src/tri_arb/latency.py:    *)
(* one task scans the cycles and records what it finds through the         *)
(* recorder; each unique signal gets a task that looks at the books again  *)
(* at every latency bucket and records a verdict.  Both wait for the same  *)
(* recorder lock, the books change under them, and the run may be stopped  *)
(* or cancelled at any await.                                              *)
(*                                                                         *)
(* A step is what a task does between two awaits, and at most one cycle or *)
(* one size of the scan: the code yields before every size and before      *)
(* every tenth cycle, the model between all of them.  Prices are left to   *)
(* the simulator, whose outcome is chosen; time is left to the actions     *)
(* that end a cooldown, a bucket, the drain or the run.                    *)
(***************************************************************************)
EXTENDS Recorder, Sequences, FiniteSets

CONSTANTS
    NCycles,            \* cycles are 1..NCycles, in scanning order
    NSizes,             \* start sizes, likewise
    NBuckets,           \* latency buckets, likewise; a lifetime is a bucket
    MaxPending,         \* max_pending_latency_checks
    Grades,             \* outcomes of a depth simulation that can occur
    Stages,             \* outcomes of the fee and pessimistic simulations
    MayBreak,           \* what may go wrong: "simulate", "write", "cancel"
    MaxSignals,         \* bound: unique signals of the run
    MaxErrors           \* bound: failures of the top screen and the raw simulation

\* How a depth simulation ends.  "rich" and "dead": profitable or not, by both
\* readings; "thin": positive, but not above the profit threshold (which is
\* then positive); "under": above a negative threshold without being positive.
AllGrades == {"rich", "dead", "thin", "under"}

ASSUME ScannerAssumption ==
    /\ NCycles \in Nat \ {0} /\ NSizes \in Nat \ {0} /\ NBuckets \in Nat \ {0}
    /\ MaxPending \in Nat \ {0} /\ MaxSignals \in Nat /\ MaxErrors \in Nat
    /\ Grades \subseteq AllGrades
    /\ Stages \subseteq [fees : BOOLEAN, pessimistic : BOOLEAN]
    /\ MayBreak \subseteq {"simulate", "write", "cancel"}

Cycles == 1..NCycles
Sizes == 1..NSizes
Ids == 1..MaxSignals
Scan == 0               \* the scanning task among the callers of record()

VARIABLES
    healthy,        \* whether _books_for_cycle finds the books of a cycle
    pc,             \* where run() is
    at,             \* the cycle and size it is at
    todo,           \* records of the current signal still to be made
    check,          \* the signals so far, with the follow-up of each
    pending,        \* _latency_tasks
    draining,       \* the tasks drain_latency_checks waits for
    cooling,        \* pairs whose last signal is younger than the cooldown
    stats,          \* ScanStats
    stop,           \* the stop event is set, or the deadline has passed
    rec             \* the recorder

vars == <<healthy, pc, at, todo, check, pending, draining, cooling, stats, stop, rec>>

Running == {"idle", "cycle", "size", "recording", "health"}
Ending == {"draining", "final"}
Ended == {"returned", "raised", "abandoned"}

Alive == {"tracking", "reporting"}
Finished == {"completed", "failed", "cancelled"}

Check ==
    [cycle : Cycles, depth : AllGrades, fees : BOOLEAN, pessimistic : BOOLEAN,
     status : {"skipped"} \cup Alive \cup Finished, rechecks : Seq(AllGrades)]

Signals == DOMAIN check
With(status) == {id \in Signals : check[id].status \in status}

TypeOK ==
    /\ healthy \in [Cycles -> BOOLEAN]
    /\ pc \in Running \cup Ending \cup Ended
    /\ at \in [cycle : 1..(NCycles + 1), size : 1..(NSizes + 1)]
    /\ todo \in Seq([cat : Categories, id : Ids])
    /\ check \in Seq(Check)
    /\ Len(check) <= MaxSignals
    /\ pending \subseteq Signals
    /\ draining \subseteq Signals
    /\ cooling \subseteq Cycles \X Sizes
    /\ stats \in [unique : Nat, completed : Nat, skipped : Nat, errors : Nat]
    /\ stop \in BOOLEAN
    /\ Callers(rec) \subseteq {Scan} \cup Signals
    /\ rec.lines \cup rec.observed \subseteq [cat : Categories, id : {0} \cup Ids]

-----------------------------------------------------------------------------
\* Readings of a simulation

Profitable(grade) == grade \in {"rich", "thin"}     \* SimulationResult.profitable
AboveThreshold(grade) == grade \in {"rich", "under"}    \* LatencyTracker._profitable

\* Mutated form: counts the last bucket that lived as the lifetime of a dead signal.
VerdictOffByOne(c) ==
    LET dead == {b \in DOMAIN c.rechecks : ~AboveThreshold(c.rechecks[b])}
        first == CHOOSE b \in dead : \A other \in dead : b <= other
        gone == AboveThreshold(c.depth) /\ dead # {} IN
    IF ~Profitable(c.depth)
    THEN [disappeared |-> TRUE, lifetime |-> 0, ghost |-> TRUE]
    ELSE [disappeared |-> gone,
          lifetime |-> IF gone THEN first - 1 ELSE Len(c.rechecks),
          ghost |-> gone /\ first = 1]

\* What the latency record says: track()'s derivation, overridden by
\* _track_latency for a signal that was not profitable to begin with.
\* Lifetimes count buckets; 0 is "at detection".
Verdict(c) ==
    LET dead == {b \in DOMAIN c.rechecks : ~AboveThreshold(c.rechecks[b])}
        first == CHOOSE b \in dead : \A other \in dead : b <= other
        gone == AboveThreshold(c.depth) /\ dead # {} IN
    IF ~Profitable(c.depth)
    THEN [disappeared |-> TRUE, lifetime |-> 0, ghost |-> TRUE]
    ELSE [disappeared |-> gone,
          lifetime |-> IF gone THEN first ELSE Len(c.rechecks),
          ghost |-> gone /\ first = 1]

\* Mutated form: only survivors get a pessimistic record.
StagesOfSurvivor(id, c) ==
    LET when(condition, cat) == IF condition THEN <<Line(cat, id)>> ELSE <<>> IN
    <<Line("signal", id)>> \o when(c.fees, "after_fees")
        \o when(Profitable(c.depth), "depth") \o when(c.pessimistic, "pessimistic")

\* The records of a signal after its raw opportunity, in the order they are made.
StagesOf(id, c) ==
    LET when(condition, cat) == IF condition THEN <<Line(cat, id)>> ELSE <<>> IN
    <<Line("signal", id)>> \o when(c.fees, "after_fees")
        \o when(Profitable(c.depth), "depth") \o <<Line("pessimistic", id)>>

Worth(line) ==
    LET c == check[line.id] IN
    CASE line.cat = "signal" -> c.fees \/ Profitable(c.depth) \/ c.pessimistic
      [] line.cat = "pessimistic" -> c.pessimistic
      [] OTHER -> FALSE

-----------------------------------------------------------------------------
Init ==
    /\ healthy \in [Cycles -> BOOLEAN]
    /\ pc = "idle"
    /\ at = [cycle |-> 1, size |-> 1]
    /\ todo = <<>> /\ check = <<>>
    /\ pending = {} /\ draining = {} /\ cooling = {}
    /\ stats = [unique |-> 0, completed |-> 0, skipped |-> 0, errors |-> 0]
    /\ stop = FALSE
    /\ rec = NewRecorder

\* The environment: books lose or regain health, a cooldown passes, the run is
\* stopped or its time is over.
BooksChange(c) ==
    /\ healthy' = [healthy EXCEPT ![c] = ~@]
    /\ UNCHANGED <<pc, at, todo, check, pending, draining, cooling, stats, stop, rec>>

CooldownPasses(pair) ==
    /\ pair \in cooling
    /\ cooling' = cooling \ {pair}
    /\ UNCHANGED <<healthy, pc, at, todo, check, pending, draining, stats, stop, rec>>

Stop ==
    /\ ~stop
    /\ stop' = TRUE
    /\ UNCHANGED <<healthy, pc, at, todo, check, pending, draining, cooling, stats, rec>>

-----------------------------------------------------------------------------
\* scan_once

NextCycle == /\ pc' = "cycle" /\ at' = [cycle |-> at.cycle + 1, size |-> 1]

NextSize ==
    IF at.size < NSizes THEN /\ pc' = "size" /\ at' = [at EXCEPT !.size = @ + 1]
                        ELSE NextCycle

ScanStarts ==
    /\ pc = "idle" /\ ~stop
    /\ pc' = "cycle"
    /\ at' = [cycle |-> 1, size |-> 1]
    /\ UNCHANGED <<healthy, todo, check, pending, draining, cooling, stats, stop, rec>>

\* The books of the cycle are not healthy, or the top screen finds no edge or
\* fails: on to the next cycle.
CycleDismissed ==
    /\ pc = "cycle" /\ at.cycle \in Cycles
    /\ NextCycle
    /\ \/ UNCHANGED stats
       \/ /\ healthy[at.cycle] /\ "simulate" \in MayBreak
          /\ stats.errors < MaxErrors
          /\ stats' = [stats EXCEPT !.errors = @ + 1]
    /\ UNCHANGED <<healthy, todo, check, pending, draining, cooling, stop, rec>>

CycleScreened ==
    /\ pc = "cycle" /\ at.cycle \in Cycles
    /\ healthy[at.cycle]
    /\ pc' = "size"
    /\ UNCHANGED <<healthy, at, todo, check, pending, draining, cooling, stats, stop, rec>>

\* After the yield: the books are unhealthy now, or the raw simulation finds no
\* edge or fails.
SizeDismissed ==
    /\ pc = "size"
    /\ NextSize
    /\ \/ UNCHANGED stats
       \/ /\ healthy[at.cycle] /\ "simulate" \in MayBreak
          /\ stats.errors < MaxErrors
          /\ stats' = [stats EXCEPT !.errors = @ + 1]
    /\ UNCHANGED <<healthy, todo, check, pending, draining, cooling, stop, rec>>

\* A raw opportunity within the cooldown of its pair.
OpportunityRepeated ==
    /\ pc = "size" /\ healthy[at.cycle]
    /\ <<at.cycle, at.size>> \in cooling
    /\ \E sampled \in BOOLEAN :
        rec' = Called(rec, Scan, Line("raw_opportunity", 0), FALSE, sampled)
    /\ pc' = "recording"
    /\ todo' = <<>>
    /\ UNCHANGED <<healthy, at, check, pending, draining, cooling, stats, stop>>

\* _schedule_latency's test: no follow-up when the backlog is full.
BacklogFull == Cardinality(pending) >= MaxPending

\* A unique signal: simulated, counted, its follow-up scheduled, and the first
\* of its records handed to the recorder.
SignalDetected ==
    /\ pc = "size" /\ healthy[at.cycle]
    /\ <<at.cycle, at.size>> \notin cooling
    /\ Len(check) < MaxSignals
    /\ \E stage \in Stages, depth \in Grades, sampled \in BOOLEAN :
        LET id == Len(check) + 1
            c == [cycle |-> at.cycle, depth |-> depth, fees |-> stage.fees,
                  pessimistic |-> stage.pessimistic, rechecks |-> <<>>,
                  status |-> IF BacklogFull THEN "skipped" ELSE "tracking"]
        IN  /\ check' = Append(check, c)
            /\ pending' = IF BacklogFull THEN pending ELSE pending \cup {id}
            /\ stats' = [stats EXCEPT !.unique = @ + 1,
                                     !.skipped = IF BacklogFull THEN @ + 1 ELSE @]
            /\ todo' = StagesOf(id, c)
            /\ rec' = Called(rec, Scan, Line("raw_opportunity", id), FALSE, sampled)
    /\ cooling' = cooling \cup {<<at.cycle, at.size>>}
    /\ pc' = "recording"
    /\ UNCHANGED <<healthy, at, draining, stop>>

\* The next record of the signal.
StageRecorded ==
    /\ pc = "recording" /\ todo # <<>> /\ Scan \notin Callers(rec)
    /\ \E sampled \in BOOLEAN :
        rec' = Called(rec, Scan, Head(todo), Worth(Head(todo)), sampled)
    /\ todo' = Tail(todo)
    /\ UNCHANGED <<healthy, pc, at, check, pending, draining, cooling, stats, stop>>

SizeRecorded ==
    /\ pc = "recording" /\ todo = <<>> /\ Scan \notin Callers(rec)
    /\ NextSize
    /\ UNCHANGED <<healthy, todo, check, pending, draining, cooling, stats, stop, rec>>

-----------------------------------------------------------------------------
\* run()

\* The scan is over; a health record is made when the last one is old enough.
ScanEnds ==
    /\ pc = "cycle" /\ at.cycle > NCycles
    /\ \/ /\ pc' = "idle"
          /\ UNCHANGED rec
       \/ /\ pc' = "health"
          /\ rec' = Called(rec, Scan, Line("health", 0), FALSE, FALSE)
    /\ UNCHANGED <<healthy, at, todo, check, pending, draining, cooling, stats, stop>>

HealthRecorded ==
    /\ pc = "health" /\ Scan \notin Callers(rec)
    /\ pc' = "idle"
    /\ UNCHANGED <<healthy, at, todo, check, pending, draining, cooling, stats, stop, rec>>

\* The loop is over: drain_latency_checks waits for the follow-ups there are;
\* with none it returns at once and the last health record is made.
DrainStarts ==
    /\ pc = "idle" /\ stop
    /\ draining' = pending
    /\ \/ /\ pending # {} /\ pc' = "draining"
          /\ UNCHANGED rec
       \/ /\ pending = {} /\ pc' = "final"
          /\ rec' = Called(rec, Scan, Line("health", 0), FALSE, FALSE)
    /\ UNCHANGED <<healthy, at, todo, check, pending, cooling, stats, stop>>

\* The follow-ups in ids that still run.
StillRunning(ids) == ids \cap With(Alive)

\* They are cancelled, each at its await.
Cancelled(ids) ==
    [id \in Signals |->
        IF id \in StillRunning(ids) THEN [check[id] EXCEPT !.status = "cancelled"] ELSE check[id]]

DrainEnds ==
    /\ pc = "draining" /\ StillRunning(draining) = {}
    /\ pc' = "final"
    /\ rec' = Called(rec, Scan, Line("health", 0), FALSE, FALSE)
    /\ UNCHANGED <<healthy, at, todo, check, pending, draining, cooling, stats, stop>>

\* Mutated form: stragglers are left running.
StragglersForgotten ==
    /\ pc = "draining" /\ StillRunning(draining) # {}
    /\ pc' = "final"
    /\ rec' = Called(rec, Scan, Line("health", 0), FALSE, FALSE)
    /\ UNCHANGED <<healthy, at, todo, check, pending, draining, cooling, stats, stop>>

\* The timeout of the drain: stragglers are cancelled, then the last health
\* record is made.
DrainTimesOut ==
    /\ pc = "draining" /\ StillRunning(draining) # {}
    /\ pc' = "final"
    /\ \E ended \in Cancellations(rec, StillRunning(draining)) :
        rec' = Called(ended, Scan, Line("health", 0), FALSE, FALSE)
    /\ check' = Cancelled(draining)
    /\ UNCHANGED <<healthy, at, todo, pending, draining, cooling, stats, stop>>

RunReturns ==
    /\ pc = "final" /\ Scan \notin Callers(rec)
    /\ pc' = "returned"
    /\ UNCHANGED <<healthy, at, todo, check, pending, draining, cooling, stats, stop, rec>>

\* "except BaseException" around the loop: cancel_latency_checks, then raise.
Raises(r) ==
    /\ pc \in Running
    /\ pc' = "raised"
    /\ check' = Cancelled(pending)
    /\ \E outcome \in Cancellations(r, {Scan} \cup StillRunning(pending)) : rec' = outcome
    /\ UNCHANGED <<healthy, at, todo, pending, draining, stats, stop>>

\* The run is cancelled while it scans, records or waits.
RunCancelled == "cancel" \in MayBreak /\ Raises(rec) /\ UNCHANGED cooling

\* A fee, depth or pessimistic simulation fails: the cooldown has begun, but
\* nothing is counted, and the exception leaves the scan.
SignalFails ==
    /\ "simulate" \in MayBreak
    /\ pc = "size" /\ healthy[at.cycle]
    /\ <<at.cycle, at.size>> \notin cooling
    /\ cooling' = cooling \cup {<<at.cycle, at.size>>}
    /\ Raises(rec)

\* Cancelled after the loop, in its "else" clause: nothing cancels the
\* follow-ups, which outlive the run.
EndingCancelled ==
    /\ "cancel" \in MayBreak
    /\ pc \in Ending
    /\ pc' = "abandoned"
    /\ \E outcome \in Cancellations(rec, {Scan}) : rec' = outcome
    /\ UNCHANGED <<healthy, at, todo, check, pending, draining, cooling, stats, stop>>

-----------------------------------------------------------------------------
\* _track_latency

\* One bucket: the books are looked up again; unhealthy ones count as none.
\* After the last bucket the verdict goes to the recorder, unless it is closed.
Rechecked(id) ==
    /\ id \in With({"tracking"})
    /\ \E grade \in IF healthy[check[id].cycle] THEN Grades ELSE {"dead"} :
        LET c == [check[id] EXCEPT !.rechecks = Append(@, grade)]
            last == Len(c.rechecks) = NBuckets
            status == IF ~last THEN "tracking" ELSE IF rec.closed THEN "failed" ELSE "reporting"
        IN  /\ check' = [check EXCEPT ![id] = [c EXCEPT !.status = status]]
            /\ rec' = IF status = "reporting"
                      THEN Called(rec, id, Line("latency", id), FALSE, FALSE) ELSE rec
    /\ UNCHANGED <<healthy, pc, at, todo, pending, draining, cooling, stats, stop>>

RecheckFails(id) ==
    /\ "simulate" \in MayBreak
    /\ id \in With({"tracking"})
    /\ check' = [check EXCEPT ![id].status = "failed"]
    /\ UNCHANGED <<healthy, pc, at, todo, pending, draining, cooling, stats, stop, rec>>

\* Mutated form: a failed follow-up is not counted.
FollowUpDoneUncounted(id) ==
    /\ id \in pending \cap With(Finished)
    /\ pending' = pending \ {id}
    /\ UNCHANGED <<healthy, pc, at, todo, check, draining, cooling, stats, stop, rec>>

\* _latency_done, the callback of a task that has ended.
FollowUpDone(id) ==
    /\ id \in pending \cap With(Finished)
    /\ pending' = pending \ {id}
    /\ stats' = [stats EXCEPT !.errors = IF check[id].status = "failed" THEN @ + 1 ELSE @]
    /\ UNCHANGED <<healthy, pc, at, todo, check, draining, cooling, stop, rec>>

-----------------------------------------------------------------------------
\* The recorder's lock holder and the worker threads

LineSubmitted ==
    /\ \E c \in Submittable(rec) : rec' = Submitted(rec, c)
    /\ UNCHANGED <<healthy, pc, at, todo, check, pending, draining, cooling, stats, stop>>

ThreadEnds(thread) ==
    /\ thread \in rec.threads
    /\ \E ok \in {TRUE} \cup (IF "write" \in MayBreak THEN {FALSE} ELSE {}) :
        rec' = Appended(rec, thread, ok)
    /\ UNCHANGED <<healthy, pc, at, todo, check, pending, draining, cooling, stats, stop>>

\* The accumulator sees the record and the lock is released.  A follow-up is
\* then complete.
RecordObserved ==
    /\ \E c \in Observable(rec) :
        /\ rec' = Observed(rec, c)
        /\ IF c.by = Scan THEN UNCHANGED <<check, stats>>
           ELSE /\ check' = [check EXCEPT ![c.by].status = "completed"]
                /\ stats' = [stats EXCEPT !.completed = @ + 1]
    /\ UNCHANGED <<healthy, pc, at, todo, pending, draining, cooling, stop>>

\* The append of a follow-up's verdict failed.
FollowUpNotRecorded ==
    /\ \E c \in FailedCalls(rec) :
        /\ c.by # Scan
        /\ rec' = Failed(rec, c)
        /\ check' = [check EXCEPT ![c.by].status = "failed"]
    /\ UNCHANGED <<healthy, pc, at, todo, pending, draining, cooling, stats, stop>>

\* The append of one of the scanner's own records failed.
ScanNotRecorded ==
    \E c \in FailedCalls(rec) :
        /\ c.by = Scan
        /\ \/ Raises(Failed(rec, c)) /\ UNCHANGED cooling
           \/ /\ pc \in Ending
              /\ pc' = "abandoned"
              /\ rec' = Failed(rec, c)
              /\ UNCHANGED <<healthy, at, todo, check, pending, draining, cooling,
                             stats, stop>>

\* run_observer closes the recorder once run() has ended; asyncio.run then
\* cancels what is left.
RecorderCloses ==
    /\ pc \in Ended /\ ~rec.closed
    /\ rec' = Closed(rec)
    /\ UNCHANGED <<healthy, pc, at, todo, check, pending, draining, cooling, stats, stop>>

LoopCloses ==
    /\ pc \in Ended /\ rec.closed
    /\ With(Alive) # {}
    /\ check' = Cancelled(Signals)
    /\ \E outcome \in Cancellations(rec, With(Alive)) : rec' = outcome
    /\ UNCHANGED <<healthy, pc, at, todo, pending, draining, cooling, stats, stop>>

-----------------------------------------------------------------------------
ScanStep ==
    \/ ScanStarts \/ CycleDismissed \/ CycleScreened \/ SizeDismissed
    \/ OpportunityRepeated \/ SignalDetected \/ SignalFails
    \/ StageRecorded \/ SizeRecorded \/ ScanEnds \/ HealthRecorded
    \/ DrainStarts \/ DrainEnds \/ DrainTimesOut \/ RunReturns

Release == RecordObserved \/ FollowUpNotRecorded \/ ScanNotRecorded

ThreadStep == \E thread \in rec.threads : ThreadEnds(thread)

Next ==
    \/ \E c \in Cycles : BooksChange(c)
    \/ \E pair \in cooling : CooldownPasses(pair)
    \/ Stop
    \/ ScanStep
    \/ RunCancelled \/ EndingCancelled
    \/ \E id \in Signals : Rechecked(id) \/ RecheckFails(id) \/ FollowUpDone(id)
    \/ LineSubmitted \/ ThreadStep \/ Release
    \/ RecorderCloses \/ LoopCloses

Spec == Init /\ [][Next]_vars

\* The event loop runs every task that can run, worker threads finish their
\* append, buckets and the drain's timeout elapse, and the run's time is over
\* some day.  Nothing is assumed of the books, of cooldowns or of failures.
Fairness ==
    /\ WF_vars(Stop)
    /\ WF_vars(ScanStep)
    /\ WF_vars(LineSubmitted) /\ WF_vars(ThreadStep) /\ WF_vars(Release)
    /\ \A id \in Ids :
        /\ WF_vars(id \in Signals /\ Rechecked(id))
        /\ WF_vars(id \in Signals /\ FollowUpDone(id))

FairSpec == Spec /\ Fairness

-----------------------------------------------------------------------------
\* Properties

\* Every unique signal is in exactly one place: its follow-up was skipped, is
\* running, has completed, failed or been cancelled; the counters of ScanStats
\* say which, and each failure has been counted as an error once its task is
\* gone.
SignalsAccounted ==
    /\ stats.unique = Len(check)
    /\ stats.skipped = Cardinality(With({"skipped"}))
    /\ stats.completed = Cardinality(With({"completed"}))
    /\ stats.errors >= Cardinality(With({"failed"}) \ pending)
    /\ With(Alive) \subseteq pending

\* The follow-ups that wait never exceed max_pending_latency_checks.
BacklogBounded == Cardinality(pending) <= MaxPending

\* Two threads never append to the same file, although a cancelled record()
\* gives the lock back while its thread is still writing.
OneWriterPerFile ==
    \A t, u \in rec.threads : t.line.cat = u.line.cat => t = u

\* In full mode the accumulator never counts a record that is not on disk.
ObservedOnlyIfWritten ==
    StorageMode = "full" => rec.observed \subseteq rec.lines

\* The final figures miss a line that is on disk only if its record() call was
\* cancelled, or is about to be observed.
MissedOnlyWhenCancelled ==
    \A line \in rec.lines \ rec.observed :
        \/ pc \in {"raised", "abandoned"}
        \/ line.cat = "latency" /\ check[line.id].status = "cancelled"
        \/ \E c \in Holders(rec) : c.line = line /\ c.append = "ok"

\* In compact mode a latency line on disk always has the line of its signal
\* on disk before it, whatever the order in which tasks got to the lock and
\* whatever was cancelled or failed in between.
LatencyLineHasSignal ==
    StorageMode = "compact" =>
        \A id \in Signals :
            Line("latency", id) \in rec.lines => Line("signal", id) \in rec.lines

\* Once the scan has left a signal behind, the accumulator has seen exactly the
\* stages that the signal passed, in either storage mode, and its verdict if
\* and only if the follow-up counts as completed.
SignalFullyObserved ==
    LET Seen(id) == {line.cat : line \in {l \in rec.observed : l.id = id}}
        Passed(c) ==
            {"raw_opportunity", "signal", "pessimistic"}
                \cup {cat \in {"after_fees"} : c.fees}
                \cup {cat \in {"depth"} : Profitable(c.depth)}
                \cup {cat \in {"latency"} : c.status = "completed"}
        Left(id) == pc # "raised" /\ (pc = "recording" => id < Len(check))
    IN  \A id \in Signals : Left(id) => Seen(id) = Passed(check[id])

\* A recorded verdict agrees with what was seen: a ghost is a signal that was
\* already gone at detection or at the first bucket, and a lifetime ends at the
\* first bucket at which the signal was gone.
VerdictsTruthful ==
    \A id \in With({"reporting", "completed"}) :
        LET c == check[id]
            v == Verdict(c)
            gone == {b \in 1..NBuckets : ~AboveThreshold(c.rechecks[b])}
        IN  /\ v.ghost <=> ~Profitable(c.depth) \/ 1 \in gone
            /\ v.disappeared <=> ~Profitable(c.depth) \/ gone # {}
            /\ Profitable(c.depth) =>
                /\ v.disappeared => v.lifetime \in gone
                /\ gone \cap 1..(v.lifetime - 1) = {}

\* run() leaves no follow-up behind, unless it was cancelled while it drained:
\* that cancellation is not handled and the follow-ups go on.
NoFollowUpOutlivesRun == pc \in {"returned", "raised"} => With(Alive) = {}

\* run() ends: neither the lock, nor a thread whose caller was cancelled, nor a
\* follow-up can hold it up for ever.
RunEnds == <>(pc \in Ended)

\* What docs/methodology.md calls a ghost: an opportunity that does not remain
\* profitable under fees, depth, filters, pessimistic assumptions, or the first
\* latency recheck.
GhostAsDocumented ==
    \A id \in With({"reporting", "completed"}) :
        LET c == check[id] IN
        Verdict(c).ghost <=>
            ~ /\ c.fees /\ Profitable(c.depth) /\ c.pessimistic
              /\ AboveThreshold(c.rechecks[1])
=============================================================================
