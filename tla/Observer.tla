------------------------------ MODULE Observer ------------------------------
(***************************************************************************)
(* run_observer of src/tri_arb/main.py, from opening the client to the     *)
(* last file of the final report, with its checkpoint task and the worker  *)
(* thread that writes a checkpoint.  Anything that can fail may fail, and  *)
(* the observer may be cancelled wherever it waits.                        *)
(*                                                                         *)
(* Three run at once: the observer and the checkpoint task take turns on   *)
(* one event loop, from one await to the next; the thread is beside them.  *)
(***************************************************************************)
EXTENDS Naturals, Sequences, FiniteSets

CONSTANTS
    MaxCheckpoints,     \* bound: checkpoints begun
    MaxCancelPoints     \* bound: places where a cancellation meets the observer

ASSUME ObserverAssumption == MaxCheckpoints \in Nat /\ MaxCancelPoints \in Nat

VARIABLES
    main,   \* run_observer: where it waits, what it holds
    hits,   \* where cancellations have met it
    stop,   \* the stop event, set by a signal
    task,   \* the checkpoint task, with the accumulator's checkpoint history
    thread, \* the publishing thread, and how many of its three files it has written
    disk    \* the report directory

vars == <<main, hits, stop, task, thread, disk>>

Awaits == {"opening", "fetching", "starting", "waiting", "scanning", "joining",
           "unwinding", "handling", "cleanup", "reporting"}
Ended == {"done", "raised"}

NoHistory == [count |-> 0, positive |-> 0]

Init ==
    /\ main = [pc |-> "opening",
               failure |-> "none",      \* what unwinds the stack
               escaping |-> FALSE,      \* a cancellation is leaving run_observer
               client |-> "none",       \* "none", "open", "closed"
               manager |-> "none",      \* "none", "running", "stopping", "stopped"
               registered |-> FALSE,    \* manager.stop is on the exit stack
               recorder |-> "open"]
    /\ hits = {}
    /\ stop = FALSE
    /\ task = [pc |-> "none",
               asked |-> FALSE,         \* cancelled, and has not noticed yet
               begun |-> 0,             \* checkpoints begun, for the bound
               prepared |-> NoHistory,  \* what the checkpoint being published shows
               history |-> NoHistory]   \* what the accumulator has committed
    /\ thread = [pc |-> "idle", wrote |-> 0]
    /\ disk = [published |-> <<>>,      \* did each whole checkpoint show evidence?
               report |-> "none",       \* latest.md
               summary |-> "none"]      \* latest_summary.csv

SignalArrives ==
    /\ ~stop
    /\ stop' = TRUE
    /\ UNCHANGED <<main, hits, task, thread, disk>>

-----------------------------------------------------------------------------
(* The observer.                                                           *)

TaskLives == task.pc \notin {"none", "done"}
Goes(from, to) == main.pc = from /\ main' = [main EXCEPT !.pc = to]

\* After the exit stack: except CancelledError, except Exception, or neither.
AfterStack(failure) == IF failure = "error" THEN "handling" ELSE "cleanup"

ClientOpens ==
    /\ main.pc = "opening"
    /\ \/ main' = [main EXCEPT !.pc = "fetching", !.client = "open"]
       \/ main' = [main EXCEPT !.pc = "handling", !.failure = "error"]
    /\ UNCHANGED <<hits, stop, task, thread, disk>>

\* Discovery may fail, or find nothing to watch, or only discovery was wanted.
\* start() makes the manager's tasks before it yields.
Discovers ==
    /\ main.pc = "fetching"
    /\ \/ ~stop /\ main' = [main EXCEPT !.pc = "starting", !.manager = "running"]
       \/ main' = [main EXCEPT !.pc = "unwinding"]
       \/ main' = [main EXCEPT !.pc = "unwinding", !.failure = "error"]
    /\ UNCHANGED <<hits, stop, task, thread, disk>>

\* Only now does the exit stack know how to stop the manager.
ManagerStarted ==
    /\ main.pc = "starting"
    /\ main' = [main EXCEPT !.pc = "waiting", !.registered = TRUE]
    /\ UNCHANGED <<hits, stop, task, thread, disk>>

\* Books are ready, or late, or a stop was asked for: the scanner runs anyway.
BooksAwaited ==
    /\ Goes("waiting", "scanning")
    /\ task' = [task EXCEPT !.pc = "sleeping"]
    /\ UNCHANGED <<hits, stop, thread, disk>>

TaskUncancelled == task

\* checkpoint_task.cancel().
TaskCancelled == [task EXCEPT !.asked = TaskLives]

\* scanner.run returns or raises; the inner finally cancels the checkpoint task.
ScanEnds ==
    /\ main.pc = "scanning"
    /\ \E failure \in {"none", "error"} :
        main' = [main EXCEPT !.pc = "joining", !.failure = failure]
    /\ task' = TaskCancelled
    /\ UNCHANGED <<hits, stop, thread, disk>>

\* ... and waits for it.
Joined ==
    /\ Goes("joining", "unwinding") /\ ~TaskLives
    /\ UNCHANGED <<hits, stop, task, thread, disk>>

StackStopsManager ==
    /\ main.pc = "unwinding" /\ main.registered
    /\ main' = [main EXCEPT !.manager = "stopped", !.registered = FALSE]
    /\ UNCHANGED <<hits, stop, task, thread, disk>>

StackClosesClientFirst ==
    /\ main.pc = "unwinding"
    /\ main' = [main EXCEPT !.client = "closed", !.pc = AfterStack(main.failure)]
    /\ UNCHANGED <<hits, stop, task, thread, disk>>

StackClosesClient ==
    /\ main.pc = "unwinding" /\ ~main.registered
    /\ main' = [main EXCEPT !.client = "closed", !.pc = AfterStack(main.failure)]
    /\ UNCHANGED <<hits, stop, task, thread, disk>>

\* The error is recorded, if it can be.
ErrorHandled ==
    /\ Goes("handling", "cleanup")
    /\ UNCHANGED <<hits, stop, task, thread, disk>>

CleanedUpLazily ==
    [main EXCEPT !.pc = IF main.escaping THEN "raised" ELSE "reporting"]

CleanedUp ==
    [main EXCEPT !.manager = IF @ = "none" THEN "none" ELSE "stopped",
                 !.pc = IF main.escaping THEN "raised" ELSE "reporting"]

\* The outer finally: a manager that is still there; stopping it twice does no
\* harm.  A checkpoint task has always ended by now.
CleanupStopsManager ==
    /\ main.pc = "cleanup"
    /\ main' = CleanedUp
    /\ UNCHANGED <<hits, stop, task, thread, disk>>

\* The summary record, the metrics and the timestamped files of the report.
ReportWritten ==
    /\ Goes("reporting", "publishing")
    /\ UNCHANGED <<hits, stop, task, thread, disk>>

\* A file cannot be written: run_observer raises, behind a closed recorder.
ReportFails ==
    /\ main.pc \in {"reporting", "publishing", "linking"}
    /\ main' = [main EXCEPT !.pc = "raised", !.recorder = "closed"]
    /\ UNCHANGED <<hits, stop, task, thread, disk>>

\* publish_latest: two files, one after the other, beside any thread.
LatestReport ==
    /\ Goes("publishing", "linking")
    /\ disk' = [disk EXCEPT !.report = "final"]
    /\ UNCHANGED <<hits, stop, task, thread>>

LatestSummary ==
    /\ main.pc = "linking"
    /\ main' = [main EXCEPT !.pc = "done", !.recorder = "closed"]
    /\ disk' = [disk EXCEPT !.summary = "final"]
    /\ UNCHANGED <<hits, stop, task, thread>>

-----------------------------------------------------------------------------
(* Cancellations of the observer.                                          *)

Hit ==
    /\ Cardinality(hits \cup {main.pc}) <= MaxCancelPoints
    /\ hits' = hits \cup {main.pc}
    /\ UNCHANGED <<stop, thread, disk>>

\* In the block it unwinds the stack, which is empty before the client is open.
CancelledInBlock ==
    /\ main.pc \in {"opening", "fetching", "starting", "waiting"}
    /\ main' = [main EXCEPT !.failure = "cancel",
                            !.pc = IF @ = "opening" THEN "cleanup" ELSE "unwinding"]
    /\ UNCHANGED task

\* The inner finally runs.  Interrupted itself, its gather() cancels the task
\* once more, and still waits for it before the cancellation goes on.
CancelledInScan ==
    /\ main.pc \in {"scanning", "joining"}
    /\ main' = [main EXCEPT !.failure = "cancel", !.pc = "joining"]
    /\ task' = TaskCancelled

\* A stop() it interrupts is left half done.
CancelledInStack ==
    /\ main.pc = "unwinding"
    /\ main' = IF main.registered
               THEN [main EXCEPT !.failure = "cancel", !.manager = "stopping",
                                 !.registered = FALSE]
               ELSE [main EXCEPT !.failure = "cancel", !.client = "closed", !.pc = "cleanup"]
    /\ UNCHANGED task

\* Behind the block it escapes: from the handler through the outer finally,
\* from the finally or from the report at once.
CancelledBehind ==
    /\ main.pc \in {"handling", "cleanup", "reporting"}
    /\ main' = CASE main.pc = "handling" -> [main EXCEPT !.pc = "cleanup", !.escaping = TRUE]
                 [] main.pc = "cleanup" -> [main EXCEPT !.pc = "raised"]
                 [] main.pc = "reporting" ->
                        [main EXCEPT !.pc = "raised", !.recorder = "closed"]
    /\ UNCHANGED task

Cancelled ==
    /\ Hit
    /\ CancelledInBlock \/ CancelledInScan \/ CancelledInStack \/ CancelledBehind

-----------------------------------------------------------------------------
(* The checkpoint task.                                                    *)

\* Round the loop, unless a stop ends it.
Again == IF stop THEN "done" ELSE "sleeping"

IntervalOver ==
    /\ task.pc = "sleeping" /\ ~task.asked /\ task.begun < MaxCheckpoints
    /\ task' = [task EXCEPT !.pc = "calculating", !.begun = @ + 1]
    /\ UNCHANGED <<main, hits, stop, thread, disk>>

TaskStops ==
    /\ task.pc = "sleeping" /\ ~task.asked /\ stop
    /\ task' = [task EXCEPT !.pc = "done"]
    /\ UNCHANGED <<main, hits, stop, thread, disk>>

\* prepare_checkpoint counts this one in, without committing it.
Prepared(evidence) ==
    [count |-> task.history.count + 1,
     positive |-> task.history.positive + (IF evidence THEN 1 ELSE 0)]

Calculated ==
    /\ task.pc = "calculating" /\ ~task.asked
    /\ \E evidence \in BOOLEAN :
        task' = [task EXCEPT !.pc = "publishing", !.prepared = Prepared(evidence)]
    /\ thread' = [pc |-> "running", wrote |-> 0]
    /\ UNCHANGED <<main, hits, stop, disk>>

CalculationFails ==
    /\ task.pc = "calculating" /\ ~task.asked
    /\ task' = [task EXCEPT !.pc = Again]
    /\ UNCHANGED <<main, hits, stop, thread, disk>>

Forgotten(next) == [task EXCEPT !.pc = next]

\* commit_checkpoint.
Committed(next) == [task EXCEPT !.pc = next, !.history = task.prepared]

\* The publication has ended: one that failed is not counted.
AfterPublication(next) ==
    /\ \/ thread.pc = "returned" /\ task' = Committed(next)
       \/ thread.pc = "failed" /\ task' = [task EXCEPT !.pc = next]
    /\ thread' = [thread EXCEPT !.pc = "idle"]
    /\ UNCHANGED <<main, hits, stop, disk>>

PublicationEnds == task.pc = "publishing" /\ ~task.asked /\ AfterPublication(Again)
LastPublicationEnds == task.pc = "finishing" /\ ~task.asked /\ AfterPublication("done")

OnCancelLeaving(state) == "done"

\* Where a cancellation sends the task: a publication under way is waited for,
\* but the wait can be cancelled in turn.
OnCancel(state) == IF state = "publishing" THEN "finishing" ELSE "done"

TaskNotices ==
    /\ task.asked /\ TaskLives
    /\ task' = [task EXCEPT !.asked = FALSE, !.pc = OnCancel(@)]
    /\ UNCHANGED <<main, hits, stop, thread, disk>>

-----------------------------------------------------------------------------
(* The publishing thread: checkpoint_<stamp>.md, latest.md, then           *)
(* latest_summary.csv.                                                     *)

ThreadWrites ==
    /\ thread.pc = "running" /\ thread.wrote < 3
    /\ thread' = [thread EXCEPT !.wrote = @ + 1]
    /\ disk' = CASE thread.wrote = 0 -> disk
                 [] thread.wrote = 1 -> [disk EXCEPT !.report = "checkpoint"]
                 [] thread.wrote = 2 -> [disk EXCEPT !.summary = "checkpoint"]
    /\ UNCHANGED <<main, hits, stop, task>>

ThreadReturns ==
    /\ thread.pc = "running" /\ thread.wrote = 3
    /\ thread' = [thread EXCEPT !.pc = "returned"]
    /\ disk' = [disk EXCEPT
                    !.published = Append(@, task.prepared.positive > task.history.positive)]
    /\ UNCHANGED <<main, hits, stop, task>>

ThreadFails ==
    /\ thread.pc = "running" /\ thread.wrote < 3
    /\ thread' = [thread EXCEPT !.pc = "failed"]
    /\ UNCHANGED <<main, hits, stop, task, disk>>

-----------------------------------------------------------------------------
MainStep ==
    \/ ClientOpens \/ Discovers \/ ManagerStarted \/ BooksAwaited \/ ScanEnds \/ Joined
    \/ StackStopsManager \/ StackClosesClient \/ ErrorHandled
    \/ CleanupStopsManager
    \/ ReportWritten \/ ReportFails \/ LatestReport \/ LatestSummary

TaskStep ==
    \/ IntervalOver \/ TaskStops \/ Calculated \/ CalculationFails
    \/ PublicationEnds \/ LastPublicationEnds \/ TaskNotices

ThreadStep == ThreadWrites \/ ThreadReturns \/ ThreadFails

Next == SignalArrives \/ MainStep \/ Cancelled \/ TaskStep \/ ThreadStep

Spec == Init /\ [][Next]_vars

\* Every await ends: requests and writes return or time out, a scan has a
\* duration, the loop resumes what is ready, and threads run.
FairSpec == Spec /\ WF_vars(MainStep) /\ WF_vars(TaskStep) /\ WF_vars(ThreadStep)

-----------------------------------------------------------------------------
TypeOK ==
    /\ main \in [pc : Awaits \cup Ended \cup {"publishing", "linking"},
                 failure : {"none", "error", "cancel"}, escaping : BOOLEAN,
                 client : {"none", "open", "closed"},
                 manager : {"none", "running", "stopping", "stopped"},
                 registered : BOOLEAN, recorder : {"open", "closed"}]
    /\ hits \subseteq Awaits
    /\ stop \in BOOLEAN
    /\ task \in [pc : {"none", "sleeping", "calculating", "publishing", "finishing", "done"},
                 asked : BOOLEAN, begun : Nat,
                 prepared : [count : Nat, positive : Nat],
                 history : [count : Nat, positive : Nat]]
    /\ thread \in [pc : {"idle", "running", "returned", "failed"}, wrote : 0..3]
    /\ disk \in [published : Seq(BOOLEAN), report : {"none", "checkpoint", "final"},
                 summary : {"none", "checkpoint", "final"}]

\* Once run_observer has returned, latest.md and latest_summary.csv show the
\* final report, and keep showing it: no checkpoint thread is left to write
\* over them (main.py:924-927 waits "for its atomic file writes before
\* final-report shutdown").  Only a cancellation that meets the observer while
\* it waits for the checkpoint task breaks this.
LatestIsFinal ==
    main.pc = "done" /\ "joining" \notin hits =>
        disk.report = "final" /\ disk.summary = "final"

\* The committed history never runs ahead of the disk, and a final report
\* shows exactly the checkpoints that reached it (main.py:926-936,
\* report.py:1830-1837), under the same proviso.
HistoryIsPublished ==
    /\ task.history.count <= Len(disk.published)
    /\ main.pc = "done" /\ "joining" \notin hits =>
        /\ task.history.count = Len(disk.published)
        /\ task.history.positive = Cardinality({i \in DOMAIN disk.published : disk.published[i]})

\* main.py:1028-1030: the manager is stopped before the client its snapshot
\* tasks use is closed, unless a cancellation meets the observer inside
\* start(), before stop() is on the exit stack.
ManagerStopsFirst ==
    main.client = "closed" /\ "starting" \notin hits => main.manager # "running"

\* Whatever fails or is cancelled on the way to the report, run_observer ends
\* with everything released: the checkpoint task over, the manager stopped,
\* the client closed, the recorder closed; an escaping cancellation (from the
\* handler or the outer finally) is the exception.
EndsClean ==
    main.pc \in Ended /\ hits \cap {"handling", "cleanup"} = {} =>
        /\ ~TaskLives
        /\ main.manager \in {"none", "stopped"}
        /\ main.client \in {"none", "closed"}
        /\ main.recorder = "closed"

\* Nothing waits for ever: neither for the checkpoint task nor for its thread.
RunEnds == <>(main.pc \in Ended)
=============================================================================
