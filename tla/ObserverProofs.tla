--------------------------- MODULE ObserverProofs ---------------------------
(***************************************************************************)
(* The safety properties of Observer, for any number of checkpoints and of *)
(* cancellations.  They rest on one inductive invariant.  Its core is who  *)
(* may still be running: the checkpoint task only while the observer scans *)
(* or waits for it, and the publishing thread only while the task waits    *)
(* for it, as long as no cancellation met the observer at that wait.       *)
(***************************************************************************)
EXTENDS Observer, FiniteSetTheorems, TLAPS

\* The main part of run_observer, where the exit stack is open.
Block == {"fetching", "starting", "waiting", "scanning", "joining", "unwinding"}

\* Behind the exit stack.
Behind == {"handling", "cleanup", "reporting", "publishing", "linking", "done", "raised"}

Undisturbed == "joining" \notin hits
Publishing == task.pc \in {"publishing", "finishing"}
Positives(published) == Cardinality({i \in DOMAIN published : published[i]})

-----------------------------------------------------------------------------
(* The inductive invariant.                                                *)

TaskInScan ==
    /\ TaskLives => main.pc \in {"scanning", "joining"}
    /\ task.asked => TaskLives /\ main.pc = "joining"
    /\ task.pc = "finishing" => main.pc = "joining"

\* A publication that is waited for after a cancellation has met only that one.
CancelledOnce == Undisturbed /\ task.pc = "finishing" => ~task.asked

ThreadInTask == Undisturbed => (thread.pc # "idle" <=> Publishing)

PreparedNext ==
    Publishing =>
        /\ task.prepared.count = task.history.count + 1
        /\ task.prepared.positive \in {task.history.positive, task.history.positive + 1}

HistoryBehindDisk ==
    /\ task.history.count <= Len(disk.published)
    /\ thread.pc = "returned" /\ Publishing => task.history.count < Len(disk.published)

HistoryOfDisk ==
    Undisturbed =>
        LET shown == IF thread.pc = "returned" THEN task.prepared ELSE task.history IN
        /\ shown.count = Len(disk.published)
        /\ shown.positive = Positives(disk.published)

FinalStays ==
    Undisturbed =>
        /\ main.pc \in {"linking", "done"} => disk.report = "final"
        /\ main.pc = "done" => disk.summary = "final"

ClientInBlock ==
    /\ main.client = "open" => main.pc \in Block
    /\ main.client = "closed" => main.pc \in Behind

ManagerOnStack ==
    /\ main.registered => main.pc \in {"waiting", "scanning", "joining", "unwinding"}
    /\ main.manager = "running" /\ "starting" \notin hits =>
        main.registered \/ main.pc = "starting"

Escapes == main.escaping => "handling" \in hits

ReleasedInOrder ==
    /\ main.pc \in {"reporting", "publishing", "linking", "done"} =>
        main.manager \in {"none", "stopped"}
    /\ main.pc = "done" => main.recorder = "closed"
    /\ main.pc = "raised" /\ hits \cap {"handling", "cleanup"} = {} =>
        main.manager \in {"none", "stopped"} /\ main.recorder = "closed"

Inv ==
    /\ TypeOK /\ TaskInScan /\ CancelledOnce /\ ThreadInTask /\ PreparedNext
    /\ HistoryBehindDisk /\ HistoryOfDisk /\ FinalStays
    /\ ClientInBlock /\ ManagerOnStack /\ Escapes /\ ReleasedInOrder

-----------------------------------------------------------------------------
(* The invariant is inductive.                                             *)

\* Where run_observer may be.
Places == Awaits \cup Ended \cup {"publishing", "linking"}

MainType ==
    [pc : Places, failure : {"none", "error", "cancel"}, escaping : BOOLEAN,
     client : {"none", "open", "closed"},
     manager : {"none", "running", "stopping", "stopped"},
     registered : BOOLEAN, recorder : {"open", "closed"}]

History == [count : Nat, positive : Nat]

TaskType ==
    [pc : {"none", "sleeping", "calculating", "publishing", "finishing", "done"},
     asked : BOOLEAN, begun : Nat, prepared : History, history : History]

(* The observer's record keeps its type.                                    *)
LEMMA MainTyped == TypeOK /\ [Next]_vars => main' \in MainType
<1> SUFFICES ASSUME TypeOK, [Next]_vars PROVE main' \in MainType
  OBVIOUS
<1>p. {"opening", "fetching", "starting", "waiting", "scanning", "joining", "unwinding",
       "handling", "cleanup", "reporting", "publishing", "linking", "done", "raised"}
      \subseteq Places
  BY DEF Places, Awaits, Ended
<1>t. main \in MainType
  BY DEF TypeOK, MainType, Places
<1>1. CASE MainStep
  <2>1. CASE ClientOpens
    BY <1>p, <1>t, <2>1 DEF ClientOpens, MainType
  <2>2. CASE Discovers
    BY <1>p, <1>t, <2>2 DEF Discovers, MainType
  <2>3. CASE ManagerStarted
    BY <1>p, <1>t, <2>3 DEF ManagerStarted, MainType
  <2>4. CASE BooksAwaited
    BY <1>p, <1>t, <2>4 DEF BooksAwaited, Goes, MainType
  <2>5. CASE ScanEnds
    BY <1>p, <1>t, <2>5 DEF ScanEnds, TaskCancelled, MainType
  <2>6. CASE Joined
    BY <1>p, <1>t, <2>6 DEF Joined, Goes, MainType
  <2>7. CASE StackStopsManager
    BY <1>p, <1>t, <2>7 DEF StackStopsManager, MainType
  <2>8. CASE StackClosesClient
    BY <1>p, <1>t, <2>8 DEF StackClosesClient, AfterStack, MainType
  <2>9. CASE ErrorHandled
    BY <1>p, <1>t, <2>9 DEF ErrorHandled, Goes, MainType
  <2>10. CASE CleanupStopsManager
    BY <1>p, <1>t, <2>10 DEF CleanupStopsManager, CleanedUp, MainType
  <2>11. CASE ReportWritten
    BY <1>p, <1>t, <2>11 DEF ReportWritten, Goes, MainType
  <2>12. CASE ReportFails
    BY <1>p, <1>t, <2>12 DEF ReportFails, MainType
  <2>13. CASE LatestReport
    BY <1>p, <1>t, <2>13 DEF LatestReport, Goes, MainType
  <2>14. CASE LatestSummary
    BY <1>p, <1>t, <2>14 DEF LatestSummary, MainType
  <2> QED  BY <1>1, <2>1, <2>2, <2>3, <2>4, <2>5, <2>6, <2>7, <2>8, <2>9, <2>10, <2>11,
     <2>12, <2>13, <2>14 DEF MainStep
<1>2. CASE Cancelled
  <2>1. CASE Hit /\ CancelledInBlock
    BY <1>p, <1>t, <2>1 DEF Hit, CancelledInBlock, MainType
  <2>2. CASE Hit /\ CancelledInScan
    BY <1>p, <1>t, <2>2 DEF Hit, CancelledInScan, TaskCancelled, MainType
  <2>3. CASE Hit /\ CancelledInStack
    BY <1>p, <1>t, <2>3 DEF Hit, CancelledInStack, MainType
  <2>4. CASE Hit /\ CancelledBehind
    BY <1>p, <1>t, <2>4 DEF Hit, CancelledBehind, MainType
  <2> QED  BY <1>2, <2>1, <2>2, <2>3, <2>4 DEF Cancelled
<1>3. CASE TaskStep \/ ThreadStep \/ SignalArrives \/ UNCHANGED vars
  <2>1. main' = main
    BY <1>3 DEF TaskStep, IntervalOver, TaskStops, Calculated, Prepared, CalculationFails,
       Again, PublicationEnds, AfterPublication, Committed, LastPublicationEnds,
       TaskNotices, OnCancel, ThreadStep, ThreadWrites, ThreadReturns, ThreadFails,
       SignalArrives, vars
  <2> QED  BY <1>t, <2>1
<1> QED  BY <1>1, <1>2, <1>3 DEF Next

(* So does the checkpoint task's.                                           *)
LEMMA TaskTyped == TypeOK /\ [Next]_vars => task' \in TaskType
<1> SUFFICES ASSUME TypeOK, [Next]_vars PROVE task' \in TaskType
  OBVIOUS
<1>t. task \in TaskType
  BY DEF TypeOK, TaskType, History
<1>1. CASE MainStep
  <2>1. task' = task \/ task' = [task EXCEPT !.pc = "sleeping"] \/ task' = TaskCancelled
    BY <1>1 DEF MainStep, ClientOpens, Discovers, ManagerStarted, BooksAwaited, Goes,
       ScanEnds, TaskCancelled, Joined, StackStopsManager, StackClosesClient, AfterStack,
       ErrorHandled, CleanupStopsManager, CleanedUp, ReportWritten, ReportFails,
       LatestReport, LatestSummary
  <2> QED  BY <1>t, <2>1 DEF TaskCancelled, TaskLives, TaskType
<1>2. CASE Cancelled
  <2>1. task' = task \/ task' = TaskCancelled
    BY <1>2 DEF Cancelled, Hit, CancelledInBlock, CancelledInScan, TaskCancelled,
       CancelledInStack, CancelledBehind
  <2> QED  BY <1>t, <2>1 DEF TaskCancelled, TaskLives, TaskType
<1>3. CASE IntervalOver
  <2>1. task.begun \in Nat /\ task' = [task EXCEPT !.pc = "calculating", !.begun = task.begun + 1]
    BY <1>3, <1>t DEF IntervalOver, TaskType
  <2>2. task.begun + 1 \in Nat
    BY <2>1
  <2> QED  BY <1>t, <2>1, <2>2 DEF TaskType
<1>4. CASE Calculated
  <2>1. PICK evidence \in BOOLEAN :
            task' = [task EXCEPT !.pc = "publishing", !.prepared = Prepared(evidence)]
    BY <1>4 DEF Calculated
  <2>2. task.history.count \in Nat /\ task.history.positive \in Nat
    BY <1>t DEF TaskType, History
  <2>3. Prepared(evidence) \in History
    BY <2>2 DEF Prepared, History
  <2> QED  BY <1>t, <2>1, <2>3 DEF TaskType
<1>5. CASE TaskStops \/ CalculationFails \/ TaskNotices
  BY <1>5, <1>t DEF TaskStops, CalculationFails, TaskNotices, Again, OnCancel, TaskType
<1>6. CASE PublicationEnds \/ LastPublicationEnds
  BY <1>6, <1>t DEF PublicationEnds, LastPublicationEnds, AfterPublication, Committed,
     Again, TaskType
<1>7. CASE ThreadStep \/ SignalArrives \/ UNCHANGED vars
  <2>1. task' = task
    BY <1>7 DEF ThreadStep, ThreadWrites, ThreadReturns, ThreadFails, SignalArrives, vars
  <2> QED  BY <1>t, <2>1
<1> QED  BY <1>1, <1>2, <1>3, <1>4, <1>5, <1>6, <1>7 DEF Next, TaskStep

(* And everything else.                                                     *)
LEMMA NextTypeOK == TypeOK /\ [Next]_vars => TypeOK'
<1> SUFFICES ASSUME TypeOK, [Next]_vars PROVE TypeOK'
  OBVIOUS
<1>1. main' \in MainType /\ task' \in TaskType
  BY MainTyped, TaskTyped
<1>2. hits' \subseteq Awaits /\ stop' \in BOOLEAN
  <2>1. CASE Cancelled
    BY <2>1 DEF Cancelled, Hit, CancelledInBlock, CancelledInScan, TaskCancelled,
       CancelledInStack, CancelledBehind, TypeOK, Awaits
  <2>2. CASE SignalArrives \/ MainStep \/ TaskStep \/ ThreadStep \/ UNCHANGED vars
    BY <2>2 DEF SignalArrives, MainStep, ClientOpens, Discovers, ManagerStarted,
       BooksAwaited, Goes, ScanEnds, TaskCancelled, Joined, StackStopsManager,
       StackClosesClient, AfterStack, ErrorHandled, CleanupStopsManager, CleanedUp,
       ReportWritten, ReportFails, LatestReport, LatestSummary, TaskStep, IntervalOver,
       TaskStops, Calculated, Prepared, CalculationFails, Again, PublicationEnds,
       AfterPublication, Committed, LastPublicationEnds, TaskNotices, OnCancel, ThreadStep,
       ThreadWrites, ThreadReturns, ThreadFails, vars, TypeOK
  <2> QED  BY <2>1, <2>2 DEF Next
<1>3. thread' \in [pc : {"idle", "running", "returned", "failed"}, wrote : 0..3]
  <2>1. CASE ThreadWrites
    <3>1. thread.wrote + 1 \in 0..3
      BY <2>1 DEF ThreadWrites, TypeOK
    <3> QED  BY <2>1, <3>1 DEF ThreadWrites, TypeOK
  <2>2. CASE ThreadReturns \/ ThreadFails
    BY <2>2 DEF ThreadReturns, ThreadFails, TypeOK
  <2>3. CASE Calculated
    BY <2>3 DEF Calculated
  <2>4. CASE TaskStep /\ ~Calculated
    BY <2>4 DEF TaskStep, IntervalOver, TaskStops, Prepared, CalculationFails, Again,
       PublicationEnds, AfterPublication, Committed, LastPublicationEnds, TaskNotices,
       OnCancel, TypeOK
  <2>5. CASE SignalArrives \/ MainStep \/ Cancelled \/ UNCHANGED vars
    BY <2>5 DEF SignalArrives, MainStep, ClientOpens, Discovers, ManagerStarted,
       BooksAwaited, Goes, ScanEnds, TaskCancelled, Joined, StackStopsManager,
       StackClosesClient, AfterStack, ErrorHandled, CleanupStopsManager, CleanedUp,
       ReportWritten, ReportFails, LatestReport, LatestSummary, Cancelled, Hit,
       CancelledInBlock, CancelledInScan, TaskCancelled, CancelledInStack, CancelledBehind,
       vars, TypeOK
  <2> QED  BY <2>1, <2>2, <2>3, <2>4, <2>5 DEF Next, ThreadStep
<1>4. disk' \in [published : Seq(BOOLEAN), report : {"none", "checkpoint", "final"},
                 summary : {"none", "checkpoint", "final"}]
  <2>1. CASE ThreadReturns
    <3>1. disk.published \in Seq(BOOLEAN)
      BY DEF TypeOK
    <3>2. Append(disk.published, task.prepared.positive > task.history.positive) \in Seq(BOOLEAN)
      BY <3>1
    <3> QED  BY <2>1, <3>2 DEF ThreadReturns, TypeOK
  <2>2. CASE ThreadWrites \/ ThreadFails
    BY <2>2 DEF ThreadWrites, ThreadFails, TypeOK
  <2>3. CASE LatestReport \/ LatestSummary
    BY <2>3 DEF LatestReport, LatestSummary, TypeOK
  <2>4. CASE MainStep /\ ~LatestReport /\ ~LatestSummary
    BY <2>4 DEF MainStep, ClientOpens, Discovers, ManagerStarted, BooksAwaited, Goes,
       ScanEnds, TaskCancelled, Joined, StackStopsManager, StackClosesClient, AfterStack,
       ErrorHandled, CleanupStopsManager, CleanedUp, ReportWritten, ReportFails, TypeOK
  <2>5. CASE SignalArrives \/ Cancelled \/ TaskStep \/ UNCHANGED vars
    BY <2>5 DEF SignalArrives, Cancelled, Hit, CancelledInBlock, CancelledInScan,
       TaskCancelled, CancelledInStack, CancelledBehind, TaskStep, IntervalOver, TaskStops,
       Calculated, Prepared, CalculationFails, Again, PublicationEnds, AfterPublication,
       Committed, LastPublicationEnds, TaskNotices, OnCancel, vars, TypeOK
  <2> QED  BY <2>1, <2>2, <2>3, <2>4, <2>5 DEF Next, ThreadStep
<1> QED  BY <1>1, <1>2, <1>3, <1>4 DEF TypeOK, MainType, TaskType, History, Places

(* One more checkpoint adds at most one to those that showed evidence.      *)
LEMMA PositivesAppend ==
    ASSUME NEW published \in Seq(BOOLEAN), NEW evidence \in BOOLEAN
    PROVE  Positives(Append(published, evidence))
               = Positives(published) + (IF evidence THEN 1 ELSE 0)
<1> DEFINE Shown == {i \in DOMAIN published : published[i]}
           longer == Append(published, evidence)
           n == Len(published) + 1
<1>1. DOMAIN published = 1..Len(published) /\ DOMAIN longer = 1..n /\ Len(published) \in Nat
      /\ longer[n] = evidence /\ \A i \in 1..Len(published) : longer[i] = published[i]
  OBVIOUS
<1>2. IsFiniteSet(Shown) /\ n \notin Shown
  <2>1. IsFiniteSet(1..Len(published)) /\ Shown \subseteq 1..Len(published)
    BY <1>1, FS_Interval
  <2> QED  BY <2>1, <1>1, FS_Subset
<1>3. CASE evidence
  <2>1. {i \in DOMAIN longer : longer[i]} = Shown \cup {n}
    BY <1>1, <1>3
  <2>2. Cardinality(Shown \cup {n}) = Cardinality(Shown) + 1
    BY <1>2, FS_AddElement
  <2> QED  BY <1>3, <2>1, <2>2 DEF Positives
<1>4. CASE ~evidence
  <2>1. {i \in DOMAIN longer : longer[i]} = Shown
    BY <1>1, <1>4
  <2>2. Cardinality(Shown) \in Nat
    BY <1>2, FS_CardinalityType
  <2>3. Positives(longer) = Cardinality(Shown) /\ Positives(published) = Cardinality(Shown)
    BY <2>1 DEF Positives
  <2> QED  BY <1>4, <2>2, <2>3
<1> QED  BY <1>3, <1>4

(* Who holds what, and what is released in which order.                     *)
LEMMA NextReleases == Inv /\ [Next]_vars => (ClientInBlock /\ ManagerOnStack /\ Escapes /\ ReleasedInOrder)'
<1> SUFFICES ASSUME Inv, [Next]_vars PROVE (ClientInBlock /\ ManagerOnStack /\ Escapes /\ ReleasedInOrder)'
  OBVIOUS
<1>0. TypeOK
  BY DEF Inv
<1> USE DEF TypeOK
<1>1. CASE MainStep
  <2>1. CASE ClientOpens
    <3>1. CASE main' = [main EXCEPT !.pc = "fetching", !.client = "open"]
      BY <1>0, <2>1, <3>1 DEF Inv, ClientOpens, ClientInBlock, ManagerOnStack, Escapes,
         ReleasedInOrder, Block, Behind
    <3>2. CASE main' = [main EXCEPT !.pc = "handling", !.failure = "error"]
      BY <1>0, <2>1, <3>2 DEF Inv, ClientOpens, ClientInBlock, ManagerOnStack, Escapes,
         ReleasedInOrder, Block, Behind
    <3> QED  BY <2>1, <3>1, <3>2 DEF ClientOpens
  <2>2. CASE Discovers
    <3>1. CASE main' = [main EXCEPT !.pc = "starting", !.manager = "running"]
      BY <1>0, <2>2, <3>1 DEF Inv, Discovers, ClientInBlock, ManagerOnStack, Escapes,
         ReleasedInOrder, Block, Behind
    <3>2. CASE main' = [main EXCEPT !.pc = "unwinding"]
      BY <1>0, <2>2, <3>2 DEF Inv, Discovers, ClientInBlock, ManagerOnStack, Escapes,
         ReleasedInOrder, Block, Behind
    <3>3. CASE main' = [main EXCEPT !.pc = "unwinding", !.failure = "error"]
      BY <1>0, <2>2, <3>3 DEF Inv, Discovers, ClientInBlock, ManagerOnStack, Escapes,
         ReleasedInOrder, Block, Behind
    <3> QED  BY <2>2, <3>1, <3>2, <3>3 DEF Discovers
  <2>3. CASE ManagerStarted
    BY <1>0, <2>3 DEF Inv, ManagerStarted, vars, ClientInBlock, ManagerOnStack, Escapes,
       ReleasedInOrder, Block, Behind
  <2>4. CASE BooksAwaited
    BY <1>0, <2>4 DEF Inv, BooksAwaited, Goes, vars, ClientInBlock, ManagerOnStack, Escapes,
       ReleasedInOrder, Block, Behind
  <2>5. CASE ScanEnds
    BY <1>0, <2>5 DEF Inv, ScanEnds, TaskCancelled, vars, ClientInBlock, ManagerOnStack,
       Escapes, ReleasedInOrder, Block, Behind
  <2>6. CASE Joined
    BY <1>0, <2>6 DEF Inv, Joined, Goes, vars, ClientInBlock, ManagerOnStack, Escapes,
       ReleasedInOrder, Block, Behind
  <2>7. CASE StackStopsManager
    BY <1>0, <2>7 DEF Inv, StackStopsManager, vars, ClientInBlock, ManagerOnStack, Escapes,
       ReleasedInOrder, Block, Behind
  <2>8. CASE StackClosesClient
    BY <1>0, <2>8 DEF Inv, StackClosesClient, AfterStack, vars, ClientInBlock,
       ManagerOnStack, Escapes, ReleasedInOrder, Block, Behind
  <2>9. CASE ErrorHandled
    BY <1>0, <2>9 DEF Inv, ErrorHandled, Goes, vars, ClientInBlock, ManagerOnStack, Escapes,
       ReleasedInOrder, Block, Behind
  <2>10. CASE CleanupStopsManager
    BY <1>0, <2>10 DEF Inv, CleanupStopsManager, CleanedUp, vars, ClientInBlock,
       ManagerOnStack, Escapes, ReleasedInOrder, Block, Behind
  <2>11. CASE ReportWritten
    BY <1>0, <2>11 DEF Inv, ReportWritten, Goes, vars, ClientInBlock, ManagerOnStack,
       Escapes, ReleasedInOrder, Block, Behind
  <2>12. CASE ReportFails
    BY <1>0, <2>12 DEF Inv, ReportFails, vars, ClientInBlock, ManagerOnStack, Escapes,
       ReleasedInOrder, Block, Behind
  <2>13. CASE LatestReport
    BY <1>0, <2>13 DEF Inv, LatestReport, Goes, vars, ClientInBlock, ManagerOnStack,
       Escapes, ReleasedInOrder, Block, Behind
  <2>14. CASE LatestSummary
    BY <1>0, <2>14 DEF Inv, LatestSummary, vars, ClientInBlock, ManagerOnStack, Escapes,
       ReleasedInOrder, Block, Behind
  <2> QED  BY <1>1, <2>1, <2>2, <2>3, <2>4, <2>5, <2>6, <2>7, <2>8, <2>9, <2>10, <2>11,
     <2>12, <2>13, <2>14 DEF MainStep
<1>2. CASE Cancelled
  <2>1. CASE Hit /\ CancelledInBlock
    BY <1>0, <2>1 DEF Inv, Hit, CancelledInBlock, vars, ClientInBlock, ManagerOnStack,
       Escapes, ReleasedInOrder, Block, Behind
  <2>2. CASE Hit /\ CancelledInScan
    BY <1>0, <2>2 DEF Inv, Hit, CancelledInScan, TaskCancelled, vars, ClientInBlock,
       ManagerOnStack, Escapes, ReleasedInOrder, Block, Behind
  <2>3. CASE Hit /\ CancelledInStack
    BY <1>0, <2>3 DEF Inv, Hit, CancelledInStack, vars, ClientInBlock, ManagerOnStack,
       Escapes, ReleasedInOrder, Block, Behind
  <2>4. CASE Hit /\ CancelledBehind
    BY <1>0, <2>4 DEF Inv, Hit, CancelledBehind, vars, ClientInBlock, ManagerOnStack,
       Escapes, ReleasedInOrder, Block, Behind
  <2> QED  BY <1>2, <2>1, <2>2, <2>3, <2>4 DEF Cancelled
<1>3. CASE TaskStep
  <2>1. UNCHANGED <<main, hits>>
    BY <1>3 DEF TaskStep, IntervalOver, TaskStops, Calculated, Prepared, CalculationFails,
       Again, PublicationEnds, AfterPublication, Committed, LastPublicationEnds,
       TaskNotices, OnCancel
  <2> QED  BY <2>1 DEF Inv, ClientInBlock, ManagerOnStack, Escapes, ReleasedInOrder, Block,
     Behind
<1>4. CASE ThreadStep
  BY <1>0, <1>4 DEF Inv, ThreadStep, ThreadWrites, ThreadReturns, ThreadFails,
     ClientInBlock, ManagerOnStack, Escapes, ReleasedInOrder, Block, Behind
<1>5. CASE SignalArrives \/ UNCHANGED vars
  BY <1>5 DEF Inv, SignalArrives, vars, ClientInBlock, ManagerOnStack, Escapes,
     ReleasedInOrder, Block, Behind
<1> QED  BY <1>1, <1>2, <1>3, <1>4, <1>5 DEF Next

(* Who may still be running.                                                *)
LEMMA NextTask == Inv /\ [Next]_vars => (TaskInScan /\ CancelledOnce /\ ThreadInTask)'
<1> SUFFICES ASSUME Inv, [Next]_vars PROVE (TaskInScan /\ CancelledOnce /\ ThreadInTask)'
  OBVIOUS
<1>0. TypeOK
  BY DEF Inv
<1> USE DEF TypeOK
<1>1. CASE MainStep
  BY <1>0, <1>1 DEF Inv, MainStep, ClientOpens, Discovers, ManagerStarted, BooksAwaited,
     Goes, ScanEnds, TaskCancelled, Joined, StackStopsManager, StackClosesClient,
     AfterStack, ErrorHandled, CleanupStopsManager, CleanedUp, ReportWritten, ReportFails,
     LatestReport, LatestSummary, TaskInScan, CancelledOnce, ThreadInTask, TaskLives,
     Publishing, Undisturbed
<1>2. CASE Cancelled
  BY <1>0, <1>2 DEF Inv, Cancelled, Hit, CancelledInBlock, CancelledInScan, TaskCancelled,
     CancelledInStack, CancelledBehind, TaskInScan, CancelledOnce, ThreadInTask, TaskLives,
     Publishing, Undisturbed
<1>3. CASE TaskStep
  <2>1. CASE IntervalOver
    BY <1>0, <2>1 DEF Inv, IntervalOver, vars, TaskInScan, CancelledOnce, ThreadInTask,
       TaskLives, Publishing, Undisturbed
  <2>2. CASE TaskStops
    BY <1>0, <2>2 DEF Inv, TaskStops, vars, TaskInScan, CancelledOnce, ThreadInTask,
       TaskLives, Publishing, Undisturbed
  <2>3. CASE Calculated
    BY <1>0, <2>3 DEF Inv, Calculated, Prepared, vars, TaskInScan, CancelledOnce,
       ThreadInTask, TaskLives, Publishing, Undisturbed
  <2>4. CASE CalculationFails
    BY <1>0, <2>4 DEF Inv, CalculationFails, Again, vars, TaskInScan, CancelledOnce,
       ThreadInTask, TaskLives, Publishing, Undisturbed
  <2>5. CASE PublicationEnds
    BY <1>0, <2>5 DEF Inv, PublicationEnds, AfterPublication, Committed, Again, vars,
       TaskInScan, CancelledOnce, ThreadInTask, TaskLives, Publishing, Undisturbed
  <2>6. CASE LastPublicationEnds
    BY <1>0, <2>6 DEF Inv, LastPublicationEnds, AfterPublication, Committed, vars,
       TaskInScan, CancelledOnce, ThreadInTask, TaskLives, Publishing, Undisturbed
  <2>7. CASE TaskNotices
    BY <1>0, <2>7 DEF Inv, TaskNotices, OnCancel, vars, TaskInScan, CancelledOnce,
       ThreadInTask, TaskLives, Publishing, Undisturbed
  <2> QED  BY <1>3, <2>1, <2>2, <2>3, <2>4, <2>5, <2>6, <2>7 DEF TaskStep
<1>4. CASE ThreadStep
  BY <1>0, <1>4 DEF Inv, ThreadStep, ThreadWrites, ThreadReturns, ThreadFails, TaskInScan,
     CancelledOnce, ThreadInTask, TaskLives, Publishing, Undisturbed
<1>5. CASE SignalArrives \/ UNCHANGED vars
  BY <1>5 DEF Inv, SignalArrives, vars, TaskInScan, CancelledOnce, ThreadInTask, TaskLives,
     Publishing, Undisturbed
<1> QED  BY <1>1, <1>2, <1>3, <1>4, <1>5 DEF Next

(* A checkpoint is committed behind its files.                              *)
LEMMA NextHistory == Inv /\ [Next]_vars => (PreparedNext /\ HistoryBehindDisk)'
<1> SUFFICES ASSUME Inv, [Next]_vars PROVE (PreparedNext /\ HistoryBehindDisk)'
  OBVIOUS
<1>0. TypeOK
  BY DEF Inv
<1> USE DEF TypeOK
<1>1. CASE MainStep
  BY <1>0, <1>1 DEF Inv, MainStep, ClientOpens, Discovers, ManagerStarted, BooksAwaited,
     Goes, ScanEnds, TaskCancelled, Joined, StackStopsManager, StackClosesClient,
     AfterStack, ErrorHandled, CleanupStopsManager, CleanedUp, ReportWritten, ReportFails,
     LatestReport, LatestSummary, PreparedNext, HistoryBehindDisk, Publishing
<1>2. CASE Cancelled
  BY <1>0, <1>2 DEF Inv, Cancelled, Hit, CancelledInBlock, CancelledInScan, TaskCancelled,
     CancelledInStack, CancelledBehind, PreparedNext, HistoryBehindDisk, Publishing
<1>3. CASE TaskStep
  <2>1. CASE IntervalOver
    BY <1>0, <2>1 DEF Inv, IntervalOver, vars, PreparedNext, HistoryBehindDisk, Publishing
  <2>2. CASE TaskStops
    BY <1>0, <2>2 DEF Inv, TaskStops, vars, PreparedNext, HistoryBehindDisk, Publishing
  <2>3. CASE Calculated
    BY <1>0, <2>3 DEF Inv, Calculated, Prepared, vars, PreparedNext, HistoryBehindDisk,
       Publishing
  <2>4. CASE CalculationFails
    BY <1>0, <2>4 DEF Inv, CalculationFails, Again, vars, PreparedNext, HistoryBehindDisk,
       Publishing
  <2>5. CASE PublicationEnds
    <3>1. CASE thread.pc = "returned"
      <4>1. task' = [task EXCEPT !.pc = task'.pc, !.history = task.prepared]
            /\ task'.pc \in {"sleeping", "done"} /\ disk' = disk
        BY <1>0, <2>5, <3>1 DEF PublicationEnds, AfterPublication, Committed, Again
      <4>2. task.prepared.count = task.history.count + 1 /\ task.history.count < Len(disk.published)
        BY <2>5, <3>1 DEF Inv, PublicationEnds, PreparedNext, HistoryBehindDisk, Publishing
      <4>3. task.history.count \in Nat /\ Len(disk.published) \in Nat
        BY <1>0
      <4>4. task'.history = task.prepared /\ ~Publishing'
        BY <1>0, <4>1 DEF Publishing
      <4> QED  BY <4>1, <4>2, <4>3, <4>4 DEF PreparedNext, HistoryBehindDisk
    <3>2. CASE thread.pc = "failed"
      BY <1>0, <2>5, <3>2 DEF Inv, PublicationEnds, AfterPublication, Again, PreparedNext,
         HistoryBehindDisk, Publishing
    <3> QED  BY <2>5, <3>1, <3>2 DEF PublicationEnds, AfterPublication
  <2>6. CASE LastPublicationEnds
    <3>1. CASE thread.pc = "returned"
      <4>1. task' = [task EXCEPT !.pc = task'.pc, !.history = task.prepared]
            /\ task'.pc \in {"sleeping", "done"} /\ disk' = disk
        BY <1>0, <2>6, <3>1 DEF LastPublicationEnds, AfterPublication, Committed
      <4>2. task.prepared.count = task.history.count + 1 /\ task.history.count < Len(disk.published)
        BY <2>6, <3>1 DEF Inv, LastPublicationEnds, PreparedNext, HistoryBehindDisk, Publishing
      <4>3. task.history.count \in Nat /\ Len(disk.published) \in Nat
        BY <1>0
      <4>4. task'.history = task.prepared /\ ~Publishing'
        BY <1>0, <4>1 DEF Publishing
      <4> QED  BY <4>1, <4>2, <4>3, <4>4 DEF PreparedNext, HistoryBehindDisk
    <3>2. CASE thread.pc = "failed"
      BY <1>0, <2>6, <3>2 DEF Inv, LastPublicationEnds, AfterPublication, PreparedNext,
         HistoryBehindDisk, Publishing
    <3> QED  BY <2>6, <3>1, <3>2 DEF LastPublicationEnds, AfterPublication
  <2>7. CASE TaskNotices
    BY <1>0, <2>7 DEF Inv, TaskNotices, OnCancel, vars, PreparedNext, HistoryBehindDisk,
       Publishing
  <2> QED  BY <1>3, <2>1, <2>2, <2>3, <2>4, <2>5, <2>6, <2>7 DEF TaskStep
<1>4. CASE ThreadStep
  <2>1. CASE ThreadWrites \/ ThreadFails
    <3>1. disk'.published = disk.published /\ task' = task /\ thread'.pc # "returned"
      BY <1>0, <2>1 DEF ThreadWrites, ThreadFails
    <3> QED  BY <3>1 DEF Inv, PreparedNext, HistoryBehindDisk, Publishing
  <2>2. CASE ThreadReturns
    BY <1>0, <2>2 DEF Inv, ThreadReturns, PreparedNext, HistoryBehindDisk, Publishing
  <2> QED  BY <1>4, <2>1, <2>2 DEF ThreadStep
<1>5. CASE SignalArrives \/ UNCHANGED vars
  BY <1>5 DEF Inv, SignalArrives, vars, PreparedNext, HistoryBehindDisk, Publishing
<1> QED  BY <1>1, <1>2, <1>3, <1>4, <1>5 DEF Next

(* And, undisturbed, exactly then.                                          *)
LEMMA NextHistoryOfDisk == Inv /\ [Next]_vars => HistoryOfDisk'
<1> SUFFICES ASSUME Inv, [Next]_vars PROVE HistoryOfDisk'
  OBVIOUS
<1>0. TypeOK
  BY DEF Inv
<1> USE DEF TypeOK
<1>1. CASE MainStep
  <2>1. /\ hits' = hits /\ thread' = thread /\ disk'.published = disk.published
        /\ task'.history = task.history /\ task'.prepared = task.prepared
    <3>1. CASE ScanEnds \/ BooksAwaited
      BY <1>0, <3>1 DEF ScanEnds, BooksAwaited, TaskCancelled
    <3>2. CASE LatestReport \/ LatestSummary
      BY <1>0, <3>2 DEF LatestReport, LatestSummary
    <3>3. CASE ~(ScanEnds \/ BooksAwaited) /\ ~(LatestReport \/ LatestSummary)
      BY <1>1, <3>3 DEF MainStep, ClientOpens, Discovers, ManagerStarted, Joined,
         StackStopsManager, StackClosesClient, ErrorHandled, CleanupStopsManager,
         ReportWritten, ReportFails
    <3> QED  BY <3>1, <3>2, <3>3
  <2> QED  BY <2>1 DEF Inv, HistoryOfDisk, Undisturbed
<1>2. CASE Cancelled
  BY <1>0, <1>2 DEF Inv, Cancelled, Hit, CancelledInBlock, CancelledInScan, TaskCancelled,
     CancelledInStack, CancelledBehind, HistoryOfDisk, ThreadInTask, CancelledOnce,
     PreparedNext, Publishing, Undisturbed
<1>3. CASE TaskStep
  <2>1. CASE IntervalOver
    BY <1>0, <2>1 DEF Inv, IntervalOver, vars, HistoryOfDisk, ThreadInTask, CancelledOnce,
       PreparedNext, Publishing, Undisturbed
  <2>2. CASE TaskStops
    BY <1>0, <2>2 DEF Inv, TaskStops, vars, HistoryOfDisk, ThreadInTask, CancelledOnce,
       PreparedNext, Publishing, Undisturbed
  <2>3. CASE Calculated
    BY <1>0, <2>3 DEF Inv, Calculated, Prepared, vars, HistoryOfDisk, ThreadInTask,
       CancelledOnce, PreparedNext, Publishing, Undisturbed
  <2>4. CASE CalculationFails
    BY <1>0, <2>4 DEF Inv, CalculationFails, Again, vars, HistoryOfDisk, ThreadInTask,
       CancelledOnce, PreparedNext, Publishing, Undisturbed
  <2>5. CASE PublicationEnds
    BY <1>0, <2>5 DEF Inv, PublicationEnds, AfterPublication, Committed, Again, vars,
       HistoryOfDisk, ThreadInTask, CancelledOnce, PreparedNext, Publishing, Undisturbed
  <2>6. CASE LastPublicationEnds
    BY <1>0, <2>6 DEF Inv, LastPublicationEnds, AfterPublication, Committed, vars,
       HistoryOfDisk, ThreadInTask, CancelledOnce, PreparedNext, Publishing, Undisturbed
  <2>7. CASE TaskNotices
    BY <1>0, <2>7 DEF Inv, TaskNotices, OnCancel, vars, HistoryOfDisk, ThreadInTask,
       CancelledOnce, PreparedNext, Publishing, Undisturbed
  <2> QED  BY <1>3, <2>1, <2>2, <2>3, <2>4, <2>5, <2>6, <2>7 DEF TaskStep
<1>4. CASE ThreadStep
  <2>1. CASE ThreadWrites
    BY <1>0, <2>1 DEF Inv, ThreadWrites, vars, HistoryOfDisk, ThreadInTask, CancelledOnce,
       PreparedNext, Publishing, Undisturbed
  <2>2. CASE ThreadReturns
    <3> DEFINE evidence == task.prepared.positive > task.history.positive
    <3>1. disk.published \in Seq(BOOLEAN) /\ evidence \in BOOLEAN
      BY <1>0
    <3>2. disk'.published = Append(disk.published, evidence) /\ thread'.pc = "returned"
          /\ UNCHANGED <<main, hits, task>>
      BY <1>0, <2>2 DEF ThreadReturns
    <3>3. ASSUME Undisturbed
          PROVE  task.prepared.count = Len(disk'.published)
                 /\ task.prepared.positive = Positives(disk'.published)
      <4>1. Publishing /\ thread.pc = "running"
        BY <2>2, <3>3 DEF Inv, ThreadReturns, ThreadInTask
      <4>2. /\ task.history.count = Len(disk.published)
            /\ task.history.positive = Positives(disk.published)
        BY <4>1, <3>3 DEF Inv, HistoryOfDisk
      <4>3. /\ task.prepared.count = task.history.count + 1
            /\ task.prepared.positive \in {task.history.positive, task.history.positive + 1}
        BY <4>1 DEF Inv, PreparedNext
      <4>4. Len(disk'.published) = Len(disk.published) + 1
        BY <3>1, <3>2
      <4>5. Positives(disk'.published) = Positives(disk.published) + (IF evidence THEN 1 ELSE 0)
        BY <3>1, <3>2, PositivesAppend
      <4>6. task.history.positive \in Nat
        BY <1>0
      <4> QED  BY <4>2, <4>3, <4>4, <4>5, <4>6
    <3> QED  BY <3>2, <3>3 DEF HistoryOfDisk, Undisturbed
  <2>3. CASE ThreadFails
    BY <1>0, <2>3 DEF Inv, ThreadFails, vars, HistoryOfDisk, ThreadInTask, CancelledOnce,
       PreparedNext, Publishing, Undisturbed
  <2> QED  BY <1>4, <2>1, <2>2, <2>3 DEF ThreadStep
<1>5. CASE SignalArrives \/ UNCHANGED vars
  BY <1>5 DEF Inv, SignalArrives, vars, HistoryOfDisk, ThreadInTask, CancelledOnce,
     PreparedNext, Publishing, Undisturbed
<1> QED  BY <1>1, <1>2, <1>3, <1>4, <1>5 DEF Next

(* No checkpoint overwrites the final report.                               *)
LEMMA NextFinal == Inv /\ [Next]_vars => FinalStays'
<1> SUFFICES ASSUME Inv, [Next]_vars PROVE FinalStays'
  OBVIOUS
<1>0. TypeOK
  BY DEF Inv
<1> USE DEF TypeOK
<1>1. CASE MainStep
  <2>1. CASE ClientOpens
    BY <1>0, <2>1 DEF Inv, ClientOpens, vars, FinalStays, ThreadInTask, TaskInScan,
       Publishing, TaskLives, Undisturbed
  <2>2. CASE Discovers
    BY <1>0, <2>2 DEF Inv, Discovers, vars, FinalStays, ThreadInTask, TaskInScan,
       Publishing, TaskLives, Undisturbed
  <2>3. CASE ManagerStarted
    BY <1>0, <2>3 DEF Inv, ManagerStarted, vars, FinalStays, ThreadInTask, TaskInScan,
       Publishing, TaskLives, Undisturbed
  <2>4. CASE BooksAwaited
    BY <1>0, <2>4 DEF Inv, BooksAwaited, Goes, vars, FinalStays, ThreadInTask, TaskInScan,
       Publishing, TaskLives, Undisturbed
  <2>5. CASE ScanEnds
    BY <1>0, <2>5 DEF Inv, ScanEnds, TaskCancelled, vars, FinalStays, ThreadInTask,
       TaskInScan, Publishing, TaskLives, Undisturbed
  <2>6. CASE Joined
    BY <1>0, <2>6 DEF Inv, Joined, Goes, vars, FinalStays, ThreadInTask, TaskInScan,
       Publishing, TaskLives, Undisturbed
  <2>7. CASE StackStopsManager
    BY <1>0, <2>7 DEF Inv, StackStopsManager, vars, FinalStays, ThreadInTask, TaskInScan,
       Publishing, TaskLives, Undisturbed
  <2>8. CASE StackClosesClient
    BY <1>0, <2>8 DEF Inv, StackClosesClient, AfterStack, vars, FinalStays, ThreadInTask,
       TaskInScan, Publishing, TaskLives, Undisturbed
  <2>9. CASE ErrorHandled
    BY <1>0, <2>9 DEF Inv, ErrorHandled, Goes, vars, FinalStays, ThreadInTask, TaskInScan,
       Publishing, TaskLives, Undisturbed
  <2>10. CASE CleanupStopsManager
    BY <1>0, <2>10 DEF Inv, CleanupStopsManager, CleanedUp, vars, FinalStays, ThreadInTask,
       TaskInScan, Publishing, TaskLives, Undisturbed
  <2>11. CASE ReportWritten
    BY <1>0, <2>11 DEF Inv, ReportWritten, Goes, vars, FinalStays, ThreadInTask, TaskInScan,
       Publishing, TaskLives, Undisturbed
  <2>12. CASE ReportFails
    BY <1>0, <2>12 DEF Inv, ReportFails, vars, FinalStays, ThreadInTask, TaskInScan,
       Publishing, TaskLives, Undisturbed
  <2>13. CASE LatestReport
    BY <1>0, <2>13 DEF Inv, LatestReport, Goes, vars, FinalStays, ThreadInTask, TaskInScan,
       Publishing, TaskLives, Undisturbed
  <2>14. CASE LatestSummary
    BY <1>0, <2>14 DEF Inv, LatestSummary, vars, FinalStays, ThreadInTask, TaskInScan,
       Publishing, TaskLives, Undisturbed
  <2> QED  BY <1>1, <2>1, <2>2, <2>3, <2>4, <2>5, <2>6, <2>7, <2>8, <2>9, <2>10, <2>11,
     <2>12, <2>13, <2>14 DEF MainStep
<1>2. CASE Cancelled
  <2>1. CASE Hit /\ CancelledInBlock
    BY <1>0, <2>1 DEF Inv, Hit, CancelledInBlock, vars, FinalStays, ThreadInTask,
       TaskInScan, Publishing, TaskLives, Undisturbed
  <2>2. CASE Hit /\ CancelledInScan
    BY <1>0, <2>2 DEF Inv, Hit, CancelledInScan, TaskCancelled, vars, FinalStays,
       ThreadInTask, TaskInScan, Publishing, TaskLives, Undisturbed
  <2>3. CASE Hit /\ CancelledInStack
    BY <1>0, <2>3 DEF Inv, Hit, CancelledInStack, vars, FinalStays, ThreadInTask,
       TaskInScan, Publishing, TaskLives, Undisturbed
  <2>4. CASE Hit /\ CancelledBehind
    BY <1>0, <2>4 DEF Inv, Hit, CancelledBehind, vars, FinalStays, ThreadInTask, TaskInScan,
       Publishing, TaskLives, Undisturbed
  <2> QED  BY <1>2, <2>1, <2>2, <2>3, <2>4 DEF Cancelled
<1>3. CASE TaskStep
  BY <1>0, <1>3 DEF Inv, TaskStep, IntervalOver, TaskStops, Calculated, Prepared,
     CalculationFails, Again, PublicationEnds, AfterPublication, Committed,
     LastPublicationEnds, TaskNotices, OnCancel, FinalStays, ThreadInTask, TaskInScan,
     Publishing, TaskLives, Undisturbed
<1>4. CASE ThreadStep
  BY <1>0, <1>4 DEF Inv, ThreadStep, ThreadWrites, ThreadReturns, ThreadFails, FinalStays,
     ThreadInTask, TaskInScan, Publishing, TaskLives, Undisturbed
<1>5. CASE SignalArrives \/ UNCHANGED vars
  BY <1>5 DEF Inv, SignalArrives, vars, FinalStays, ThreadInTask, TaskInScan, Publishing,
     TaskLives, Undisturbed
<1> QED  BY <1>1, <1>2, <1>3, <1>4, <1>5 DEF Next

-----------------------------------------------------------------------------
(* The theorems.                                                           *)

LEMMA InitInv == Init => Inv
<1> SUFFICES ASSUME Init PROVE Inv
  OBVIOUS
<1>1. TypeOK
  <2>1. main \in MainType
    BY DEF Init, MainType, Places, Awaits
  <2>2. task \in TaskType
    BY DEF Init, NoHistory, TaskType, History
  <2>3. thread \in [pc : {"idle", "running", "returned", "failed"}, wrote : 0..3]
    BY DEF Init
  <2>4. disk \in [published : Seq(BOOLEAN), report : {"none", "checkpoint", "final"},
                  summary : {"none", "checkpoint", "final"}]
    BY DEF Init
  <2> QED  BY <2>1, <2>2, <2>3, <2>4 DEF Init, TypeOK, MainType, TaskType, History, Places
<1>2. Positives(<<>>) = 0
  <2>1. {i \in DOMAIN <<>> : <<>>[i]} = {}
    OBVIOUS
  <2> QED  BY <2>1, FS_EmptySet DEF Positives
<1> QED  BY <1>1, <1>2 DEF Init, NoHistory, Inv, Block, Behind, Undisturbed, Publishing,
   TaskLives, TaskInScan, CancelledOnce, ThreadInTask, PreparedNext, HistoryBehindDisk,
   HistoryOfDisk, FinalStays, ClientInBlock, ManagerOnStack, Escapes, ReleasedInOrder

LEMMA NextInv == Inv /\ [Next]_vars => Inv'
BY NextTypeOK, NextReleases, NextTask, NextHistory, NextHistoryOfDisk, NextFinal DEF Inv

LEMMA SpecInv == Spec => []Inv
BY InitInv, NextInv, PTL DEF Spec

(* Every variable of the observer keeps its type.                          *)
THEOREM ObserverTypeCorrect == Spec => []TypeOK
<1>1. Inv => TypeOK
  BY DEF Inv
<1> QED  BY <1>1, SpecInv, PTL

(* When run_observer returns, latest.md and latest_summary.csv are the     *)
(* final report's, whatever the checkpoint thread was doing at the end of  *)
(* the scan (main.py:924-937).                                             *)
THEOREM ObserverLatestIsFinal == Spec => []LatestIsFinal
<1>1. Inv => LatestIsFinal
  BY DEF Inv, FinalStays, Undisturbed, LatestIsFinal
<1> QED  BY <1>1, SpecInv, PTL

(* The checkpoint history in a final report counts exactly the checkpoints *)
(* that reached the disk (main.py:926-936, report.py:1830).                *)
THEOREM ObserverHistoryIsPublished == Spec => []HistoryIsPublished
<1>1. Inv => HistoryIsPublished
  <2> SUFFICES ASSUME Inv PROVE HistoryIsPublished
    OBVIOUS
  <2>1. task.history.count <= Len(disk.published)
    BY DEF Inv, HistoryBehindDisk
  <2>2. ASSUME main.pc = "done", Undisturbed
        PROVE  /\ task.history.count = Len(disk.published)
               /\ task.history.positive = Positives(disk.published)
    <3>1. ~Publishing
      BY <2>2 DEF Inv, TaskInScan, TaskLives, Publishing
    <3>2. thread.pc # "returned"
      BY <2>2, <3>1 DEF Inv, ThreadInTask
    <3> QED  BY <2>2, <3>2 DEF Inv, HistoryOfDisk
  <2> QED  BY <2>1, <2>2 DEF HistoryIsPublished, Undisturbed, Positives
<1> QED  BY <1>1, SpecInv, PTL

(* The client stays open as long as the manager runs (main.py:1028).       *)
THEOREM ObserverManagerStopsFirst == Spec => []ManagerStopsFirst
<1>1. Inv => ManagerStopsFirst
  BY DEF Inv, ClientInBlock, ManagerOnStack, Behind, ManagerStopsFirst
<1> QED  BY <1>1, SpecInv, PTL

(* However run_observer ends, nothing it opened is left behind.            *)
THEOREM ObserverEndsClean == Spec => []EndsClean
<1>1. Inv => EndsClean
  BY DEF Inv, TypeOK, TaskInScan, ClientInBlock, ReleasedInOrder, Block, Ended, EndsClean
<1> QED  BY <1>1, SpecInv, PTL
=============================================================================
