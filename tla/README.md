# Verification of the triangular-arbitrage research system

TLA+ models, TLC runs and TLAPS proofs about the program in `src/tri_arb`, an
observer of public order books that looks for triangular arbitrage and
simulates it. Its conclusions rest on a chain: the universe and the fees chosen
at start-up, local books that say what the exchange said, simulations at the
prices shown, signals that are followed up and recorded once, figures and verdicts
drawn from the records, and a tear-down that leaves the final report in place.
Each link has a module below. Source lines are lines of files in `src/tri_arb/`.

## 1. The system

| Component | State | Operations | Interacts with |
|---|---|---|---|
| Order book (`orderbook.py`, `mexc_orderbook.py`) | levels of both sides, last update id, synchronized / connected / crossed / has_snapshot | reset, mark_resync, mark_disconnected, load_snapshot, apply_update (one policy per exchange) | owned by the manager, read by scanner and latency tracker |
| Book manager (`book_manager.py`, `mexc_book_manager.py`) | per symbol: book, buffer, syncing, sync_token, connected; shard, sync and listener tasks; `_running`; health event; update queue | start, stop, shard loops, ingest_depth_event, resync_symbol, _synchronize_symbol, wait_until_ready | REST client (snapshots), websocket (events), observer |
| Scanner (`scanner.py`) | cooldowns, statistics, pending latency tasks | scan_once, run, drain, cancel | reads books, calls the simulator, schedules latency checks, records |
| Latency tracker (`latency.py`) | in-flight checks | track, schedule, drain, close | re-reads books after each delay |
| Recorder (`recorder.py`) | asyncio lock, files and rotations, retained ids and top records of compact mode | record, close, write_selection | a thread writes for every caller |
| Observer (`main.py`) | exit stack, scanner task, checkpoint task and its thread, report directory | run_observer, periodic checkpoints, final report, report-only | owns all of the above |
| Simulator (`simulator.py`) | none (pure) | filters, one leg, route, residuals, largest size, three modes | called by scanner and latency tracker |
| Discovery (`discovery.py`) | none (pure) | parse, value, rank, bounded universe of cycles and symbols | start-up |
| Fees (`account_fees.py`, `tools/check_mexc_fees.py`) | raw answers and schedule on disk | fee check with retries, load_fee_schedule, fee_for_symbol | start-up; reads the selection of an earlier run |
| Clients (`binance_public.py`, `mexc_public.py`, `mexc_proto.py`) | session, `_closed`; MEXC: shard tasks and a bounded queue | request with retries, subscribe_depth, close | exchange, book manager |
| Reports (`report.py`, `tools/compare_reports.py`) | accumulator: counters, reservoir, top list, checkpoint history | observe, calculate_metrics, verdicts, generate | recorder, observer |
| Configuration and types (`config.py`, `models.py`, `utils.py`, `exchange.py`) | none | validation, records | everywhere |

What is hard in it, and what makes each part correct:

* **Manager.** One asyncio task per shard, one per pending snapshot, a waiter and
  the owner's stop() interleave at every await. REST answers come back late,
  from a cache, malformed or never; events overtake snapshots; sockets break
  between any two steps. A book must never mix two versions of the exchange's
  ladder, go back, show as connected without a stream or be left without somebody
  fetching its snapshot; and stop() ends.
* **Scanner and latency.** Books change during `asyncio.sleep(0)` between cycles
  and during the delays of a check; every signal must be counted once and its
  verdict must be what was seen.
* **Recorder.** The lock is held by a coroutine and the write done by a thread; a
  cancellation separates them. No file may have two writers.
* **Observer.** Failures and cancellations at every await of a tear-down with three
  parties, one of them a thread that cannot be stopped. The report that stays must be
  the final one, and everything opened must be released.
* **Simulator.** Lots, limits on quantity and on notional, residuals and stress
  decide one result together; an executable result must be one the exchange would take.
* **Discovery and fees.** Two hard caps over pairs of cycles; a schedule made for one
  universe and used for another.
* **Clients.** Silent reconnects, back-pressure on one queue, retries that obey the
  server, close() at any moment.
* **Reports.** Exact running totals beside a bounded sample, and verdicts that mix both.

`PROJECT.json` lists every such hazard at its line ("hazards"), with the
properties that would catch it or the reason why there is none.

## 2. What is modelled

### OrderBook, Exchange, BookFeed

`OrderBook` translates `orderbook.py` and `mexc_orderbook.py` into operators from a
book to a book; `Policy` chooses the gap rule. A ladder is a function from
<<side, price>> to a quantity, 0 for a price that is not in the dictionary, so
that `_update_level`, `_trim` and `_is_crossed` are set expressions.

`Exchange` (external) is what the exchange publishes: a history of ladders by
update id; a depth batch first..final names every price changed in that range with
its last quantity; a REST snapshot is the best `SnapshotLimit` levels of some
version. Its lower half says what a book should say about a history: `FaithfulTo`
(every level shown is the exchange's at the book's id), `CompleteFor` (and none is
missing, while the exchange is no deeper than the book), `CrossedOnlyAsIn`.

`BookFeed` drives one book (`local`) along a fixed history (`published`) with any
snapshots and batches, in any order, repeated, overlapping or with some missing. Its
definitions carry the prefix Feed, because the proofs about it and about the manager share
a module.

### BookManager and MarketReplica

`BookManager` is `book_manager.py` and the shard loop of `mexc_book_manager.py`.

| Variable | Code |
|---|---|
| `state[s]` | `_states[s]`: book, buffer, syncing, sync_token (`token`), connected |
| `phase` | `_running`, with the time between the first and last step of stop() as "stopping" |
| `shard[h]` | where a `_run_shard` task is: connecting, open, closing (socket lost, its finally clause to come), backoff |
| `tasks` | `_synchronize_symbol` coroutines, by symbol and token; "check" = about to test the token, "fetch" = its REST request is out |
| `healthChanged`, `waiter` | `_health_changed` and a caller of wait_until_ready |
| `head[s]` | last update id of the exchange (external) |

A step is what a task does between two suspensions. The bodies under
`async with state.lock` do not await, so the lock is never contended and a locked
section is part of the step that enters it. What can come in between is what the
code really awaits: connecting, the next message, leaving the socket, the REST
request, a backoff sleep, the event, and gather in stop().

`ShardOpens`, `ShardGetsFirstItem` (MEXC prepares its symbols when the first item
arrives), `ConnectFails`, `SocketLost`, `ShardCloses`, `BackoffOver` are the shard
loop; `EventBuffered`, `EventApplied`, `EventLeavesGap` the three ways an event can
go, reached by `MessageArrives` or, for replay without streams, `ReplayEvent`;
`TaskChecks`, `RequestFails`, `AnswerDropped`, `AnswerMalformed`, `AnswerLoaded` the
turns of a synchronization; `Start`, `StopBegin`, `StopEnd`, `ResyncSymbol`,
`WaiterTests`, `WaiterTimesOut` the public calls.

`MarketReplica` is the abstract specification: what a reader that trusts connected,
synchronized books may assume. A symbol is down or shows part of the ladder of one
version the exchange has reached; while it is up the version only grows; books move
one at a time and may go down together. `BookManager!Replica` instantiates it with
`ShownView` of each book.

Abstractions: Decimal prices and quantities are naturals (they are compared and
copied, never computed with, in these files). Timestamps, and with them freshness,
metrics and logging are left out; so are payload parsing and malformed messages (a
malformed message is discarded and changes only a counter), and the queue of
updated symbols and the listeners, which nothing in the program reads or registers.
start() during stop() and overlapping stop() calls are not modelled. Backoff sleeps
last any time. The count of attempts is kept only for tasks that compare it with a
limit.

### Recorder and Scanner

`Scanner` is `scanner.py` with `track` of `latency.py`; it extends `Recorder`, the
operators of `recorder.py` on one recorder `rec`, because scanner and follow-ups meet
nowhere but at the recorder's lock.

| Variable | Code |
|---|---|
| `pc`, `at`, `todo` | where run() and scan_once() are: between scans ("idle"), before a cycle or a size, inside the records of one size, health records, the drain, the end; `todo` = the records of the signal still to come |
| `check[id]` | one unique signal: its cycle, how its stages ended, its follow-up (skipped, tracking, reporting, completed, failed, cancelled) and what each bucket showed |
| `pending`, `draining` | `_latency_tasks`, and the tuple drain_latency_checks waits for |
| `cooling` | `_last_signal_at`, as the pairs whose cooldown has not passed |
| `healthy[c]` | what `_books_for_cycle` answers for a cycle |
| `stats`, `stop` | ScanStats (unique, completed, skipped, errors); the stop event or the deadline |
| `rec.calls` | record() calls at or in `async with self._lock`, each with the calls `ahead` of it |
| `rec.threads` | appends running in worker threads |
| `rec.lines`, `rec.observed`, `rec.retained` | the files, what the accumulator saw, `_retained_signal_ids` |

A step is what a task does between two awaits. `CycleDismissed`, `CycleScreened`,
`SizeDismissed`, `OpportunityRepeated`, `SignalDetected`, `StageRecorded`,
`SizeRecorded`, `ScanEnds` are the paths through scan_once; `Rechecked`,
`RecheckFails`, `FollowUpDone` those of `_track_latency` and `_latency_done`;
`LineSubmitted`, `ThreadEnds`, `RecordObserved`, `FollowUpNotRecorded`,
`ScanNotRecorded` the turns of record(), whoever called it; `DrainStarts`,
`DrainEnds`, `DrainTimesOut`, `RunReturns`, `RunCancelled`, `SignalFails`,
`EndingCancelled` the ends of run(); `RecorderCloses` and `LoopCloses` what
run_observer and asyncio.run do after it. A cancelled call leaves the lock at once; its
append is withdrawn if its thread had not begun and goes on unawaited otherwise
(`Cancellations`), which is what cancelling the await of `asyncio.to_thread` does.

Abstractions. Prices and results are the simulator's: each simulation has a free
outcome, also combinations the simulator does not produce (depth passing where fees
fail). A grade says how the two tests of a result come out, `profitable` of the
simulator and `_profitable` of the latency tracker, which differ when the threshold is
not zero. The code yields before every size and every tenth cycle, the model between all
of them; after the lock is released other tasks may run before the caller does, which
asyncio allows when the caller had to wait. Time is left to the steps that end a
cooldown, a bucket, a drain or a run. Files are sets of lines, so rotation and the
order of lines in a file are left out, as are the bounded top records, write_selection,
the report's own summary records, the failure of the accumulator, and
schedule / drain / close of the latency tracker, which the program does not call.

### Ratio, Decimal and Simulator

`Ratio` is exact fractions in lowest terms (`Rational` is their set), which `Universe` ranks
with. `Decimal` is what `simulator.py` computes with: the exact result rounded half-even to a
number of significant digits, 28 in the program. Its operators take the digits first; `Exact`
is an arithmetic that drops none, for properties and proofs to compare with. Values stay below
ten to the power of the digits, so that what is dropped is decimals, of which a value has at
most `MaxDecimals`. `Floored` is `_quantize_down`.

`Simulator` is `simulator.py`: `TypedFilters` (Binance and MEXC filter lists as `discovery.py`
types them) and `Normalised`; `Leg` for `simulate_leg` with the walks `ForBase` and `ForQuote`;
`RunRoute`, `ResidualValue`, `Estimate` (largest size and limiting leg, with `RequiredInput`
backwards through the legs and `ForWorth` for its walk of bids) and `Simulated`, the result of
`simulate` in the modes top, depth and pessimistic. `Enough` is the test that ends a leg
(`simulator.py:643` to 655): a rounded remainder above zero fails it, a negative one passes, and
the mode top, which takes any amount at the best price, is exempt. The variables are the
route, the question asked, its result and, only to compare with, what exact arithmetic makes of
it (`exact`); the one action is a simulation.
`SimulatorAssumption` says what a route may be: one leg or more
(discovery makes no empty cycle, and `simulator.py:1114` answers one with nothing), any legs
with positive levels, best first (`BestFirst`), a fee below 100 %, and filters its exchange
has (`OwnFilters`); haircut and shock are fractions below one, as `config.py:303` demands. A MEXC
symbol names its smallest value once there, as NOTIONAL or as MIN_NOTIONAL: of two such
entries the code keeps the last of the list (`mexc_public.py:622`), and the model has no
order of filters. The walks through levels and legs are recursive functions. Slippage, price
and level statistics are left out, as are raw filter lists, which only tests pass.

Properties of a rounded computation hold up to what rounding did. `Unrounded` says that it did
nothing: `result` is `exact`. Where that fails `Widened` allows a bound
a relative `Tolerance`. Section 5 shows what rounding does in the program.

### Universe, Fees and Startup

`Universe` is `discovery.py` as operators, one per stage: `Listed`, `Ticker`, `Combined`
(parsing), `Eligible`, `Rate` and `InRoot` (values in another asset), `Scores`,
`Triangles`, `RankCycles`, `Bounded` (the greedy selection of direction pairs under two
caps, turn by turn in `ChosenAfter`) and `Discovery`. Names are numbers in alphabetical
order; name patterns are sets.

`Fees` is a fee check: `check` is the coroutine's selection, position, attempt and answers;
`raws` and `config` are the files it saves, each replaced in one step; `Answered`,
`Malformed`, `Refused`, `BackoffOver`, `RequestFails`, `SaveRawFeeResponse`,
`SaveFeeSchedule`, `Interrupted` its turns. `Startup` puts both together: a run resolves
its fees, discovers on the market of the moment and writes its selection; the market moves;
a check reads that selection; a later run loads the schedule. So the staleness between
files and universe is in the model. Credentials, signing, redaction and the many
spellings of response fields are left out.

### PublicClient

The depth stream of `mexc_public.py` and the REST request both adapters share.
`shard[h]` is a shard task (connecting, open, backoff, putting, ended; with the update
it holds while the queue is full), `inbox[h]` what its socket has received, `queue` the
asyncio queue, `reading` the consumer, `closed` the client, `rest` the request in
progress with its attempt and wait; `sent`, `got` and `lost` follow every version of a
symbol. `Connects`, `ConnectFails`, `Disconnects`, `BackoffOver`, `Receives`, `Discards`,
`Puts`, `ShardReturns` are the shard loop, `Yields` and `Unsubscribes` the generator,
`Asks`, `Settles`, `Fails`, `TimePasses`, `AsksAgain` the request. Two things the code
does that the model shows: the back-off starts over once SUBSCRIPTION is sent, before the
exchange has accepted it (mexc_public.py:255), and close() ends the shards but leaves a
consumer that waits at queue.get (mexc_public.py:231), which the manager ends by
cancelling it. Payload parsing, the keep-alive PING and the adapters' subscribe_depth for
Binance, which the program does not use, are left out.

### Observer

`run_observer` and its checkpoint task. `main` is the coroutine: where it waits, what
unwinds it, and what it holds (client, manager, whether stop is on the exit stack,
recorder); `task` and `thread` are the checkpoint task and the thread in which it
publishes; `disk` is the report directory; `hits` remembers where cancellations met the
observer. Actions bear the name of the step: `ClientOpens` to `LatestSummary` for the
way of the coroutine, `CancelledInBlock`, `CancelledInScan`, `CancelledInStack`,
`CancelledBehind` for a cancellation at each kind of await, `IntervalOver` to
`TaskNotices` for the task, `ThreadWrites`, `ThreadReturns`, `ThreadFails` for its three
files. The scanner is one step here (it ends, well or with an error); what happens inside
is `Scanner`. Start-up metadata, storage preparation and the report-only path are left out.

### Report

The streaming accumulator (`SignalObserved`, `LatencyObserved`, `HealthObserved`, with
the bounded reservoir and top list), its overlay `Streamed`, the offline metrics
`Replayed` over the lines read back, the two verdicts `Conclusion` and `Decision48h` and
the checkpoint evidence. `disk` holds the lines, `acc` the accumulator, `published` what
each checkpoint's files held. Edges and gains are integers and their sums exact. Signals have ids:
a line of `signals` and its latency line may be written in either order, and each may be missing,
because the follow-up is scheduled before its signal is recorded (`scanner.py:384` to 396) and
an append may fail (`recorder.py:331`); in full mode nothing makes one wait for the other.
`Replayed` is for files with a signal line (`report.py:435`). Rendering, percentiles other than
the median, foreign or anonymous lines and compact retention are left out; publication itself is
in `Observer`, the way from a signal to its lines in `Scanner`.

## 3. Properties and runs

Each property is stated in words above its definition. By module:

* book: `Faithful`, `Complete`, `CrossedOnlyWithExchange`;
* manager: `BooksFaithful`, `ConnectedOnlyOverOpenShard`, `NeverStranded`, `NoLostWakeup`,
  `GapIsIsolated` (action property), `Recovers` and `StopCompletes` (liveness),
  `ImplementsReplica` (refinement);
* scanner and recorder: `OneWriterPerFile`, `MissedOnlyWhenCancelled`,
  `NoFollowUpOutlivesRun`, `SignalsAccounted`, `LatencyLineHasSignal`,
  `SignalFullyObserved`, `VerdictsTruthful`, `RunEnds` (liveness);
* simulator: `OrdersMeetEveryFilter`, `NeverBeatsGross`, `LotsAreWhole`, `SizeIsLargest`;
* clients: `UpdatesAccounted`, `LossesShowAsGaps` and `RetriesAsTold` (action properties),
  `NothingHangs` (liveness);
* start-up: `SelectionWhole`, `NoPairLeftOut`, `FeesConservative`, `OnlyWholeChecksCount`,
  `CheckEnds` (liveness);
* observer: `LatestIsFinal`, `HistoryIsPublished`, `ManagerStopsFirst`, `EndsClean`,
  `RunEnds` (liveness);
* report: `StreamIsExact`, `VerdictsEarned`.

A few more are only proved, since a proof makes a run of them idle: `TypeOK`,
`BacklogOnlyWithoutBook`, `NeverRollsBack`, `ObservedOnlyIfWritten`, `BacklogBounded`.

| Run | Question | Bounds |
|---|---|---|
| `feed_binance` | one book under every delivery, for every history of three one-level updates from every ladder of two prices per side | MaxDepth 1 below SnapshotLimit 2, so trimming happens and so do ladders too deep for the book |
| `live_binance` | one symbol under a running manager, with direct resync_symbol calls: faithful books, no lost wake-up, the replica | 3 updates, 3 tokens (reconnects, gaps and restarts together), buffer 2 so that it overflows, 2 attempts |
| `live_mexc` | two symbols on one MEXC shard, with its shard loop and gap rule: isolation of a gap, nobody stranded, the replica of both | 2 updates, 3 tokens, buffer 2, symmetric symbols |
| `recovery` | liveness of the manager, also after a replay while stopped | 2 updates, 2 tokens, buffer 1 |
| `scan_stages` | compact mode: what is observed of a signal, its verdict, its latency line; anything fails | 2 cycles, 1 signal, 2 buckets, signals that pass or fail both stages |
| `scan_live` | full mode: one writer per file, figures against files, accounting, nothing left running, and the run ends; anything fails, calls are cancelled anywhere | one pair, 2 signals, backlog 1, so that the second signal finds it full |
| `scan_ghost` | expected violation, section 5 | 1 signal |
| `simulator` | is an executable result one the exchange would take, whole, no gain that the theoretical one does not have, within the reported size, with rounding | 3 legs over books of two levels, 24 filter sets per exchange combined, 5 amounts, 3 modes; 2 significant digits, at most 8 decimals, a tolerance of 1/5 |
| `mexc_client` | what becomes of every update, and does anything hang | 2 shards of one symbol, queue of 1, 2 versions, 1 retry, waits below and above the cap |
| `startup` | the universe watched and the fees charged, two runs with a fee check and a market that moves | 5 assets, 9 markets in 11 variants, 4 discovery configurations, 6 answers, 1 retry |
| `observer` | what a run leaves behind | 2 checkpoints, cancellations at any 2 places |
| `report` | live figures against files, and what verdicts rest on | 3 symmetric ids, each with a signal line of 4 kinds, a latency line of 3, both in either order or one; 1 health line, 3 checkpoints, a sample of 1 |

Why the bounds are enough. *Books:* a wrong book needs one missing batch between the
snapshot and the event (ids 0, 1 and 2), a third id separates "bridges" from
"contiguous". A superseded synchronization needs two tokens; the third allows a further
connection while an earlier answer is out. The history of `MCBookManager` changes a bid
above the depth limit and then removes it, so the book ends with a hole the exchange does
not have. Faithful books of the MEXC policy are part of `ImplementsReplica`, checked in
`live_mexc`; the theorems of section 4 are about both policies. `MaxToken` bounds only the
steps that take a new token voluntarily (start, connect, gap, resync); losing a
connection and stopping are always possible. *Scanner:* two signals because every conflict
at the lock is between the scanner and a follow-up or between two follow-ups, an orphaned
thread and one more caller; two buckets because a verdict distinguishes the first recheck
from a later one; one cycle and size except where the yields between them are the
question, since with a cooldown that may pass at any time one pair gives any number of
signals. scan_stages uses the grades "rich" and "dead", that is a threshold of zero: with
a positive one a signal that is profitable but below the threshold is given a full
lifetime although every recheck finds it dead (`latency.py:178` against
`simulator.py:183`), and VerdictsTruthful would not hold. *Simulator:* two levels make a
walk end inside the first, at its edge, inside the second or past the book; lots of 2
and 3 combine to 6; half-fees make outputs that are no whole lots. Two digits instead of 28
make rounding happen within small numbers: the levels at 3 and 7 and the fee of a tenth divide
nothing evenly, so that walks end with a remainder that is only rounding, overspend by a last
digit, or ask for an input that the trial then fails. Rounding to two digits moves a value by
up to a twentieth and a route rounds several times, hence the tolerance of a fifth; most results
of the run are `Unrounded` and are checked without any. *Clients:* a queue of one is
full whenever two shards have something. *Start-up:* the market's variants unlist a
symbol, reverse one, repeat or drop a ticker, cross a book, swap the order of
pairs, and make all alike, so that only names rank them; a cap of 5 symbols or 3 cycles
leaves out a pair between two that fit.
*Observer:* every pair of awaits is hit, one of them possibly twice, since a set of
places is bounded and not the number of cancellations. *Report:* a sample of one drops a
signal as soon as there are two; three ids leave one signal without its follow-up, one follow-up
without its signal and one pair of both. Ids mean nothing but themselves, so the run takes
them as symmetric.

Fairness, each weak unless said otherwise:

* `recovery`: a ready synchronization runs, a shard whose socket is gone runs its finally
  clause, stop() goes on after gather; and a REST request that is repeated for ever is
  some time answered with the current ladder (strong fairness on `AnswerLoaded` with
  version `head`). The last is about the exchange and not the code: without it no client
  could recover. Nothing is assumed about shards connecting, messages or trades. MaxBuffer is 1
  there because TLC re-evaluates the replay of the buffer at each edge of the graph.
* `scan_live`: the event loop runs every task that can run (scanner, lock holder,
  rechecks, callbacks), worker threads end, buckets and the drain's timeout elapse, and
  stop comes some day. Nothing is assumed of books, cooldowns, failures, cancellations.
* `mexc_client`: the event loop as above; an attempt is answered or times out
  (aiohttp's total timeout); and a shard that tries for ever is let in some time (strong
  fairness on `Connects`), about the exchange again.
* `startup`: a step of the fee check is some time taken: requests have a timeout, delays
  pass, writes return. Nothing makes a run or a check start.
* `observer`: the coroutine, the task and the thread go on when they can: requests,
  waits, the scan and writes have time limits. Nothing makes a stop signal or a cancellation
  come.

Runs with CHECK_DEADLOCK FALSE are those where the program really ends (scanner, observer,
one simulation) or its bounds are used up (client, start-up, report).

NeverStranded is checked for the calls the program makes. A resync_symbol call on
a *running* manager, made only by tests, replaces the task that retries for ever
by one with `sync_max_attempts` attempts; when they fail, nothing fetches a
snapshot until the shard reconnects, since events of a symbol without a snapshot are
only buffered (listed under hazards).

Three observer properties name the cancellations they do not survive, each shown by TLC
when the proviso is dropped: one that meets the observer while it joins the checkpoint
task cancels that task's wait for its thread, so a checkpoint may overwrite the final
report; one inside `start()` closes the client under the manager, which the outer
finally then stops; one in the error handler or the outer finally leaves run_observer
without a report and with the recorder open.

The obvious stronger bound for the simulator, that the pessimistic pass never beats the
depth pass, is false: smaller orders may round to lots that leave less, or leave a residual
that is worth more. Nor is it true that the result never exceeds the gross outcome: what
rounding leaves in the root asset is kept at par (`simulator.py:817`), so where the route loses,
a leg that converts less loses less than the reference, which converts everything. What the
scanner's pre-filter relies on is `NeverBeatsGross`: a result above the gross outcome is not
above the amount that was put in, so that a cycle dismissed on its gross outcome hides no gain.
The `Losing` routes of `MCSimulator` tell the two statements apart.

So is the obvious form of `NoPairLeftOut`, with the chosen cycles ranked above instead of
their pairs: a pair is taken whole at the rank of its better direction, so it may use up a
cap with a direction that ranks below the triangle left out. Where all tickers are alike
and three cycles are allowed, TLC shows it.

## 4. What is proved

TLAPS checks the following for every value of the constants that satisfies the
named assumptions (prices are a finite set of naturals, 0 is a quantity,
0 < max_depth <= snapshot_limit as the constructor demands, the policy is one of
two, buffer and attempts are positive, shards carry symbols, histories are ladders;
listings, tickers and answers are finite, prices, volumes, fees and the names of assets
and symbols are naturals, max_symbols is at least 3 and max_cycles at least 1; routes, sizes
and stress as in `SimulatorAssumption`, section 2).

* `BookManagerProofs`, lemmas about book and exchange. `ApplyUpdateFaithful` is the heart:
  an event that is neither stale nor a gap starts at most one past the book's id
  and ends after it, so a price it does not name has not changed since, and the
  overlay has only levels of the event's final version; trimming removes some and
  changes none. `ApplyUpdateComplete` is the converse under a shallow exchange and
  uses cardinalities (`TopOfShallow`).
* `BookManagerProofs`, a book alone: `FeedTypeCorrect`, `FeedFaithful`, `FeedComplete`,
  `FeedCrossedOnlyWithExchange`. The invariant adds to each property the type of the
  book and, for the crossed flag, that it is the crossedness of the book's levels.
* `BookManagerProofs`, the manager: `ManagerTypeCorrect`, `ManagerBooksFaithful`, `ManagerBacklog`,
  `ManagerNeverRollsBack`, with and without direct API calls. None is inductive. The
  invariant `IInv` adds that (a) every buffered event is one the stream may have
  delivered (else a replay could make a wrong book), (b) a symbol that is
  synchronizing or has a backlog has no book (else an event could be applied behind
  an older one that still waits), and (c) a synchronization is never ahead of its
  symbol's token, and one with the current token is the only one and its symbol has
  no book (else a late answer could replace a newer book). `Onward` says how any
  step but loading a snapshot moves a symbol; (c) follows from it for every such
  step at once (`TasksOnward`), and loading is the one case argued apart
  (`AnswerLoadedOK`). `Replay` is a recursive function over the buffer. That it has a
  solution (`RunExists`) and what it computes (`ReplayOK`) are shown by least
  counterexample: the set of bad indices is a set of naturals, if it is not empty it
  has a least element (from the well-foundedness of <), and the step from its
  predecessor contradicts its badness.
* `ScannerProofs`: `ScannerTypeCorrect`, `ScannerOneWriterPerFile`,
  `ScannerObservedOnlyIfWritten`, `ScannerMissedOnlyWhenCancelled`,
  `ScannerNoFollowUpOutlivesRun`, `ScannerBacklogBounded`, for any number of cycles,
  sizes, buckets, signals and failures and both storage modes. OneWriterPerFile is the
  interesting one, since the lock alone does not give it. `IInv` adds that (a) of two
  calls one waits for the other and only the first has begun to append (`QueueOK`), (b) who
  may be calling follows from where run() is and from the state of the follow-up
  (`CallOK`), and (c) an orphaned thread is the last of its kind: the scanner's own only
  after the run broke, a follow-up's only when no follow-up is alive and the scan is over
  (`OrphanOK`). Each operator of the recorder has a lemma (`CalledOK` to `CancelledOK`)
  saying what it does to calls, threads, orphans and missed lines; `RecordsKept` then
  reduces an action to who is calling after it.

  Four theorems more rest on `IInv`. `ScannerSignalsAccounted`: the counters follow the
  statuses of the follow-ups, with sets of finished and failed ones that grow by one
  element at a time (`AccountsOK`); a failure is counted only when its task has left the
  backlog. `ScannerVerdictsTruthful`: the verdict of a follow-up against its readings
  (`RechecksOK`). It assumes `"thin" \notin Grades`. A thin result has a positive profit
  below `profit_threshold_bps`; none is while the threshold is 0, as both shipped
  configurations have it (`configs/default.yaml:62`, `configs/mexc_default.yaml:62`). With
  a positive one the property fails, section 3 (bounds) says how.
  `ScannerSignalFullyObserved` and `ScannerLatencyLineHasSignal` follow the lines of one
  signal. What the scan has still to record of it (`TodoOK`), what is in a call, and what
  the accumulator has seen are together the stages it passed, and no two of them meet
  (`PassedOK`, with `IdsOK` and `VerdictsSeen` for the ids that are not its own); in compact
  mode a kept verdict has its signal line on disk, or in a call that is served before it
  (`KeptOK`). `Elsewhere` says that an action touches no call and line of a stage; only
  `SignalDetected`, `StageRecorded` and the observation of a record need a case of their own.
* `BookManagerProofs`, the manager's tasks: `ManagerImplementsReplica`, `ManagerNoLostWakeup`,
  `ManagerConnectedOnlyOverOpenShard`, `ManagerNeverStranded`, `ManagerGapIsIsolated`.
  The first two rest on one analysis of the steps (`StepsSettleOrMove`): a step leaves each
  book as it is or unsynchronized, or makes one book newer and sets the event. The next
  two rest on `Link`, which ties symbols to shards and tasks: a symbol is connected exactly
  while its shard is open or on its way out; without replay a connected book, and a current
  synchronization, belong to a connected symbol; without resync_symbol on a running manager
  the current synchronization of a connected symbol goes on for ever and there is one
  whenever the book is missing. The hypotheses `NoReplay` and `NoResync` are needed:
  sections 3 and 5 say what happens without them.
* `ObserverProofs`: `ObserverTypeCorrect`, `ObserverLatestIsFinal`,
  `ObserverHistoryIsPublished`, `ObserverManagerStopsFirst`, `ObserverEndsClean`, for any
  number of checkpoints and cancellations. That the final report stays needs to know who may
  still write: the task lives only while the observer scans or joins it (`TaskInScan`), the
  thread works only while the task waits for it, unless a cancellation met the observer at
  its join (`ThreadInTask`), and a task cancelled in its publication finishes that one and
  no other (`CancelledOnce`). That the history agrees with what was published needs
  `PreparedNext`, `HistoryBehindDisk` and `HistoryOfDisk`, which say where the thread is
  between its files and the task's bookkeeping; that everything is released needs where
  client, manager and recorder may still be open (`ClientInBlock`, `ManagerOnStack`,
  `ReleasedInOrder`).
* `StartupProofs`: `StartupSelectionWhole`, `StartupNoPairLeftOut`,
  `StartupOnlyWholeChecksCount`, `StartupFeesConservative`, for any listing, tickers,
  discovery configuration, answers, number of checks and runs. The two about the
  selection are about what `Universe` computes, once a run watches what it selected
  (`SelectedOK`). (a) Every score is a fraction (`RatioProofs`, `ScoresType`) and keys, compared
  left to right, are a strict order (`KeysOrdered`); the last numbers of a key are names,
  so that two cycles or two symbols never tie (`CyclesOrdered`, `SymbolsOrdered`) and
  ranking puts each in one place (`SortedOK`). (b) The two directions of a triangle trade
  the same best market of each pair and so mirror each other (`MirrorOK`). (c) The loop
  of `Bounded` is followed turn by turn (`TurnOK`, `LoopOK`): what is taken keeps both
  caps and is made of whole groups, one cycle of which was ranked so far; what fits beside
  some cycles fits beside fewer (`FitsBesideFewer`), so a pair passed over does not fit
  beside the better pairs either (`LeftOutOK`). (d) Distinct listed rows have distinct names
  (`EligibleOK`), so there are as many books as symbols the cycles need (`SymbolsOK`).
  For the fees the invariant follows the answers from the check
  (what stands before its position is answered) through the raw file to the schedule and
  to the run that loaded it. `GreatestFee` (a set of naturals below 100 % has a greatest
  element, by well-foundedness) makes `ChargesEnough`, the lemma that a schedule never
  charges less than a fee it was made of.
* `ClientProofs`: `ClientUpdatesAccounted`, `ClientLossesShowAsGaps`,
  `ClientRetriesAsTold`, for any symbols, shard size, queue bound, number of reconnects
  and retry limit. Where each version is, is not inductive: a put moves the first
  version of an inbox behind those in the queue, and that this repeats or overtakes none
  depends on the order of the places. `Road` is that order for one symbol, whose shard is
  its `Home`: versions read < in the queue < held by the shard < in its inbox, and the lost
  ones among none of these. `RoadMoves` says how a road may change; each action is one such
  move for the symbol it concerns and none for the others. Since what is read is always the
  front of the road, `LossesShowAsGaps` is a consequence. Retries need no more than
  `RequestOK`: a request that sleeps has attempts left and will have slept as told.
* `ReportProofs`: `ReportStreamIsExact`, `ReportVerdictsEarned`, for any signals, checks,
  health lines, sizes of sample and heap, and thresholds. `ReportInv` says of every total of
  the accumulator that it is the count, the sum or the statistics over the lines of the
  files that it stands for, so that one more line changes both sides alike; recomputing from
  the files is then the case of an accumulator that reads them again. Three things are not
  immediate. Sums: `SumOver` takes elements as CHOOSE gives them, and `SumsAdd` shows by
  least counterexample that the order does not matter. The best edges: the heap is the
  set of places that fewer than `TopLimit` others are better than, which is what a push keeps
  (`PushedOK`) and what the reference takes the largest of (`TopIsLargest`). Coverage: the live figure is the fewer of
  two counts, the offline one the number of ids with both lines, and the two differ by no more
  than the latency lines whose signal line is not there. The bounded sample and the median taken from
  it are in no total; the theorem about verdicts reads each condition back from the counters
  (`CountersMean`, `RepeatedMeans`, `NetMeans`) and leaves the median as it is.

* `RatioProofs`: the arithmetic. `Gcd` is a recursive function; that it has a solution, that it
  is Euclid's algorithm and that it divides both its arguments are shown by least
  counterexample (`GcdAgrees`, `GcdIs`, `GcdDivides`). So a `Ratio` is in lowest terms
  (`RatioIs`), and two fractions of the same worth are the same pair (`RatioSame`). From
  there fractions are handled by their worth: `Worth(x, n, d)` says that x is n/d, whichever n and d
  are at hand, `WorthOps` computes with it, and the field and order laws (`PlusLaws`, `TimesLaws`,
  `OrderLaws`, `OverLaws`) are identities and inequalities between integers.
* `SimulatorProofs`: `SimulatorOrdersMeetEveryFilter`, `SimulatorLotsAreWhole`,
  `SimulatorNeverBeatsGross` and `SimulatorSizeIsLargest`, for any set of routes of any length,
  books of any depth, any combination of filters an exchange has, any fees, sizes, haircut and
  shock, and the three modes. The first holds for any number of digits: a floored quantity is a
  multiple of the lot however its quotient was rounded (`FlooredLots`), and what `Rejects`
  compares are the values that are sent. The other three are proved wherever rounding changed
  nothing (`Unrounded`), which is what makes them theorems about the algorithm; with rounding
  they hold up to a tolerance that grows with the length of books and routes, which is only
  model-checked. There `EffectiveExact`, `ExactOps` and `FlooredIs` (a floored value is not
  above the value and less than a lot below it) replace Decimal by exact fractions. The
  invariant says that a result is unsettled or is the simulation of the question asked
  (`SInv`); the rest is about what the operators compute. A loop of the code is a recursive
  function over its turns; `LoopExists` shows once that such a function exists, and
  `FirstBreak` that a fact which holds at first and survives each turn holds at the last.
  * Filters. `RunRouteIs` reads a route backwards: each leg of an executable run is the
    conversion of what the leg before it gave. `CombinedQuantumIs` shows that the fold of least common
    multiples is a multiple of every step, in whatever order the fold takes them, and
    `NormalisedIs`, with `BinanceTyped` and `MexcTyped`, that the rules are at least as strict
    as each typed filter. `Accepted` puts them together, filter by filter, with what `Rejects`
    let pass.
  * Lots. A BUY order walks the book twice, once for the money and, after rounding, once for
    the lots. `WalksAbreast` compares two walks through one book: after any level they hold the
    same, or the one that holds less has nothing left to take. So the second walk spends no more than the first
    (`NeverOverspends`), and a walk that takes a lot more than the rounded quantity costs more than
    there was (`NoLotIsLeft`).
  * No gain from nothing. `LegYields` bounds a leg by the displayed top price and its fee,
    since levels come best first and stress only worsens them. A *tail* is what one unit is worth
    when carried through the remaining legs at top prices and fees (`TailExists`,
    `TailYields`), and a residual is marked by its tail (`MarkedOnIs`, `LegMarked`). So the run and
    its residuals together are worth at most what the first leg left, at par, and what it
    consumed times the tail (`RunMarked`), while the reference reaches the whole input times the
    tail (`ReferenceMarked`). A value between the two that is above the input is not
    above the gross outcome (`PartlyMarked`, `AnswerBounded`).
  * The largest size. A book is one curve: whichever way it is walked, for base or for quote,
    what was taken of either side fixes the other, and more of one is no less of the other
    (`Echo`, `OnCurve`, `Further`). So `_leg_capacity` finds the largest lot-rounded order
    within the limits (`LargestBaseIs`), and a leg that leaves nothing unspent was given no
    more (`CapacityCovers`); `_required_input` walks the curve backwards, over bids for a worth
    (`TakesWorth`, `WorthIs`: what a book is worth is what it costs), so what it asks of a leg
    is no less than what an exact run gave that leg, if the run brought no more than the target
    (`RequiredCovers`). Carried to the start of the route, no target is below the size of the
    run (`TargetsCover`), and the least of them is not either (`ScarcestIs`). The estimate
    still has to pass its trial. Forwards, each leg is given at least what the exact run gave
    it and at most its capacity, and so executes and puts out no more than any target behind it
    needs (`LegCarries`, `LegFits`, `SizeFits`): the trial passes, and the size stands.

Two habits of these proofs are there for soundness. No step asks an SMT solver for the
length of something it does not know to be a sequence, nor for the equality of a CHOOSE that has a
function as its value; where either comes up, the fact is taken from a lemma or given to Zenon.

Only model-checked: liveness, which is out of the prover's reach (`Recovers`, `StopCompletes`,
`NothingHangs`, `CheckEnds` and both `RunEnds`). Every invariant and every action property of a
passing run is also proved, `NeverBeatsGross`, `LotsAreWhole` and `SizeIsLargest` where rounding
changed nothing: their tolerance for the other results is only model-checked.

## 5. Disagreements found

**What a ghost is.** `docs/methodology.md:62` calls a ghost an opportunity that "is not
executable or does not remain profitable under fees, depth, filters, pessimistic
assumptions, or the first latency recheck". The flag that is recorded and counted looks at
the depth simulation and the first recheck only (`latency.py:246`, `scanner.py:487`); a
signal that only the pessimistic pass rejects is not a ghost. Run `scan_ghost` shows it.

The rest are remarks met while modelling. No run is kept for them; the models contain the
behaviour, and the properties are stated around it.

* *Replay, then start.* `book_manager.py:145` says "A managed book is disconnected until its
  shard has actually opened." load_snapshot connects any book it fills
  (`orderbook.py:268`), resync_symbol may fill one while the manager is stopped (the
  deterministic replay of its tests), and start() does not reset the books. So a manager first
  used for replay and then started shows connected, even healthy, books while its
  shards are still connecting. With ApiCalls = {"replay"} TLC finds
  `ConnectedOnlyOverOpenShard` violated; its theorem assumes `NoReplay`.
* *Writes are not quite serialized.* `recorder.py:3` says "JSONL writes are serialized with
  an asyncio.Lock". The coroutine that awaits the thread holds the lock, not the thread:
  when the drain times out and cancels a follow-up in that await, the thread still appends
  while the last health record is written. That the two never write to the *same* file is
  `OneWriterPerFile`, proved, and is why no line is torn.
* *Legacy MIN_NOTIONAL.* `simulator.py:278` treats a MIN_NOTIONAL whose market flag is absent
  as applying, but `discovery.py:128` turns an absent flag into FALSE, so a listing typed by
  discovery waives what the same raw filter, as the tests pass it, enforces.
* *Filters not enforced.* `docs/methodology.md:41` lists tick constraints; the simulator
  leaves PRICE_FILTER out on purpose, since market orders have no price
  (`simulator.py:688`). MEXC's maxQuoteAmount is read (`mexc_public.py:631`), but the flag
  that would apply it to market orders is never set. `OrdersMeetEveryFilter` is about the
  filters that apply.
* *MEXC back-off.* The delay starts over when SUBSCRIPTION has been sent
  (`mexc_public.py:255`), so a server that accepts and rejects at once is retried at
  the shortest delay.
* *MEXC close().* It ends the shards but does not wake a consumer at queue.get
  (`mexc_public.py:231`); the manager's cancellation does.
* *Latency survival.* A positive profit threshold makes the survival of a signal depend on two
  different tests (section 3, bounds).
* *Decimal rounding.* A remainder that is only rounding is taken for missing depth
  (`simulator.py:652` to 655): a BUY with 10 on a book with one deep ask at 3 leaves 1E-27 and
  is reported as "insufficient displayed liquidity", while one with 8 at 7 spends 1E-27 more
  than 8. `simulator.py:1172` says "Estimate the largest start amount supported by every
  displayed leg." A target divided on the way back (`simulator.py:1082`, 1090) may be rounded
  up past what the next leg takes: with fee 0.001, leg 1 a BUY at ask (1, 1000) and a leg 2
  that shows 0.9995, the trial of the estimate fails and the size is zero, though a start of 1
  executes. So `SizeIsLargest` lets rounding report a size of zero, and otherwise no less than
  the tolerance. What rounding does to a figure is some units in the 28th digit; what it does
  to `executable` and to the size is not small.
* *Live and offline figures.* They agree for canonical lines in full mode without a
  cancellation, but for the coverage: the live figure is the fewer of signals and follow-ups
  (`report.py:2060`), the offline one counts ids with both lines (`report.py:1113`). A
  follow-up is scheduled before its signal is recorded (`scanner.py:384` to 396), whose append
  may come later or fail, so while one signal has no follow-up and one follow-up no signal line
  the live coverage is too high; `StreamIsExact` bounds the difference by the latency lines
  without a signal line. The offline path takes staleness from health lines when there is no
  signal (`report.py:874`), the live one has none; ties in the top list may differ in order;
  the 48-hour verdict uses a bounded sample for medians.
* *Tear-down.* The three cancellations of section 3 that observer properties exclude.

## 6. What is not modelled, and the plan

Left out for good: the protobuf decoder, rendering of reports and tables, the comparison
of two reports, argument parsing and validation of the configuration, shared records,
logging, the signed fee request: byte-level conversions, pure functions of finished files
or pure I/O around the states above.

Left out so far, in the order in which it would be added:

1. Rotation (`recorder.py`): numbered files of one category, writers that may be orphans,
   readers of the family: nothing lost or doubled.
2. The bounded top records and `write_selection`, as operators against a reference.
3. The queue of updated symbols with its listeners, start() during stop() and overlapping
   stop() calls of the manager; subscribe_depth of the Binance adapter; schedule, drain and
   close of the latency tracker. The program does not use them.
4. The report-only loader and the metadata and storage preparation of `main.py`.

## 7. Running it

    tlc -config live_binance.cfg MCBookManager      # any cfg of section 3
    tlapm BookManagerProofs.tla                     # any module named ...Proofs

`PROJECT.json` names the module of each run. Modules, each extending those before it:

* `OrderBook` < `Exchange` < `BookFeed` < `MCBookFeed`; `Exchange` < `BookManager`, which
  instantiates `MarketReplica`, < `MCBookManager`;
* `BookFeed`, `BookManager` < `BookManagerProofs`;
* `Recorder` < `Scanner` < `MCScanner`, `ScannerProofs`;
* `Ratio` < `RatioProofs`, `Universe`, `Decimal`; `Decimal` < `Simulator` < `MCSimulator`;
  `Simulator`, `RatioProofs` < `SimulatorProofs`;
* `Universe`, `Fees` < `Startup` < `MCStartup`; `Startup`, `RatioProofs` < `StartupProofs`;
* `PublicClient` < `MCPublicClient`, `ClientProofs`; `Observer` < `ObserverProofs`; `Report` <
  `MCReport`, `ReportProofs`.

Definitions commented "Mutated form" are plausible bugs of the definition that follows
them; substituting each makes a property of a run fail.
