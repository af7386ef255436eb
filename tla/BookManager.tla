----------------------------- MODULE BookManager -----------------------------
(***************************************************************************)
(* src/tri_arb/book_manager.py, and the shard loop of                      *)
(* src/tri_arb/mexc_book_manager.py that replaces its own when Policy is   *)
(* "mexc": local books kept in step with sharded depth streams and REST    *)
(* snapshots.  The actors are asyncio tasks: one per shard, one per        *)
(* pending synchronization of a symbol, a caller of wait_until_ready, and  *)
(* the owner that starts and stops the manager.                            *)
(*                                                                         *)
(* A step is what one task does between two suspensions.  The bodies of    *)
(* "async with state.lock" never await, so the lock is never contended and *)
(* each handler below is one step; the awaits that do suspend (ws_connect, *)
(* reading the socket, the REST request, the backoff sleeps, the event     *)
(* wait, gather in stop) are where another action may come in between.     *)
(***************************************************************************)
EXTENDS Exchange, Sequences

CONSTANTS
    Symbols,            \* managed symbols
    Shards,             \* one websocket connection each
    ShardOf,            \* the shard that carries a symbol's stream
    MaxBuffer,          \* max_buffer_events
    SyncMaxAttempts,    \* sync_max_attempts
    ApiCalls,           \* direct calls made: "replay" while stopped, "resync" while running
    Truth,              \* the exchange's history of each symbol
    MaxToken            \* bound: resynchronizations and reconnects of a symbol

ASSUME ManagerAssumption ==
    /\ ShardOf \in [Symbols -> Shards]
    /\ MaxBuffer \in Nat \ {0}
    /\ SyncMaxAttempts \in Nat \ {0}
    /\ ApiCalls \subseteq {"replay", "resync"}
ASSUME HistoryAssumption ==
    /\ MaxId \in Nat
    /\ Truth \in [Symbols -> [0..MaxId -> Ladder]]
    /\ MaxToken \in Nat

VARIABLES
    head,           \* last update id the exchange has reached, per symbol
    phase,          \* _running, with stop() seen from its first to its last step
    shard,          \* where each _run_shard task is
    state,          \* _SymbolState of each symbol
    tasks,          \* synchronizations in flight
    healthChanged,  \* the asyncio.Event of wait_until_ready
    waiter          \* the caller of wait_until_ready

vars == <<head, phase, shard, state, tasks, healthChanged, waiter>>

Running == phase = "running"

SymbolState ==
    [book : Book, buffer : Seq(Event), syncing : BOOLEAN, token : Nat, connected : BOOLEAN]

\* pc "check": about to test the token (just spawned, or after a backoff
\* sleep); "fetch": its REST request is out.  Attempts are counted only where
\* the code compares them with a limit.  A task that resync_symbol runs in its
\* caller is not owned: stop() does not cancel it.
Task ==
    [symbol : Symbols, token : Nat, forever : BOOLEAN, owned : BOOLEAN,
     attempt : 0..SyncMaxAttempts, pc : {"check", "fetch"}]

TypeOK ==
    /\ head \in [Symbols -> 0..MaxId]
    /\ phase \in {"stopped", "running", "stopping"}
    /\ shard \in [Shards -> {"off", "connecting", "open", "closing", "backoff"}]
    /\ state \in [Symbols -> SymbolState]
    /\ \A s \in Symbols : Len(state[s].buffer) <= MaxBuffer
    /\ tasks \subseteq Task
    /\ healthChanged \in BOOLEAN
    /\ waiter \in {"idle", "waiting"}

-----------------------------------------------------------------------------
\* Operations on one _SymbolState

NewState ==
    [book |-> Reset(NewBook, FALSE), buffer |-> <<>>, syncing |-> FALSE,
     token |-> 0, connected |-> FALSE]

\* _buffer_locked: the oldest event makes room for the newest.
Buffered(x, e) ==
    [x EXCEPT !.buffer =
        Append(IF Len(@) >= MaxBuffer THEN Tail(@) ELSE @, e)]

\* _begin_resync_locked
ResyncBegun(x) ==
    [x EXCEPT !.token = @ + 1, !.syncing = TRUE, !.book = MarkResync(@)]

\* one symbol of _prepare_connected_shard
Prepared(x) ==
    [book |-> Reset(x.book, TRUE), buffer |-> <<>>, syncing |-> TRUE,
     token |-> x.token + 1, connected |-> TRUE]

\* one symbol of _mark_shard_disconnected, and of the last loop of stop()
Disconnected(x) ==
    [book |-> MarkDisconnected(x.book), buffer |-> <<>>, syncing |-> FALSE,
     token |-> x.token + 1, connected |-> FALSE]

\* book.reset(connected=state.connected or not self._running)
Emptied(x) == [x EXCEPT !.book = Reset(@, x.connected \/ ~Running)]

\* The loop over the buffered events after load_snapshot: gap is the index of
\* the event that does not connect, 0 when all were applied or skipped.
ReplayStep(acc, i, e) ==
    IF acc.gap # 0 THEN acc
    ELSE LET result == ApplyUpdate(acc.book, e) IN
         [book |-> result.book, gap |-> IF result.status = "gap" THEN i ELSE 0]

Replay(b, events) ==
    LET run[i \in 0..Len(events)] ==
            IF i = 0 THEN [book |-> b, gap |-> 0]
                     ELSE ReplayStep(run[i - 1], i, events[i])
    IN  run[Len(events)]

\* The locked section of _synchronize_symbol when the snapshot is well formed.
SnapshotApplied(x, snap) ==
    LET replay == Replay(LoadSnapshot(x.book, snap), x.buffer) IN
    IF replay.gap = 0
    THEN [x EXCEPT !.book = replay.book, !.buffer = <<>>, !.syncing = FALSE]
    ELSE [Emptied(x) EXCEPT !.buffer = SubSeq(@, replay.gap, Len(@))]

-----------------------------------------------------------------------------
Init ==
    /\ head = [s \in Symbols |-> 0]
    /\ phase = "stopped"
    /\ shard = [h \in Shards |-> "off"]
    /\ state = [s \in Symbols |-> NewState]
    /\ tasks = {}
    /\ healthChanged = FALSE
    /\ waiter = "idle"

\* The exchange changes a symbol's ladder.
Trade(s) ==
    /\ head[s] < MaxId
    /\ head' = [head EXCEPT ![s] = @ + 1]
    /\ UNCHANGED <<phase, shard, state, tasks, healthChanged, waiter>>

\* Bound: a voluntary new token is taken only below MaxToken.
TokenLeft(s) == state[s].token < MaxToken

Carried(h) == {s \in Symbols : ShardOf[s] = h}

\* Mutated form: gives up after SyncMaxAttempts even under a live manager.
SyncTaskOnce(s, token, forever) ==
    [symbol |-> s, token |-> token, forever |-> FALSE, owned |-> TRUE,
     attempt |-> 0, pc |-> "check"]

\* _spawn_sync_task
SyncTask(s, token, forever) ==
    [symbol |-> s, token |-> token, forever |-> forever, owned |-> TRUE,
     attempt |-> 0, pc |-> "check"]

-----------------------------------------------------------------------------
\* start() and stop()

Start ==
    /\ phase = "stopped"
    /\ \A s \in Symbols : TokenLeft(s)
    /\ phase' = "running"
    /\ shard' = [h \in Shards |-> "connecting"]
    /\ UNCHANGED <<head, state, tasks, healthChanged, waiter>>

\* stop() up to gather: a cancelled synchronization never takes another step; a
\* cancelled shard still has the finally clause of its connection to run.
StopBegin ==
    /\ \/ Running
       \/ phase = "stopped" /\ \E t \in tasks : t.owned
    /\ phase' = "stopping"
    /\ tasks' = {t \in tasks : ~t.owned}
    /\ shard' = [h \in Shards |->
                    IF \/ shard[h] \in {"open", "closing"}
                       \/ shard[h] = "connecting" /\ Policy = "binance"
                    THEN "closing" ELSE "off"]
    /\ UNCHANGED <<head, state, healthChanged, waiter>>

\* stop() after gather.
StopEnd ==
    /\ phase = "stopping"
    /\ \A h \in Shards : shard[h] = "off"
    /\ phase' = "stopped"
    /\ state' = [s \in Symbols |-> Disconnected(state[s])]
    /\ healthChanged' = TRUE
    /\ UNCHANGED <<head, shard, tasks, waiter>>

-----------------------------------------------------------------------------
\* _run_shard

MarkShardDisconnected(h) ==
    /\ state' = [s \in Symbols |->
                    IF s \in Carried(h) THEN Disconnected(state[s]) ELSE state[s]]
    /\ healthChanged' = TRUE

PreparedShard(h) ==
    [s \in Symbols |-> IF s \in Carried(h) THEN Prepared(state[s]) ELSE state[s]]

\* _prepare_connected_shard, leaving the symbols in the given states.
PrepareConnectedShard(h, states) ==
    /\ shard[h] = "connecting"
    /\ Running
    /\ \A s \in Carried(h) : TokenLeft(s)
    /\ shard' = [shard EXCEPT ![h] = "open"]
    /\ state' = states
    /\ tasks' = tasks \union
                    {SyncTask(s, state[s].token + 1, TRUE) : s \in Carried(h)}
    /\ healthChanged' = TRUE
    /\ UNCHANGED <<head, phase, waiter>>

\* Binance: the shard prepares as soon as ws_connect succeeds.
ShardOpens(h) ==
    /\ Policy = "binance"
    /\ PrepareConnectedShard(h, PreparedShard(h))

\* MEXC: it prepares when the first item arrives, and ingests it right away;
\* the symbol is synchronizing by then, so the item is buffered.
ShardGetsFirstItem(h) ==
    /\ Policy = "mexc"
    /\ \E s \in Carried(h) :
       \E first \in 1..head[s] : \E final \in first..head[s], pu \in PuValues(first) :
           LET e == DepthEvent(Truth[s], first, final, pu) IN
           PrepareConnectedShard(h, [PreparedShard(h) EXCEPT ![s] = Buffered(@, e)])

\* ws_connect or subscribe_depth raises.  The finally clause of a Binance
\* shard marks its symbols disconnected all the same.
ConnectFails(h) ==
    /\ shard[h] = "connecting"
    /\ Running
    /\ \A s \in Carried(h) : TokenLeft(s)
    /\ shard' = [shard EXCEPT ![h] = "backoff"]
    /\ IF Policy = "binance" THEN MarkShardDisconnected(h)
                             ELSE UNCHANGED <<state, healthChanged>>
    /\ UNCHANGED <<head, phase, tasks, waiter>>

\* The socket closes or breaks; leaving ws_connect may still wait for the
\* closing handshake.
SocketLost(h) ==
    /\ shard[h] = "open"
    /\ Running
    /\ shard' = [shard EXCEPT ![h] = "closing"]
    /\ UNCHANGED <<head, phase, state, tasks, healthChanged, waiter>>

\* Mutated form: always sleeps and reconnects.
AfterClosingReconnect == "backoff"

\* After a connection the task sleeps and reconnects or, under stop(), ends.
AfterClosing == IF Running THEN "backoff" ELSE "off"

\* The finally clause.
ShardCloses(h) ==
    /\ shard[h] = "closing"
    /\ shard' = [shard EXCEPT ![h] = AfterClosing]
    /\ MarkShardDisconnected(h)
    /\ UNCHANGED <<head, phase, tasks, waiter>>

BackoffOver(h) ==
    /\ shard[h] = "backoff"
    /\ Running
    /\ shard' = [shard EXCEPT ![h] = "connecting"]
    /\ UNCHANGED <<head, phase, state, tasks, healthChanged, waiter>>

-----------------------------------------------------------------------------
\* ingest_depth_event, by the three ways it can go

EventBuffered(s, e) ==
    /\ state[s].syncing \/ ~state[s].book.hasSnapshot
    /\ state' = [state EXCEPT ![s] = Buffered(@, e)]
    /\ UNCHANGED <<tasks, healthChanged>>

EventApplied(s, e) ==
    LET result == ApplyUpdate(state[s].book, e) IN
    /\ ~state[s].syncing
    /\ state[s].book.hasSnapshot
    /\ result.status # "gap"
    /\ state' = [state EXCEPT ![s].book = result.book]
    /\ healthChanged' = TRUE
    /\ UNCHANGED tasks

\* Mutated form: a gap makes every symbol of the shard resynchronize.
EventLeavesGapOnShard(s, e) ==
    /\ ~state[s].syncing
    /\ state[s].book.hasSnapshot
    /\ ApplyUpdate(state[s].book, e).status = "gap"
    /\ \A r \in Carried(ShardOf[s]) : TokenLeft(r)
    /\ state' = [r \in Symbols |->
                    IF ShardOf[r] = ShardOf[s] THEN ResyncBegun(state[r]) ELSE state[r]]
    /\ tasks' = tasks \union {SyncTask(r, state[r].token + 1, Running) :
                                 r \in Carried(ShardOf[s])}
    /\ healthChanged' = TRUE

EventLeavesGap(s, e) ==
    LET result == ApplyUpdate(state[s].book, e) IN
    /\ ~state[s].syncing
    /\ state[s].book.hasSnapshot
    /\ result.status = "gap"
    /\ TokenLeft(s)
    /\ state' = [state EXCEPT
                    ![s] = ResyncBegun(Buffered([@ EXCEPT !.book = result.book], e))]
    /\ tasks' = tasks \union {SyncTask(s, state[s].token + 1, Running)}
    /\ healthChanged' = TRUE

\* Any batch of past updates may come next: batches can be missing, repeated,
\* overlapping or late.
Ingest(s) ==
    /\ \E first \in 1..head[s] : \E final \in first..head[s], pu \in PuValues(first) :
           LET e == DepthEvent(Truth[s], first, final, pu) IN
           EventBuffered(s, e) \/ EventApplied(s, e) \/ EventLeavesGap(s, e)
    /\ UNCHANGED <<head, phase, shard, waiter>>

\* "async for message in socket"
MessageArrives(s) ==
    /\ shard[ShardOf[s]] = "open"
    /\ Running
    /\ Ingest(s)

\* ingest_depth_event called by its user, without any stream.
ReplayEvent(s) ==
    /\ "replay" \in ApiCalls
    /\ phase = "stopped"
    /\ Ingest(s)

\* resync_symbol up to its REST request: the token it tests is its own, so only
\* a running, disconnected symbol makes it return at once.
ResyncSymbol(s) ==
    /\ IF Running THEN "resync" \in ApiCalls
                  ELSE phase = "stopped" /\ "replay" \in ApiCalls
    /\ TokenLeft(s)
    /\ state' = [state EXCEPT ![s] = ResyncBegun(@)]
    /\ tasks' = IF state[s].connected \/ ~Running
                THEN tasks \union
                        {[SyncTask(s, state[s].token + 1, FALSE)
                            EXCEPT !.owned = FALSE, !.pc = "fetch"]}
                ELSE tasks
    /\ UNCHANGED <<head, phase, shard, healthChanged, waiter>>

-----------------------------------------------------------------------------
\* _synchronize_symbol

\* Mutated form: answers are used whatever happened while they were out.
SupersededNever(t) == FALSE

\* "token != state.sync_token"
Superseded(t) == t.token # state[t.symbol].token

TokenIsCurrent(t) ==
    /\ t.token = state[t.symbol].token
    /\ state[t.symbol].connected \/ ~Running

\* The top of the loop: return if superseded, else send the REST request.
TaskChecks(t) ==
    /\ t.pc = "check"
    /\ tasks' = (tasks \ {t}) \union
                    IF TokenIsCurrent(t) THEN {[t EXCEPT !.pc = "fetch"]} ELSE {}
    /\ UNCHANGED <<head, phase, shard, state, healthChanged, waiter>>

LastAttempt(t) == ~t.forever /\ t.attempt + 1 >= SyncMaxAttempts

\* A failed attempt that leaves its symbol in state x: try again after a sleep,
\* or, out of attempts, leave the loop for the clean-up below it.
TaskFails(t, x) ==
    LET retried == [t EXCEPT !.pc = "check", !.attempt = IF t.forever THEN 0 ELSE @ + 1]
        givenUp == IF t.token = x.token THEN [Emptied(x) EXCEPT !.syncing = FALSE] ELSE x
    IN  IF LastAttempt(t)
        THEN /\ tasks' = tasks \ {t}
             /\ state' = [state EXCEPT ![t.symbol] = givenUp]
             /\ healthChanged' = TRUE
        ELSE /\ tasks' = (tasks \ {t}) \union {retried}
             /\ state' = [state EXCEPT ![t.symbol] = x]
             /\ UNCHANGED healthChanged

\* depth_snapshot raises.
RequestFails(t) ==
    /\ t.pc = "fetch"
    /\ TaskFails(t, state[t.symbol])
    /\ UNCHANGED <<head, phase, shard, waiter>>

\* An answer that comes after the token has moved on is dropped.
AnswerDropped(t) ==
    /\ t.pc = "fetch"
    /\ Superseded(t)
    /\ tasks' = tasks \ {t}
    /\ UNCHANGED <<head, phase, shard, state, healthChanged, waiter>>

\* load_snapshot rejects the answer: the book is emptied, the buffer is kept.
AnswerMalformed(t) ==
    /\ t.pc = "fetch"
    /\ ~Superseded(t)
    /\ TaskFails(t, Emptied(state[t.symbol]))
    /\ UNCHANGED <<head, phase, shard, waiter>>

\* Mutated form: does not set the event.
SynchronizedQuietly(t, x) ==
    /\ state' = [state EXCEPT ![t.symbol] = x]
    /\ tasks' = tasks \ {t}
    /\ UNCHANGED healthChanged

\* The symbol, now in state x, has its book: the task returns.
Synchronized(t, x) ==
    /\ state' = [state EXCEPT ![t.symbol] = x]
    /\ tasks' = tasks \ {t}
    /\ healthChanged' = TRUE

\* A snapshot of any version the exchange has reached (REST answers may come
\* from a cache) is loaded and the buffer replayed on it.
AnswerLoaded(t, version) ==
    LET x == SnapshotApplied(state[t.symbol], RestSnapshot(Truth[t.symbol], version)) IN
    /\ t.pc = "fetch"
    /\ ~Superseded(t)
    /\ IF x.book.hasSnapshot THEN Synchronized(t, x) ELSE TaskFails(t, x)
    /\ UNCHANGED <<head, phase, shard, waiter>>

-----------------------------------------------------------------------------
\* wait_until_ready, freshness apart

AllHealthy == \A s \in Symbols : Healthy(state[s].book)

\* One turn of its loop: clear the event, then return or wait for it.
WaiterTests ==
    /\ waiter = "idle" \/ healthChanged
    /\ healthChanged' = FALSE
    /\ waiter' = IF AllHealthy THEN "idle" ELSE "waiting"
    /\ UNCHANGED <<head, phase, shard, state, tasks>>

WaiterTimesOut ==
    /\ waiter = "waiting"
    /\ waiter' = "idle"
    /\ UNCHANGED <<head, phase, shard, state, tasks, healthChanged>>

-----------------------------------------------------------------------------
ShardStep(h) ==
    \/ ShardOpens(h) \/ ShardGetsFirstItem(h) \/ ConnectFails(h)
    \/ SocketLost(h) \/ ShardCloses(h) \/ BackoffOver(h)

TaskStep(t) ==
    \/ TaskChecks(t) \/ RequestFails(t) \/ AnswerDropped(t) \/ AnswerMalformed(t)
    \/ \E version \in 0..head[t.symbol] : AnswerLoaded(t, version)

Next ==
    \/ Start \/ StopBegin \/ StopEnd
    \/ \E h \in Shards : ShardStep(h)
    \/ \E s \in Symbols : Trade(s) \/ MessageArrives(s) \/ ReplayEvent(s) \/ ResyncSymbol(s)
    \/ \E t \in tasks : TaskStep(t)
    \/ WaiterTests \/ WaiterTimesOut

Spec == Init /\ [][Next]_vars

\* Ready tasks run; a shard told to stop finishes; and a REST request repeated
\* for ever is answered, some time, with the current ladder.
TasksOf(s, token) == {t \in tasks : t.symbol = s /\ t.token = token}

Fairness ==
    /\ \A s \in Symbols, token \in 1..MaxToken :
        /\ WF_vars(\E t \in TasksOf(s, token) : TaskChecks(t))
        /\ SF_vars(\E t \in TasksOf(s, token) : AnswerLoaded(t, head[s]))
    /\ \A h \in Shards : WF_vars(ShardCloses(h))
    /\ WF_vars(StopEnd)

FairSpec == Spec /\ Fairness

-----------------------------------------------------------------------------
(* A book that has a snapshot shows only levels the exchange quoted at the  *)
(* book's own update id, an id the exchange has reached: no interleaving of *)
(* buffering, late snapshots, replay and live events mixes two versions.    *)
BooksFaithful ==
    \A s \in Symbols :
        /\ FaithfulTo(state[s].book, Truth[s])
        /\ state[s].book.hasSnapshot => state[s].book.lastId <= head[s]

(* Events wait only while the book has no snapshot: a book that is live     *)
(* never has an older event still queued behind a newer one, and a symbol   *)
(* that is synchronizing shows no book.                                     *)
BacklogOnlyWithoutBook ==
    \A s \in Symbols :
        state[s].syncing \/ state[s].buffer # <<>> => ~state[s].book.hasSnapshot

(* "A managed book is disconnected until its shard has actually opened"     *)
(* (book_manager.py:145), and again once its stream is lost: no late REST   *)
(* answer marks a book connected behind a dead stream.                      *)
ConnectedOnlyOverOpenShard ==
    \A s \in Symbols :
        Running /\ state[s].book.connected =>
            /\ state[s].connected
            /\ shard[ShardOf[s]] \in {"open", "closing"}

(* A connected symbol without a book always has a synchronization of its    *)
(* current token in flight: neither failures nor gaps nor superseded tokens *)
(* strand it (book_manager.py:521, "must not wedge this symbol").           *)
NeverStranded ==
    \A s \in Symbols :
        Running /\ state[s].connected /\ ~state[s].book.hasSnapshot =>
            \E t \in tasks : t.symbol = s /\ t.token = state[s].token

(* wait_until_ready is never left asleep over books that are all healthy:   *)
(* every step that completes them sets the event after it changed them.     *)
NoLostWakeup == waiter = "waiting" /\ AllHealthy => healthChanged

(* A book never goes back to an older update id without first losing its    *)
(* snapshot, whichever of the stream and the REST answers comes late.       *)
NeverRollsBack ==
    [][\A s \in Symbols :
        state[s].book.hasSnapshot /\ state'[s].book.hasSnapshot =>
            state'[s].book.lastId >= state[s].book.lastId]_vars

(* "A sequence gap invalidates only the affected symbol": two books lose    *)
(* their health in one step only if their shard closes or stop() ends.      *)
GapIsIsolated ==
    [][\A s, r \in Symbols :
        /\ s # r
        /\ Healthy(state[s].book) /\ ~Healthy(state'[s].book)
        /\ Healthy(state[r].book) /\ ~Healthy(state'[r].book)
        => ShardOf[s] = ShardOf[r] /\ shard[ShardOf[s]] = "closing"]_vars

(* Under fair scheduling and a REST endpoint that keeps answering, a        *)
(* connected symbol without a book gets one, or its connection is lost.     *)
Recovers ==
    \A s \in Symbols :
        Running /\ state[s].connected /\ ~state[s].book.hasSnapshot
            ~> state[s].book.hasSnapshot \/ ~state[s].connected \/ ~Running

(* stop() completes: every shard it waits for runs its finally clause.      *)
StopCompletes == phase = "stopping" ~> phase = "stopped"

-----------------------------------------------------------------------------
\* What a reader of the books that trusts connected, synchronized ones sees.
ShownView(b) ==
    IF b.connected /\ b.synchronized
    THEN [up |-> TRUE, version |-> b.lastId, levels |-> b.levels]
    ELSE [up |-> FALSE, version |-> 0, levels |-> EmptyLadder]

Replica == INSTANCE MarketReplica
               WITH view <- [s \in Symbols |-> ShownView(state[s].book)]

(* The manager implements the replica its readers rely on.                  *)
ImplementsReplica == Replica!Spec
=============================================================================
