---------------------------- MODULE PublicClient ----------------------------
(***************************************************************************)
(* src/tri_arb/mexc_public.py, and the REST half of binance_public.py,     *)
(* which is the same code: the stream of depth updates that shards of one  *)
(* socket each feed into a bounded queue, read by one consumer (the book   *)
(* manager), and the request that retries.  close() may come at any time.  *)
(*                                                                         *)
(* An update is its symbol and version; the exchange publishes versions    *)
(* 1, 2, ... of every symbol, and a socket carries them in order.  The     *)
(* sets got and lost only remember what became of each version.            *)
(***************************************************************************)
EXTENDS Integers, Sequences, FiniteSets

CONSTANTS
    Monitored,      \* the symbols of subscribe_depth, in order
    MaxStreams,     \* max_streams_per_connection
    QueueSize,      \* update_queue_size
    MaxRetries,     \* max_retries of a REST request
    RetryCap,       \* the longest Retry-After that is obeyed, in ticks
    Told,           \* the Retry-After values a server sends, 0 for none
    MaxUpdates      \* bound: versions of a symbol

ASSUME ClientAssumption ==
    /\ Monitored \in Seq(STRING) /\ Len(Monitored) > 0
    /\ \A i, j \in DOMAIN Monitored : Monitored[i] = Monitored[j] => i = j
    /\ MaxStreams \in Nat \ {0} /\ QueueSize \in Nat \ {0}
    /\ MaxRetries \in Nat /\ RetryCap \in Nat \ {0} /\ Told \subseteq Nat
    /\ MaxUpdates \in Nat

Positions == DOMAIN Monitored
Symbols == {Monitored[i] : i \in Positions}

ShardOfPositionOverlapping(i) == {1 + ((i - 1) \div MaxStreams), 1 + (i \div MaxStreams)}

\* depth_shards: consecutive slices of at most MaxStreams symbols.
ShardOfPosition(i) == {1 + ((i - 1) \div MaxStreams)}

Shards == UNION {ShardOfPosition(i) : i \in Positions}
ShardsOf(s) == UNION {ShardOfPosition(i) : i \in {j \in Positions : Monitored[j] = s}}

VARIABLES
    closed,         \* _closed
    reading,        \* the consumer is inside subscribe_depth
    shard,          \* what each shard task does: its phase and, in "putting", its update
    inbox,          \* frames that the socket of a shard has received
    queue,          \* updates for the consumer
    sent,           \* latest version of each symbol
    got, lost,      \* versions that reached the consumer, or never will
    rest            \* the REST request in progress

stream == <<reading, shard, inbox, queue, sent, got, lost>>
vars == <<closed, stream, rest>>

Update(s, v) == [symbol |-> s, version |-> v]
Updates == [symbol : Symbols, version : 1..MaxUpdates]
Idle(phase) == [phase |-> phase, held |-> <<>>]

NoRequest == [phase |-> "idle", attempt |-> 0, told |-> 0, wait |-> 0, since |-> 0]

Of(s, updates) == {updates[i].version : i \in {j \in DOMAIN updates : updates[j].symbol = s}}
Losing(updates) == [s \in Symbols |-> lost[s] \cup Of(s, updates)]

Init ==
    /\ closed = FALSE
    /\ reading = TRUE
    /\ shard = [h \in Shards |-> Idle("connecting")]
    /\ inbox = [h \in Shards |-> <<>>]
    /\ queue = <<>>
    /\ sent = [s \in Symbols |-> 0]
    /\ got = [s \in Symbols |-> {}]
    /\ lost = [s \in Symbols |-> {}]
    /\ rest = NoRequest

-----------------------------------------------------------------------------
(* The exchange.                                                           *)

Subscribed(h) == shard[h].phase \in {"open", "putting"}

\* A version reaches the sockets that are subscribed to its symbol, or nobody.
Publish(s) ==
    /\ sent[s] < MaxUpdates
    /\ sent' = [sent EXCEPT ![s] = @ + 1]
    /\ LET takers == {h \in ShardsOf(s) : Subscribed(h)}
       IN  /\ inbox' = [h \in Shards |->
                IF h \in takers THEN Append(inbox[h], Update(s, sent[s] + 1)) ELSE inbox[h]]
           /\ lost' = IF takers = {} THEN [lost EXCEPT ![s] = @ \cup {sent[s] + 1}] ELSE lost
    /\ UNCHANGED <<closed, reading, shard, queue, got, rest>>

-----------------------------------------------------------------------------
(* A shard task.                                                           *)

MovesTo(h, phase) == shard' = [shard EXCEPT ![h] = Idle(phase)]

\* Connected, and the subscription sent: the back-off starts over, even if the
\* exchange then refuses the subscription.
Connects(h) ==
    /\ shard[h].phase = "connecting" /\ ~closed
    /\ MovesTo(h, "open")
    /\ UNCHANGED <<closed, reading, inbox, queue, sent, got, lost, rest>>

ConnectFailsForGood(h) ==
    /\ shard[h].phase = "connecting" /\ ~closed
    /\ MovesTo(h, "ended")
    /\ UNCHANGED <<closed, reading, inbox, queue, sent, got, lost, rest>>

ConnectFails(h) ==
    /\ shard[h].phase = "connecting" /\ ~closed
    /\ MovesTo(h, "backoff")
    /\ UNCHANGED <<closed, reading, inbox, queue, sent, got, lost, rest>>

\* The socket closes or fails, or a control frame is refused: the shard
\* connects anew, and nobody else is told.
Disconnects(h) ==
    /\ shard[h].phase = "open" /\ ~closed
    /\ MovesTo(h, "backoff")
    /\ inbox' = [inbox EXCEPT ![h] = <<>>]
    /\ lost' = Losing(inbox[h])
    /\ UNCHANGED <<closed, reading, queue, sent, got, rest>>

BackoffOver(h) ==
    /\ shard[h].phase = "backoff" /\ ~closed
    /\ MovesTo(h, "connecting")
    /\ UNCHANGED <<closed, reading, inbox, queue, sent, got, lost, rest>>

Room == Len(queue) < QueueSize

ReceivesDropping(h) ==
    /\ shard[h].phase = "open" /\ inbox[h] # <<>> /\ ~closed
    /\ inbox' = [inbox EXCEPT ![h] = Tail(@)]
    /\ queue' = IF Room THEN Append(queue, Head(inbox[h])) ELSE queue
    /\ UNCHANGED <<closed, reading, shard, sent, got, lost, rest>>

\* The next frame goes into the queue, or is held until there is room.
Receives(h) ==
    /\ shard[h].phase = "open" /\ inbox[h] # <<>> /\ ~closed
    /\ inbox' = [inbox EXCEPT ![h] = Tail(@)]
    /\ \/ /\ Room
          /\ queue' = Append(queue, Head(inbox[h]))
          /\ UNCHANGED shard
       \/ /\ ~Room
          /\ shard' = [shard EXCEPT ![h] = [phase |-> "putting", held |-> <<Head(inbox[h])>>]]
          /\ UNCHANGED queue
    /\ UNCHANGED <<closed, reading, sent, got, lost, rest>>

\* A frame that cannot be decoded, or is for another symbol, is discarded.
Discards(h) ==
    /\ shard[h].phase = "open" /\ inbox[h] # <<>> /\ ~closed
    /\ inbox' = [inbox EXCEPT ![h] = Tail(@)]
    /\ lost' = Losing(<<Head(inbox[h])>>)
    /\ UNCHANGED <<closed, reading, shard, queue, sent, got, rest>>

Puts(h) ==
    /\ shard[h].phase = "putting" /\ Room
    /\ queue' = queue \o shard[h].held
    /\ MovesTo(h, "open")
    /\ UNCHANGED <<closed, reading, inbox, sent, got, lost, rest>>

\* After close(): the loop is left without a word to the consumer.
ShardReturns(h) ==
    /\ closed /\ shard[h].phase \in {"connecting", "backoff", "open"}
    /\ MovesTo(h, "ended")
    /\ inbox' = [inbox EXCEPT ![h] = <<>>]
    /\ lost' = Losing(inbox[h])
    /\ UNCHANGED <<closed, reading, queue, sent, got, rest>>

-----------------------------------------------------------------------------
(* The consumer.                                                           *)

Yields ==
    /\ reading /\ queue # <<>>
    /\ got' = [got EXCEPT ![Head(queue).symbol] = @ \cup {Head(queue).version}]
    /\ queue' = Tail(queue)
    /\ UNCHANGED <<closed, reading, shard, inbox, sent, lost, rest>>

InTransit(s) ==
    Of(s, queue) \cup UNION {Of(s, inbox[h]) \cup Of(s, shard[h].held) : h \in Shards}

\* The manager cancels its shard, and the generator's finally clause the tasks.
Unsubscribes ==
    /\ reading
    /\ reading' = FALSE
    /\ shard' = [h \in Shards |-> Idle("ended")]
    /\ lost' = [s \in Symbols |-> lost[s] \cup InTransit(s)]
    /\ inbox' = [h \in Shards |-> <<>>]
    /\ queue' = <<>>
    /\ UNCHANGED <<closed, sent, got, rest>>

Close ==
    /\ ~closed
    /\ closed' = TRUE
    /\ UNCHANGED <<stream, rest>>

-----------------------------------------------------------------------------
(* _request_json.                                                          *)

\* A closed client refuses at once, without a request.
Asks ==
    /\ rest.phase = "idle" /\ ~closed
    /\ rest' = [NoRequest EXCEPT !.phase = "asked"]
    /\ UNCHANGED <<closed, stream>>

\* A body, an unreadable one, or an error that is not worth another attempt.
Settles ==
    /\ rest.phase = "asked"
    /\ rest' = NoRequest
    /\ UNCHANGED <<closed, stream>>

LastAttempt == rest.attempt >= MaxRetries

DelayIgnoringServer(told, backoff) == backoff

\* Retry-After, up to a minute, in place of the back-off.
Delay(told, backoff) ==
    IF told = 0 THEN backoff ELSE IF told < RetryCap THEN told ELSE RetryCap

\* Busy, rate-limited or unreachable: told is 0 without a usable Retry-After.
Fails(told) ==
    /\ rest.phase = "asked"
    /\ \E backoff \in 0..RetryCap :
        rest' = IF LastAttempt THEN NoRequest
                ELSE [phase |-> "sleeping", attempt |-> rest.attempt, told |-> told,
                      wait |-> Delay(told, backoff), since |-> 0]
    /\ UNCHANGED <<closed, stream>>

TimePasses ==
    /\ rest.phase = "sleeping" /\ rest.wait > 0
    /\ rest' = [rest EXCEPT !.wait = @ - 1, !.since = @ + 1]
    /\ UNCHANGED <<closed, stream>>

\* The session of a closed client raises instead of sending.
AsksAgain ==
    /\ rest.phase = "sleeping" /\ rest.wait = 0
    /\ rest' = IF closed THEN NoRequest
               ELSE [rest EXCEPT !.phase = "asked", !.attempt = @ + 1]
    /\ UNCHANGED <<closed, stream>>

-----------------------------------------------------------------------------

ShardStep(h) ==
    \/ Connects(h) \/ ConnectFails(h) \/ Disconnects(h) \/ BackoffOver(h)
    \/ Receives(h) \/ Discards(h) \/ Puts(h) \/ ShardReturns(h)

Request == Asks \/ Settles \/ (\E told \in Told \cup {0} : Fails(told)) \/ TimePasses \/ AsksAgain

Next ==
    \/ \E s \in Symbols : Publish(s)
    \/ \E h \in Shards : ShardStep(h)
    \/ Yields \/ Unsubscribes \/ Close \/ Request

Spec == Init /\ [][Next]_vars

\* The event loop runs every task that can go on; a server answers or the
\* client's time-out does; and the exchange lets a shard in at last.
Fairness ==
    /\ \A h \in Shards :
        /\ WF_vars(BackoffOver(h) \/ ShardReturns(h))
        /\ WF_vars(Puts(h))
        /\ SF_vars(Connects(h))
    /\ WF_vars(Yields)
    /\ WF_vars(Settles \/ (\E told \in Told \cup {0} : Fails(told)))
    /\ WF_vars(TimePasses) /\ WF_vars(AsksAgain)

FairSpec == Spec /\ Fairness

-----------------------------------------------------------------------------
(* Properties.                                                             *)

\* Backpressure and silent reconnects neither repeat, reorder nor mislay an
\* update: what the consumer got of a symbol comes before what is in transit,
\* and each version is in one place or was lost with a socket.
UpdatesAccounted ==
    \A s \in Symbols :
        /\ got[s] \cup InTransit(s) \cup lost[s] = 1..sent[s]
        /\ got[s] \cap (InTransit(s) \cup lost[s]) = {}
        /\ InTransit(s) \cap lost[s] = {}

\* The consumer sees the versions of a symbol rise, so that whatever is missing
\* shows as a gap in them.
LossesShowAsGaps ==
    [][\A s \in Symbols : got'[s] # got[s] =>
            \A new \in got'[s] \ got[s], old \in got[s] : old < new]_vars

\* A request is sent again only after the wait that the server asked for, up
\* to the cap, and never by a closed client.
RetriesAsTold ==
    [][rest.phase = "sleeping" /\ rest'.phase = "asked" =>
        /\ ~closed
        /\ rest.since >= rest.told \/ rest.since >= RetryCap
        /\ rest'.attempt <= MaxRetries]_vars

\* Every request ends, whatever the server answers; a shard that lost its
\* socket has one again, unless its client or consumer has gone; and a full
\* queue holds a shard up only as long as nobody reads.
NothingHangs ==
    /\ (rest.phase # "idle") ~> (rest.phase = "idle")
    /\ \A h \in Shards :
        /\ (shard[h].phase = "backoff") ~> (shard[h].phase = "open" \/ closed \/ ~reading)
        /\ (shard[h].phase = "putting") ~> (shard[h].phase # "putting")
=============================================================================
