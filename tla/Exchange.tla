------------------------------ MODULE Exchange -------------------------------
(***************************************************************************)
(* What the exchange publishes about one symbol, as the code in            *)
(* src/tri_arb/ consumes it (docs/methodology.md, orderbook.py,            *)
(* binance_public.py): a history of full ladders indexed by update id, of  *)
(* which a client only ever sees truncated REST snapshots and diff-depth   *)
(* batches.  A batch first..final names every price some update in that    *)
(* range changed, with its quantity after the last one.                    *)
(***************************************************************************)
EXTENDS OrderBook

CONSTANT MaxId  \* bound: last update id of the exchange's history

Touched(history, first, final) ==
    {k \in Keys : \E w \in first..final : history[w][k] # history[first - 1][k]}

DepthEvent(history, first, final, pu) ==
    [first |-> first, final |-> final, pu |-> pu,
     levels |-> [k \in Touched(history, first, final) |-> history[final][k]]]

\* "Some Binance-compatible feeds include pu"; MEXC batches never do.
PuValues(first) == IF Policy = "binance" THEN {NoPu, first - 1} ELSE {NoPu}

RestSnapshot(history, version) ==
    [id |-> version, levels |-> Top(history[version], SnapshotLimit)]

-----------------------------------------------------------------------------
\* What a local book should say about the exchange.

\* Every level the book shows is the exchange's level at the book's own id.
FaithfulTo(b, history) ==
    b.hasSnapshot =>
        /\ b.lastId \in DOMAIN history
        /\ \A k \in Keys : b.levels[k] \in {0, history[b.lastId][k]}

\* No side of the exchange's ladder was ever deeper than the local book.
Shallow(history) ==
    \A v \in DOMAIN history, side \in Sides :
        Cardinality(Quoted(history[v], side)) <= MaxDepth

CompleteFor(b, history) ==
    b.hasSnapshot /\ Shallow(history) => b.levels = history[b.lastId]

\* A local book looks crossed only while the exchange itself is crossed.
CrossedOnlyAsIn(b, history) ==
    b.hasSnapshot /\ b.crossed => IsCrossed(history[b.lastId])
=============================================================================
