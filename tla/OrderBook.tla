------------------------------ MODULE OrderBook ------------------------------
(***************************************************************************)
(* One bounded local order book: src/tri_arb/orderbook.py (Binance) and    *)
(* src/tri_arb/mexc_orderbook.py (MEXC), as operators from a book to a     *)
(* book.  Both sides live in one function: levels[<<side, price>>] is the  *)
(* quantity quoted at that price, 0 when the price is not in the           *)
(* dictionary.  Prices and quantities are naturals (the Decimal values     *)
(* only ever get compared and copied here).  Timestamps and counters of    *)
(* the metrics object are left out: no sequence decision reads them.       *)
(***************************************************************************)
EXTENDS Integers, FiniteSets

CONSTANTS
    Prices,         \* price grid
    Quantities,     \* quantities a level may carry, 0 = no level
    MaxDepth,       \* max_depth: levels kept on each side
    SnapshotLimit,  \* snapshot_limit: levels a REST snapshot carries per side
    Policy          \* which apply_update: "binance" or "mexc"

ASSUME PricesAssumption ==
    /\ Prices \subseteq Nat
    /\ IsFiniteSet(Prices)
ASSUME QuantitiesAssumption == Quantities \subseteq Nat /\ 0 \in Quantities
\* BookManager.__init__ rejects max_depth > snapshot_limit and max_depth <= 0.
ASSUME DepthAssumption ==
    /\ MaxDepth \in Nat \ {0}
    /\ SnapshotLimit \in Nat
    /\ MaxDepth <= SnapshotLimit
ASSUME PolicyAssumption == Policy \in {"binance", "mexc"}

Sides == {"bids", "asks"}
Keys == Sides \X Prices
Ladder == [Keys -> Quantities]
EmptyLadder == [k \in Keys |-> 0]

\* last_update_id = None, and a depth event without the optional "pu" field.
NoId == -1
NoPu == -1

Book == [levels : Ladder, lastId : Nat \union {NoId}, synchronized : BOOLEAN,
         connected : BOOLEAN, crossed : BOOLEAN, hasSnapshot : BOOLEAN]

\* A depth event covers the updates first..final; its levels are absolute
\* quantities for the prices it names.
Event == [first : Nat, final : Nat, pu : Nat \union {NoPu},
          levels : UNION {[K -> Quantities] : K \in SUBSET Keys}]

Snapshot == [id : Nat, levels : Ladder]

-----------------------------------------------------------------------------
\* Ladders

Quoted(levels, side) == {p \in Prices : levels[<<side, p>>] # 0}

Outranks(side, p, q) == IF side = "bids" THEN p > q ELSE p < q

\* The best n levels of each side (bids descending, asks ascending).
Top(levels, n) ==
    [k \in Keys |->
        IF Cardinality({p \in Quoted(levels, k[1]) : Outranks(k[1], p, k[2])}) < n
        THEN levels[k] ELSE 0]

\* Mutated form: keeps one level too few.
TrimOneShort(levels) == Top(levels, MaxDepth - 1)

Trim(levels) == Top(levels, MaxDepth)

IsCrossed(levels) ==
    \E b \in Quoted(levels, "bids"), a \in Quoted(levels, "asks") : b >= a

\* Mutated form: forgets that a zero quantity removes the price.
OverlayKeepingZeroed(levels, changes) ==
    [k \in Keys |->
        IF k \in DOMAIN changes /\ changes[k] # 0 THEN changes[k] ELSE levels[k]]

\* _update_level for every level of a batch: an absolute quantity replaces the
\* stored one and a zero removes the price.
Overlay(levels, changes) ==
    [k \in Keys |-> IF k \in DOMAIN changes THEN changes[k] ELSE levels[k]]

-----------------------------------------------------------------------------
\* Book operations

NewBook == [levels |-> EmptyLadder, lastId |-> NoId, synchronized |-> FALSE,
            connected |-> TRUE, crossed |-> FALSE, hasSnapshot |-> FALSE]

\* reset(connected=c); reset() keeps the flag, so MarkResync passes it through.
Reset(b, c) == [NewBook EXCEPT !.connected = c]

MarkResync(b) == Reset(b, b.connected)

MarkDisconnected(b) == [b EXCEPT !.connected = FALSE, !.synchronized = FALSE]

LoadSnapshot(b, snap) ==
    LET kept == Trim(snap.levels) IN
    [levels |-> kept, lastId |-> snap.id, synchronized |-> FALSE,
     connected |-> TRUE, crossed |-> IsCrossed(kept), hasSnapshot |-> TRUE]

Stale(b, e) == e.final <= b.lastId

\* Mutated form: tolerates one missing update id.
GapToleratingOne(b, e) == e.first > b.lastId + 2

\* Binance accepts an event that overlaps what is already applied; once
\* synchronized, a "pu" that is present must name the local id.  MEXC lets the
\* first event after a snapshot overlap and then wants exact contiguity.
Gap(b, e) ==
    IF Policy = "binance"
    THEN \/ e.first > b.lastId + 1
         \/ b.synchronized /\ e.pu # NoPu /\ e.pu # b.lastId
    ELSE IF b.synchronized THEN e.first # b.lastId + 1
                           ELSE e.first > b.lastId + 1

\* Mutated form: keeps the crossed flag of the book before the event.
AcceptedKeepingFlag(b, e) ==
    [b EXCEPT !.levels = Trim(Overlay(@, e.levels)), !.lastId = e.final,
              !.synchronized = TRUE]

\* The event is applied: absolute quantities, trim, new id, crossed check.
Accepted(b, e) ==
    LET kept == Trim(Overlay(b.levels, e.levels)) IN
    [b EXCEPT !.levels = kept, !.lastId = e.final, !.synchronized = TRUE,
              !.crossed = IsCrossed(kept)]

\* _gap_result: levels and id stay, but the book needs a new snapshot.
GapResult(b) == [b EXCEPT !.synchronized = FALSE, !.hasSnapshot = FALSE]

\* Mutated form: applies events the book already covers.
ApplyUpdateIgnoringStale(b, e) ==
    IF Gap(b, e) THEN [status |-> "gap", book |-> GapResult(b)]
                 ELSE [status |-> "applied", book |-> Accepted(b, e)]

\* apply_update on a book that has a snapshot (the code raises otherwise).
ApplyUpdate(b, e) ==
    IF Stale(b, e) THEN [status |-> "stale", book |-> b]
    ELSE IF Gap(b, e) THEN [status |-> "gap", book |-> GapResult(b)]
    ELSE LET next == Accepted(b, e) IN
         [status |-> IF next.crossed THEN "crossed" ELSE "applied", book |-> next]

Healthy(b) ==
    /\ b.connected
    /\ b.synchronized
    /\ ~b.crossed
    /\ \A side \in Sides : Quoted(b.levels, side) # {}
=============================================================================
