------------------------------ MODULE BookFeed -------------------------------
(***************************************************************************)
(* One OrderBook driven directly, the way deterministic replay and the     *)
(* unit tests drive it: any snapshot, then any depth events, in any order, *)
(* repeated, overlapping or with some missing.  The exchange's history is  *)
(* chosen once and for all from Histories.                                 *)
(***************************************************************************)
EXTENDS Exchange

CONSTANT
    Histories   \* the ladders at ids 0..MaxId the exchange may go through

ASSUME HistoriesAssumption ==
    /\ MaxId \in Nat
    /\ Histories \subseteq [0..MaxId -> Ladder]

VARIABLES
    published,  \* the exchange's ladder at each update id
    local       \* the OrderBook that follows it

feedVars == <<published, local>>

FeedTypeOK ==
    /\ published \in Histories
    /\ local \in Book

FeedInit ==
    /\ published \in Histories
    /\ local = NewBook

LoadsSnapshot ==
    /\ \E version \in 0..MaxId :
           local' = LoadSnapshot(local, RestSnapshot(published, version))
    /\ UNCHANGED published

AppliesUpdate ==
    /\ local.hasSnapshot
    /\ \E first \in 1..MaxId : \E final \in first..MaxId, pu \in PuValues(first) :
           local' = ApplyUpdate(local, DepthEvent(published, first, final, pu)).book
    /\ UNCHANGED published

LosesConnection ==
    /\ local' = MarkDisconnected(local)
    /\ UNCHANGED published

Resyncs ==
    /\ local' = MarkResync(local)
    /\ UNCHANGED published

FeedNext == LoadsSnapshot \/ AppliesUpdate \/ LosesConnection \/ Resyncs

FeedSpec == FeedInit /\ [][FeedNext]_feedVars

-----------------------------------------------------------------------------
(* A book with a snapshot never shows a level the exchange did not quote   *)
(* at the book's own update id: gap detection (orderbook.py:294-319,       *)
(* mexc_orderbook.py:200-223) rejects every event that would mix versions. *)
Faithful == FaithfulTo(local, published)

(* While the exchange never quotes more than max_depth levels on a side,   *)
(* the local book is the exchange's ladder, level for level.               *)
Complete == CompleteFor(local, published)

(* The crossed flag blames the exchange only when the exchange is crossed: *)
(* trimming and partial replay never make a book look crossed.             *)
CrossedOnlyWithExchange == CrossedOnlyAsIn(local, published)
=============================================================================
