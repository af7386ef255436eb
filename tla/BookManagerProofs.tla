--------------------------- MODULE BookManagerProofs ---------------------------
(***************************************************************************)
(* Type correctness and faithfulness of the managed books, and that they   *)
(* never roll back, for every set of symbols and shards, every history,    *)
(* buffer size, depth, policy and bound, with or without direct calls of   *)
(* the API.                                                                *)
(*                                                                         *)
(* BooksFaithful is not inductive: a book becomes what the buffer and the  *)
(* snapshot make of it, so the invariant adds that buffered events are     *)
(* truthful, and (for the same record) that a symbol with a backlog has no *)
(* book.  That a late answer never replaces a live book by an older one    *)
(* needs TasksOK: only a synchronization with the current token may load,  *)
(* and while there is one its symbol has no book.  SymbolOK gathers what   *)
(* is true of one symbol; each operation on a _SymbolState has a lemma,    *)
(* and each action of the manager a case.                                  *)
(*                                                                         *)
(* The operators of OrderBook and Exchange come first, and the book that   *)
(* BookFeed drives directly: its inductive invariant is the conjunction of *)
(* the properties its run checks and of FlagExplained, without which a     *)
(* crossed flag inherited from an earlier event could outlive its reason.  *)
(*                                                                         *)
(* Then what Replay computes: the buffered events of a truthful stream,    *)
(* applied in order to a faithful book, leave a faithful book.             *)
(* Replay is a recursive function on 0..Len(events); both its existence    *)
(* and the induction over it are argued by least counterexample, on sets   *)
(* of naturals, because the well-foundedness theorem for sets applies      *)
(* where the induction theorems for operators do not.                      *)
(*                                                                         *)
(* What readers rely on comes last: the refinement of MarketReplica, and   *)
(* that no wakeup is lost.                                                 *)
(***************************************************************************)
EXTENDS BookManager, BookFeed, FiniteSetTheorems, WellFoundedInduction, TLAPS

-----------------------------------------------------------------------------
\* What loading a snapshot and applying an event do to a book, for every history

(* The best n levels of a ladder are levels of that ladder.                 *)
LEMMA TopType ==
    ASSUME NEW levels \in Ladder, NEW n
    PROVE  /\ Top(levels, n) \in Ladder
           /\ \A k \in Keys : Top(levels, n)[k] \in {0, levels[k]}
  BY QuantitiesAssumption DEF Top, Ladder

(* A batch on top of a ladder is a ladder.                                  *)
LEMMA OverlayType ==
    ASSUME NEW levels \in Ladder, NEW e \in Event
    PROVE  Overlay(levels, e.levels) \in Ladder
<1>1. PICK K \in SUBSET Keys : e.levels \in [K -> Quantities]
  BY DEF Event
<1> QED  BY <1>1 DEF Overlay, Ladder

(* Applying an event keeps the type of a book, and its id never decreases.  *)
LEMMA ApplyUpdateType ==
    ASSUME NEW b \in Book, NEW e \in Event
    PROVE  /\ ApplyUpdate(b, e).book \in Book
           /\ ApplyUpdate(b, e).status \in {"stale", "gap", "applied", "crossed"}
           /\ ApplyUpdate(b, e).book.lastId >= b.lastId
           /\ ApplyUpdate(b, e).book.connected = b.connected
           /\ ApplyUpdate(b, e).book.hasSnapshot
                <=> b.hasSnapshot /\ ApplyUpdate(b, e).status # "gap"
<1> DEFINE next == Accepted(b, e)
<1>1. b.levels \in Ladder /\ b.lastId \in Int /\ e.final \in Nat
  BY DEF Book, Event, NoId
<1>2. Trim(Overlay(b.levels, e.levels)) \in Ladder
  BY <1>1, OverlayType, TopType DEF Trim
<1>3. \A l : IsCrossed(l) \in BOOLEAN
  BY DEF IsCrossed
<1>4. next \in Book /\ next.lastId = e.final /\ next.connected = b.connected
      /\ next.hasSnapshot = b.hasSnapshot
  BY <1>2, <1>3 DEF Accepted, Book, Event
<1>5. GapResult(b) \in Book /\ GapResult(b).lastId = b.lastId
      /\ GapResult(b).connected = b.connected /\ GapResult(b).hasSnapshot = FALSE
  BY DEF GapResult, Book
<1>6. CASE Stale(b, e)
  <2>1. ApplyUpdate(b, e) = [status |-> "stale", book |-> b]
    BY <1>6 DEF ApplyUpdate
  <2> QED  BY <2>1, <1>1
<1>7. CASE ~Stale(b, e) /\ Gap(b, e)
  <2>1. ApplyUpdate(b, e) = [status |-> "gap", book |-> GapResult(b)]
    BY <1>7 DEF ApplyUpdate
  <2> QED  BY <2>1, <1>5, <1>1
<1>8. CASE ~Stale(b, e) /\ ~Gap(b, e)
  <2> HIDE DEF next
  <2>1. ApplyUpdate(b, e) = [status |-> IF next.crossed THEN "crossed" ELSE "applied",
                             book |-> next]
    BY <1>8 DEF ApplyUpdate, next
  <2> QED  BY <2>1, <1>8, <1>4, <1>1 DEF Stale
<1> QED  BY <1>6, <1>7, <1>8

(* The events of a history are well typed.                                  *)
LEMMA DepthEventType ==
    ASSUME NEW N \in Nat, NEW history \in [0..N -> Ladder],
           NEW first \in 1..N, NEW final \in first..N, NEW pu \in PuValues(first)
    PROVE  DepthEvent(history, first, final, pu) \in Event
<1>1. Touched(history, first, final) \in SUBSET Keys
  BY DEF Touched
<1>2. final \in 0..N /\ history[final] \in [Keys -> Quantities]
  BY DEF Ladder
<1>3. [k \in Touched(history, first, final) |-> history[final][k]]
        \in [Touched(history, first, final) -> Quantities]
  BY <1>1, <1>2
<1>4. pu \in Nat \union {NoPu}
  BY DEF PuValues
<1> QED  BY <1>1, <1>3, <1>4 DEF DepthEvent, Event

(* So are its snapshots, and they show only levels of their version.        *)
LEMMA RestSnapshotType ==
    ASSUME NEW N \in Nat, NEW history \in [0..N -> Ladder], NEW version \in 0..N
    PROVE  /\ RestSnapshot(history, version) \in Snapshot
           /\ \A k \in Keys : RestSnapshot(history, version).levels[k]
                                \in {0, history[version][k]}
  BY TopType DEF RestSnapshot, Snapshot

(* A book just loaded from a snapshot of a history is faithful to it.       *)
LEMMA LoadFaithful ==
    ASSUME NEW N \in Nat, NEW history \in [0..N -> Ladder], NEW version \in 0..N,
           NEW b
    PROVE  LET loaded == LoadSnapshot(b, RestSnapshot(history, version)) IN
           /\ loaded \in Book
           /\ loaded.hasSnapshot
           /\ loaded.connected
           /\ loaded.lastId = version
           /\ FaithfulTo(loaded, history)
<1> DEFINE snap == RestSnapshot(history, version)
           kept == Trim(snap.levels)
           loaded == LoadSnapshot(b, snap)
<1>1. snap \in Snapshot /\ snap.id = version
      /\ \A k \in Keys : snap.levels[k] \in {0, history[version][k]}
  BY RestSnapshotType DEF RestSnapshot
<1>2. snap.levels \in Ladder
  BY <1>1 DEF Snapshot
<1>3. kept \in Ladder /\ \A k \in Keys : kept[k] \in {0, snap.levels[k]}
  BY <1>2, TopType DEF Trim
<1>4. \A k \in Keys : kept[k] \in {0, history[version][k]}
  BY <1>1, <1>3
<1>5. IsCrossed(kept) \in BOOLEAN
  BY DEF IsCrossed
<1> HIDE DEF snap, kept
<1>6. loaded = [levels |-> kept, lastId |-> version, synchronized |-> FALSE,
                connected |-> TRUE, crossed |-> IsCrossed(kept), hasSnapshot |-> TRUE]
  BY <1>1 DEF LoadSnapshot, kept
<1>7. loaded \in Book
  BY <1>3, <1>5, <1>6 DEF Book
<1>8. FaithfulTo(loaded, history)
  BY <1>4, <1>6 DEF FaithfulTo
<1> QED  BY <1>6, <1>7, <1>8 DEF snap

(* The heart of gap detection: an event of a history that is applied to a   *)
(* book faithful to that history leaves it faithful, at the event's id.     *)
LEMMA ApplyUpdateFaithful ==
    ASSUME NEW N \in Nat, NEW history \in [0..N -> Ladder],
           NEW first \in 1..N, NEW final \in first..N, NEW pu \in PuValues(first),
           NEW b \in Book, b.hasSnapshot, FaithfulTo(b, history)
    PROVE  LET e == DepthEvent(history, first, final, pu) IN
           /\ FaithfulTo(ApplyUpdate(b, e).book, history)
           /\ ApplyUpdate(b, e).book.lastId \in {b.lastId, final}
<1> DEFINE e == DepthEvent(history, first, final, pu)
           over == Overlay(b.levels, e.levels)
           next == Accepted(b, e)
<1>1. e \in Event /\ e.first = first /\ e.final = final
  BY DepthEventType DEF DepthEvent
<1>2. b.lastId \in 0..N /\ \A k \in Keys : b.levels[k] \in {0, history[b.lastId][k]}
  BY DEF FaithfulTo
<1>3. CASE Stale(b, e)
  BY <1>3 DEF ApplyUpdate
<1>4. CASE ~Stale(b, e) /\ Gap(b, e)
  <2>1. ApplyUpdate(b, e).book = GapResult(b)
    BY <1>4 DEF ApplyUpdate
  <2>2. GapResult(b).hasSnapshot = FALSE /\ GapResult(b).lastId = b.lastId
    BY DEF GapResult, Book
  <2> QED  BY <2>1, <2>2 DEF FaithfulTo
<1>5. CASE ~Stale(b, e) /\ ~Gap(b, e)
  \* The event starts no later than the update after the book's id.
  <2>1. first - 1 <= b.lastId /\ b.lastId < final
    BY <1>1, <1>2, <1>5, PolicyAssumption DEF Stale, Gap
  \* A price the event does not name has not changed since the book's id.
  <2>2. ASSUME NEW k \in Keys, k \notin Touched(history, first, final)
        PROVE  history[b.lastId][k] = history[final][k]
    <3>1. \A w \in first..final : history[w][k] = history[first - 1][k]
      BY <2>2 DEF Touched
    <3>2. final \in first..final
      OBVIOUS
    <3>3. CASE b.lastId = first - 1
      BY <3>1, <3>2, <3>3
    <3>4. CASE b.lastId # first - 1
      <4>1. b.lastId \in first..final
        BY <2>1, <1>2, <3>4
      <4> QED  BY <3>1, <3>2, <4>1
    <3> QED  BY <3>3, <3>4
  <2>3. ASSUME NEW k \in Keys
        PROVE  over[k] \in {0, history[final][k]}
    <3>1. DOMAIN e.levels = Touched(history, first, final)
          /\ \A j \in Touched(history, first, final) : e.levels[j] = history[final][j]
      BY DEF DepthEvent
    <3>2. CASE k \in Touched(history, first, final)
      BY <3>1, <3>2 DEF Overlay
    <3>3. CASE k \notin Touched(history, first, final)
      <4>1. over[k] = b.levels[k]
        BY <3>1, <3>3 DEF Overlay
      <4> QED  BY <4>1, <3>3, <2>2, <1>2
    <3> QED  BY <3>2, <3>3
  <2>4. over \in Ladder
    BY <1>1, OverlayType DEF Book
  <2>5. \A k \in Keys : Trim(over)[k] \in {0, over[k]}
    BY <2>4, TopType DEF Trim
  <2>6. next.levels = Trim(over) /\ next.lastId = final /\ next.hasSnapshot
    BY <1>1 DEF Accepted, Book
  <2> HIDE DEF over, next
  <2>7. \A k \in Keys : next.levels[k] \in {0, history[final][k]}
    BY <2>3, <2>5, <2>6
  <2>8. FaithfulTo(next, history)
    BY <2>6, <2>7 DEF FaithfulTo
  <2>9. ApplyUpdate(b, e).book = next
    BY <1>5 DEF ApplyUpdate, next
  <2> QED  BY <2>6, <2>8, <2>9
<1> QED  BY <1>3, <1>4, <1>5

-----------------------------------------------------------------------------
\* Completeness: nothing is trimmed off a ladder that is not too deep.

(* A ladder with at most n levels on each side loses none to Top.           *)
LEMMA TopOfShallow ==
    ASSUME NEW levels \in Ladder, NEW n \in Nat,
           \A side \in Sides : Cardinality(Quoted(levels, side)) <= n
    PROVE  Top(levels, n) = levels
<1>1. ASSUME NEW side \in Sides, NEW p \in Quoted(levels, side)
      PROVE  Cardinality({q \in Quoted(levels, side) : Outranks(side, q, p)}) < n
  <2> DEFINE all == Quoted(levels, side)
             better == {q \in all : Outranks(side, q, p)}
  <2>1. IsFiniteSet(all) /\ all \subseteq Nat
    BY PricesAssumption, FS_Subset DEF Quoted
  <2>2. p \in all /\ p \notin better
    BY <2>1 DEF Outranks
  <2>3. better \subseteq all /\ better # all
    BY <2>2
  <2>4. Cardinality(better) < Cardinality(all)
        /\ Cardinality(better) \in Nat /\ Cardinality(all) \in Nat
    <3> HIDE DEF all, better
    <3>1. /\ IsFiniteSet(better)
          /\ Cardinality(better) <= Cardinality(all)
          /\ Cardinality(all) = Cardinality(better) => all = better
      BY <2>1, <2>3, FS_Subset
    <3> QED  BY <3>1, <2>1, <2>3, FS_CardinalityType
  <2> QED  BY <2>4
<1>2. ASSUME NEW k \in Keys
      PROVE  Top(levels, n)[k] = levels[k]
  <2>1. k[1] \in Sides /\ k[2] \in Prices /\ k = <<k[1], k[2]>>
    BY DEF Keys
  <2>2. levels[k] # 0 => k[2] \in Quoted(levels, k[1])
    BY <2>1 DEF Quoted
  <2> QED  BY <1>1, <2>1, <2>2 DEF Top
<1>3. Top(levels, n) \in [Keys -> Quantities] /\ levels \in [Keys -> Quantities]
  BY TopType DEF Ladder
<1> QED  BY <1>2, <1>3

(* A book loaded from a snapshot of a shallow history shows all of it.      *)
LEMMA LoadComplete ==
    ASSUME NEW N \in Nat, NEW history \in [0..N -> Ladder], NEW version \in 0..N,
           NEW b, Shallow(history)
    PROVE  LoadSnapshot(b, RestSnapshot(history, version)).levels = history[version]
<1>1. history[version] \in Ladder
      /\ \A side \in Sides : Cardinality(Quoted(history[version], side)) <= MaxDepth
  BY DEF Shallow
<1>2. \A side \in Sides : Cardinality(Quoted(history[version], side)) <= SnapshotLimit
  <2> SUFFICES ASSUME NEW side \in Sides
               PROVE  Cardinality(Quoted(history[version], side)) <= SnapshotLimit
    OBVIOUS
  <2>1. IsFiniteSet(Quoted(history[version], side))
    BY PricesAssumption, FS_Subset DEF Quoted
  <2> QED  BY <2>1, <1>1, FS_CardinalityType, DepthAssumption
<1>3. RestSnapshot(history, version).levels = history[version]
  BY <1>1, <1>2, TopOfShallow, DepthAssumption DEF RestSnapshot
<1> QED  BY <1>1, <1>3, TopOfShallow, DepthAssumption DEF LoadSnapshot, Trim

(* An event keeps a complete book complete.                                 *)
LEMMA ApplyUpdateComplete ==
    ASSUME NEW N \in Nat, NEW history \in [0..N -> Ladder],
           NEW first \in 1..N, NEW final \in first..N, NEW pu \in PuValues(first),
           NEW b \in Book, b.hasSnapshot, Shallow(history),
           b.lastId \in 0..N, b.levels = history[b.lastId]
    PROVE  LET e == DepthEvent(history, first, final, pu)
               r == ApplyUpdate(b, e).book
           IN  r.hasSnapshot => r.levels = history[r.lastId]
<1> DEFINE e == DepthEvent(history, first, final, pu)
           r == ApplyUpdate(b, e).book
<1>1. e \in Event /\ e.first = first /\ e.final = final
  BY DepthEventType DEF DepthEvent
<1>2. CASE Stale(b, e)
  BY <1>2 DEF ApplyUpdate
<1>3. CASE ~Stale(b, e) /\ Gap(b, e)
  BY <1>3 DEF ApplyUpdate, GapResult, Book
<1>4. CASE ~Stale(b, e) /\ ~Gap(b, e)
  <2>1. first - 1 <= b.lastId /\ b.lastId < final
    BY <1>1, <1>4, PolicyAssumption DEF Stale, Gap
  <2>2. ASSUME NEW k \in Keys, k \notin Touched(history, first, final)
        PROVE  history[b.lastId][k] = history[final][k]
    <3>1. \A w \in first..final : history[w][k] = history[first - 1][k]
      BY <2>2 DEF Touched
    <3>2. final \in first..final
      OBVIOUS
    <3>3. b.lastId = first - 1 \/ b.lastId \in first..final
      BY <2>1
    <3> QED  BY <3>1, <3>2, <3>3
  <2>3. history[final] \in Ladder
    OBVIOUS
  <2>4. Overlay(b.levels, e.levels) = history[final]
    BY <2>2, <2>3 DEF Overlay, DepthEvent, Ladder
  <2>5. \A side \in Sides : Cardinality(Quoted(history[final], side)) <= MaxDepth
    BY DEF Shallow
  <2>6. Trim(history[final]) = history[final]
    BY <2>3, <2>5, TopOfShallow, DepthAssumption DEF Trim
  <2>7. r.levels = Trim(Overlay(b.levels, e.levels)) /\ r.lastId = final
    BY <1>1, <1>4 DEF ApplyUpdate, Accepted, Book
  <2> QED  BY <2>4, <2>6, <2>7
<1> QED  BY <1>2, <1>3, <1>4

-----------------------------------------------------------------------------
\* One book, driven directly

FlagExplained == local.hasSnapshot /\ local.crossed => IsCrossed(local.levels)

FeedInv == FeedTypeOK /\ Faithful /\ Complete /\ FlagExplained

(* A new book satisfies the invariant.                                      *)
LEMMA InitFeedInv == FeedInit => FeedInv
<1> SUFFICES ASSUME FeedInit PROVE FeedInv
  OBVIOUS
<1>1. EmptyLadder \in Ladder
  BY QuantitiesAssumption DEF EmptyLadder, Ladder
<1>2. local \in Book /\ local.hasSnapshot = FALSE
  BY <1>1 DEF FeedInit, NewBook, Book
<1> QED  BY <1>2 DEF FeedInit, FeedInv, FeedTypeOK, Faithful, Complete, FlagExplained,
                     FaithfulTo, CompleteFor

(* Every operation on the book keeps it.                                    *)
LEMMA NextFeedInv == FeedInv /\ [FeedNext]_feedVars => FeedInv'
<1> SUFFICES ASSUME FeedInv, [FeedNext]_feedVars PROVE FeedInv'
  OBVIOUS
<1>1. published \in [0..MaxId -> Ladder] /\ published \in Histories /\ MaxId \in Nat
      /\ local \in Book
  BY HistoriesAssumption DEF FeedInv, FeedTypeOK
<1>2. CASE LoadsSnapshot
  <2>1. PICK version \in 0..MaxId :
            local' = LoadSnapshot(local, RestSnapshot(published, version))
    BY <1>2 DEF LoadsSnapshot
  <2>2. local' \in Book /\ local'.lastId = version /\ FaithfulTo(local', published)
    BY <2>1, <1>1, LoadFaithful
  <2>3. CompleteFor(local', published)
    BY <2>1, <2>2, <1>1, LoadComplete DEF CompleteFor
  <2>4. local'.crossed => IsCrossed(local'.levels)
    BY <2>1 DEF LoadSnapshot
  <2>5. published' = published
    BY <1>2 DEF LoadsSnapshot
  <2> QED  BY <2>2, <2>3, <2>4, <2>5, <1>1
           DEF FeedInv, FeedTypeOK, Faithful, Complete, FlagExplained
<1>3. CASE AppliesUpdate
  <2>0. PICK first \in 1..MaxId : \E final \in first..MaxId, pu \in PuValues(first) :
            local' = ApplyUpdate(local, DepthEvent(published, first, final, pu)).book
    BY <1>3 DEF AppliesUpdate
  <2>1. PICK final \in first..MaxId, pu \in PuValues(first) :
            local' = ApplyUpdate(local, DepthEvent(published, first, final, pu)).book
    BY <2>0
  <2>2. local.hasSnapshot /\ published' = published
    BY <1>3 DEF AppliesUpdate
  <2> DEFINE e == DepthEvent(published, first, final, pu)
  <2>3. e \in Event
    BY <1>1, DepthEventType
  <2>4. local' \in Book
    BY <2>1, <2>3, <1>1, ApplyUpdateType
  <2>5. FaithfulTo(local', published)
    BY <2>1, <2>2, <1>1, ApplyUpdateFaithful DEF FeedInv, Faithful
  <2>6. CompleteFor(local', published)
    <3> SUFFICES ASSUME Shallow(published) PROVE CompleteFor(local', published)
      BY DEF CompleteFor
    <3>1. local.lastId \in 0..MaxId /\ local.levels = published[local.lastId]
      BY <2>2, <1>1 DEF FeedInv, Faithful, FaithfulTo, Complete, CompleteFor
    <3> QED  BY <3>1, <2>1, <2>2, <1>1, ApplyUpdateComplete DEF CompleteFor
  <2>7. local'.hasSnapshot /\ local'.crossed => IsCrossed(local'.levels)
    BY <2>1, <2>2, <1>1 DEF ApplyUpdate, Accepted, GapResult, Book, FeedInv, FlagExplained
  <2> QED  BY <2>2, <2>4, <2>5, <2>6, <2>7, <1>1
           DEF FeedInv, FeedTypeOK, Faithful, Complete, FlagExplained
<1>4. CASE LosesConnection
  <2>1. local' \in Book /\ published' = published /\ local'.hasSnapshot = local.hasSnapshot
        /\ local'.levels = local.levels /\ local'.lastId = local.lastId
        /\ local'.crossed = local.crossed
    BY <1>1, <1>4 DEF LosesConnection, MarkDisconnected, Book
  <2> QED  BY <2>1, <1>1 DEF FeedInv, FeedTypeOK, Faithful, Complete, FlagExplained,
                             FaithfulTo, CompleteFor
<1>5. CASE Resyncs
  <2>1. EmptyLadder \in Ladder
    BY QuantitiesAssumption DEF EmptyLadder, Ladder
  <2>2. local' \in Book /\ published' = published /\ local'.hasSnapshot = FALSE
    BY <1>1, <1>5, <2>1 DEF Resyncs, MarkResync, Reset, NewBook, Book
  <2> QED  BY <2>2, <1>1 DEF FeedInv, FeedTypeOK, Faithful, Complete, FlagExplained,
                             FaithfulTo, CompleteFor
<1>6. CASE UNCHANGED feedVars
  BY <1>6 DEF feedVars, FeedInv, FeedTypeOK, Faithful, Complete, FlagExplained
<1> QED  BY <1>2, <1>3, <1>4, <1>5, <1>6 DEF FeedNext

(* The invariant holds of every reachable book.                             *)
LEMMA FeedInvHolds == FeedSpec => []FeedInv
<1> QED  BY InitFeedInv, NextFeedInv, PTL DEF FeedSpec

(* Book and history keep their types.                                       *)
THEOREM FeedTypeCorrect == FeedSpec => []FeedTypeOK
<1>1. FeedInv => FeedTypeOK
  BY DEF FeedInv
<1> QED  BY FeedInvHolds, <1>1, PTL

(* For every history and every order of snapshots and events, repeated or   *)
(* lost, a book shows only levels the exchange quoted at the book's id.     *)
THEOREM FeedFaithful == FeedSpec => []Faithful
<1>1. FeedInv => Faithful
  BY DEF FeedInv
<1> QED  BY FeedInvHolds, <1>1, PTL

(* A book at least as deep as the exchange ever gets shows all of it.       *)
THEOREM FeedComplete == FeedSpec => []Complete
<1>1. FeedInv => Complete
  BY DEF FeedInv
<1> QED  BY FeedInvHolds, <1>1, PTL

(* A book is flagged crossed only while the exchange is crossed.            *)
THEOREM FeedCrossedOnlyWithExchange == FeedSpec => []CrossedOnlyWithExchange
<1>1. FeedInv => CrossedOnlyWithExchange
  <2> SUFFICES ASSUME FeedInv, local.hasSnapshot, local.crossed
               PROVE  IsCrossed(published[local.lastId])
    BY DEF CrossedOnlyWithExchange, CrossedOnlyAsIn
  <2>1. PICK bid \in Quoted(local.levels, "bids"), ask \in Quoted(local.levels, "asks") :
            bid >= ask
    BY DEF FeedInv, FlagExplained, IsCrossed
  <2>2. <<"bids", bid>> \in Keys /\ <<"asks", ask>> \in Keys
        /\ bid \in Prices /\ ask \in Prices
        /\ local.levels[<<"bids", bid>>] # 0 /\ local.levels[<<"asks", ask>>] # 0
    BY DEF Quoted, Keys, Sides
  <2>3. published[local.lastId][<<"bids", bid>>] # 0
        /\ published[local.lastId][<<"asks", ask>>] # 0
    BY <2>2 DEF FeedInv, Faithful, FaithfulTo
  <2> QED  BY <2>1, <2>2, <2>3 DEF IsCrossed, Quoted
<1> QED  BY FeedInvHolds, <1>1, PTL

-----------------------------------------------------------------------------
\* Replay

Less == {pair \in Nat \X Nat : pair[1] < pair[2]}

(* A nonempty set of naturals has a least element.                          *)
LEMMA LeastNatural ==
    ASSUME NEW S \in SUBSET Nat, S # {}
    PROVE  \E n \in S : \A m \in S : n <= m
<1>1. OpToRel(<, Nat) = Less
  BY DEF OpToRel, Less
<1>2. IsWellFoundedOn(Less, Nat)
  BY <1>1, NatLessThanWellFounded, Zenon
<1>3. PICK x \in S : \A y \in S : ~(<<y, x>> \in Less)
  BY <1>2, WFMin, Zenon
<1>4. ASSUME NEW y \in S PROVE x <= y
  <2>1. <<y, x>> \notin Less /\ <<y, x>> \in Nat \X Nat
    BY <1>3
  <2> QED  BY <2>1 DEF Less
<1> QED  BY <1>4

\* run gives the replay's state after each prefix of the events up to n.
RunsTo(run, n, b, events) ==
    run = [i \in 0..n |-> IF i = 0 THEN [book |-> b, gap |-> 0]
                                   ELSE ReplayStep(run[i - 1], i, events[i])]

(* The recursion of Replay has a solution.                                  *)
LEMMA RunExists ==
    ASSUME NEW b, NEW E, NEW events \in Seq(E)
    PROVE  \E run : RunsTo(run, Len(events), b, events)
<1> DEFINE Bad == {n \in 0..Len(events) : ~ \E run : RunsTo(run, n, b, events)}
<1>1. SUFFICES ASSUME Bad # {} PROVE FALSE
  <2>1. Len(events) \in 0..Len(events)
    OBVIOUS
  <2> QED  BY <2>1
<1>2. PICK n \in Bad : \A m \in Bad : n <= m
  <2>1. Bad \in SUBSET Nat
    OBVIOUS
  <2> QED  BY <2>1, <1>1, LeastNatural
<1>3. n # 0
  <2>1. RunsTo([i \in 0..0 |-> [book |-> b, gap |-> 0]], 0, b, events)
    BY DEF RunsTo
  <2>2. 0 \notin Bad
    BY <2>1
  <2> QED  BY <2>2
<1>4. n \in Nat \ {0} /\ n \in 0..Len(events)
  BY <1>3
<1>5. PICK run : RunsTo(run, n - 1, b, events)
  <2>1. n - 1 \in 0..Len(events) /\ ~(n <= n - 1)
    BY <1>4
  <2>2. n - 1 \notin Bad
    <3> HIDE DEF Bad
    <3> QED  BY <2>1, <1>2
  <2> QED  BY <2>1, <2>2
<1> DEFINE longer == [i \in 0..n |-> IF i = n THEN ReplayStep(run[n - 1], n, events[n])
                                              ELSE run[i]]
<1>6. ASSUME NEW i \in 0..n
      PROVE  longer[i] = IF i = 0 THEN [book |-> b, gap |-> 0]
                                  ELSE ReplayStep(longer[i - 1], i, events[i])
  <2>1. CASE i = n
    BY <2>1, <1>4
  <2>2. CASE i # n
    <3>1. i \in 0..(n - 1)
      BY <2>2, <1>4
    <3>2. longer[i] = run[i]
      BY <3>1, <2>2
    <3>3. run[i] = IF i = 0 THEN [book |-> b, gap |-> 0]
                            ELSE ReplayStep(run[i - 1], i, events[i])
      BY <3>1, <1>5 DEF RunsTo
    <3>4. i # 0 => longer[i - 1] = run[i - 1]
      BY <3>1, <1>4
    <3> QED  BY <3>2, <3>3, <3>4
  <2> QED  BY <2>1, <2>2
<1>7. RunsTo(longer, n, b, events)
  BY <1>6 DEF RunsTo
<1> QED  BY <1>7

(* Replay is the last state of such a run.                                  *)
LEMMA ReplayIsRun ==
    ASSUME NEW b, NEW E, NEW events \in Seq(E)
    PROVE  \E run : /\ RunsTo(run, Len(events), b, events)
                    /\ Replay(b, events) = run[Len(events)]
<1>1. \E run : RunsTo(run, Len(events), b, events)
  BY RunExists
<1> QED  BY <1>1, Zenon DEF Replay, RunsTo

-----------------------------------------------------------------------------
\* An event that the stream of s may have delivered by the time the exchange
\* is at update n.
Truthful(s, n, e) ==
    \E first \in 1..n : \E final \in first..n, pu \in PuValues(first) :
        e = DepthEvent(Truth[s], first, final, pu)

\* A book of s that says nothing the exchange has not said by update n.
BookOK(s, n, b) ==
    /\ b \in Book
    /\ FaithfulTo(b, Truth[s])
    /\ b.hasSnapshot => b.lastId <= n

(* One event of the stream keeps a live book right; a gap costs it its      *)
(* snapshot and nothing else does.                                          *)
LEMMA ApplyUpdateOK ==
    ASSUME NEW s \in Symbols, NEW n \in 0..MaxId, NEW b, NEW e,
           BookOK(s, n, b), b.hasSnapshot, Truthful(s, n, e)
    PROVE  LET result == ApplyUpdate(b, e) IN
           /\ BookOK(s, n, result.book)
           /\ result.book.hasSnapshot <=> result.status # "gap"
           /\ result.book.lastId >= b.lastId
           /\ result.book.connected = b.connected
           /\ e \in Event
<1>1. MaxId \in Nat /\ Truth[s] \in [0..MaxId -> Ladder]
  BY HistoryAssumption
<1>2. PICK first \in 1..n : \E final \in first..n, pu \in PuValues(first) :
          e = DepthEvent(Truth[s], first, final, pu)
  BY DEF Truthful
<1>3. PICK final \in first..n, pu \in PuValues(first) :
          e = DepthEvent(Truth[s], first, final, pu)
  BY <1>2
<1>4. first \in 1..MaxId /\ final \in first..MaxId
  BY <1>1
<1>5. e \in Event
  BY <1>1, <1>3, <1>4, DepthEventType
<1>6. FaithfulTo(ApplyUpdate(b, e).book, Truth[s])
      /\ ApplyUpdate(b, e).book.lastId \in {b.lastId, final}
  BY <1>1, <1>3, <1>4, ApplyUpdateFaithful DEF BookOK
<1>7. b \in Book /\ b.lastId <= n
  BY DEF BookOK
<1>8. ApplyUpdate(b, e).book.lastId <= n
  BY <1>6, <1>7
<1> QED  BY <1>5, <1>6, <1>7, <1>8, ApplyUpdateType DEF BookOK

(* Replaying truthful events on a live, faithful book: the book stays       *)
(* faithful, and it keeps its snapshot exactly when no event left a gap.    *)
LEMMA ReplayOK ==
    ASSUME NEW s \in Symbols, NEW n \in 0..MaxId, NEW b, BookOK(s, n, b), b.hasSnapshot,
           NEW events \in Seq(Event),
           \A i \in 1..Len(events) : Truthful(s, n, events[i])
    PROVE  LET replay == Replay(b, events) IN
           /\ BookOK(s, n, replay.book)
           /\ replay.gap \in 0..Len(events)
           /\ replay.book.hasSnapshot <=> replay.gap = 0
           /\ replay.book.connected = b.connected
<1>1. PICK run : /\ RunsTo(run, Len(events), b, events)
                 /\ Replay(b, events) = run[Len(events)]
  BY ReplayIsRun
<1> DEFINE Right(i) == /\ BookOK(s, n, run[i].book)
                       /\ run[i].gap \in 0..i
                       /\ run[i].book.hasSnapshot <=> run[i].gap = 0
                       /\ run[i].book.connected = b.connected
           Bad == {i \in 0..Len(events) : ~Right(i)}
<1>2. Bad = {}
  <2>1. SUFFICES ASSUME Bad # {} PROVE FALSE
    OBVIOUS
  <2>2. PICK m \in Bad : \A k \in Bad : m <= k
    <3>1. Bad \in SUBSET Nat
      OBVIOUS
    <3> QED  BY <3>1, <2>1, LeastNatural
  <2>3. m \in 0..Len(events) /\ ~Right(m)
    BY <2>2
  <2>4. m # 0
    <3>1. run[0] = [book |-> b, gap |-> 0]
      BY <1>1 DEF RunsTo
    <3>2. Right(0)
      BY <3>1
    <3> QED  BY <3>2, <2>3
  <2> HIDE DEF Right
  <2>5. Right(m - 1)
    <3>1. m - 1 \in 0..Len(events) /\ ~(m <= m - 1)
      BY <2>3, <2>4
    <3>2. m - 1 \notin Bad
      <4> HIDE DEF Bad
      <4> QED  BY <3>1, <2>2
    <3> QED  BY <3>1, <3>2
  <2>6. run[m] = ReplayStep(run[m - 1], m, events[m])
    BY <1>1, <2>3, <2>4 DEF RunsTo
  <2>7. CASE run[m - 1].gap # 0
    <3>1. run[m] = run[m - 1]
      BY <2>6, <2>7 DEF ReplayStep
    <3> QED  BY <3>1, <2>3, <2>4, <2>5 DEF Right
  <2>8. CASE run[m - 1].gap = 0
    <3> DEFINE result == ApplyUpdate(run[m - 1].book, events[m])
    <3>1. run[m] = [book |-> result.book,
                    gap |-> IF result.status = "gap" THEN m ELSE 0]
      BY <2>6, <2>8 DEF ReplayStep
    <3>2. Truthful(s, n, events[m])
      BY <2>3, <2>4
    <3>3. BookOK(s, n, run[m - 1].book) /\ run[m - 1].book.hasSnapshot
          /\ run[m - 1].book.connected = b.connected
      BY <2>5, <2>8 DEF Right
    <3>4. /\ BookOK(s, n, result.book)
          /\ result.book.hasSnapshot <=> result.status # "gap"
          /\ result.book.connected = b.connected
      BY <3>2, <3>3, ApplyUpdateOK
    <3> HIDE DEF result
    <3>5. Right(m)
      BY <3>1, <3>4, <2>3, <2>4 DEF Right
    <3> QED  BY <3>5, <2>3
  <2> QED  BY <2>7, <2>8
<1>3. Right(Len(events))
  <2>1. Len(events) \in 0..Len(events)
    OBVIOUS
  <2> HIDE DEF Right
  <2> QED  BY <2>1, <1>2
<1> QED  BY <1>1, <1>3

-----------------------------------------------------------------------------
\* The invariant

SymbolOK(s, n, x) ==
    /\ x \in SymbolState
    /\ Len(x.buffer) <= MaxBuffer
    /\ BookOK(s, n, x.book)
    /\ \A i \in 1..Len(x.buffer) : Truthful(s, n, x.buffer[i])
    /\ x.syncing \/ x.buffer # <<>> => ~x.book.hasSnapshot

FrameOK ==
    /\ head \in [Symbols -> 0..MaxId]
    /\ phase \in {"stopped", "running", "stopping"}
    /\ shard \in [Shards -> {"off", "connecting", "open", "closing", "backoff"}]
    /\ healthChanged \in BOOLEAN
    /\ waiter \in {"idle", "waiting"}

StateOK ==
    /\ state \in [Symbols -> SymbolState]
    /\ \A s \in Symbols : SymbolOK(s, head[s], state[s])

\* A synchronization never runs ahead of its symbol's token; one that is
\* current is the only one, and its symbol has no book yet.
TasksOK ==
    /\ tasks \subseteq Task
    /\ \A t \in tasks :
        /\ t.token <= state[t.symbol].token
        /\ t.token = state[t.symbol].token => ~state[t.symbol].book.hasSnapshot
    /\ \A t, u \in tasks : t.symbol = u.symbol /\ t.token = u.token => t = u

IInv == FrameOK /\ StateOK /\ TasksOK

(* The inductive invariant implies the properties the runs check.           *)
LEMMA IInvImplies == IInv => TypeOK /\ BooksFaithful /\ BacklogOnlyWithoutBook
  BY DEF IInv, FrameOK, StateOK, TasksOK, SymbolOK, BookOK, TypeOK, BooksFaithful,
         BacklogOnlyWithoutBook

-----------------------------------------------------------------------------
\* Operations on one symbol

(* A truthful event and a faithful book stay so when the exchange moves on. *)
LEMMA LaterOK ==
    ASSUME NEW s \in Symbols, NEW n \in 0..MaxId, NEW m \in 0..MaxId, n <= m,
           NEW x, SymbolOK(s, n, x)
    PROVE  SymbolOK(s, m, x)
<1>1. ASSUME NEW e, Truthful(s, n, e) PROVE Truthful(s, m, e)
  <2>1. PICK first \in 1..n : \E final \in first..n, pu \in PuValues(first) :
            e = DepthEvent(Truth[s], first, final, pu)
    BY <1>1 DEF Truthful
  <2>2. PICK final \in first..n : \E pu \in PuValues(first) :
            e = DepthEvent(Truth[s], first, final, pu)
    BY <2>1
  <2>3. first \in 1..m /\ final \in first..m
    BY HistoryAssumption
  <2> QED  BY <2>2, <2>3 DEF Truthful
<1>2. BookOK(s, m, x.book)
  <2>1. x.book.hasSnapshot => x.book.lastId \in 0..MaxId /\ x.book.lastId <= n
    BY HistoryAssumption DEF SymbolOK, BookOK, FaithfulTo
  <2> QED  BY <2>1 DEF SymbolOK, BookOK
<1> QED  BY <1>1, <1>2 DEF SymbolOK

(* An emptied book is right for any exchange.                               *)
LEMMA ResetOK ==
    ASSUME NEW s, NEW n, NEW b, NEW c \in BOOLEAN
    PROVE  /\ BookOK(s, n, Reset(b, c))
           /\ Reset(b, c).hasSnapshot = FALSE
           /\ Reset(b, c).connected = c
<1>1. EmptyLadder \in Ladder
  BY QuantitiesAssumption DEF EmptyLadder, Ladder
<1> QED  BY <1>1 DEF Reset, NewBook, Book, BookOK, FaithfulTo

(* A _SymbolState put together from right parts is right.                   *)
LEMMA MadeOK ==
    ASSUME NEW s \in Symbols, NEW n,
           NEW book, BookOK(s, n, book),
           NEW buffer \in Seq(Event), Len(buffer) <= MaxBuffer,
           \A i \in 1..Len(buffer) : Truthful(s, n, buffer[i]),
           NEW syncing \in BOOLEAN, NEW token \in Nat, NEW connected \in BOOLEAN,
           syncing \/ buffer # <<>> => ~book.hasSnapshot
    PROVE  SymbolOK(s, n, [book |-> book, buffer |-> buffer, syncing |-> syncing,
                           token |-> token, connected |-> connected])
<1> DEFINE x == [book |-> book, buffer |-> buffer, syncing |-> syncing,
                 token |-> token, connected |-> connected]
<1>1. book \in Book
  BY DEF BookOK
<1>2. x \in SymbolState
  BY <1>1 DEF SymbolState
<1> QED  BY <1>2 DEF SymbolOK

(* The same with an empty buffer.                                           *)
LEMMA MadeEmptyOK ==
    ASSUME NEW s \in Symbols, NEW n,
           NEW book, BookOK(s, n, book),
           NEW syncing \in BOOLEAN, NEW token \in Nat, NEW connected \in BOOLEAN,
           syncing => ~book.hasSnapshot
    PROVE  SymbolOK(s, n, [book |-> book, buffer |-> <<>>, syncing |-> syncing,
                           token |-> token, connected |-> connected])
<1>1. <<>> \in Seq(Event) /\ Len(<<>>) <= MaxBuffer
  BY ManagerAssumption
<1>2. \A i \in 1..Len(<<>>) : Truthful(s, n, <<>>[i])
  OBVIOUS
<1> QED  BY <1>1, <1>2, MadeOK

(* The state of a symbol the manager has just been built with.              *)
LEMMA NewStateOK ==
    ASSUME NEW s \in Symbols
    PROVE  SymbolOK(s, 0, NewState)
<1> DEFINE b == Reset(NewBook, FALSE)
<1>1. BookOK(s, 0, b)
  BY ResetOK
<1>2. NewState = [book |-> b, buffer |-> <<>>, syncing |-> FALSE, token |-> 0,
                  connected |-> FALSE]
  BY DEF NewState
<1> HIDE DEF b
<1> QED  BY <1>1, <1>2, MadeEmptyOK

(* A lost connection empties the buffer and leaves a right book behind.     *)
LEMMA DisconnectedOK ==
    ASSUME NEW s \in Symbols, NEW n, NEW x, SymbolOK(s, n, x)
    PROVE  SymbolOK(s, n, Disconnected(x))
<1> DEFINE b == MarkDisconnected(x.book)
<1>1. x.book \in Book /\ x.token \in Nat
  BY DEF SymbolOK, SymbolState
<1>2. b \in Book /\ b.hasSnapshot = x.book.hasSnapshot /\ b.lastId = x.book.lastId
      /\ b.levels = x.book.levels
  BY <1>1 DEF MarkDisconnected, Book
<1>3. BookOK(s, n, b)
  BY <1>2 DEF SymbolOK, BookOK, FaithfulTo
<1> HIDE DEF b
<1>4. Disconnected(x) = [book |-> b, buffer |-> <<>>, syncing |-> FALSE,
                         token |-> x.token + 1, connected |-> FALSE]
  BY DEF Disconnected, b
<1> QED  BY <1>1, <1>2, <1>3, <1>4, ManagerAssumption DEF SymbolOK, SymbolState

(* A new connection starts from an empty book and an empty buffer.          *)
LEMMA PreparedOK ==
    ASSUME NEW s \in Symbols, NEW n, NEW x, SymbolOK(s, n, x)
    PROVE  SymbolOK(s, n, Prepared(x)) /\ ~Prepared(x).book.hasSnapshot
<1> DEFINE b == Reset(x.book, TRUE)
<1>1. x.token + 1 \in Nat
  BY DEF SymbolOK, SymbolState
<1>2. BookOK(s, n, b) /\ b.hasSnapshot = FALSE
  BY ResetOK
<1>3. Prepared(x) = [book |-> b, buffer |-> <<>>, syncing |-> TRUE,
                     token |-> x.token + 1, connected |-> TRUE]
  BY DEF Prepared
<1> HIDE DEF b
<1>4. SymbolOK(s, n, Prepared(x))
  BY <1>1, <1>2, <1>3, MadeEmptyOK
<1>5. Prepared(x).book = b
  BY <1>3
<1> QED  BY <1>2, <1>4, <1>5

(* A truthful event joins the buffer of a symbol without a book.            *)
LEMMA BufferedOK ==
    ASSUME NEW s \in Symbols, NEW n \in 0..MaxId, NEW x, SymbolOK(s, n, x),
           ~x.book.hasSnapshot, NEW e \in Event, Truthful(s, n, e)
    PROVE  SymbolOK(s, n, Buffered(x, e))
<1> DEFINE old == IF Len(x.buffer) >= MaxBuffer THEN Tail(x.buffer) ELSE x.buffer
           new == Append(old, e)
<1>1. x \in SymbolState /\ x.buffer \in Seq(Event) /\ MaxBuffer \in Nat \ {0}
      /\ Len(x.buffer) <= MaxBuffer
  BY ManagerAssumption DEF SymbolOK, SymbolState
<1>2. old \in Seq(Event) /\ Len(old) + 1 <= MaxBuffer
      /\ \A i \in 1..Len(old) : Truthful(s, n, old[i])
  <2>1. CASE Len(x.buffer) >= MaxBuffer
    <3>1. x.buffer # <<>>
      BY <1>1, <2>1
    <3>2. Tail(x.buffer) \in Seq(Event) /\ Len(Tail(x.buffer)) = Len(x.buffer) - 1
          /\ \A i \in 1..Len(Tail(x.buffer)) : Tail(x.buffer)[i] = x.buffer[i + 1]
      BY <1>1, <3>1
    <3>3. \A i \in 1..Len(Tail(x.buffer)) : i + 1 \in 1..Len(x.buffer)
      BY <1>1, <3>2
    <3> QED  BY <1>1, <2>1, <3>2, <3>3 DEF SymbolOK
  <2>2. CASE ~(Len(x.buffer) >= MaxBuffer)
    BY <1>1, <2>2 DEF SymbolOK
  <2> QED  BY <2>1, <2>2
<1> HIDE DEF old
<1>3. new \in Seq(Event) /\ Len(new) = Len(old) + 1
      /\ \A i \in 1..Len(new) : new[i] = IF i = Len(old) + 1 THEN e ELSE old[i]
  BY <1>2
<1>4. \A i \in 1..Len(new) : Truthful(s, n, new[i])
  <2> SUFFICES ASSUME NEW i \in 1..Len(new) PROVE Truthful(s, n, new[i])
    OBVIOUS
  <2>1. CASE i = Len(old) + 1
    BY <1>3, <2>1
  <2>2. CASE i # Len(old) + 1
    <3>1. i \in 1..Len(old)
      BY <1>2, <1>3, <2>2
    <3> QED  BY <1>2, <1>3, <2>2, <3>1
  <2> QED  BY <2>1, <2>2
<1>5. Buffered(x, e) = [x EXCEPT !.buffer = new]
  BY DEF Buffered, old
<1> HIDE DEF new
<1>6. Len(new) <= MaxBuffer
  BY <1>1, <1>2, <1>3
<1>7. [x EXCEPT !.buffer = new] = [book |-> x.book, buffer |-> new, syncing |-> x.syncing,
                                   token |-> x.token, connected |-> x.connected]
  BY <1>1 DEF SymbolState
<1>8. BookOK(s, n, x.book) /\ x.syncing \in BOOLEAN /\ x.token \in Nat
      /\ x.connected \in BOOLEAN
  BY DEF SymbolOK, SymbolState
<1> QED  BY SMTT(30), <1>3, <1>4, <1>5, <1>6, <1>7, <1>8, MadeOK

(* Beginning a resynchronization costs the symbol its book.                 *)
LEMMA ResyncBegunOK ==
    ASSUME NEW s \in Symbols, NEW n, NEW x, SymbolOK(s, n, x)
    PROVE  SymbolOK(s, n, ResyncBegun(x))
<1> DEFINE b == MarkResync(x.book)
<1>1. x \in SymbolState /\ x.book.connected \in BOOLEAN /\ x.token + 1 \in Nat
  BY DEF SymbolOK, SymbolState, Book
<1>2. BookOK(s, n, b) /\ b.hasSnapshot = FALSE
  BY <1>1, ResetOK DEF MarkResync
<1>3. ResyncBegun(x) = [book |-> b, buffer |-> x.buffer, syncing |-> TRUE,
                        token |-> x.token + 1, connected |-> x.connected]
  <2>1. ResyncBegun(x) = [x EXCEPT !.token = x.token + 1, !.syncing = TRUE, !.book = b]
    BY DEF ResyncBegun
  <2> HIDE DEF b
  <2> QED  BY <1>1, <2>1 DEF SymbolState
<1> HIDE DEF b
<1>4. x.buffer \in Seq(Event) /\ x.connected \in BOOLEAN /\ Len(x.buffer) <= MaxBuffer
      /\ \A i \in 1..Len(x.buffer) : Truthful(s, n, x.buffer[i])
  BY <1>1 DEF SymbolOK, SymbolState
<1> QED  BY <1>1, <1>2, <1>3, <1>4, MadeOK

(* Emptying the book is always safe, whether or not the symbol goes on      *)
(* synchronizing.                                                           *)
LEMMA EmptiedOK ==
    ASSUME NEW s \in Symbols, NEW n, NEW x, SymbolOK(s, n, x)
    PROVE  SymbolOK(s, n, Emptied(x)) /\ SymbolOK(s, n, [Emptied(x) EXCEPT !.syncing = FALSE])
<1>1. x \in SymbolState
  BY DEF SymbolOK
<1>2. (x.connected \/ ~Running) \in BOOLEAN
  OBVIOUS
<1> DEFINE b == Reset(x.book, x.connected \/ ~Running)
<1>3. BookOK(s, n, b) /\ b \in Book /\ b.hasSnapshot = FALSE
  BY <1>2, ResetOK DEF BookOK
<1>4. Emptied(x) = [x EXCEPT !.book = b]
  BY DEF Emptied
<1> HIDE DEF b
<1> QED  BY <1>1, <1>3, <1>4 DEF SymbolOK, SymbolState

(* A snapshot and the replay of the buffer: either the symbol has its book  *)
(* and an empty buffer, or the book is empty and the rest of the buffer is  *)
(* kept from the event that did not connect.                                *)
LEMMA SnapshotAppliedOK ==
    ASSUME NEW s \in Symbols, NEW n \in 0..MaxId, NEW x, SymbolOK(s, n, x),
           NEW version \in 0..n
    PROVE  SymbolOK(s, n, SnapshotApplied(x, RestSnapshot(Truth[s], version)))
<1> DEFINE snap == RestSnapshot(Truth[s], version)
           loaded == LoadSnapshot(x.book, snap)
           replay == Replay(loaded, x.buffer)
<1>1. MaxId \in Nat /\ Truth[s] \in [0..MaxId -> Ladder] /\ version \in 0..MaxId
  BY HistoryAssumption
<1>2. BookOK(s, n, loaded) /\ loaded.hasSnapshot
  BY <1>1, LoadFaithful DEF BookOK
<1>3. x \in SymbolState /\ x.buffer \in Seq(Event)
      /\ \A i \in 1..Len(x.buffer) : Truthful(s, n, x.buffer[i])
  BY DEF SymbolOK, SymbolState
<1> HIDE DEF loaded
<1>4. /\ BookOK(s, n, replay.book)
      /\ replay.gap \in 0..Len(x.buffer)
      /\ replay.book.hasSnapshot <=> replay.gap = 0
  BY <1>2, <1>3, ReplayOK
<1> HIDE DEF replay
<1>5. SnapshotApplied(x, snap) =
          IF replay.gap = 0
          THEN [x EXCEPT !.book = replay.book, !.buffer = <<>>, !.syncing = FALSE]
          ELSE [Emptied(x) EXCEPT !.buffer = SubSeq(@, replay.gap, Len(@))]
  BY DEF SnapshotApplied, replay, loaded
<1>6. CASE replay.gap = 0
  <2>1. SnapshotApplied(x, snap) =
            [book |-> replay.book, buffer |-> <<>>, syncing |-> FALSE,
             token |-> x.token, connected |-> x.connected]
    BY <1>3, <1>5, <1>6 DEF SymbolState
  <2>2. x.token \in Nat /\ x.connected \in BOOLEAN
    BY <1>3 DEF SymbolState
  <2> QED  BY <1>4, <2>1, <2>2, MadeEmptyOK
<1>7. CASE replay.gap # 0
  <2> DEFINE g == replay.gap
             rest == SubSeq(x.buffer, g, Len(x.buffer))
  <2>1. g \in 1..Len(x.buffer)
    BY <1>3, <1>4, <1>7
  <2>2. rest \in Seq(Event) /\ Len(rest) = Len(x.buffer) - g + 1
        /\ \A i \in 1..Len(rest) : rest[i] = x.buffer[g + i - 1]
                                   /\ g + i - 1 \in 1..Len(x.buffer)
    BY SMTT(30), <1>3, <2>1
  <2>3. \A i \in 1..Len(rest) : Truthful(s, n, rest[i])
    BY <1>3, <2>2
  <2>4. Len(rest) <= MaxBuffer
    BY <1>3, <2>1, <2>2, ManagerAssumption DEF SymbolOK
  <2>5. SymbolOK(s, n, Emptied(x)) /\ Emptied(x).buffer = x.buffer
        /\ Emptied(x).book.hasSnapshot = FALSE
    BY <1>3, EmptiedOK, ResetOK DEF Emptied, SymbolState
  <2>6. SnapshotApplied(x, snap) = [Emptied(x) EXCEPT !.buffer = rest]
    BY <1>5, <1>7, <2>5
  <2> HIDE DEF rest
  <2> QED  BY <2>2, <2>3, <2>4, <2>5, <2>6 DEF SymbolOK, SymbolState
<1> QED  BY <1>6, <1>7

-----------------------------------------------------------------------------
\* Steps of the manager

\* How a symbol moves from x to y when no snapshot is loaded: its token never
\* decreases, a book is not gained under the same token, and its id never
\* decreases while there is a book.
Onward(x, y) ==
    /\ y.token >= x.token
    /\ y.token = x.token /\ y.book.hasSnapshot => x.book.hasSnapshot
    /\ x.book.hasSnapshot /\ y.book.hasSnapshot => y.book.lastId >= x.book.lastId

(* Every operation but loading a snapshot moves its symbol onward; a new    *)
(* token or an emptied book leaves it without a book, except that a lost    *)
(* connection keeps the book.                                               *)
LEMMA OperationsOnward ==
    ASSUME NEW s \in Symbols, NEW n, NEW x, SymbolOK(s, n, x)
    PROVE  /\ Onward(x, x)
           /\ Onward(x, Disconnected(x))
           /\ Onward(x, Prepared(x)) /\ Prepared(x).token = x.token + 1
           /\ Onward(x, ResyncBegun(x)) /\ ResyncBegun(x).token = x.token + 1
           /\ ~ResyncBegun(x).book.hasSnapshot
           /\ Onward(x, Emptied(x)) /\ Emptied(x).token = x.token
           /\ ~Emptied(x).book.hasSnapshot
<1>1. x \in SymbolState /\ x.token \in Nat /\ x.book \in Book /\ x.book.lastId \in Int
  BY DEF SymbolOK, SymbolState, Book, NoId
<1>2. Onward(x, x)
  BY <1>1 DEF Onward
<1>3. Onward(x, Disconnected(x))
  <2>1. Disconnected(x).token = x.token + 1
        /\ Disconnected(x).book = MarkDisconnected(x.book)
    BY DEF Disconnected
  <2>2. MarkDisconnected(x.book).lastId = x.book.lastId
    BY <1>1 DEF MarkDisconnected, Book
  <2> QED  BY <1>1, <2>1, <2>2 DEF Onward
<1>4. Onward(x, Prepared(x)) /\ Prepared(x).token = x.token + 1
  <2>1. Prepared(x).token = x.token + 1
    BY DEF Prepared
  <2> QED  BY <1>1, <2>1, PreparedOK DEF Onward
<1>5. /\ Onward(x, ResyncBegun(x)) /\ ResyncBegun(x).token = x.token + 1
      /\ ~ResyncBegun(x).book.hasSnapshot
  <2>1. ResyncBegun(x).token = x.token + 1 /\ ResyncBegun(x).book = MarkResync(x.book)
    BY <1>1 DEF ResyncBegun, SymbolState
  <2>2. MarkResync(x.book).hasSnapshot = FALSE
    BY DEF MarkResync, Reset, NewBook
  <2> QED  BY <1>1, <2>1, <2>2 DEF Onward
<1>6. /\ Onward(x, Emptied(x)) /\ Emptied(x).token = x.token
      /\ ~Emptied(x).book.hasSnapshot
  <2>1. Emptied(x).token = x.token
        /\ Emptied(x).book = Reset(x.book, x.connected \/ ~Running)
    BY <1>1 DEF Emptied, SymbolState
  <2>2. Reset(x.book, x.connected \/ ~Running).hasSnapshot = FALSE
    BY DEF Reset, NewBook
  <2> QED  BY <1>1, <2>1, <2>2 DEF Onward
<1> QED  BY <1>2, <1>3, <1>4, <1>5, <1>6

(* Buffering an event touches neither the token nor the book.               *)
LEMMA BufferedOnward ==
    ASSUME NEW s \in Symbols, NEW n, NEW x, SymbolOK(s, n, x), NEW e
    PROVE  /\ Buffered(x, e).token = x.token
           /\ Buffered(x, e).book = x.book
           /\ Onward(x, Buffered(x, e))
<1>1. x \in SymbolState /\ x.token \in Nat /\ x.book.lastId \in Int
  BY DEF SymbolOK, SymbolState, Book, NoId
<1>2. Buffered(x, e).token = x.token /\ Buffered(x, e).book = x.book
  BY <1>1 DEF Buffered, SymbolState
<1> QED  BY <1>1, <1>2 DEF Onward

(* Tasks stay in order when some end, symbols move onward, and each new one *)
(* carries the fresh token of a symbol that has just lost its book.         *)
LEMMA TasksOnward ==
    ASSUME IInv, StateOK',
           \A s \in Symbols : Onward(state[s], state'[s]),
           NEW new, tasks' \subseteq tasks \union new,
           \A t \in new : /\ t \in Task
                          /\ t.token = state'[t.symbol].token
                          /\ t.token > state[t.symbol].token
                          /\ ~state'[t.symbol].book.hasSnapshot,
           \A t, u \in new : t.symbol = u.symbol => t = u
    PROVE  TasksOK'
<1>1. \A t \in tasks : t \in Task /\ t.symbol \in Symbols /\ t.token \in Nat
  BY DEF IInv, TasksOK, Task
<1>2. \A t \in new : t.symbol \in Symbols /\ t.token \in Nat
  BY DEF Task
<1>3. \A s \in Symbols : state[s].token \in Nat /\ state'[s].token \in Nat
  BY DEF IInv, StateOK, SymbolOK, SymbolState
<1>4. ASSUME NEW t \in tasks
      PROVE  /\ t.token <= state'[t.symbol].token
             /\ t.token = state'[t.symbol].token => ~state'[t.symbol].book.hasSnapshot
  BY <1>1, <1>3 DEF IInv, TasksOK, Onward
<1>5. ASSUME NEW t \in tasks, NEW u \in new, t.symbol = u.symbol
      PROVE  t.token < u.token
  BY <1>1, <1>2, <1>3, <1>5 DEF IInv, TasksOK
<1>6. tasks' \subseteq Task
  BY <1>1
<1>7. ASSUME NEW t \in tasks'
      PROVE  /\ t.token <= state'[t.symbol].token
             /\ t.token = state'[t.symbol].token => ~state'[t.symbol].book.hasSnapshot
  BY <1>2, <1>3, <1>4
<1>8. ASSUME NEW t \in tasks', NEW u \in tasks', t.symbol = u.symbol, t.token = u.token
      PROVE  t = u
  <2>1. t \in tasks /\ u \in tasks => t = u
    BY <1>8 DEF IInv, TasksOK
  <2>2. t \in new /\ u \in new => t = u
    BY <1>8
  <2>3. ~(t \in tasks /\ u \in new) /\ ~(t \in new /\ u \in tasks)
    BY <1>1, <1>2, <1>5, <1>8
  <2> QED  BY <2>1, <2>2, <2>3
<1> QED  BY <1>6, <1>7, <1>8 DEF TasksOK

(* The same when no task is spawned.                                        *)
LEMMA TasksSettle ==
    ASSUME IInv, StateOK', \A s \in Symbols : Onward(state[s], state'[s]),
           tasks' \subseteq tasks
    PROVE  TasksOK'
<1> DEFINE new == {}
<1>1. /\ tasks' \subseteq tasks \union new
      /\ \A t \in new : /\ t \in Task
                       /\ t.token = state'[t.symbol].token
                       /\ t.token > state[t.symbol].token
                       /\ ~state'[t.symbol].book.hasSnapshot
      /\ \A t, u \in new : t.symbol = u.symbol => t = u
  OBVIOUS
<1> HIDE DEF new
<1> QED  BY <1>1, TasksOnward

(* One task is replaced by its next attempt while its symbol moves onward.  *)
LEMMA TaskRetried ==
    ASSUME IInv, StateOK',
           \A s \in Symbols : Onward(state[s], state'[s]),
           NEW t \in tasks, NEW r \in Task, r.symbol = t.symbol, r.token = t.token,
           tasks' = (tasks \ {t}) \union {r}
    PROVE  TasksOK'
<1>1. \A u \in tasks : u \in Task /\ u.symbol \in Symbols /\ u.token \in Nat
  BY DEF IInv, TasksOK, Task
<1>2. \A s \in Symbols : state[s].token \in Nat /\ state'[s].token \in Nat
  BY DEF IInv, StateOK, SymbolOK, SymbolState
<1>3. ASSUME NEW u \in tasks
      PROVE  /\ u.token <= state'[u.symbol].token
             /\ u.token = state'[u.symbol].token => ~state'[u.symbol].book.hasSnapshot
  BY <1>1, <1>2 DEF IInv, TasksOK, Onward
<1>4. ASSUME NEW u \in tasks'
      PROVE  /\ u.token <= state'[u.symbol].token
             /\ u.token = state'[u.symbol].token => ~state'[u.symbol].book.hasSnapshot
  BY <1>3
<1>5. ASSUME NEW u \in tasks', NEW v \in tasks', u.symbol = v.symbol, u.token = v.token
      PROVE  u = v
  BY <1>5 DEF IInv, TasksOK
<1> QED  BY <1>1, <1>4, <1>5 DEF TasksOK

(* A change of one symbol while the exchange stands still.                  *)
LEMMA OneSymbolOK ==
    ASSUME IInv, head' = head, NEW s \in Symbols, NEW x, SymbolOK(s, head[s], x),
           state' = [state EXCEPT ![s] = x]
    PROVE  /\ StateOK'
           /\ state'[s] = x
           /\ \A r \in Symbols : r # s => state'[r] = state[r]
           /\ Onward(state[s], x) => \A r \in Symbols : Onward(state[r], state'[r])
<1>1. state \in [Symbols -> SymbolState] /\ x \in SymbolState
      /\ \A r \in Symbols : SymbolOK(r, head[r], state[r])
  BY DEF IInv, StateOK, SymbolOK
<1>2. state' \in [Symbols -> SymbolState] /\ state'[s] = x
      /\ \A r \in Symbols : r # s => state'[r] = state[r]
  BY <1>1
<1>3. \A r \in Symbols : Onward(state[r], state[r])
  BY <1>1, OperationsOnward
<1>4. \A r \in Symbols : SymbolOK(r, head'[r], state'[r])
  BY <1>1, <1>2
<1> QED  BY <1>2, <1>3, <1>4 DEF StateOK, SymbolOK

(* A task just spawned.                                                     *)
LEMMA SyncTaskType ==
    ASSUME NEW s \in Symbols, NEW token \in Nat, NEW forever \in BOOLEAN
    PROVE  /\ SyncTask(s, token, forever) \in Task
           /\ SyncTask(s, token, forever).symbol = s
           /\ SyncTask(s, token, forever).token = token
<1>1. 0 \in 0..SyncMaxAttempts
  BY ManagerAssumption
<1> QED  BY <1>1 DEF SyncTask, Task

(* A symbol without a backlog whose book takes a live event's result.       *)
LEMMA BookReplacedOK ==
    ASSUME NEW s \in Symbols, NEW n, NEW x, SymbolOK(s, n, x),
           ~x.syncing, x.book.hasSnapshot, NEW b, BookOK(s, n, b)
    PROVE  LET y == [x EXCEPT !.book = b] IN
           /\ SymbolOK(s, n, y)
           /\ y.book = b
           /\ y.token = x.token
<1>1. x \in SymbolState
  BY DEF SymbolOK
<1>2. [x EXCEPT !.book = b] = [book |-> b, buffer |-> x.buffer, syncing |-> x.syncing,
                               token |-> x.token, connected |-> x.connected]
  BY <1>1 DEF SymbolState
<1>3. /\ x.buffer \in Seq(Event) /\ x.token \in Nat /\ x.connected \in BOOLEAN
      /\ x.syncing \in BOOLEAN /\ Len(x.buffer) <= MaxBuffer
      /\ \A i \in 1..Len(x.buffer) : Truthful(s, n, x.buffer[i])
      /\ ~(x.syncing \/ x.buffer # <<>>)
  BY <1>1 DEF SymbolOK, SymbolState
<1> DEFINE y == [x EXCEPT !.book = b]
<1>4. SymbolOK(s, n, y)
  BY <1>2, <1>3, MadeOK
<1>5. y.book = b /\ y.token = x.token
  BY <1>2
<1> QED  BY <1>4, <1>5

\* What NeverRollsBack says of one step.
NoRollback ==
    \A s \in Symbols :
        state[s].book.hasSnapshot /\ state'[s].book.hasSnapshot =>
            state'[s].book.lastId >= state[s].book.lastId

(* ingest_depth_event keeps the invariant.                                  *)
LEMMA IngestOK ==
    ASSUME IInv, NEW s \in Symbols, Ingest(s)
    PROVE  IInv' /\ NoRollback
<1>1. /\ SymbolOK(s, head[s], state[s])
      /\ head[s] \in 0..MaxId /\ MaxId \in Nat
      /\ UNCHANGED <<head, phase, shard, waiter>>
  BY HistoryAssumption DEF IInv, StateOK, FrameOK, Ingest
<1>2. PICK first \in 1..head[s] : \E final \in first..head[s], pu \in PuValues(first) :
          LET e == DepthEvent(Truth[s], first, final, pu) IN
          EventBuffered(s, e) \/ EventApplied(s, e) \/ EventLeavesGap(s, e)
  BY DEF Ingest
<1>3. PICK final \in first..head[s], pu \in PuValues(first) :
          LET e == DepthEvent(Truth[s], first, final, pu) IN
          EventBuffered(s, e) \/ EventApplied(s, e) \/ EventLeavesGap(s, e)
  BY <1>2
<1> DEFINE e == DepthEvent(Truth[s], first, final, pu)
<1>4. EventBuffered(s, e) \/ EventApplied(s, e) \/ EventLeavesGap(s, e)
  BY <1>3
<1>5. Truthful(s, head[s], e)
  BY DEF Truthful
<1>6. e \in Event
  <2>1. first \in 1..MaxId /\ final \in first..MaxId
    BY <1>1
  <2> QED  BY <2>1, HistoryAssumption, DepthEventType
<1> HIDE DEF e
<1> DEFINE x == state[s]
           result == ApplyUpdate(x.book, e)
<1>7. x \in SymbolState /\ BookOK(s, head[s], x.book) /\ x.token \in Nat
  BY <1>1 DEF SymbolOK, SymbolState
<1>8. CASE EventBuffered(s, e)
  <2>1. ~x.book.hasSnapshot
    BY <1>1, <1>8 DEF EventBuffered, SymbolOK
  <2>2. SymbolOK(s, head[s], Buffered(x, e))
    BY <1>1, <1>5, <1>6, <2>1, BufferedOK
  <2>3. state' = [state EXCEPT ![s] = Buffered(x, e)] /\ UNCHANGED <<tasks, healthChanged>>
    BY <1>8 DEF EventBuffered
  <2>4. Onward(x, Buffered(x, e))
    BY <1>1, BufferedOnward
  <2>5. StateOK' /\ \A r \in Symbols : Onward(state[r], state'[r])
    BY <1>1, <2>2, <2>3, <2>4, OneSymbolOK
  <2>6. TasksOK'
    BY <2>3, <2>5, TasksSettle
  <2> QED  BY <1>1, <2>3, <2>5, <2>6 DEF IInv, FrameOK, NoRollback, Onward
<1>9. CASE EventApplied(s, e)
  <2> DEFINE y == [x EXCEPT !.book = result.book]
  <2>1. /\ ~x.syncing /\ x.book.hasSnapshot /\ result.status # "gap"
        /\ state' = [state EXCEPT ![s] = y]
        /\ healthChanged' = TRUE /\ UNCHANGED tasks
    BY <1>9 DEF EventApplied
  <2>2. BookOK(s, head[s], result.book) /\ result.book.hasSnapshot
        /\ result.book.lastId >= x.book.lastId
    BY <1>1, <1>5, <1>7, <2>1, ApplyUpdateOK
  <2> HIDE DEF x, result
  <2>5. SymbolOK(s, head[s], y) /\ y.book = result.book /\ y.token = x.token
    BY <1>1, <2>1, <2>2, BookReplacedOK DEF x
  <2> HIDE DEF y
  <2>6. Onward(x, y)
    BY <1>7, <2>1, <2>2, <2>5 DEF Onward
  <2> USE DEF x
  <2>7. StateOK' /\ \A r \in Symbols : Onward(state[r], state'[r])
    BY <1>1, <2>1, <2>5, <2>6, OneSymbolOK
  <2>8. TasksOK'
    BY <2>1, <2>7, TasksSettle
  <2> QED  BY <1>1, <2>1, <2>7, <2>8 DEF IInv, FrameOK, NoRollback, Onward
<1>10. CASE EventLeavesGap(s, e)
  <2> DEFINE y == [x EXCEPT !.book = result.book]
             z == ResyncBegun(Buffered(y, e))
             new == {SyncTask(s, x.token + 1, Running)}
  <2>1. /\ ~x.syncing /\ x.book.hasSnapshot /\ result.status = "gap"
        /\ state' = [state EXCEPT ![s] = z]
        /\ tasks' = tasks \union new
        /\ healthChanged' = TRUE
    BY <1>10 DEF EventLeavesGap
  <2>2. BookOK(s, head[s], result.book) /\ ~result.book.hasSnapshot
    BY <1>1, <1>5, <1>7, <2>1, ApplyUpdateOK
  <2> HIDE DEF x, result
  <2>5. SymbolOK(s, head[s], y) /\ ~y.book.hasSnapshot /\ y.token = x.token
    BY <1>1, <2>1, <2>2, BookReplacedOK DEF x
  <2> HIDE DEF y
  <2> USE DEF x
  <2>6. SymbolOK(s, head[s], Buffered(y, e)) /\ Buffered(y, e).token = x.token
    BY <1>1, <1>5, <1>6, <2>5, BufferedOK, BufferedOnward
  <2>7. SymbolOK(s, head[s], z) /\ z.token = x.token + 1 /\ ~z.book.hasSnapshot
    BY <2>6, ResyncBegunOK, OperationsOnward
  <2> HIDE DEF z
  <2>8. Onward(x, z)
    BY <1>7, <2>7 DEF Onward
  <2>9. /\ StateOK' /\ state'[s] = z
        /\ \A r \in Symbols : Onward(state[r], state'[r])
    BY <1>1, <2>1, <2>7, <2>8, OneSymbolOK
  <2>10. \A t \in new : /\ t \in Task /\ t.symbol = s /\ t.token = x.token + 1
    <3>1. x.token + 1 \in Nat /\ Running \in BOOLEAN
      BY <1>7 DEF Running
    <3> HIDE DEF x
    <3> QED  BY <3>1, SyncTaskType
  <2>11. \A t, u \in new : t = u
    OBVIOUS
  <2> HIDE DEF new
  <2>12. \A t \in new : /\ t \in Task
                        /\ t.token = state'[t.symbol].token
                        /\ t.token > state[t.symbol].token
                        /\ ~state'[t.symbol].book.hasSnapshot
    BY <1>7, <2>7, <2>9, <2>10
  <2>13. TasksOK'
    BY <2>1, <2>9, <2>11, <2>12, TasksOnward
  <2> QED  BY <1>1, <2>1, <2>9, <2>13 DEF IInv, FrameOK, NoRollback, Onward
<1> QED  BY <1>4, <1>8, <1>9, <1>10

(* A failed attempt keeps the invariant, whatever right state it leaves its *)
(* symbol in, as long as it does not gain a book.                           *)
LEMMA TaskFailsOK ==
    ASSUME IInv, NEW t \in tasks, NEW x,
           SymbolOK(t.symbol, head[t.symbol], x),
           Onward(state[t.symbol], x), x.token = state[t.symbol].token,
           TaskFails(t, x), UNCHANGED <<head, phase, shard, waiter>>
    PROVE  IInv' /\ NoRollback
<1> DEFINE s == t.symbol
           retried == [t EXCEPT !.pc = "check", !.attempt = IF t.forever THEN 0 ELSE @ + 1]
           givenUp == IF t.token = x.token THEN [Emptied(x) EXCEPT !.syncing = FALSE] ELSE x
<1>1. t \in Task /\ s \in Symbols
  BY DEF IInv, TasksOK, Task
<1>2. x \in SymbolState /\ state[s].token \in Nat
  BY <1>1 DEF IInv, StateOK, SymbolOK, SymbolState
<1>3. CASE LastAttempt(t)
  <2>1. /\ tasks' = tasks \ {t}
        /\ state' = [state EXCEPT ![s] = givenUp]
        /\ healthChanged' = TRUE
    BY <1>3 DEF TaskFails
  <2>2. SymbolOK(s, head[s], givenUp) /\ Onward(state[s], givenUp)
    <3>1. CASE t.token = x.token
      <4> DEFINE y == [Emptied(x) EXCEPT !.syncing = FALSE]
      <4>1. SymbolOK(s, head[s], y) /\ Emptied(x) \in SymbolState
        BY <1>1, EmptiedOK DEF SymbolOK
      <4>2. y.token = Emptied(x).token /\ y.book = Emptied(x).book
        BY <4>1 DEF SymbolState
      <4>3. Emptied(x).token = x.token /\ ~Emptied(x).book.hasSnapshot
        BY <1>1, OperationsOnward
      <4>4. Onward(state[s], y)
        BY <4>2, <4>3, <1>2 DEF Onward
      <4>5. givenUp = y
        BY <3>1
      <4> HIDE DEF y, givenUp
      <4> QED  BY <4>1, <4>4, <4>5
    <3>2. CASE t.token # x.token
      BY <3>2
    <3> QED  BY <3>1, <3>2
  <2> HIDE DEF givenUp
  <2>3. StateOK' /\ \A r \in Symbols : Onward(state[r], state'[r])
    BY <1>1, <2>1, <2>2, OneSymbolOK
  <2>4. TasksOK'
    BY <2>1, <2>3, TasksSettle
  <2> QED  BY <2>1, <2>3, <2>4 DEF IInv, FrameOK, NoRollback, Onward
<1>4. CASE ~LastAttempt(t)
  <2>1. /\ tasks' = (tasks \ {t}) \union {retried}
        /\ state' = [state EXCEPT ![s] = x]
        /\ UNCHANGED healthChanged
    BY <1>4 DEF TaskFails
  <2>2. retried \in Task /\ retried.symbol = t.symbol /\ retried.token = t.token
    <3>1. t.attempt \in 0..SyncMaxAttempts /\ SyncMaxAttempts \in Nat
      BY <1>1, ManagerAssumption DEF Task
    <3>2. (IF t.forever THEN 0 ELSE t.attempt + 1) \in 0..SyncMaxAttempts
      BY <1>4, <3>1 DEF LastAttempt
    <3> QED  BY <1>1, <3>2 DEF Task
  <2> HIDE DEF retried
  <2>3. StateOK' /\ \A r \in Symbols : Onward(state[r], state'[r])
    BY <1>1, <2>1, OneSymbolOK
  <2>4. TasksOK'
    BY <2>1, <2>2, <2>3, TaskRetried
  <2> QED  BY <2>1, <2>3, <2>4 DEF IInv, FrameOK, NoRollback, Onward
<1> QED  BY <1>3, <1>4

(* A well-formed answer keeps the invariant: it loads only where there was  *)
(* no book, and its task was the only one that could.                       *)
LEMMA AnswerLoadedOK ==
    ASSUME IInv, NEW t \in tasks, NEW version \in 0..head[t.symbol],
           AnswerLoaded(t, version)
    PROVE  IInv' /\ NoRollback
<1> DEFINE s == t.symbol
           x == SnapshotApplied(state[s], RestSnapshot(Truth[s], version))
<1>1. /\ t \in Task /\ s \in Symbols /\ t.token = state[s].token
      /\ ~state[s].book.hasSnapshot
      /\ SymbolOK(s, head[s], state[s])
      /\ head[s] \in 0..MaxId
  BY DEF IInv, TasksOK, StateOK, FrameOK, Task, AnswerLoaded, Superseded
<1>2. SymbolOK(s, head[s], x)
  BY <1>1, SnapshotAppliedOK
<1>3. x.token = state[s].token
  <2>1. /\ Emptied(state[s]) \in SymbolState /\ state[s] \in SymbolState
        /\ Emptied(state[s]).token = state[s].token
    BY <1>1, EmptiedOK, OperationsOnward DEF SymbolOK
  <2> QED  BY <2>1 DEF SnapshotApplied, SymbolState
<1>4. /\ UNCHANGED <<head, phase, shard, waiter>>
      /\ IF x.book.hasSnapshot THEN Synchronized(t, x) ELSE TaskFails(t, x)
  BY DEF AnswerLoaded
<1>5. state[s].token \in Nat
  BY <1>1 DEF SymbolOK, SymbolState
<1> HIDE DEF x
<1>6. CASE ~x.book.hasSnapshot
  <2>1. Onward(state[s], x)
    BY <1>3, <1>5, <1>6 DEF Onward
  <2> QED  BY <1>2, <1>3, <1>4, <1>6, <2>1, TaskFailsOK
<1>7. CASE x.book.hasSnapshot
  <2>1. /\ state' = [state EXCEPT ![s] = x]
        /\ tasks' = tasks \ {t}
        /\ healthChanged' = TRUE
    BY <1>4, <1>7 DEF Synchronized
  <2>2. /\ StateOK' /\ state'[s] = x
        /\ \A r \in Symbols : r # s => state'[r] = state[r]
    BY <1>1, <1>2, <1>4, <2>1, OneSymbolOK
  <2>3. ASSUME NEW u \in tasks'
        PROVE  /\ u.token <= state'[u.symbol].token
               /\ u.token = state'[u.symbol].token => ~state'[u.symbol].book.hasSnapshot
    <3>1. /\ u \in tasks /\ u # t /\ u \in Task /\ u.symbol \in Symbols
          /\ u.token <= state[u.symbol].token
          /\ u.token = state[u.symbol].token => ~state[u.symbol].book.hasSnapshot
      BY <2>1 DEF IInv, TasksOK, Task
    <3>2. CASE u.symbol = s
      <4>1. u.token # t.token
        BY <3>1, <3>2 DEF IInv, TasksOK
      <4> QED  BY <1>1, <1>3, <2>2, <3>1, <3>2, <4>1
    <3>3. CASE u.symbol # s
      BY <2>2, <3>1, <3>3
    <3> QED  BY <3>2, <3>3
  <2>4. TasksOK'
    BY <2>1, <2>3 DEF IInv, TasksOK
  <2>5. NoRollback
    <3>1. \A r \in Symbols : state[r].book.lastId \in Int
      BY DEF IInv, StateOK, SymbolState, Book, NoId
    <3> QED  BY <1>1, <2>2, <3>1 DEF NoRollback
  <2> QED  BY <1>4, <2>1, <2>2, <2>4, <2>5 DEF IInv, FrameOK
<1> QED  BY <1>6, <1>7

(* Opening a shard keeps the invariant, for any right states of its symbols *)
(* under their new tokens and without books.                                *)
LEMMA PrepareConnectedShardOK ==
    ASSUME IInv, NEW h \in Shards, NEW states \in [Symbols -> SymbolState],
           \A s \in Symbols :
              IF s \in Carried(h)
              THEN /\ SymbolOK(s, head[s], states[s])
                   /\ states[s].token = state[s].token + 1
                   /\ ~states[s].book.hasSnapshot
              ELSE states[s] = state[s],
           PrepareConnectedShard(h, states)
    PROVE  IInv' /\ NoRollback
<1> DEFINE new == {SyncTask(s, state[s].token + 1, TRUE) : s \in Carried(h)}
<1>1. /\ state' = states /\ tasks' = tasks \union new
      /\ shard' = [shard EXCEPT ![h] = "open"]
      /\ healthChanged' = TRUE
      /\ UNCHANGED <<head, phase, waiter>>
  BY DEF PrepareConnectedShard
<1>2. \A s \in Symbols : state[s].token \in Nat /\ SymbolOK(s, head[s], state[s])
  BY DEF IInv, StateOK, SymbolState
<1>3. ASSUME NEW s \in Symbols
      PROVE  SymbolOK(s, head'[s], state'[s]) /\ Onward(state[s], state'[s])
  <2>1. CASE s \in Carried(h)
    BY <1>1, <1>2, <2>1 DEF Onward
  <2>2. CASE s \notin Carried(h)
    BY <1>1, <1>2, <2>2, OperationsOnward
  <2> QED  BY <2>1, <2>2
<1>4. StateOK'
  BY <1>1, <1>3 DEF StateOK
<1>5. ASSUME NEW t \in new
      PROVE  /\ t \in Task /\ t.symbol \in Carried(h) /\ t.symbol \in Symbols
             /\ t = SyncTask(t.symbol, state[t.symbol].token + 1, TRUE)
             /\ t.token = state[t.symbol].token + 1
  <2>1. PICK s \in Carried(h) : t = SyncTask(s, state[s].token + 1, TRUE)
    OBVIOUS
  <2>2. s \in Symbols /\ state[s].token + 1 \in Nat
    BY <1>2 DEF Carried
  <2> HIDE DEF new
  <2>3. t \in Task /\ t.symbol = s /\ t.token = state[s].token + 1
    BY <2>1, <2>2, SyncTaskType
  <2> QED  BY <2>1, <2>2, <2>3
<1> HIDE DEF new
<1>6. ASSUME NEW t \in new
      PROVE  /\ t \in Task
             /\ t.token = state'[t.symbol].token
             /\ t.token > state[t.symbol].token
             /\ ~state'[t.symbol].book.hasSnapshot
  <2>1. t \in Task /\ t.symbol \in Carried(h) /\ t.symbol \in Symbols
        /\ t.token = state[t.symbol].token + 1
    BY <1>5
  <2>2. state'[t.symbol].token = state[t.symbol].token + 1
        /\ ~state'[t.symbol].book.hasSnapshot
    BY <1>1, <2>1
  <2> QED  BY <1>2, <2>1, <2>2
<1>7. \A t, u \in new : t.symbol = u.symbol => t = u
  BY <1>5
<1>8. TasksOK'
  BY <1>1, <1>3, <1>4, <1>6, <1>7, TasksOnward
<1>9. NoRollback
  BY <1>3 DEF NoRollback, Onward
<1>10. FrameOK'
  BY <1>1 DEF IInv, FrameOK
<1> QED  BY <1>4, <1>8, <1>9, <1>10 DEF IInv

(* A lost shard, and stop(), keep the invariant.                            *)
LEMMA DisconnectingOK ==
    ASSUME IInv, NEW gone \in SUBSET Symbols, FrameOK', UNCHANGED <<head, tasks>>,
           state' = [s \in Symbols |-> IF s \in gone THEN Disconnected(state[s]) ELSE state[s]]
    PROVE  IInv' /\ NoRollback
<1>1. \A s \in Symbols : SymbolOK(s, head[s], state[s])
  BY DEF IInv, StateOK
<1>2. ASSUME NEW s \in Symbols
      PROVE  SymbolOK(s, head'[s], state'[s]) /\ Onward(state[s], state'[s])
  <2>1. CASE s \in gone
    BY <1>1, <2>1, DisconnectedOK, OperationsOnward
  <2>2. CASE s \notin gone
    BY <1>1, <2>2, OperationsOnward
  <2> QED  BY <2>1, <2>2
<1>3. state' \in [Symbols -> SymbolState]
  <2>1. \A s \in Symbols : state'[s] \in SymbolState
    BY <1>2 DEF SymbolOK
  <2> QED  BY <2>1
<1>4. StateOK'
  BY <1>2, <1>3 DEF StateOK
<1>5. TasksOK'
  BY <1>2, <1>4, TasksSettle
<1> QED  BY <1>2, <1>4, <1>5 DEF IInv, NoRollback, Onward

(* Steps that leave every symbol alone and spawn nothing.                   *)
LEMMA SymbolsAloneOK ==
    ASSUME IInv, FrameOK', UNCHANGED <<head, state>>, tasks' \subseteq tasks
    PROVE  IInv' /\ NoRollback
<1>1. StateOK'
  BY DEF IInv, StateOK
<1>2. \A s \in Symbols : Onward(state[s], state'[s])
  BY OperationsOnward DEF IInv, StateOK
<1>3. TasksOK'
  BY <1>1, <1>2, TasksSettle
<1> QED  BY <1>1, <1>2, <1>3 DEF IInv, NoRollback, Onward

(* A shard's handlers keep the invariant.                                   *)
LEMMA ShardStepOK ==
    ASSUME IInv, NEW h \in Shards, ShardStep(h)
    PROVE  IInv' /\ NoRollback
<1>1. \A s \in Symbols : SymbolOK(s, head[s], state[s]) /\ state[s].token \in Nat
  BY DEF IInv, StateOK, SymbolState
<1>2. ASSUME NEW s \in Symbols
      PROVE  /\ SymbolOK(s, head[s], Prepared(state[s]))
             /\ Prepared(state[s]).token = state[s].token + 1
             /\ ~Prepared(state[s]).book.hasSnapshot
  BY <1>1, PreparedOK, OperationsOnward
<1>3. /\ PreparedShard(h) \in [Symbols -> SymbolState]
      /\ \A s \in Symbols : PreparedShard(h)[s] =
            IF s \in Carried(h) THEN Prepared(state[s]) ELSE state[s]
  BY <1>1, <1>2 DEF PreparedShard, SymbolOK
<1>4. CASE ShardOpens(h)
  <2>1. PrepareConnectedShard(h, PreparedShard(h))
    BY <1>4 DEF ShardOpens
  <2> QED  BY <1>2, <1>3, <2>1, PrepareConnectedShardOK
<1>5. CASE ShardGetsFirstItem(h)
  <2>1. PICK s \in Carried(h) :
            \E first \in 1..head[s] : \E final \in first..head[s], pu \in PuValues(first) :
                PrepareConnectedShard(h, [PreparedShard(h) EXCEPT
                    ![s] = Buffered(@, DepthEvent(Truth[s], first, final, pu))])
    BY <1>5 DEF ShardGetsFirstItem
  <2>2. PICK first \in 1..head[s] : \E final \in first..head[s], pu \in PuValues(first) :
            PrepareConnectedShard(h, [PreparedShard(h) EXCEPT
                ![s] = Buffered(@, DepthEvent(Truth[s], first, final, pu))])
    BY <2>1
  <2>3. PICK final \in first..head[s], pu \in PuValues(first) :
            PrepareConnectedShard(h, [PreparedShard(h) EXCEPT
                ![s] = Buffered(@, DepthEvent(Truth[s], first, final, pu))])
    BY <2>2
  <2> DEFINE e == DepthEvent(Truth[s], first, final, pu)
             y == Buffered(Prepared(state[s]), e)
             states == [PreparedShard(h) EXCEPT ![s] = Buffered(@, e)]
  <2>4. /\ s \in Symbols /\ head[s] \in 0..MaxId /\ MaxId \in Nat
    BY HistoryAssumption DEF Carried, IInv, FrameOK
  <2>5. Truthful(s, head[s], e)
    BY DEF Truthful
  <2>6. e \in Event
    <3>1. first \in 1..MaxId /\ final \in first..MaxId
      BY <2>4
    <3> QED  BY <2>4, <3>1, HistoryAssumption, DepthEventType
  <2>7. PrepareConnectedShard(h, states)
    BY <2>3
  <2> HIDE DEF e
  <2>8. SymbolOK(s, head[s], y)
    BY <1>2, <2>4, <2>5, <2>6, BufferedOK
  <2>9. y.token = state[s].token + 1 /\ ~y.book.hasSnapshot
    BY <1>2, <2>4, BufferedOnward
  <2>10. states = [PreparedShard(h) EXCEPT ![s] = y]
    BY <1>3, <2>1, <2>4
  <2> HIDE DEF y, states
  <2>11. states \in [Symbols -> SymbolState]
    BY <1>3, <2>8, <2>10 DEF SymbolOK
  <2>12. \A r \in Symbols :
            IF r \in Carried(h)
            THEN /\ SymbolOK(r, head[r], states[r])
                 /\ states[r].token = state[r].token + 1
                 /\ ~states[r].book.hasSnapshot
            ELSE states[r] = state[r]
    BY <1>2, <1>3, <2>1, <2>4, <2>8, <2>9, <2>10
  <2> QED  BY <2>7, <2>11, <2>12, PrepareConnectedShardOK
<1>6. CASE ConnectFails(h)
  <2>1. FrameOK' /\ UNCHANGED <<head, tasks>>
    BY <1>6 DEF ConnectFails, MarkShardDisconnected, IInv, FrameOK
  <2>2. CASE Policy = "binance"
    <3>1. Carried(h) \in SUBSET Symbols
      BY DEF Carried
    <3>2. MarkShardDisconnected(h)
      BY <1>6, <2>2 DEF ConnectFails
    <3> QED  BY <2>1, <3>1, <3>2, DisconnectingOK DEF MarkShardDisconnected
  <2>3. CASE Policy # "binance"
    <3>1. UNCHANGED state
      BY <1>6, <2>3 DEF ConnectFails
    <3> QED  BY <2>1, <3>1, SymbolsAloneOK
  <2> QED  BY <2>2, <2>3
<1>7. CASE SocketLost(h)
  <2>1. FrameOK' /\ UNCHANGED <<head, state, tasks>>
    BY <1>7 DEF SocketLost, IInv, FrameOK
  <2> QED  BY <2>1, SymbolsAloneOK
<1>8. CASE ShardCloses(h)
  <2>1. FrameOK' /\ UNCHANGED <<head, tasks>>
    BY <1>8 DEF ShardCloses, MarkShardDisconnected, AfterClosing, IInv, FrameOK
  <2>2. Carried(h) \in SUBSET Symbols
    BY DEF Carried
  <2>3. MarkShardDisconnected(h)
    BY <1>8 DEF ShardCloses
  <2> QED  BY <2>1, <2>2, <2>3, DisconnectingOK DEF MarkShardDisconnected
<1>9. CASE BackoffOver(h)
  <2>1. FrameOK' /\ UNCHANGED <<head, state, tasks>>
    BY <1>9 DEF BackoffOver, IInv, FrameOK
  <2> QED  BY <2>1, SymbolsAloneOK
<1> QED  BY <1>4, <1>5, <1>6, <1>7, <1>8, <1>9 DEF ShardStep

(* A synchronization's steps keep the invariant.                            *)
LEMMA TaskStepOK ==
    ASSUME IInv, NEW t \in tasks, TaskStep(t)
    PROVE  IInv' /\ NoRollback
<1>1. /\ t \in Task /\ t.symbol \in Symbols
      /\ SymbolOK(t.symbol, head[t.symbol], state[t.symbol])
  BY DEF IInv, TasksOK, StateOK, Task
<1>2. CASE TaskChecks(t)
  <2> DEFINE r == [t EXCEPT !.pc = "fetch"]
  <2>1. /\ tasks' = (tasks \ {t}) \union IF TokenIsCurrent(t) THEN {r} ELSE {}
        /\ UNCHANGED <<head, phase, shard, state, healthChanged, waiter>>
    BY <1>2 DEF TaskChecks
  <2>2. r \in Task /\ r.symbol = t.symbol /\ r.token = t.token
    BY <1>1 DEF Task
  <2> HIDE DEF r
  <2>3. FrameOK' /\ StateOK'
    BY <2>1 DEF IInv, FrameOK, StateOK
  <2>4. CASE TokenIsCurrent(t)
    <3>1. tasks' = (tasks \ {t}) \union {r}
      BY <2>1, <2>4
    <3>2. \A s \in Symbols : Onward(state[s], state'[s])
      BY <2>1, OperationsOnward DEF IInv, StateOK
    <3>3. TasksOK'
      BY <2>2, <2>3, <3>1, <3>2, TaskRetried
    <3> QED  BY <2>3, <3>2, <3>3 DEF IInv, NoRollback, Onward
  <2>5. CASE ~TokenIsCurrent(t)
    <3>1. tasks' \subseteq tasks
      BY <2>1, <2>5
    <3> QED  BY <2>1, <2>3, <3>1, SymbolsAloneOK
  <2> QED  BY <2>4, <2>5
<1>3. CASE RequestFails(t)
  <2>1. TaskFails(t, state[t.symbol]) /\ UNCHANGED <<head, phase, shard, waiter>>
    BY <1>3 DEF RequestFails
  <2>2. Onward(state[t.symbol], state[t.symbol])
    BY <1>1, OperationsOnward
  <2> QED  BY <1>1, <2>1, <2>2, TaskFailsOK
<1>4. CASE AnswerDropped(t)
  <2>1. FrameOK' /\ UNCHANGED <<head, state>> /\ tasks' \subseteq tasks
    BY <1>4 DEF AnswerDropped, IInv, FrameOK
  <2> QED  BY <2>1, SymbolsAloneOK
<1>5. CASE AnswerMalformed(t)
  <2> DEFINE x == Emptied(state[t.symbol])
  <2>1. TaskFails(t, x) /\ UNCHANGED <<head, phase, shard, waiter>>
    BY <1>5 DEF AnswerMalformed
  <2>2. SymbolOK(t.symbol, head[t.symbol], x)
        /\ Onward(state[t.symbol], x) /\ x.token = state[t.symbol].token
    BY <1>1, EmptiedOK, OperationsOnward
  <2> HIDE DEF x
  <2> QED  BY <2>1, <2>2, TaskFailsOK
<1>6. CASE \E version \in 0..head[t.symbol] : AnswerLoaded(t, version)
  BY <1>6, AnswerLoadedOK
<1> QED  BY <1>2, <1>3, <1>4, <1>5, <1>6 DEF TaskStep

(* The exchange moving on keeps the invariant.                              *)
LEMMA TradeOK ==
    ASSUME IInv, NEW s \in Symbols, Trade(s)
    PROVE  IInv' /\ NoRollback
<1>1. /\ head[s] < MaxId /\ head' = [head EXCEPT ![s] = @ + 1]
      /\ UNCHANGED <<phase, shard, state, tasks, healthChanged, waiter>>
  BY DEF Trade
<1>2. /\ head \in [Symbols -> 0..MaxId] /\ MaxId \in Nat
      /\ \A r \in Symbols : SymbolOK(r, head[r], state[r])
  BY HistoryAssumption DEF IInv, FrameOK, StateOK
<1>3. /\ head' \in [Symbols -> 0..MaxId]
      /\ \A r \in Symbols : head[r] <= head'[r]
  BY <1>1, <1>2
<1>4. FrameOK'
  BY <1>1, <1>3 DEF IInv, FrameOK
<1>5. ASSUME NEW r \in Symbols PROVE SymbolOK(r, head'[r], state'[r])
  <2>1. /\ head[r] \in 0..MaxId /\ head'[r] \in 0..MaxId /\ head[r] <= head'[r]
        /\ SymbolOK(r, head[r], state[r])
    BY <1>2, <1>3
  <2> QED  BY <1>1, <2>1, LaterOK
<1>6. StateOK'
  BY <1>1, <1>5 DEF IInv, StateOK
<1>7. \A r \in Symbols : Onward(state[r], state'[r])
  BY <1>1, <1>2, OperationsOnward
<1>8. TasksOK'
  BY <1>1, <1>6, <1>7, TasksSettle
<1> QED  BY <1>4, <1>6, <1>7, <1>8 DEF IInv, NoRollback, Onward

(* A call of resync_symbol keeps the invariant.                             *)
LEMMA ResyncSymbolOK ==
    ASSUME IInv, NEW s \in Symbols, ResyncSymbol(s)
    PROVE  IInv' /\ NoRollback
<1> DEFINE z == ResyncBegun(state[s])
           task == [SyncTask(s, state[s].token + 1, FALSE)
                        EXCEPT !.owned = FALSE, !.pc = "fetch"]
           new == IF state[s].connected \/ ~Running THEN {task} ELSE {}
<1>1. /\ state' = [state EXCEPT ![s] = z]
      /\ tasks' = tasks \union new
      /\ UNCHANGED <<head, phase, shard, healthChanged, waiter>>
  BY DEF ResyncSymbol
<1>2. SymbolOK(s, head[s], state[s]) /\ state[s].token \in Nat
  BY DEF IInv, StateOK, SymbolState
<1>3. /\ SymbolOK(s, head[s], z) /\ Onward(state[s], z)
      /\ z.token = state[s].token + 1 /\ ~z.book.hasSnapshot
  BY <1>2, ResyncBegunOK, OperationsOnward
<1> HIDE DEF z
<1>4. /\ StateOK' /\ state'[s] = z
      /\ \A r \in Symbols : Onward(state[r], state'[r])
  BY <1>1, <1>2, <1>3, OneSymbolOK
<1>5. task \in Task /\ task.symbol = s /\ task.token = state[s].token + 1
  <2>1. state[s].token + 1 \in Nat
    BY <1>2
  <2>2. LET spawned == SyncTask(s, state[s].token + 1, FALSE) IN
        spawned \in Task /\ spawned.symbol = s /\ spawned.token = state[s].token + 1
    BY <2>1, SyncTaskType
  <2> QED  BY <2>2 DEF Task
<1> HIDE DEF task
<1>6. \A t \in new : t = task
  OBVIOUS
<1> HIDE DEF new
<1>7. ASSUME NEW t \in new
      PROVE  /\ t \in Task
             /\ t.token = state'[t.symbol].token
             /\ t.token > state[t.symbol].token
             /\ ~state'[t.symbol].book.hasSnapshot
  BY <1>2, <1>3, <1>4, <1>5, <1>6
<1>8. \A t, u \in new : t.symbol = u.symbol => t = u
  BY <1>6
<1>9. TasksOK'
  BY <1>1, <1>4, <1>7, <1>8, TasksOnward
<1> QED  BY <1>1, <1>4, <1>9 DEF IInv, FrameOK, NoRollback, Onward

(* start(), the two ends of stop(), and wait_until_ready.                   *)
LEMMA OwnerStepOK ==
    ASSUME IInv, Start \/ StopBegin \/ StopEnd \/ WaiterTests \/ WaiterTimesOut
    PROVE  IInv' /\ NoRollback
<1>1. CASE Start
  <2>1. FrameOK' /\ UNCHANGED <<head, state>> /\ tasks' \subseteq tasks
    BY <1>1 DEF Start, IInv, FrameOK
  <2> QED  BY <2>1, SymbolsAloneOK
<1>2. CASE StopBegin
  <2>1. FrameOK' /\ UNCHANGED <<head, state>> /\ tasks' \subseteq tasks
    BY <1>2 DEF StopBegin, IInv, FrameOK
  <2> QED  BY <2>1, SymbolsAloneOK
<1>3. CASE StopEnd
  <2>1. FrameOK' /\ UNCHANGED <<head, tasks>>
    BY <1>3 DEF StopEnd, IInv, FrameOK
  <2>2. state' = [s \in Symbols |-> IF s \in Symbols THEN Disconnected(state[s]) ELSE state[s]]
    BY <1>3 DEF StopEnd
  <2>3. Symbols \in SUBSET Symbols
    OBVIOUS
  <2> QED  BY <2>1, <2>2, <2>3, DisconnectingOK
<1>4. CASE WaiterTests
  <2>1. FrameOK' /\ UNCHANGED <<head, state>> /\ tasks' \subseteq tasks
    BY <1>4 DEF WaiterTests, IInv, FrameOK
  <2> QED  BY <2>1, SymbolsAloneOK
<1>5. CASE WaiterTimesOut
  <2>1. FrameOK' /\ UNCHANGED <<head, state>> /\ tasks' \subseteq tasks
    BY <1>5 DEF WaiterTimesOut, IInv, FrameOK
  <2> QED  BY <2>1, SymbolsAloneOK
<1> QED  BY <1>1, <1>2, <1>3, <1>4, <1>5

-----------------------------------------------------------------------------
\* The theorems

(* A manager just built satisfies the invariant.                            *)
LEMMA InitIInv == Init => IInv
<1> SUFFICES ASSUME Init PROVE IInv
  OBVIOUS
<1>1. FrameOK
  <2>1. 0 \in 0..MaxId
    BY HistoryAssumption
  <2>2. head \in [Symbols -> 0..MaxId]
    BY <2>1 DEF Init
  <2> QED  BY <2>2 DEF Init, FrameOK
<1>2. \A s \in Symbols : SymbolOK(s, head[s], state[s])
  BY NewStateOK DEF Init
<1>3. StateOK
  BY <1>2 DEF StateOK, SymbolOK, Init
<1>4. TasksOK
  BY DEF Init, TasksOK
<1> QED  BY <1>1, <1>3, <1>4 DEF IInv

(* Every step of the manager keeps it, and rolls no book back.              *)
LEMMA NextIInv == IInv /\ [Next]_vars => IInv' /\ NoRollback
<1> SUFFICES ASSUME IInv, [Next]_vars PROVE IInv' /\ NoRollback
  OBVIOUS
<1>1. CASE Start \/ StopBegin \/ StopEnd \/ WaiterTests \/ WaiterTimesOut
  BY <1>1, OwnerStepOK
<1>2. CASE \E h \in Shards : ShardStep(h)
  BY <1>2, ShardStepOK
<1>3. ASSUME NEW s \in Symbols, Trade(s) PROVE IInv' /\ NoRollback
  BY <1>3, TradeOK
<1>4. ASSUME NEW s \in Symbols, MessageArrives(s) \/ ReplayEvent(s)
      PROVE  IInv' /\ NoRollback
  BY <1>4, IngestOK DEF MessageArrives, ReplayEvent
<1>5. ASSUME NEW s \in Symbols, ResyncSymbol(s) PROVE IInv' /\ NoRollback
  BY <1>5, ResyncSymbolOK
<1>6. CASE \E t \in tasks : TaskStep(t)
  BY <1>6, TaskStepOK
<1>7. CASE UNCHANGED vars
  <2>1. UNCHANGED <<head, phase, shard, state, tasks, healthChanged, waiter>>
    BY <1>7 DEF vars
  <2>2. FrameOK' /\ UNCHANGED <<head, state>> /\ tasks' \subseteq tasks
    BY <2>1 DEF IInv, FrameOK
  <2> QED  BY <2>2, SymbolsAloneOK
<1> QED  BY <1>1, <1>2, <1>3, <1>4, <1>5, <1>6, <1>7 DEF Next

(* The invariant holds of every reachable state.                            *)
LEMMA SpecIInv == Spec => []IInv
<1>1. IInv /\ [Next]_vars => IInv'
  BY NextIInv
<1> QED  BY InitIInv, <1>1, PTL DEF Spec

(* TypeOK: the manager's records keep their types, and no buffer outgrows   *)
(* max_buffer_events.                                                       *)
THEOREM ManagerTypeCorrect == Spec => []TypeOK
  BY SpecIInv, IInvImplies, PTL

(* BooksFaithful: no interleaving of buffering, late snapshots, replay,     *)
(* live events, reconnects and stops makes a book show a level the exchange *)
(* did not quote at the book's own update id.                               *)
THEOREM ManagerBooksFaithful == Spec => []BooksFaithful
  BY SpecIInv, IInvImplies, PTL

(* BacklogOnlyWithoutBook: events wait only while there is no book to apply *)
(* them to.                                                                 *)
THEOREM ManagerBacklog == Spec => []BacklogOnlyWithoutBook
  BY SpecIInv, IInvImplies, PTL

(* NeverRollsBack: whichever of the stream and the REST answers comes late, *)
(* a book that keeps a snapshot never returns to an older update id.        *)
THEOREM ManagerNeverRollsBack == Spec => NeverRollsBack
<1>1. IInv /\ [Next]_vars => NoRollback
  BY NextIInv
<1>2. IInv /\ [Next]_vars =>
        [\A s \in Symbols :
            state[s].book.hasSnapshot /\ state'[s].book.hasSnapshot =>
                state'[s].book.lastId >= state[s].book.lastId]_vars
  BY <1>1 DEF NoRollback
<1> QED  BY SpecIInv, <1>2, PTL DEF Spec, NeverRollsBack

-----------------------------------------------------------------------------
(***************************************************************************)
(* What the readers of the managed books rely on: that the manager         *)
(* implements MarketReplica, and that it never leaves wait_until_ready     *)
(* asleep over healthy books.                                              *)
(*                                                                         *)
(* Both follow from one analysis of the steps.  A step either settles (it  *)
(* leaves each book as it is or unsynchronized) or it moves: it makes one  *)
(* book newer and sets the event.  StepsSettleOrMove says so of each       *)
(* action.                                                                 *)
(***************************************************************************)

\* A synchronized book has the snapshot its levels stem from.
SyncedOnSnapshot ==
    \A s \in Symbols : state[s].book.synchronized => state[s].book.hasSnapshot

Inv == IInv /\ SyncedOnSnapshot /\ NoLostWakeup

-----------------------------------------------------------------------------
\* Two kinds of steps

\* What becomes of a book in state b when its symbol settles in state c.
Rests(b, c) == c = b \/ ~c.synchronized

\* The event is set or left as it is, unless the waiter clears it and tests.
Signals ==
    \/ healthChanged'
    \/ healthChanged' = healthChanged /\ waiter' \in {waiter, "idle"}
    \/ WaiterTests

Settles ==
    /\ \A s \in Symbols : Rests(state[s].book, state'[s].book)
    /\ head' = head \/ (\E s \in Symbols : Trade(s))
    /\ Signals

Moves(s) ==
    /\ state[s].book.hasSnapshot => state'[s].book.lastId > state[s].book.lastId
    /\ state'[s].book.hasSnapshot
    /\ \A r \in Symbols \ {s} : state'[r].book = state[r].book
    /\ head' = head
    /\ healthChanged'

(* Steps that leave every symbol alone settle.                              *)
LEMMA AloneSettles ==
    ASSUME UNCHANGED <<head, state>>, Signals
    PROVE  Settles
  BY DEF Settles, Rests

(* Where each operation on a symbol leaves its book.                        *)
LEMMA OperationsRest ==
    ASSUME NEW x \in SymbolState
    PROVE  /\ Rests(x.book, Disconnected(x).book)
           /\ Rests(x.book, Prepared(x).book)
           /\ ~ResyncBegun(x).book.synchronized
           /\ ~Emptied(x).book.synchronized
           /\ ~[Emptied(x) EXCEPT !.syncing = FALSE].book.synchronized
           /\ \A e : Buffered(x, e).book = x.book
<1>1. x.book \in Book
  BY DEF SymbolState
<1>2. ~Disconnected(x).book.synchronized
  BY <1>1 DEF Disconnected, MarkDisconnected, Book
<1>3. \A c : ~Reset(x.book, c).synchronized
  BY DEF Reset, NewBook
<1>4. Prepared(x).book = Reset(x.book, TRUE)
  BY DEF Prepared
<1>5. ResyncBegun(x).book = Reset(x.book, x.book.connected)
  BY DEF ResyncBegun, MarkResync, SymbolState
<1>6. /\ Emptied(x).book = Reset(x.book, x.connected \/ ~Running)
      /\ [Emptied(x) EXCEPT !.syncing = FALSE].book = Emptied(x).book
  BY DEF Emptied, SymbolState
<1>7. \A e : Buffered(x, e).book = x.book
  BY DEF Buffered, SymbolState
<1> QED  BY <1>2, <1>3, <1>4, <1>5, <1>6, <1>7 DEF Rests

(* One symbol changes while the exchange stands still.                      *)
LEMMA OneSettles ==
    ASSUME IInv, head' = head, NEW s \in Symbols, NEW x,
           Rests(state[s].book, x.book), state' = [state EXCEPT ![s] = x], Signals
    PROVE  Settles
<1>1. state \in [Symbols -> SymbolState]
  BY DEF IInv, StateOK
<1>2. \A r \in Symbols : state'[r] = IF r = s THEN x ELSE state[r]
  BY <1>1
<1> QED  BY <1>2 DEF Settles, Rests

(* A set of symbols loses its connection, and the event is set.             *)
LEMMA DisconnectingSettles ==
    ASSUME IInv, head' = head, healthChanged', NEW gone,
           state' = [s \in Symbols |-> IF s \in gone THEN Disconnected(state[s]) ELSE state[s]]
    PROVE  Settles
<1>1. \A s \in Symbols : state[s] \in SymbolState
  BY DEF IInv, StateOK
<1>2. ASSUME NEW s \in Symbols
      PROVE  Rests(state[s].book, state'[s].book)
  <2>1. Rests(state[s].book, Disconnected(state[s]).book)
    BY <1>1, OperationsRest
  <2>2. state'[s] = IF s \in gone THEN Disconnected(state[s]) ELSE state[s]
    OBVIOUS
  <2> QED  BY <2>1, <2>2 DEF Rests
<1> QED  BY <1>2 DEF Settles, Signals

-----------------------------------------------------------------------------
\* The actions

(* Shards only ever take books down.                                        *)
LEMMA ShardSettles ==
    ASSUME IInv, NEW h \in Shards, ShardStep(h)
    PROVE  Settles
<1>1. \A s \in Symbols : state[s] \in SymbolState
  BY DEF IInv, StateOK
<1>2. /\ DOMAIN PreparedShard(h) = Symbols
      /\ \A s \in Symbols : Rests(state[s].book, PreparedShard(h)[s].book)
  <2>1. \A s \in Symbols : Rests(state[s].book, Prepared(state[s]).book)
    BY <1>1, OperationsRest
  <2> QED  BY <2>1 DEF PreparedShard, Rests
<1>3. CASE ShardOpens(h)
  <2>1. state' = PreparedShard(h) /\ head' = head /\ healthChanged'
    BY <1>3 DEF ShardOpens, PrepareConnectedShard
  <2> QED  BY <1>2, <2>1 DEF Settles, Signals
<1>4. CASE ShardGetsFirstItem(h)
  <2>1. PICK s \in Carried(h) :
            \E first \in 1..head[s] : \E final \in first..head[s], pu \in PuValues(first) :
                PrepareConnectedShard(h, [PreparedShard(h) EXCEPT
                    ![s] = Buffered(@, DepthEvent(Truth[s], first, final, pu))])
    BY <1>4 DEF ShardGetsFirstItem
  <2>2. PICK e : PrepareConnectedShard(h, [PreparedShard(h) EXCEPT ![s] = Buffered(@, e)])
    BY <2>1
  <2>3. /\ state' = [PreparedShard(h) EXCEPT ![s] = Buffered(@, e)]
        /\ head' = head /\ healthChanged'
    BY <2>2 DEF PrepareConnectedShard
  <2>4. s \in Symbols /\ PreparedShard(h)[s] = Prepared(state[s])
    BY DEF Carried, PreparedShard
  <2>5. Prepared(state[s]) \in SymbolState
    <3>1. SymbolOK(s, head[s], state[s])
      BY <2>4 DEF IInv, StateOK
    <3> QED  BY <2>4, <3>1, PreparedOK DEF SymbolOK
  <2>6. Buffered(PreparedShard(h)[s], e).book = PreparedShard(h)[s].book
    BY <2>4, <2>5, OperationsRest
  <2>7. \A r \in Symbols : state'[r].book = PreparedShard(h)[r].book
    <3> HIDE DEF PreparedShard
    <3> QED  BY <1>2, <2>3, <2>4, <2>6
  <2> QED  BY <1>2, <2>3, <2>7 DEF Settles, Signals, Rests
<1>5. CASE ConnectFails(h)
  <2>1. head' = head /\ waiter' = waiter
    BY <1>5 DEF ConnectFails
  <2>2. CASE Policy = "binance"
    <3>1. MarkShardDisconnected(h)
      BY <1>5, <2>2 DEF ConnectFails
    <3> QED  BY <2>1, <3>1, DisconnectingSettles DEF MarkShardDisconnected
  <2>3. CASE Policy # "binance"
    <3>1. UNCHANGED <<state, healthChanged>>
      BY <1>5, <2>3 DEF ConnectFails
    <3> QED  BY <2>1, <3>1, AloneSettles DEF Signals
  <2> QED  BY <2>2, <2>3
<1>6. CASE SocketLost(h) \/ BackoffOver(h)
  BY <1>6, AloneSettles DEF SocketLost, BackoffOver, Signals
<1>7. CASE ShardCloses(h)
  <2>1. head' = head /\ MarkShardDisconnected(h)
    BY <1>7 DEF ShardCloses
  <2> QED  BY <2>1, DisconnectingSettles DEF MarkShardDisconnected
<1> QED  BY <1>3, <1>4, <1>5, <1>6, <1>7 DEF ShardStep

(* An event is buffered, is stale, moves the book or costs it its snapshot. *)
LEMMA IngestSettlesOrMoves ==
    ASSUME IInv, NEW s \in Symbols, Ingest(s)
    PROVE  Settles \/ Moves(s)
<1>1. /\ state \in [Symbols -> SymbolState] /\ state[s] \in SymbolState
      /\ state[s].book \in Book /\ state[s].book.lastId \in Int
      /\ head' = head /\ waiter' = waiter /\ head[s] \in 0..MaxId /\ MaxId \in Nat
  BY HistoryAssumption DEF IInv, FrameOK, StateOK, SymbolState, Book, NoId, Ingest
<1>2. PICK first \in 1..head[s] : \E final \in first..head[s], pu \in PuValues(first) :
          LET e == DepthEvent(Truth[s], first, final, pu) IN
          EventBuffered(s, e) \/ EventApplied(s, e) \/ EventLeavesGap(s, e)
  BY DEF Ingest
<1>3. PICK final \in first..head[s], pu \in PuValues(first) :
          LET e == DepthEvent(Truth[s], first, final, pu) IN
          EventBuffered(s, e) \/ EventApplied(s, e) \/ EventLeavesGap(s, e)
  BY <1>2
<1> DEFINE e == DepthEvent(Truth[s], first, final, pu)
<1>4. e.final \in Nat
  BY <1>1 DEF DepthEvent
<1>5. EventBuffered(s, e) \/ EventApplied(s, e) \/ EventLeavesGap(s, e)
  BY <1>3
<1> HIDE DEF e
<1>6. CASE EventBuffered(s, e)
  <2>1. /\ state' = [state EXCEPT ![s] = Buffered(state[s], e)] /\ healthChanged' = healthChanged
        /\ Buffered(state[s], e).book = state[s].book
    BY <1>1, <1>6, OperationsRest DEF EventBuffered
  <2> QED  BY <1>1, <2>1, OneSettles DEF Signals, Rests
<1>7. CASE EventApplied(s, e)
  <2> DEFINE b == state[s].book
             result == ApplyUpdate(b, e)
             x == [state[s] EXCEPT !.book = result.book]
  <2>1. /\ b.hasSnapshot /\ result.status # "gap" /\ healthChanged'
        /\ state' = [state EXCEPT ![s].book = result.book]
    BY <1>7 DEF EventApplied
  <2>2. state' = [state EXCEPT ![s] = x] /\ x.book = result.book
    BY <1>1, <2>1 DEF SymbolState
  <2>3. CASE Stale(b, e)
    <3>1. result.book = b
      BY <2>3 DEF ApplyUpdate
    <3> HIDE DEF result, x
    <3> QED  BY <1>1, <2>1, <2>2, <3>1, OneSettles DEF Signals, Rests
  <2>4. CASE ~Stale(b, e)
    <3>1. result.book = Accepted(b, e)
      BY <2>1, <2>4 DEF ApplyUpdate
    <3>2. Accepted(b, e).lastId = e.final /\ Accepted(b, e).hasSnapshot = b.hasSnapshot
      BY <1>1 DEF Accepted, Book
    <3>3. e.final > b.lastId
      BY <1>1, <1>4, <2>4 DEF Stale
    <3> HIDE DEF result, x
    <3>4. /\ state'[s].book = Accepted(b, e)
          /\ \A r \in Symbols \ {s} : state'[r] = state[r]
      BY <1>1, <2>2, <3>1
    <3> QED  BY <1>1, <2>1, <3>2, <3>3, <3>4 DEF Moves
  <2> QED  BY <2>3, <2>4
<1>8. CASE EventLeavesGap(s, e)
  <2> DEFINE b == ApplyUpdate(state[s].book, e).book
             y == Buffered([state[s] EXCEPT !.book = b], e)
  <2>1. state' = [state EXCEPT ![s] = ResyncBegun(y)] /\ healthChanged'
    BY <1>8 DEF EventLeavesGap
  <2>2. ~ResyncBegun(y).book.synchronized
    <3>1. y \in [book : {y.book}, buffer : {y.buffer}, syncing : {y.syncing},
                 token : {y.token}, connected : {y.connected}]
      BY <1>1 DEF SymbolState, Buffered
    <3> HIDE DEF y
    <3> QED  BY <3>1 DEF ResyncBegun, MarkResync, Reset, NewBook
  <2> HIDE DEF y
  <2> QED  BY <1>1, <2>1, <2>2, OneSettles DEF Signals, Rests
<1> QED  BY <1>5, <1>6, <1>7, <1>8

(* A snapshot that leaves a gap leaves the book empty.                      *)
LEMMA SnapshotRests ==
    ASSUME NEW s \in Symbols, NEW n \in 0..MaxId, NEW x, SymbolOK(s, n, x),
           NEW version \in 0..n
    PROVE  LET y == SnapshotApplied(x, RestSnapshot(Truth[s], version)) IN
           y.book.hasSnapshot \/ ~y.book.synchronized
<1> DEFINE loaded == LoadSnapshot(x.book, RestSnapshot(Truth[s], version))
           replay == Replay(loaded, x.buffer)
           y == SnapshotApplied(x, RestSnapshot(Truth[s], version))
<1>1. MaxId \in Nat /\ Truth[s] \in [0..MaxId -> Ladder] /\ version \in 0..MaxId
  BY HistoryAssumption
<1>2. BookOK(s, n, loaded) /\ loaded.hasSnapshot
  BY <1>1, LoadFaithful DEF BookOK
<1>3. x \in SymbolState /\ x.buffer \in Seq(Event)
      /\ \A i \in 1..Len(x.buffer) : Truthful(s, n, x.buffer[i])
  BY DEF SymbolOK, SymbolState
<1> HIDE DEF loaded
<1>4. replay.book.hasSnapshot <=> replay.gap = 0
  BY <1>2, <1>3, ReplayOK
<1>5. y = IF replay.gap = 0
          THEN [x EXCEPT !.book = replay.book, !.buffer = <<>>, !.syncing = FALSE]
          ELSE [Emptied(x) EXCEPT !.buffer = SubSeq(@, replay.gap, Len(@))]
  BY DEF SnapshotApplied, loaded
<1> HIDE DEF replay, y
<1>6. CASE replay.gap = 0
  <2>1. y.book = replay.book
    BY <1>3, <1>5, <1>6 DEF SymbolState
  <2> QED  BY <1>4, <1>6, <2>1 DEF y
<1>7. CASE replay.gap # 0
  <2>1. Emptied(x) \in SymbolState
    BY EmptiedOK DEF SymbolOK
  <2>2. y.book = Emptied(x).book
    BY <1>5, <1>7, <2>1 DEF SymbolState
  <2> QED  BY <1>3, <2>2, OperationsRest DEF y
<1> QED  BY <1>6, <1>7

(* A failed attempt settles whatever settled state it found.                *)
LEMMA TaskFailsSettles ==
    ASSUME IInv, NEW t \in tasks, NEW x \in SymbolState,
           Rests(state[t.symbol].book, x.book),
           TaskFails(t, x), UNCHANGED <<head, waiter>>
    PROVE  Settles
<1> DEFINE givenUp == IF t.token = x.token THEN [Emptied(x) EXCEPT !.syncing = FALSE] ELSE x
<1>1. t.symbol \in Symbols
  BY DEF IInv, TasksOK, Task
<1>2. Rests(state[t.symbol].book, givenUp.book)
  <2>1. ~[Emptied(x) EXCEPT !.syncing = FALSE].book.synchronized
    BY OperationsRest
  <2> QED  BY <2>1 DEF Rests
<1>3. \/ state' = [state EXCEPT ![t.symbol] = givenUp] /\ healthChanged' = TRUE
      \/ state' = [state EXCEPT ![t.symbol] = x] /\ healthChanged' = healthChanged
  BY DEF TaskFails
<1> HIDE DEF givenUp
<1> QED  BY <1>1, <1>2, <1>3, OneSettles DEF Signals

(* An answer moves a book only where there was none.                        *)
LEMMA TaskSettlesOrMoves ==
    ASSUME IInv, NEW t \in tasks, TaskStep(t)
    PROVE  Settles \/ Moves(t.symbol)
<1> DEFINE s == t.symbol
<1>1. /\ s \in Symbols /\ state \in [Symbols -> SymbolState] /\ state[s] \in SymbolState
      /\ SymbolOK(s, head[s], state[s]) /\ head[s] \in 0..MaxId
      /\ t.token = state[s].token => ~state[s].book.hasSnapshot
  BY DEF IInv, TasksOK, StateOK, FrameOK, Task
<1>2. CASE TaskChecks(t) \/ AnswerDropped(t)
  BY <1>2, AloneSettles DEF TaskChecks, AnswerDropped, Signals
<1>3. CASE RequestFails(t)
  <2>1. TaskFails(t, state[s]) /\ UNCHANGED <<head, waiter>>
    BY <1>3 DEF RequestFails
  <2>2. Rests(state[s].book, state[s].book)
    BY DEF Rests
  <2> QED  BY <1>1, <2>1, <2>2, TaskFailsSettles
<1>4. CASE AnswerMalformed(t)
  <2>1. TaskFails(t, Emptied(state[s])) /\ UNCHANGED <<head, waiter>>
    BY <1>4 DEF AnswerMalformed
  <2>2. Emptied(state[s]) \in SymbolState
    BY <1>1, EmptiedOK DEF SymbolOK
  <2>3. Rests(state[s].book, Emptied(state[s]).book)
    BY <1>1, OperationsRest DEF Rests
  <2> QED  BY <2>1, <2>2, <2>3, TaskFailsSettles
<1>5. ASSUME NEW version \in 0..head[s], AnswerLoaded(t, version)
      PROVE  Settles \/ Moves(s)
  <2> DEFINE x == SnapshotApplied(state[s], RestSnapshot(Truth[s], version))
  <2>1. /\ UNCHANGED <<head, waiter>> /\ ~state[s].book.hasSnapshot
        /\ IF x.book.hasSnapshot THEN Synchronized(t, x) ELSE TaskFails(t, x)
    BY <1>1, <1>5 DEF AnswerLoaded, Superseded
  <2>2. x \in SymbolState /\ (x.book.hasSnapshot \/ ~x.book.synchronized)
    BY <1>1, SnapshotRests, SnapshotAppliedOK DEF SymbolOK
  <2> HIDE DEF x
  <2>3. CASE x.book.hasSnapshot
    <3>1. state' = [state EXCEPT ![s] = x] /\ healthChanged'
      BY <2>1, <2>3 DEF Synchronized
    <3> QED  BY <1>1, <2>1, <2>3, <3>1 DEF Moves
  <2>4. CASE ~x.book.hasSnapshot
    BY <2>1, <2>2, <2>4, TaskFailsSettles DEF Rests
  <2> QED  BY <2>3, <2>4
<1> QED  BY <1>2, <1>3, <1>4, <1>5 DEF TaskStep

(* Every step settles or moves one book.                                    *)
LEMMA StepsSettleOrMove ==
    ASSUME IInv, [Next]_vars
    PROVE  Settles \/ (\E s \in Symbols : Moves(s))
<1>1. CASE Start \/ StopBegin \/ WaiterTimesOut
  BY <1>1, AloneSettles DEF Start, StopBegin, WaiterTimesOut, Signals
<1>2. CASE StopEnd
  <2>1. /\ head' = head /\ healthChanged'
        /\ state' = [s \in Symbols |-> IF s \in Symbols THEN Disconnected(state[s]) ELSE state[s]]
    BY <1>2 DEF StopEnd
  <2> QED  BY <2>1, DisconnectingSettles
<1>3. CASE WaiterTests
  <2>1. UNCHANGED <<head, state>>
    BY <1>3 DEF WaiterTests
  <2> QED  BY <1>3, <2>1, AloneSettles DEF Signals
<1>4. CASE \E h \in Shards : ShardStep(h)
  BY <1>4, ShardSettles
<1>5. ASSUME NEW s \in Symbols, Trade(s) PROVE Settles
  <2>1. UNCHANGED <<state, healthChanged, waiter>>
    BY <1>5 DEF Trade
  <2> QED  BY <1>5, <2>1 DEF Settles, Signals, Rests
<1>6. ASSUME NEW s \in Symbols, MessageArrives(s) \/ ReplayEvent(s)
      PROVE  Settles \/ Moves(s)
  BY <1>6, IngestSettlesOrMoves DEF MessageArrives, ReplayEvent
<1>7. ASSUME NEW s \in Symbols, ResyncSymbol(s) PROVE Settles
  <2>1. /\ state' = [state EXCEPT ![s] = ResyncBegun(state[s])]
        /\ UNCHANGED <<head, healthChanged, waiter>> /\ state[s] \in SymbolState
    BY <1>7 DEF ResyncSymbol, IInv, StateOK
  <2>2. Rests(state[s].book, ResyncBegun(state[s]).book)
    BY <2>1, OperationsRest DEF Rests
  <2> QED  BY <2>1, <2>2, OneSettles DEF Signals
<1>8. ASSUME NEW t \in tasks, TaskStep(t) PROVE Settles \/ (\E s \in Symbols : Moves(s))
  <2>1. t.symbol \in Symbols
    BY DEF IInv, TasksOK, Task
  <2> QED  BY <1>8, <2>1, TaskSettlesOrMoves
<1>9. CASE UNCHANGED vars
  BY <1>9, AloneSettles DEF vars, Signals
<1> QED  BY <1>1, <1>2, <1>3, <1>4, <1>5, <1>6, <1>7, <1>8, <1>9 DEF Next

-----------------------------------------------------------------------------
\* The invariant

(* A manager just built has no synchronized book and no waiter.             *)
LEMMA InitInv == Init => Inv
<1> SUFFICES ASSUME Init PROVE Inv
  OBVIOUS
<1>1. SyncedOnSnapshot
  BY DEF Init, NewState, Reset, NewBook, SyncedOnSnapshot
<1>2. NoLostWakeup
  BY DEF Init, NoLostWakeup
<1> QED  BY <1>1, <1>2, InitIInv DEF Inv

(* Both kinds of steps keep it.                                             *)
LEMMA NextInv == Inv /\ [Next]_vars => Inv'
<1> SUFFICES ASSUME Inv, [Next]_vars PROVE Inv'
  OBVIOUS
<1>1. IInv /\ IInv'
  BY NextIInv DEF Inv
<1>2. CASE Settles
  <2>1. SyncedOnSnapshot'
    BY <1>2 DEF Settles, Rests, Inv, SyncedOnSnapshot
  <2>2. NoLostWakeup'
    <3>1. SUFFICES ASSUME waiter' = "waiting", AllHealthy', ~healthChanged' PROVE FALSE
      BY DEF NoLostWakeup
    <3>2. \A s \in Symbols : state'[s].book = state[s].book
      BY <1>2, <3>1 DEF Settles, Rests, AllHealthy, Healthy
    <3>3. AllHealthy
      BY <3>1, <3>2 DEF AllHealthy
    <3>4. CASE WaiterTests
      BY <3>1, <3>3, <3>4 DEF WaiterTests
    <3>5. CASE healthChanged' = healthChanged /\ waiter' \in {waiter, "idle"}
      BY <3>1, <3>3, <3>5 DEF Inv, NoLostWakeup
    <3> QED  BY <1>2, <3>1, <3>4, <3>5 DEF Settles, Signals
  <2> QED  BY <1>1, <2>1, <2>2 DEF Inv
<1>3. ASSUME NEW s \in Symbols, Moves(s) PROVE Inv'
  <2>1. SyncedOnSnapshot'
    BY <1>3 DEF Moves, Inv, SyncedOnSnapshot
  <2>2. NoLostWakeup'
    BY <1>3 DEF Moves, NoLostWakeup
  <2> QED  BY <1>1, <2>1, <2>2 DEF Inv
<1> QED  BY <1>1, <1>2, <1>3, StepsSettleOrMove

(* The invariant holds of every reachable state.                            *)
LEMMA SpecInv == Spec => []Inv
  BY InitInv, NextInv, PTL DEF Spec

(* NoLostWakeup: every step that makes the last book healthy sets the event *)
(* that a caller of wait_until_ready sleeps on, after it changed the book.  *)
THEOREM ManagerNoLostWakeup == Spec => []NoLostWakeup
<1>1. Inv => NoLostWakeup
  BY DEF Inv
<1> QED  BY <1>1, SpecInv, PTL

-----------------------------------------------------------------------------
\* The refinement

Shown == [s \in Symbols |-> ShownView(state[s].book)]

ViewOK(s) ==
    /\ Shown[s] \in Replica!View
    /\ Shown[s].up =>
        /\ Shown[s].version = state[s].book.lastId
        /\ Shown[s].version <= head[s]
        /\ \A k \in Keys : Shown[s].levels[k] \in {0, Truth[s][Shown[s].version][k]}

ViewsOK == \A s \in Symbols : ViewOK(s)

(* What a reader sees of a symbol is a view, and part of the ladder the     *)
(* exchange quoted at the version it names.                                 *)
LEMMA ShownOK == Inv => ViewsOK
<1> SUFFICES ASSUME Inv, NEW s \in Symbols PROVE ViewOK(s)
  BY DEF ViewsOK
<1> DEFINE b == state[s].book
<1>1. /\ b \in Book /\ FaithfulTo(b, Truth[s]) /\ (b.hasSnapshot => b.lastId <= head[s])
      /\ MaxId \in Nat /\ Truth[s] \in [0..MaxId -> Ladder]
      /\ b.synchronized => b.hasSnapshot
  BY HistoryAssumption DEF Inv, IInv, StateOK, SymbolOK, BookOK, SyncedOnSnapshot
<1>2. \A levels \in Ladder : levels \in [Keys -> Nat]
  BY QuantitiesAssumption DEF Ladder
<1>3. EmptyLadder \in [Keys -> Nat]
  BY DEF EmptyLadder
<1>4. Shown[s] = ShownView(b)
  BY DEF Shown
<1>5. CASE b.connected /\ b.synchronized
  <2>1. Shown[s] = [up |-> TRUE, version |-> b.lastId, levels |-> b.levels]
    BY <1>4, <1>5 DEF ShownView
  <2>2. b.hasSnapshot /\ b.lastId \in 0..MaxId /\ b.levels \in Ladder
        /\ \A k \in Keys : b.levels[k] \in {0, Truth[s][b.lastId][k]}
    BY <1>1, <1>5 DEF FaithfulTo, Book
  <2> QED  BY <1>1, <1>2, <2>1, <2>2 DEF ViewOK, Replica!View
<1>6. CASE ~(b.connected /\ b.synchronized)
  <2>1. Shown[s] = [up |-> FALSE, version |-> 0, levels |-> EmptyLadder]
    BY <1>4, <1>6 DEF ShownView
  <2> QED  BY <1>1, <1>3, <2>1 DEF ViewOK, Replica!View
<1> QED  BY <1>5, <1>6

(* The same after the step.                                                 *)
LEMMA ShownOKNext == Inv' => ViewsOK'
  BY ShownOK, PTL

(* A step that settles takes books down, or is the exchange's own.          *)
LEMMA SettlesRefines ==
    ASSUME Inv, Inv', Settles
    PROVE  [Replica!Next]_<<head, Shown>>
<1>1. ASSUME NEW s \in Symbols
      PROVE  Shown'[s] \in {Shown[s], Replica!Down}
  <2>1. Shown[s] = ShownView(state[s].book) /\ Shown'[s] = ShownView(state'[s].book)
    BY DEF Shown
  <2>2. CASE state'[s].book = state[s].book
    BY <2>1, <2>2
  <2>3. CASE ~state'[s].book.synchronized
    BY <2>1, <2>3 DEF ShownView, EmptyLadder, Replica!Down
  <2> QED  BY <2>2, <2>3 DEF Settles, Rests
<1>2. CASE head' = head
  <2>1. Shown' \in [Symbols -> Replica!View]
    <3>1. \A s \in Symbols : Shown'[s] \in Replica!View
      <4>1. \A s \in Symbols : Shown[s] \in Replica!View
        BY ShownOK DEF ViewsOK, ViewOK
      <4>2. Replica!Down \in Replica!View
        BY HistoryAssumption DEF Replica!Down, Replica!View
      <4> QED  BY <1>1, <4>1, <4>2
    <3>2. Shown' = [s \in Symbols |-> Shown'[s]]
      BY DEF Shown
    <3> QED  BY <3>1, <3>2
  <2> QED  BY <1>1, <1>2, <2>1 DEF Replica!Next, Replica!GoDown, Shown
<1>3. ASSUME NEW s \in Symbols, Trade(s)
      PROVE  Replica!Next
  <2>1. head' = [head EXCEPT ![s] = @ + 1] /\ Shown' = Shown
    BY <1>3 DEF Trade, Shown
  <2> QED  BY <2>1 DEF Replica!Next, Replica!Trade, Shown
<1> QED  BY <1>2, <1>3 DEF Settles

(* A step that moves a book shows it at a newer version, or leaves it down. *)
LEMMA MovesRefines ==
    ASSUME Inv, Inv', NEW s \in Symbols, Moves(s)
    PROVE  Replica!Next
<1>1. /\ Shown[s] = ShownView(state[s].book) /\ Shown'[s] = ShownView(state'[s].book)
      /\ \A r \in Symbols \ {s} : Shown'[r] = Shown[r]
  BY DEF Moves, Shown
<1>2. Shown' \in [Symbols -> Replica!View]
  <2>1. \A r \in Symbols : Shown'[r] \in Replica!View
    <3>1. \A r \in Symbols : ViewOK(r)'
      BY ShownOKNext DEF ViewsOK
    <3> QED  BY <3>1 DEF ViewOK
  <2>2. Shown' = [r \in Symbols |-> Shown'[r]]
    BY DEF Shown
  <2> QED  BY <2>1, <2>2
<1>3. head' = head
  BY DEF Moves
<1>4. CASE Shown'[s].up
  <2>1. /\ Shown'[s].version = state'[s].book.lastId
        /\ Shown'[s].version <= head[s]
        /\ \A k \in Keys : Shown'[s].levels[k] \in {0, Truth[s][Shown'[s].version][k]}
    BY <1>3, <1>4, ShownOKNext DEF ViewsOK, ViewOK
  <2>2. Shown[s].up => Shown'[s].version > Shown[s].version
    <3>1. SUFFICES ASSUME Shown[s].up PROVE Shown'[s].version > Shown[s].version
      OBVIOUS
    <3>2. Shown[s].version = state[s].book.lastId
      BY <3>1, ShownOK DEF ViewsOK, ViewOK
    <3>3. state[s].book.hasSnapshot
      BY <1>1, <3>1 DEF Inv, SyncedOnSnapshot, ShownView
    <3> QED  BY <2>1, <3>2, <3>3 DEF Moves
  <2> QED  BY <1>1, <1>2, <1>3, <1>4, <2>1, <2>2 DEF Replica!Next, Replica!Shows, Shown
<1>5. CASE ~Shown'[s].up
  <2>1. Shown'[s] = Replica!Down
    BY <1>1, <1>5 DEF ShownView, EmptyLadder, Replica!Down
  <2> QED  BY <1>1, <1>2, <1>3, <2>1 DEF Replica!Next, Replica!GoDown, Shown
<1> QED  BY <1>4, <1>5

(* The initial books are down.                                              *)
LEMMA InitRefines == Init => Replica!Init
<1> SUFFICES ASSUME Init PROVE Replica!Init
  OBVIOUS
<1>1. \A s \in Symbols : ~state[s].book.synchronized
  BY DEF Init, NewState, Reset, NewBook
<1>2. \A s \in Symbols : ShownView(state[s].book) = Replica!Down
  BY <1>1 DEF ShownView, EmptyLadder, Replica!Down
<1> QED  BY <1>2 DEF Init, Replica!Init

(* ImplementsReplica: a reader that trusts connected, synchronized books    *)
(* sees each symbol down or at one true version of the exchange's ladder,   *)
(* which only grows while the book is up, under any interleaving of         *)
(* streams, answers, gaps, reconnects, stops and direct calls.              *)
THEOREM ManagerImplementsReplica == Spec => ImplementsReplica
<1>1. Inv /\ Inv' /\ [Next]_vars => [Replica!Next]_<<head, Shown>>
  <2> SUFFICES ASSUME Inv, Inv', [Next]_vars PROVE [Replica!Next]_<<head, Shown>>
    OBVIOUS
  <2>1. Settles \/ (\E s \in Symbols : Moves(s))
    BY StepsSettleOrMove DEF Inv
  <2> QED  BY <2>1, SettlesRefines, MovesRefines
<1>2. Shown = [s \in Symbols |-> ShownView(state[s].book)]
  BY DEF Shown
<1> QED  BY <1>1, InitRefines, SpecInv, PTL DEF Spec, ImplementsReplica, Replica!Spec, Shown

-----------------------------------------------------------------------------
\* Books and streams

NoReplay == "replay" \notin ApiCalls
NoResync == "resync" \notin ApiCalls

\* A symbol is connected exactly while its shard is open or on its way out.
ShardsLinked ==
    /\ phase = "stopped" => \A h \in Shards : shard[h] = "off"
    /\ \A s \in Symbols :
        /\ state[s].connected => shard[ShardOf[s]] \in {"open", "closing"}
        /\ shard[ShardOf[s]] = "open" => state[s].connected

\* Without replay only a connected symbol has a connected book.
BookLinked(x) == NoReplay => (x.book.connected => x.connected)

\* A current synchronization belongs to a connected symbol, unless it replays,
\* and it goes on for ever, unless resync_symbol made it.
TaskLinked(t, x) ==
    t.token = x.token =>
        /\ NoReplay => x.connected
        /\ NoResync /\ x.connected => t.forever

\* NeverStranded of one symbol.
Attended(s) ==
    NoResync /\ Running /\ state[s].connected /\ ~state[s].book.hasSnapshot =>
        \E t \in tasks : t.symbol = s /\ t.token = state[s].token

Link ==
    /\ ShardsLinked
    /\ \A s \in Symbols : BookLinked(state[s]) /\ Attended(s)
    /\ \A t \in tasks : TaskLinked(t, state[t.symbol])

(* What the operations do to the flags and the token of a symbol.           *)
LEMMA OperationsLink ==
    ASSUME NEW x \in SymbolState
    PROVE  /\ ~Disconnected(x).connected /\ ~Disconnected(x).book.connected
           /\ Disconnected(x).token = x.token + 1
           /\ Prepared(x).connected /\ Prepared(x).token = x.token + 1
           /\ ResyncBegun(x).connected = x.connected
           /\ ResyncBegun(x).book.connected = x.book.connected
           /\ ResyncBegun(x).token = x.token + 1
           /\ Emptied(x).connected = x.connected
           /\ Emptied(x).token = x.token
           /\ \A e : /\ Buffered(x, e).connected = x.connected
                     /\ Buffered(x, e).token = x.token
                     /\ Buffered(x, e).book = x.book
<1>1. x.book \in Book
  BY DEF SymbolState
<1>2. /\ ~Disconnected(x).connected /\ ~Disconnected(x).book.connected
      /\ Disconnected(x).token = x.token + 1
  BY <1>1 DEF Disconnected, MarkDisconnected, Book
<1>3. Prepared(x).connected /\ Prepared(x).token = x.token + 1
  BY DEF Prepared
<1>4. /\ ResyncBegun(x).connected = x.connected
      /\ ResyncBegun(x).book = Reset(x.book, x.book.connected)
      /\ ResyncBegun(x).token = x.token + 1
  BY DEF ResyncBegun, MarkResync, SymbolState
<1>5. Reset(x.book, x.book.connected).connected = x.book.connected
  BY DEF Reset, NewBook
<1>6. Emptied(x).connected = x.connected /\ Emptied(x).token = x.token
  BY DEF Emptied, SymbolState
<1>7. \A e : /\ Buffered(x, e).connected = x.connected
             /\ Buffered(x, e).token = x.token
             /\ Buffered(x, e).book = x.book
  BY DEF Buffered, SymbolState
<1> QED  BY <1>2, <1>3, <1>4, <1>5, <1>6, <1>7

(* One symbol changes, under the same connection, and with it its tasks.    *)
LEMMA OneSymbolLink ==
    ASSUME IInv, Link, NEW s \in Symbols, NEW x,
           state' = [state EXCEPT ![s] = x], UNCHANGED <<phase, shard>>,
           x.connected = state[s].connected, BookLinked(x),
           \A t \in tasks' : \/ t \in tasks /\ t.symbol # s
                             \/ t.symbol = s /\ TaskLinked(t, x),
           \A t \in tasks : t.symbol # s => t \in tasks',
           \/ ~NoResync \/ ~Running \/ ~x.connected \/ x.book.hasSnapshot
           \/ \E t \in tasks' : t.symbol = s /\ t.token = x.token
    PROVE  Link'
<1>1. /\ state'[s] = x /\ \A r \in Symbols : r # s => state'[r] = state[r]
      /\ \A r \in Symbols : state'[r].connected = state[r].connected
  BY DEF IInv, StateOK
<1>2. ShardsLinked'
  BY <1>1 DEF Link, ShardsLinked
<1>3. \A r \in Symbols : BookLinked(state'[r])
  BY <1>1 DEF Link
<1>4. \A t \in tasks' : TaskLinked(t, state'[t.symbol])
  <2>1. \A t \in tasks : t.symbol \in Symbols
    BY DEF IInv, TasksOK, Task
  <2> QED  BY <1>1, <2>1 DEF Link
<1>5. ASSUME NEW r \in Symbols PROVE Attended(r)'
  <2>1. CASE r = s
    BY <1>1, <2>1 DEF Attended, Running
  <2>2. CASE r # s
    BY <1>1, <2>2 DEF Link, Attended, Running
  <2> QED  BY <2>1, <2>2
<1> QED  BY <1>2, <1>3, <1>4, <1>5 DEF Link, BookLinked, TaskLinked

(* Nothing changes but where shards are between connections and who waits.  *)
LEMMA AloneLink ==
    ASSUME Link, ShardsLinked', UNCHANGED <<state, tasks>>, Running' => Running
    PROVE  Link'
  BY DEF Link, BookLinked, TaskLinked, Attended

(* Symbols of one shard, or all, lose their connection.                     *)
LEMMA DisconnectingLink ==
    ASSUME IInv, Link, NEW gone, tasks' = tasks, ShardsLinked', Running' => Running,
           state' = [s \in Symbols |-> IF s \in gone THEN Disconnected(state[s]) ELSE state[s]]
    PROVE  Link'
<1>1. \A s \in Symbols : state[s] \in SymbolState /\ state[s].token \in Nat
  BY DEF IInv, StateOK, SymbolState
<1>2. ASSUME NEW s \in Symbols
      PROVE  \/ state'[s] = state[s]
             \/ /\ ~state'[s].connected /\ ~state'[s].book.connected
                /\ state'[s].token = state[s].token + 1
  BY <1>1, OperationsLink
<1>3. \A s \in Symbols : (BookLinked(state[s]) /\ Attended(s))'
  BY <1>2 DEF Link, BookLinked, Attended
<1>4. ASSUME NEW t \in tasks PROVE TaskLinked(t, state'[t.symbol])
  <2>1. t.symbol \in Symbols /\ t.token \in Nat /\ t.token <= state[t.symbol].token
    BY DEF IInv, TasksOK, Task
  <2> QED  BY <1>1, <1>2, <2>1 DEF Link, TaskLinked
<1> QED  BY <1>3, <1>4 DEF Link, BookLinked, TaskLinked, NoReplay, NoResync

(* A shard opens and spawns a synchronization for each of its symbols.      *)
LEMMA PreparedLink ==
    ASSUME IInv, Link, NEW h \in Shards, NEW states,
           \A s \in Symbols :
              IF s \in Carried(h)
              THEN states[s].connected /\ states[s].token = state[s].token + 1
              ELSE states[s] = state[s],
           PrepareConnectedShard(h, states)
    PROVE  Link'
<1> DEFINE new == {SyncTask(s, state[s].token + 1, TRUE) : s \in Carried(h)}
<1>1. /\ state' = states /\ tasks' = tasks \union new
      /\ shard' = [shard EXCEPT ![h] = "open"] /\ phase = "running" /\ phase' = phase
  BY DEF PrepareConnectedShard, Running
<1>2. /\ \A s \in Symbols : state[s].token \in Nat /\ ShardOf[s] \in Shards
      /\ shard \in [Shards -> {"off", "connecting", "open", "closing", "backoff"}]
  BY ManagerAssumption DEF IInv, FrameOK, StateOK, SymbolState
<1>3. \A s \in Symbols : s \in Carried(h) <=> ShardOf[s] = h
  BY DEF Carried
<1>4. ShardsLinked'
  BY <1>1, <1>2, <1>3 DEF Link, ShardsLinked
<1>5. \A s \in Symbols : BookLinked(state'[s])
  BY <1>1 DEF Link, BookLinked
<1>6. ASSUME NEW s \in Carried(h)
      PROVE  LET task == SyncTask(s, state[s].token + 1, TRUE) IN
             task.symbol = s /\ task.token = state[s].token + 1 /\ task.forever
  BY DEF SyncTask
<1>7. ASSUME NEW s \in Symbols PROVE Attended(s)'
  <2>1. CASE s \in Carried(h)
    <3> DEFINE task == SyncTask(s, state[s].token + 1, TRUE)
    <3>1. task \in tasks'
      BY <1>1, <2>1
    <3>2. task.symbol = s /\ task.token = state'[s].token
      BY <1>1, <1>6, <2>1
    <3> HIDE DEF new, task
    <3> QED  BY <3>1, <3>2 DEF Attended
  <2>2. CASE s \notin Carried(h)
    <3> HIDE DEF new
    <3> QED  BY <1>1, <2>2 DEF Link, Attended, Running
  <2> QED  BY <2>1, <2>2
<1>8. ASSUME NEW t \in tasks' PROVE TaskLinked(t, state'[t.symbol])
  <2>1. CASE t \in tasks
    <3>1. t.symbol \in Symbols /\ t.token \in Nat /\ t.token <= state[t.symbol].token
      BY <2>1 DEF IInv, TasksOK, Task
    <3> QED  BY <1>1, <1>2, <2>1, <3>1 DEF Link, TaskLinked
  <2>2. CASE t \in new
    <3>1. PICK s \in Carried(h) : t = SyncTask(s, state[s].token + 1, TRUE)
      BY <2>2
    <3>2. t.symbol \in Carried(h) /\ t.symbol \in Symbols /\ t.forever
      BY <1>6, <3>1 DEF Carried
    <3> HIDE DEF new
    <3> QED  BY <1>1, <3>2 DEF TaskLinked
  <2> QED  BY <1>1, <2>1, <2>2
<1> QED  BY <1>4, <1>5, <1>7, <1>8 DEF Link, BookLinked, TaskLinked, NoReplay, NoResync

(* The shards keep the link.                                                *)
LEMMA ShardLink ==
    ASSUME IInv, Link, NEW h \in Shards, ShardStep(h)
    PROVE  Link'
<1>1. /\ \A s \in Symbols : state[s] \in SymbolState /\ ShardOf[s] \in Shards
      /\ shard \in [Shards -> {"off", "connecting", "open", "closing", "backoff"}]
      /\ \A s \in Symbols : s \in Carried(h) <=> ShardOf[s] = h
  BY ManagerAssumption DEF IInv, FrameOK, StateOK, Carried
<1>2. ASSUME NEW s \in Symbols
      PROVE  IF s \in Carried(h)
             THEN /\ PreparedShard(h)[s].connected
                  /\ PreparedShard(h)[s].token = state[s].token + 1
             ELSE PreparedShard(h)[s] = state[s]
  BY <1>1, OperationsLink DEF PreparedShard
<1>3. CASE ShardOpens(h)
  <2>1. PrepareConnectedShard(h, PreparedShard(h))
    BY <1>3 DEF ShardOpens
  <2> QED  BY <1>2, <2>1, PreparedLink
<1>4. CASE ShardGetsFirstItem(h)
  <2>1. PICK s \in Carried(h) :
            \E first \in 1..head[s] : \E final \in first..head[s], pu \in PuValues(first) :
                PrepareConnectedShard(h, [PreparedShard(h) EXCEPT
                    ![s] = Buffered(@, DepthEvent(Truth[s], first, final, pu))])
    BY <1>4 DEF ShardGetsFirstItem
  <2>2. PICK e : PrepareConnectedShard(h, [PreparedShard(h) EXCEPT ![s] = Buffered(@, e)])
    BY <2>1
  <2> DEFINE states == [PreparedShard(h) EXCEPT ![s] = Buffered(@, e)]
  <2>3. s \in Symbols /\ PreparedShard(h)[s] = Prepared(state[s])
        /\ DOMAIN PreparedShard(h) = Symbols
    BY DEF Carried, PreparedShard
  <2>4. Prepared(state[s]) \in SymbolState
    <3>1. SymbolOK(s, head[s], state[s])
      BY <2>3 DEF IInv, StateOK
    <3> QED  BY <2>3, <3>1, PreparedOK DEF SymbolOK
  <2>5. /\ Buffered(Prepared(state[s]), e).connected = Prepared(state[s]).connected
        /\ Buffered(Prepared(state[s]), e).token = Prepared(state[s]).token
    BY <2>4, OperationsLink
  <2>6. /\ states[s] = Buffered(Prepared(state[s]), e)
        /\ \A r \in Symbols : r # s => states[r] = PreparedShard(h)[r]
    <3> HIDE DEF PreparedShard
    <3> QED  BY <2>3
  <2>7. \A r \in Symbols :
            IF r \in Carried(h)
            THEN states[r].connected /\ states[r].token = state[r].token + 1
            ELSE states[r] = state[r]
    BY <1>2, <2>1, <2>3, <2>5, <2>6
  <2> HIDE DEF states
  <2> QED  BY <2>2, <2>7, PreparedLink DEF states
<1>5. CASE ConnectFails(h)
  <2>1. /\ shard[h] = "connecting" /\ shard' = [shard EXCEPT ![h] = "backoff"]
        /\ phase = "running" /\ UNCHANGED <<phase, tasks>>
    BY <1>5 DEF ConnectFails, Running
  <2>2. CASE Policy = "binance"
    <3>1. state' = [s \in Symbols |-> IF s \in Carried(h) THEN Disconnected(state[s]) ELSE state[s]]
      BY <1>5, <2>2 DEF ConnectFails, MarkShardDisconnected
    <3>2. ASSUME NEW s \in Symbols
          PROVE  IF s \in Carried(h) THEN ~state'[s].connected ELSE state'[s] = state[s]
      BY <1>1, <3>1, OperationsLink
    <3>3. ShardsLinked'
      BY <1>1, <2>1, <3>2 DEF Link, ShardsLinked
    <3> QED  BY <2>1, <3>1, <3>3, DisconnectingLink DEF Running
  <2>3. CASE Policy # "binance"
    <3>1. UNCHANGED state
      BY <1>5, <2>3 DEF ConnectFails
    <3>2. ShardsLinked'
      BY <1>1, <2>1, <3>1 DEF Link, ShardsLinked
    <3> QED  BY <2>1, <3>1, <3>2, AloneLink DEF Running
  <2> QED  BY <2>2, <2>3
<1>6. CASE SocketLost(h) \/ BackoffOver(h)
  <2>1. /\ \/ shard[h] = "open" /\ shard' = [shard EXCEPT ![h] = "closing"]
           \/ shard[h] = "backoff" /\ shard' = [shard EXCEPT ![h] = "connecting"]
        /\ phase = "running" /\ UNCHANGED <<phase, state, tasks>>
    BY <1>6 DEF SocketLost, BackoffOver, Running
  <2>2. ShardsLinked'
    BY <1>1, <2>1 DEF Link, ShardsLinked
  <2> QED  BY <2>1, <2>2, AloneLink DEF Running
<1>7. CASE ShardCloses(h)
  <2>1. /\ shard[h] = "closing" /\ shard' = [shard EXCEPT ![h] = AfterClosing]
        /\ UNCHANGED <<phase, tasks>>
        /\ state' = [s \in Symbols |-> IF s \in Carried(h) THEN Disconnected(state[s]) ELSE state[s]]
    BY <1>7 DEF ShardCloses, MarkShardDisconnected
  <2>2. ASSUME NEW s \in Symbols
        PROVE  IF s \in Carried(h) THEN ~state'[s].connected ELSE state'[s] = state[s]
    BY <1>1, <2>1, OperationsLink
  <2>3. ShardsLinked'
    BY <1>1, <2>1, <2>2 DEF Link, ShardsLinked, AfterClosing, Running
  <2> QED  BY <2>1, <2>3, DisconnectingLink DEF Running
<1> QED  BY <1>3, <1>4, <1>5, <1>6, <1>7 DEF ShardStep

(* An event keeps the link: a gap has a task of its own at once.            *)
LEMMA IngestLink ==
    ASSUME IInv, Link, NEW s \in Symbols, Ingest(s),
           \/ Running /\ state[s].connected
           \/ phase = "stopped" /\ ~NoReplay
    PROVE  Link'
<1>1. /\ state \in [Symbols -> SymbolState] /\ state[s] \in SymbolState
      /\ state[s].book \in Book /\ state[s].token \in Nat
      /\ UNCHANGED <<head, phase, shard, waiter>>
      /\ SymbolOK(s, head[s], state[s]) /\ head[s] \in 0..MaxId /\ MaxId \in Nat
      /\ Truth[s] \in [0..MaxId -> Ladder]
  BY HistoryAssumption DEF IInv, FrameOK, StateOK, SymbolState, Ingest
<1>2. PICK first \in 1..head[s] : \E final \in first..head[s], pu \in PuValues(first) :
          LET e == DepthEvent(Truth[s], first, final, pu) IN
          EventBuffered(s, e) \/ EventApplied(s, e) \/ EventLeavesGap(s, e)
  BY DEF Ingest
<1>3. PICK final \in first..head[s], pu \in PuValues(first) :
          LET e == DepthEvent(Truth[s], first, final, pu) IN
          EventBuffered(s, e) \/ EventApplied(s, e) \/ EventLeavesGap(s, e)
  BY <1>2
<1> DEFINE e == DepthEvent(Truth[s], first, final, pu)
<1>4. e \in Event
  <2>1. first \in 1..MaxId /\ final \in first..MaxId
    BY <1>1
  <2> QED  BY <1>1, <2>1, DepthEventType
<1>5. EventBuffered(s, e) \/ EventApplied(s, e) \/ EventLeavesGap(s, e)
  BY <1>3
<1> HIDE DEF e
<1>6. \A t \in tasks : /\ t.symbol \in Symbols /\ t.token \in Nat
                       /\ t.token <= state[t.symbol].token
                       /\ TaskLinked(t, state[t.symbol])
  BY DEF IInv, TasksOK, Task, Link
<1>7. CASE EventBuffered(s, e)
  <2> DEFINE x == Buffered(state[s], e)
  <2>1. /\ state' = [state EXCEPT ![s] = x] /\ tasks' = tasks
        /\ x.book = state[s].book /\ x.token = state[s].token
        /\ x.connected = state[s].connected
    BY <1>1, <1>7, OperationsLink DEF EventBuffered
  <2> HIDE DEF x
  <2>2. /\ BookLinked(x) /\ \A t \in tasks : t.symbol = s => TaskLinked(t, x)
    BY <1>6, <2>1 DEF Link, BookLinked, TaskLinked
  <2>3. \/ ~NoResync \/ ~Running \/ ~x.connected \/ x.book.hasSnapshot
        \/ \E t \in tasks' : t.symbol = s /\ t.token = x.token
    BY <2>1 DEF Link, Attended
  <2> QED  BY <1>1, <2>1, <2>2, <2>3, OneSymbolLink
<1>8. CASE EventApplied(s, e)
  <2> DEFINE b == ApplyUpdate(state[s].book, e).book
             x == [state[s] EXCEPT !.book = b]
  <2>1. /\ state' = [state EXCEPT ![s].book = b] /\ tasks' = tasks
        /\ ApplyUpdate(state[s].book, e).status # "gap" /\ state[s].book.hasSnapshot
    BY <1>8 DEF EventApplied
  <2>2. b.connected = state[s].book.connected /\ b.hasSnapshot
    BY <1>1, <1>4, <2>1, ApplyUpdateType
  <2> HIDE DEF b
  <2>3. /\ state' = [state EXCEPT ![s] = x] /\ x.book = b /\ x.token = state[s].token
        /\ x.connected = state[s].connected
    BY <1>1, <2>1 DEF SymbolState
  <2> HIDE DEF x
  <2>4. /\ BookLinked(x) /\ \A t \in tasks : t.symbol = s => TaskLinked(t, x)
    BY <1>6, <2>2, <2>3 DEF Link, BookLinked, TaskLinked
  <2> QED  BY <1>1, <2>1, <2>2, <2>3, <2>4, OneSymbolLink
<1>9. CASE EventLeavesGap(s, e)
  <2> DEFINE b == ApplyUpdate(state[s].book, e).book
             z == [state[s] EXCEPT !.book = b]
             y == Buffered(z, e)
             x == ResyncBegun(y)
             task == SyncTask(s, state[s].token + 1, Running)
  <2>1. /\ state' = [state EXCEPT ![s] = x] /\ tasks' = tasks \union {task}
    BY <1>9 DEF EventLeavesGap
  <2>2. b.connected = state[s].book.connected /\ b \in Book
    BY <1>1, <1>4, ApplyUpdateType
  <2>3. /\ x.connected = state[s].connected /\ x.book.connected = b.connected
        /\ x.token = state[s].token + 1
    <3> HIDE DEF b
    <3>1. /\ z \in SymbolState /\ z.book = b /\ z.token = state[s].token
          /\ z.connected = state[s].connected
      BY <1>1, <2>2 DEF SymbolState
    <3> HIDE DEF z
    <3>2. /\ y.connected = z.connected /\ y.book = z.book /\ y.token = z.token
      BY <3>1, OperationsLink
    <3>3. y \in [book : {y.book}, buffer : {y.buffer}, syncing : {y.syncing},
                 token : {y.token}, connected : {y.connected}]
      BY <3>1 DEF SymbolState, Buffered
    <3> HIDE DEF y
    <3>4. /\ x.connected = y.connected /\ x.token = y.token + 1
          /\ x.book.connected = y.book.connected
      BY <3>3 DEF ResyncBegun, MarkResync, Reset, NewBook
    <3> QED  BY <3>1, <3>2, <3>4
  <2>4. task.symbol = s /\ task.token = state[s].token + 1 /\ task.forever = Running
    BY DEF SyncTask
  <2> HIDE DEF b, z, y, x, task
  <2>5. BookLinked(x)
    BY <2>2, <2>3 DEF Link, BookLinked
  <2>6. TaskLinked(task, x)
    <3>1. CASE phase = "stopped" /\ ~NoReplay
      <4>1. ~state[s].connected
        BY <3>1, ManagerAssumption DEF Link, ShardsLinked
      <4> QED  BY <2>3, <3>1, <4>1 DEF TaskLinked
    <3>2. CASE Running /\ state[s].connected
      BY <2>3, <2>4, <3>2 DEF TaskLinked
    <3> QED  BY <3>1, <3>2
  <2>7. \A t \in tasks : t.symbol = s => TaskLinked(t, x)
    BY <1>1, <1>6, <2>3 DEF TaskLinked
  <2> QED  BY <1>1, <2>1, <2>3, <2>4, <2>5, <2>6, <2>7, OneSymbolLink
<1> QED  BY <1>5, <1>7, <1>8, <1>9

(* An attempt that fails keeps the link: under a connected symbol, the      *)
(* current one tries again.                                                 *)
LEMMA TaskFailsLink ==
    ASSUME IInv, Link, NEW t \in tasks, NEW x \in SymbolState,
           x.connected = state[t.symbol].connected,
           x.token = state[t.symbol].token,
           BookLinked(x),
           x.book = state[t.symbol].book \/ ~Superseded(t),
           TaskFails(t, x), UNCHANGED <<phase, shard>>
    PROVE  Link'
<1> DEFINE s == t.symbol
           retried == [t EXCEPT !.pc = "check", !.attempt = IF t.forever THEN 0 ELSE @ + 1]
           givenUp == IF t.token = x.token THEN [Emptied(x) EXCEPT !.syncing = FALSE] ELSE x
<1>1. /\ s \in Symbols /\ t \in Task /\ TaskLinked(t, state[s]) /\ Attended(s)
      /\ state[s] \in SymbolState
      /\ \A u \in tasks : /\ u.symbol \in Symbols /\ TaskLinked(u, state[u.symbol])
                          /\ u.symbol = s /\ u.token = t.token => u = t
  BY DEF IInv, StateOK, TasksOK, Task, Link
<1>2. /\ retried.symbol = s /\ retried.token = t.token /\ retried.forever = t.forever
      /\ t.forever \in BOOLEAN
  BY <1>1 DEF Task
<1>3. /\ givenUp.connected = x.connected /\ givenUp.token = x.token /\ BookLinked(givenUp)
      /\ t.token # x.token => givenUp = x
  <2> DEFINE y == [Emptied(x) EXCEPT !.syncing = FALSE]
  <2>1. CASE t.token = x.token
    <3>1. y.connected = x.connected /\ y.token = x.token
      BY DEF Emptied, SymbolState
    <3>2. BookLinked(y)
      BY <1>1, <2>1, <3>1 DEF TaskLinked, BookLinked
    <3>3. givenUp = y
      BY <2>1
    <3> HIDE DEF y, givenUp
    <3> QED  BY <2>1, <3>1, <3>2, <3>3
  <2>2. CASE t.token # x.token
    BY <2>2
  <2> QED  BY <2>1, <2>2
<1>4. CASE LastAttempt(t)
  <2>1. tasks' = tasks \ {t} /\ state' = [state EXCEPT ![s] = givenUp] /\ ~t.forever
    BY <1>4 DEF TaskFails, LastAttempt
  <2> HIDE DEF givenUp
  <2>2. \A u \in tasks : u.symbol = s => TaskLinked(u, givenUp)
    BY <1>1, <1>3 DEF TaskLinked
  <2>3. \/ ~NoResync \/ ~Running \/ ~givenUp.connected \/ givenUp.book.hasSnapshot
        \/ \E u \in tasks' : u.symbol = s /\ u.token = givenUp.token
    <3>1. SUFFICES ASSUME NoResync, Running, givenUp.connected, ~givenUp.book.hasSnapshot
                   PROVE  \E u \in tasks' : u.symbol = s /\ u.token = givenUp.token
      OBVIOUS
    <3>2. t.token # x.token
      BY <1>1, <1>3, <2>1, <3>1 DEF TaskLinked
    <3>3. givenUp.book = state[s].book
      BY <1>3, <3>2 DEF Superseded
    <3>4. PICK u \in tasks : u.symbol = s /\ u.token = state[s].token
      BY <1>1, <1>3, <3>1, <3>3 DEF Attended
    <3> QED  BY <1>3, <2>1, <3>2, <3>4
  <2> QED  BY <1>1, <1>3, <2>1, <2>2, <2>3, OneSymbolLink
<1>5. CASE ~LastAttempt(t)
  <2>1. tasks' = (tasks \ {t}) \union {retried} /\ state' = [state EXCEPT ![s] = x]
    BY <1>5 DEF TaskFails
  <2> HIDE DEF retried, givenUp
  <2>2. /\ \A u \in tasks : u.symbol = s => TaskLinked(u, x)
        /\ TaskLinked(retried, x)
    BY <1>1, <1>2 DEF TaskLinked
  <2>3. \/ ~NoResync \/ ~Running \/ ~x.connected \/ x.book.hasSnapshot
        \/ \E u \in tasks' : u.symbol = s /\ u.token = x.token
    <3>1. SUFFICES ASSUME NoResync, Running, x.connected, ~x.book.hasSnapshot
                   PROVE  \E u \in tasks' : u.symbol = s /\ u.token = x.token
      OBVIOUS
    <3>2. CASE t.token = x.token
      BY <1>2, <2>1, <3>2
    <3>3. CASE t.token # x.token
      <4>1. x.book = state[s].book
        BY <3>3 DEF Superseded
      <4>2. PICK u \in tasks : u.symbol = s /\ u.token = state[s].token
        BY <1>1, <3>1, <4>1 DEF Attended
      <4> QED  BY <2>1, <3>3, <4>2
    <3> QED  BY <3>2, <3>3
  <2> QED  BY <1>1, <1>2, <2>1, <2>2, <2>3, OneSymbolLink
<1> QED  BY <1>4, <1>5

(* A synchronization's steps keep the link.                                 *)
LEMMA TaskLink ==
    ASSUME IInv, Link, NEW t \in tasks, TaskStep(t)
    PROVE  Link'
<1> DEFINE s == t.symbol
<1>1. /\ s \in Symbols /\ t \in Task /\ TaskLinked(t, state[s]) /\ Attended(s)
      /\ state \in [Symbols -> SymbolState] /\ state[s] \in SymbolState
      /\ BookLinked(state[s]) /\ SymbolOK(s, head[s], state[s])
      /\ head[s] \in 0..MaxId
      /\ \A u \in tasks : /\ u.symbol \in Symbols /\ TaskLinked(u, state[u.symbol])
                          /\ u.symbol = s /\ u.token = t.token => u = t
  BY DEF IInv, FrameOK, StateOK, TasksOK, Task, Link
<1>2. state = [state EXCEPT ![s] = state[s]]
  BY <1>1
<1>3. CASE TaskChecks(t)
  <2> DEFINE r == [t EXCEPT !.pc = "fetch"]
  <2>1. /\ tasks' = (tasks \ {t}) \union IF TokenIsCurrent(t) THEN {r} ELSE {}
        /\ UNCHANGED <<phase, shard, state>>
    BY <1>3 DEF TaskChecks
  <2>2. r.symbol = s /\ r.token = t.token /\ r.forever = t.forever
    BY <1>1 DEF Task
  <2> HIDE DEF r
  <2>3. TaskLinked(r, state[s])
    BY <1>1, <2>2 DEF TaskLinked
  <2>4. \/ ~NoResync \/ ~Running \/ ~state[s].connected \/ state[s].book.hasSnapshot
        \/ \E u \in tasks' : u.symbol = s /\ u.token = state[s].token
    <3>1. SUFFICES ASSUME NoResync, Running, state[s].connected, ~state[s].book.hasSnapshot
                   PROVE  \E u \in tasks' : u.symbol = s /\ u.token = state[s].token
      OBVIOUS
    <3>2. PICK u \in tasks : u.symbol = s /\ u.token = state[s].token
      BY <1>1, <3>1 DEF Attended
    <3>3. CASE u = t
      BY <2>1, <2>2, <3>1, <3>2, <3>3 DEF TokenIsCurrent
    <3>4. CASE u # t
      BY <2>1, <3>2, <3>4
    <3> QED  BY <3>3, <3>4
  <2>5. \A u \in tasks' : \/ u \in tasks /\ u.symbol # s
                          \/ u.symbol = s /\ TaskLinked(u, state[s])
    BY <1>1, <2>1, <2>2, <2>3
  <2>6. state' = [state EXCEPT ![s] = state[s]]
    BY <1>2, <2>1
  <2> QED  BY <1>1, <2>1, <2>4, <2>5, <2>6, OneSymbolLink
<1>4. CASE RequestFails(t)
  <2>1. TaskFails(t, state[s]) /\ UNCHANGED <<phase, shard>>
    BY <1>4 DEF RequestFails
  <2> QED  BY <1>1, <2>1, TaskFailsLink
<1>5. CASE AnswerDropped(t)
  <2>1. /\ tasks' = tasks \ {t} /\ UNCHANGED <<phase, shard, state>>
        /\ t.token # state[s].token
    BY <1>5 DEF AnswerDropped, Superseded
  <2>2. \/ ~NoResync \/ ~Running \/ ~state[s].connected \/ state[s].book.hasSnapshot
        \/ \E u \in tasks' : u.symbol = s /\ u.token = state[s].token
    BY <1>1, <2>1 DEF Attended
  <2>3. state' = [state EXCEPT ![s] = state[s]]
    BY <1>2, <2>1
  <2> QED  BY <1>1, <2>1, <2>2, <2>3, OneSymbolLink
<1>6. CASE AnswerMalformed(t)
  <2> DEFINE x == Emptied(state[s])
  <2>1. TaskFails(t, x) /\ UNCHANGED <<phase, shard>> /\ ~Superseded(t)
    BY <1>6 DEF AnswerMalformed
  <2>2. /\ x \in SymbolState
        /\ x.connected = state[s].connected /\ x.token = state[s].token
    BY <1>1, EmptiedOK, OperationsLink DEF SymbolOK
  <2> HIDE DEF x
  <2>3. BookLinked(x)
    BY <1>1, <2>1, <2>2 DEF BookLinked, TaskLinked, Superseded
  <2> QED  BY <2>1, <2>2, <2>3, TaskFailsLink
<1>7. ASSUME NEW version \in 0..head[s], AnswerLoaded(t, version)
      PROVE  Link'
  <2> DEFINE x == SnapshotApplied(state[s], RestSnapshot(Truth[s], version))
  <2>1. /\ UNCHANGED <<phase, shard>> /\ ~Superseded(t)
        /\ IF x.book.hasSnapshot THEN Synchronized(t, x) ELSE TaskFails(t, x)
    BY <1>7 DEF AnswerLoaded
  <2>2. x \in SymbolState
    BY <1>1, SnapshotAppliedOK DEF SymbolOK
  <2>3. x.connected = state[s].connected /\ x.token = state[s].token
    <3>1. Emptied(state[s]) \in SymbolState
      BY <1>1, EmptiedOK DEF SymbolOK
    <3> QED  BY <1>1, <3>1, OperationsLink DEF SnapshotApplied, SymbolState
  <2> HIDE DEF x
  <2>4. BookLinked(x)
    BY <1>1, <2>1, <2>3 DEF BookLinked, TaskLinked, Superseded
  <2>5. CASE x.book.hasSnapshot
    <3>1. tasks' = tasks \ {t} /\ state' = [state EXCEPT ![s] = x]
      BY <2>1, <2>5 DEF Synchronized
    <3>2. \A u \in tasks : u.symbol = s => TaskLinked(u, x)
      BY <1>1, <2>3 DEF TaskLinked
    <3> QED  BY <1>1, <2>1, <2>3, <2>4, <2>5, <3>1, <3>2, OneSymbolLink
  <2>6. CASE ~x.book.hasSnapshot
    BY <2>1, <2>2, <2>3, <2>4, <2>6, TaskFailsLink
  <2> QED  BY <2>5, <2>6
<1> QED  BY <1>3, <1>4, <1>5, <1>6, <1>7 DEF TaskStep

(* start() finds every shard off, and stop() leaves them so.                *)
LEMMA OwnerLink ==
    ASSUME IInv, Link, Start \/ StopBegin \/ StopEnd
    PROVE  Link'
<1>1. /\ \A s \in Symbols : state[s] \in SymbolState /\ ShardOf[s] \in Shards
      /\ shard \in [Shards -> {"off", "connecting", "open", "closing", "backoff"}]
  BY ManagerAssumption DEF IInv, FrameOK, StateOK
<1>2. CASE Start
  <2>1. /\ phase = "stopped" /\ phase' = "running" /\ UNCHANGED <<state, tasks>>
        /\ shard' = [h \in Shards |-> "connecting"]
    BY <1>2 DEF Start
  <2>2. \A s \in Symbols : ~state[s].connected
    BY <1>1, <2>1 DEF Link, ShardsLinked
  <2>3. ShardsLinked'
    BY <1>1, <2>1, <2>2 DEF ShardsLinked
  <2>4. \A s \in Symbols : Attended(s)'
    BY <2>1, <2>2 DEF Attended
  <2> QED  BY <2>1, <2>3, <2>4 DEF Link, BookLinked, TaskLinked, NoReplay, NoResync
<1>3. CASE StopBegin
  <2>1. /\ phase' = "stopping" /\ UNCHANGED state /\ tasks' \subseteq tasks
        /\ shard' = [h \in Shards |->
                        IF \/ shard[h] \in {"open", "closing"}
                           \/ shard[h] = "connecting" /\ Policy = "binance"
                        THEN "closing" ELSE "off"]
    BY <1>3 DEF StopBegin
  <2>2. ShardsLinked'
    BY <1>1, <2>1 DEF Link, ShardsLinked
  <2>3. \A s \in Symbols : Attended(s)'
    BY <2>1 DEF Attended, Running
  <2> QED  BY <2>1, <2>2, <2>3 DEF Link, BookLinked, TaskLinked, NoReplay, NoResync
<1>4. CASE StopEnd
  <2>1. /\ \A h \in Shards : shard[h] = "off"
        /\ phase' = "stopped" /\ UNCHANGED <<shard, tasks>>
        /\ state' = [s \in Symbols |-> IF s \in Symbols THEN Disconnected(state[s]) ELSE state[s]]
    BY <1>4 DEF StopEnd
  <2>2. \A s \in Symbols : ~state'[s].connected
    BY <1>1, <2>1, OperationsLink
  <2>3. ShardsLinked'
    BY <1>1, <2>1, <2>2 DEF ShardsLinked
  <2> QED  BY <2>1, <2>3, DisconnectingLink DEF Running
<1> QED  BY <1>2, <1>3, <1>4

(* A direct call of resync_symbol keeps the link.                           *)
LEMMA ResyncLink ==
    ASSUME IInv, Link, NEW s \in Symbols, ResyncSymbol(s)
    PROVE  Link'
<1> DEFINE x == ResyncBegun(state[s])
           task == [SyncTask(s, state[s].token + 1, FALSE)
                        EXCEPT !.owned = FALSE, !.pc = "fetch"]
           new == IF state[s].connected \/ ~Running THEN {task} ELSE {}
<1>1. /\ state[s] \in SymbolState /\ state[s].token \in Nat
      /\ BookLinked(state[s])
      /\ \A t \in tasks : /\ t.symbol \in Symbols /\ t.token \in Nat
                          /\ t.token <= state[t.symbol].token
  BY DEF IInv, StateOK, TasksOK, Task, Link, SymbolState
<1>2. /\ state' = [state EXCEPT ![s] = x] /\ UNCHANGED <<phase, shard>>
      /\ tasks' = tasks \union new
      /\ \/ Running /\ ~NoResync
         \/ phase = "stopped" /\ ~NoReplay
  BY DEF ResyncSymbol, NoReplay, NoResync
<1>3. /\ x.connected = state[s].connected /\ x.token = state[s].token + 1
      /\ BookLinked(x)
  BY <1>1, OperationsLink DEF BookLinked
<1>4. task.symbol = s
  BY DEF SyncTask
<1>5. phase = "stopped" => ~state[s].connected
  BY ManagerAssumption DEF Link, ShardsLinked
<1> HIDE DEF x, task
<1>6. \A t \in new : t.symbol = s /\ TaskLinked(t, x)
  BY <1>2, <1>3, <1>4, <1>5 DEF TaskLinked, Running
<1> HIDE DEF new
<1>7. \A t \in tasks : t.symbol = s => TaskLinked(t, x)
  BY <1>1, <1>3 DEF TaskLinked
<1>8. ~NoResync \/ ~Running
  BY <1>2 DEF Running
<1> QED  BY <1>2, <1>3, <1>6, <1>7, <1>8, OneSymbolLink

(* A manager just built has no connection and no task.                      *)
LEMMA InitLink == Init => Link
<1> SUFFICES ASSUME Init PROVE Link
  OBVIOUS
<1>1. \A s \in Symbols : ~state[s].connected /\ ~state[s].book.connected
  BY DEF Init, NewState, Reset, NewBook
<1>2. tasks = {} /\ phase = "stopped" /\ \A h \in Shards : shard[h] = "off"
  BY DEF Init
<1> QED  BY <1>1, <1>2, ManagerAssumption DEF Link, ShardsLinked, BookLinked, Attended

(* Every step keeps the link.                                               *)
LEMMA NextLink == IInv /\ Link /\ [Next]_vars => Link'
<1> SUFFICES ASSUME IInv, Link, [Next]_vars PROVE Link'
  OBVIOUS
<1>1. CASE Start \/ StopBegin \/ StopEnd
  BY <1>1, OwnerLink
<1>2. CASE \E h \in Shards : ShardStep(h)
  BY <1>2, ShardLink
<1>3. CASE \/ WaiterTests \/ WaiterTimesOut \/ UNCHANGED vars
           \/ \E s \in Symbols : Trade(s)
  <2>1. UNCHANGED <<phase, shard, state, tasks>>
    BY <1>3 DEF WaiterTests, WaiterTimesOut, Trade, vars
  <2>2. ShardsLinked'
    BY <2>1 DEF Link, ShardsLinked
  <2> QED  BY <2>1, <2>2, AloneLink DEF Running
<1>4. ASSUME NEW s \in Symbols, MessageArrives(s) PROVE Link'
  <2>1. Running /\ state[s].connected /\ Ingest(s)
    BY <1>4 DEF MessageArrives, Link, ShardsLinked
  <2> QED  BY <2>1, IngestLink
<1>5. ASSUME NEW s \in Symbols, ReplayEvent(s) PROVE Link'
  BY <1>5, IngestLink DEF ReplayEvent, NoReplay
<1>6. ASSUME NEW s \in Symbols, ResyncSymbol(s) PROVE Link'
  BY <1>6, ResyncLink
<1>7. CASE \E t \in tasks : TaskStep(t)
  BY <1>7, TaskLink
<1> QED  BY <1>1, <1>2, <1>3, <1>4, <1>5, <1>6, <1>7 DEF Next

(* The link holds of every reachable state.                                 *)
LEMMA SpecLink == Spec => [](IInv /\ Link)
<1>1. IInv /\ Link /\ [Next]_vars => (IInv /\ Link)'
  BY NextIInv, NextLink
<1>2. Init => IInv /\ Link
  BY InitIInv, InitLink
<1> QED  BY <1>1, <1>2, PTL DEF Spec

(* ConnectedOnlyOverOpenShard, of a manager that is not used for replay: a  *)
(* connected book has an open stream, or one whose finally clause is to     *)
(* come.                                                                    *)
THEOREM ManagerConnectedOnlyOverOpenShard ==
    ASSUME NoReplay
    PROVE  Spec => []ConnectedOnlyOverOpenShard
<1>1. Link => ConnectedOnlyOverOpenShard
  BY DEF Link, ShardsLinked, BookLinked, ConnectedOnlyOverOpenShard
<1> QED  BY <1>1, SpecLink, PTL

(* NeverStranded, of a manager nobody calls resync_symbol on while it runs: *)
(* a connected symbol without a book has a synchronization of its current   *)
(* token, which tries for ever.                                             *)
THEOREM ManagerNeverStranded ==
    ASSUME NoResync
    PROVE  Spec => []NeverStranded
<1>1. Link => NeverStranded
  BY DEF Link, Attended, NeverStranded
<1> QED  BY <1>1, SpecLink, PTL

-----------------------------------------------------------------------------
\* Gaps

LosesHealth(s) == Healthy(state[s].book) /\ ~Healthy(state'[s].book)

\* One step of GapIsIsolated.
Isolated ==
    \A s, r \in Symbols :
        s # r /\ LosesHealth(s) /\ LosesHealth(r) =>
            ShardOf[s] = ShardOf[r] /\ shard[ShardOf[s]] = "closing"

(* A step that changes one symbol costs no two their health.                *)
LEMMA OneIsolated ==
    ASSUME IInv, NEW s \in Symbols, NEW x, state' = [state EXCEPT ![s] = x]
    PROVE  Isolated
<1>1. \A r \in Symbols : r # s => state'[r] = state[r]
  BY DEF IInv, StateOK
<1> QED  BY <1>1 DEF Isolated, LosesHealth

(* Where a step changes more symbols they are those of a shard, which had   *)
(* none to lose unless it was closing.                                      *)
LEMMA StepsIsolate ==
    ASSUME IInv, Link, NoReplay, [Next]_vars
    PROVE  Isolated
<1>1. \A s \in Symbols : Healthy(state[s].book) =>
                            shard[ShardOf[s]] \in {"open", "closing"}
  BY DEF Link, ShardsLinked, BookLinked, Healthy
<1>2. CASE state' = state
  BY <1>2 DEF Isolated, LosesHealth
<1>3. CASE StopEnd
  <2>1. \A s \in Symbols : ~Healthy(state[s].book)
    BY <1>1, <1>3, ManagerAssumption DEF StopEnd
  <2> QED  BY <2>1 DEF Isolated, LosesHealth
<1>4. ASSUME NEW h \in Shards, ShardStep(h) PROVE Isolated
  <2>1. \/ state' = state
        \/ /\ \A s \in Symbols : ShardOf[s] # h => state'[s] = state[s]
           /\ shard[h] \in {"connecting", "closing"}
    <3>1. CASE ShardOpens(h) \/ ShardGetsFirstItem(h)
      <4>1. PICK states :
                /\ PrepareConnectedShard(h, states)
                /\ \A s \in Symbols : ShardOf[s] # h => states[s] = state[s]
        <5>1. \A s \in Symbols : ShardOf[s] # h => PreparedShard(h)[s] = state[s]
          BY DEF PreparedShard, Carried
        <5>2. CASE ShardOpens(h)
          BY <5>1, <5>2 DEF ShardOpens
        <5>3. CASE ShardGetsFirstItem(h)
          <6>1. PICK s \in Carried(h) :
                    \E first \in 1..head[s] : \E final \in first..head[s], pu \in PuValues(first) :
                        PrepareConnectedShard(h, [PreparedShard(h) EXCEPT
                            ![s] = Buffered(@, DepthEvent(Truth[s], first, final, pu))])
            BY <5>3 DEF ShardGetsFirstItem
          <6>2. PICK e : PrepareConnectedShard(h, [PreparedShard(h) EXCEPT ![s] = Buffered(@, e)])
            BY <6>1
          <6>3. /\ ShardOf[s] = h /\ DOMAIN PreparedShard(h) = Symbols
            BY DEF Carried, PreparedShard
          <6> DEFINE states == [PreparedShard(h) EXCEPT ![s] = Buffered(@, e)]
          <6>4. \A r \in Symbols : r # s => states[r] = PreparedShard(h)[r]
            <7> HIDE DEF PreparedShard
            <7> QED  BY <6>3
          <6>5. \A r \in Symbols : ShardOf[r] # h => states[r] = state[r]
            BY <5>1, <6>3, <6>4
          <6> HIDE DEF states
          <6> QED  BY <6>2, <6>5 DEF states
        <5> QED  BY <3>1, <5>2, <5>3
      <4> QED  BY <4>1 DEF PrepareConnectedShard
    <3>2. CASE ConnectFails(h)
      BY <3>2 DEF ConnectFails, MarkShardDisconnected, Carried
    <3>3. CASE SocketLost(h) \/ BackoffOver(h)
      BY <3>3 DEF SocketLost, BackoffOver
    <3>4. CASE ShardCloses(h)
      BY <3>4 DEF ShardCloses, MarkShardDisconnected, Carried
    <3> QED  BY <1>4, <3>1, <3>2, <3>3, <3>4 DEF ShardStep
  <2> QED  BY <1>1, <1>2, <2>1 DEF Isolated, LosesHealth
<1>5. ASSUME NEW s \in Symbols, Ingest(s) PROVE Isolated
  <2>1. PICK e : EventBuffered(s, e) \/ EventApplied(s, e) \/ EventLeavesGap(s, e)
    BY <1>5 DEF Ingest
  <2>2. \A r \in Symbols : r # s => state'[r] = state[r]
    BY <2>1 DEF EventBuffered, EventApplied, EventLeavesGap, IInv, StateOK
  <2> QED  BY <2>2 DEF Isolated, LosesHealth
<1>6. ASSUME NEW s \in Symbols, ResyncSymbol(s) PROVE Isolated
  BY <1>6, OneIsolated DEF ResyncSymbol
<1>7. ASSUME NEW t \in tasks, TaskStep(t) PROVE Isolated
  <2>1. t.symbol \in Symbols
    BY DEF IInv, TasksOK, Task
  <2>2. \/ state' = state
        \/ \E x : state' = [state EXCEPT ![t.symbol] = x]
    <3>1. ASSUME NEW x, TaskFails(t, x) PROVE \E y : state' = [state EXCEPT ![t.symbol] = y]
      BY <3>1 DEF TaskFails
    <3>2. ASSUME NEW version, AnswerLoaded(t, version)
          PROVE  \E y : state' = [state EXCEPT ![t.symbol] = y]
      BY <3>1, <3>2 DEF AnswerLoaded, Synchronized
    <3>3. CASE TaskChecks(t) \/ AnswerDropped(t)
      BY <3>3 DEF TaskChecks, AnswerDropped
    <3>4. CASE RequestFails(t) \/ AnswerMalformed(t)
      BY <3>1, <3>4 DEF RequestFails, AnswerMalformed
    <3> QED  BY <1>7, <3>2, <3>3, <3>4 DEF TaskStep
  <2> QED  BY <1>2, <2>1, <2>2, OneIsolated
<1>8. CASE \/ Start \/ StopBegin \/ WaiterTests \/ WaiterTimesOut \/ UNCHANGED vars
           \/ \E s \in Symbols : Trade(s)
  <2>1. state' = state
    BY <1>8 DEF Start, StopBegin, WaiterTests, WaiterTimesOut, Trade, vars
  <2> QED  BY <1>2, <2>1
<1> QED  BY <1>3, <1>4, <1>5, <1>6, <1>7, <1>8 DEF Next, MessageArrives, ReplayEvent

(* GapIsIsolated, of a manager that is not used for replay: two books lose  *)
(* their health in one step only when the shard they share closes.          *)
THEOREM ManagerGapIsIsolated ==
    ASSUME NoReplay
    PROVE  Spec => GapIsIsolated
<1>1. IInv /\ Link /\ [Next]_vars =>
        [\A s, r \in Symbols :
            /\ s # r
            /\ Healthy(state[s].book) /\ ~Healthy(state'[s].book)
            /\ Healthy(state[r].book) /\ ~Healthy(state'[r].book)
            => ShardOf[s] = ShardOf[r] /\ shard[ShardOf[s]] = "closing"]_vars
  BY StepsIsolate DEF Isolated, LosesHealth
<1> QED  BY <1>1, SpecLink, PTL DEF Spec, GapIsIsolated
=============================================================================
