--------------------------- MODULE ClientProofs ---------------------------
(***************************************************************************)
(* No update of the sharded stream is repeated or mislaid, what is read of *)
(* a symbol only grows, and a request is retried as the exchange tells,    *)
(* for every set of symbols, number of shards, queue bound and retry limit *)
(* of the public client.                                                   *)
(*                                                                         *)
(* UpdatesAccounted is not inductive: it says where each version is, not   *)
(* in which order the places hold them.  Road adds the order: of a symbol, *)
(* every version read is below every one in the queue, these below the one *)
(* a shard holds, these below those in its inbox.  A symbol has one shard, *)
(* its Home, and each sequence rises, so each step of a shard moves one    *)
(* version along the road or takes the end of it away (RoadMoves).         *)
(*                                                                         *)
(* RequestOK says of a request what the retry decided from: the attempts   *)
(* made and the wait it was told.                                          *)
(***************************************************************************)
EXTENDS PublicClient, SequenceTheorems, TLAPS

Phases == {"connecting", "open", "putting", "backoff", "ended"}

\* The shard that carries the updates of s.
Home(s) == CHOOSE h \in Shards : ShardsOf(s) = {h}

TypesOK ==
    /\ shard \in [Shards -> [phase : Phases, held : Seq(Updates)]]
    /\ inbox \in [Shards -> Seq(Updates)]
    /\ queue \in Seq(Updates)
    /\ sent \in [Symbols -> 0..MaxUpdates]
    /\ got \in [Symbols -> SUBSET Nat] /\ lost \in [Symbols -> SUBSET Nat]

\* A shard holds an update back only while it waits for room.
HeldOK ==
    \A h \in Shards :
        IF shard[h].phase = "putting" THEN \E u \in Updates : shard[h].held = <<u>>
        ELSE shard[h].held = <<>>

\* Of each symbol the versions of q rise; and all symbols of q belong to h.
Rising(q) ==
    \A i, j \in DOMAIN q :
        i < j /\ q[i].symbol = q[j].symbol => q[i].version < q[j].version
Carries(h, q) == \A i \in DOMAIN q : Home(q[i].symbol) = h

Before(A, B) == \A a \in A, b \in B : a < b
Splits(I, X, J) == I = X \cup J /\ Before(X, J)

\* The road of the versions 1..n of a symbol: G have been read, Q are in the
\* queue, H is held, I are in the inbox, in this order; L are lost.
Road(G, Q, H, I, L, n) ==
    /\ G \cup Q \cup H \cup I \cup L = 1..n
    /\ L \cap (G \cup Q \cup H \cup I) = {}
    /\ Before(G, Q) /\ Before(G, H) /\ Before(G, I)
    /\ Before(Q, H) /\ Before(Q, I) /\ Before(H, I)

HeldOf(s) == Of(s, shard[Home(s)].held)
InboxOf(s) == Of(s, inbox[Home(s)])

RoadsOK ==
    /\ Rising(queue)
    /\ \A h \in Shards : Rising(inbox[h]) /\ Carries(h, inbox[h]) /\ Carries(h, shard[h].held)
    /\ \A s \in Symbols : Road(got[s], Of(s, queue), HeldOf(s), InboxOf(s), lost[s], sent[s])

StreamOK == TypesOK /\ HeldOK /\ RoadsOK

\* A request that sleeps has attempts left, and will have slept as long as it
\* was told to, up to the cap.
RequestOK ==
    /\ rest \in [phase : {"idle", "asked", "sleeping"}, attempt : 0..MaxRetries,
                 told : Nat, wait : Nat, since : Nat]
    /\ rest.phase = "sleeping" =>
           /\ rest.attempt < MaxRetries
           /\ rest.since + rest.wait >= rest.told \/ rest.since + rest.wait >= RetryCap

-----------------------------------------------------------------------------
\* Sequences of updates

(* The assumption about the parameters in the form the provers want it.     *)
LEMMA ClientConstants ==
    /\ \A i \in Positions : Monitored[i] \in Symbols
    /\ \A i, j \in Positions : Monitored[i] = Monitored[j] => i = j
    /\ MaxRetries \in Nat /\ RetryCap \in Nat \ {0} /\ Told \subseteq Nat
    /\ MaxUpdates \in Nat /\ QueueSize \in Nat \ {0}
  BY ClientAssumption DEF Positions, Symbols

(* Every symbol is carried by exactly one shard.                            *)
LEMMA HomeOK ==
    ASSUME NEW s \in Symbols
    PROVE  Home(s) \in Shards /\ ShardsOf(s) = {Home(s)}
<1>1. PICK i \in Positions : Monitored[i] = s
  BY DEF Symbols
<1>2. {j \in Positions : Monitored[j] = s} = {i}
  BY <1>1, ClientConstants
<1>3. ShardsOf(s) = ShardOfPosition(i)
  BY <1>2 DEF ShardsOf
<1>4. PICK h : ShardOfPosition(i) = {h}
  BY DEF ShardOfPosition
<1>5. h \in Shards /\ ShardsOf(s) = {h}
  BY <1>1, <1>3, <1>4 DEF Shards
<1> QED  BY <1>5 DEF Home

(* The updates of a sequence, pointwise.                                    *)
LEMMA OfParts ==
    ASSUME NEW s, NEW q
    PROVE  \A v : v \in Of(s, q) <=> \E i \in DOMAIN q : q[i].symbol = s /\ q[i].version = v
  BY DEF Of

(* No update, and one.                                                      *)
LEMMA OfFew ==
    ASSUME NEW s, NEW u
    PROVE  /\ Of(s, <<>>) = {}
           /\ Of(s, <<u>>) = IF u.symbol = s THEN {u.version} ELSE {}
<1>1. DOMAIN <<>> = {}
  OBVIOUS
<1>2. Of(s, <<>>) = {}
  BY <1>1, OfParts
<1> DEFINE q == <<u>>
<1>3. DOMAIN q = {1} /\ q[1] = u
  OBVIOUS
<1> HIDE DEF q
<1>4. Of(s, q) = IF u.symbol = s THEN {u.version} ELSE {}
  BY <1>3, OfParts
<1> QED  BY <1>2, <1>4 DEF q

(* An update is added at the end of a sequence.                             *)
LEMMA OfAppend ==
    ASSUME NEW q \in Seq(Updates), NEW u \in Updates
    PROVE  /\ Append(q, u) \in Seq(Updates)
           /\ \A s : Of(s, Append(q, u)) = Of(s, q) \cup Of(s, <<u>>)
           /\ Rising(q) /\ Before(Of(u.symbol, q), {u.version}) => Rising(Append(q, u))
           /\ \A h : Carries(h, q) /\ Home(u.symbol) = h => Carries(h, Append(q, u))
<1> DEFINE r == Append(q, u)
<1>1. /\ r \in Seq(Updates) /\ Len(q) \in Nat
      /\ DOMAIN q = 1..Len(q) /\ DOMAIN r = 1..(Len(q) + 1)
      /\ \A i \in 1..Len(q) : r[i] = q[i]
      /\ r[Len(q) + 1] = u
  BY AppendProperties
<1> HIDE DEF r
<1>2. ASSUME NEW i \in DOMAIN r
      PROVE  (i \in DOMAIN q /\ r[i] = q[i]) \/ (i = Len(q) + 1 /\ r[i] = u)
  BY <1>1
<1>3. \A i \in DOMAIN q : i \in DOMAIN r /\ r[i] = q[i] /\ i < Len(q) + 1
  BY <1>1
<1>4. ASSUME NEW s PROVE Of(s, r) = Of(s, q) \cup Of(s, <<u>>)
  <2>1. \A v : v \in Of(s, <<u>>) <=> u.symbol = s /\ u.version = v
    BY OfFew
  <2>2. Len(q) + 1 \in DOMAIN r
    BY <1>1
  <2>3. ASSUME NEW v
        PROVE  v \in Of(s, r) <=> v \in Of(s, q) \/ v \in Of(s, <<u>>)
    BY <1>1, <1>2, <1>3, <2>1, <2>2, OfParts
  <2> QED  BY <2>3
<1>5. ASSUME Rising(q), Before(Of(u.symbol, q), {u.version}) PROVE Rising(r)
  <2>1. ASSUME NEW i \in DOMAIN r, NEW j \in DOMAIN r, i < j, r[i].symbol = r[j].symbol
        PROVE  r[i].version < r[j].version
    <3>1. CASE j \in DOMAIN q
      <4>1. i \in DOMAIN q
        BY <1>1, <2>1, <3>1
      <4> QED  BY <1>3, <1>5, <2>1, <3>1, <4>1 DEF Rising
    <3>2. CASE j = Len(q) + 1
      <4>1. i \in DOMAIN q /\ r[i] = q[i] /\ r[j] = u
        BY <1>1, <2>1, <3>2
      <4>2. q[i].version \in Of(u.symbol, q)
        BY <2>1, <4>1, OfParts
      <4> QED  BY <1>5, <4>1, <4>2 DEF Before
    <3> QED  BY <1>1, <3>1, <3>2
  <2> QED  BY <2>1 DEF Rising
<1>6. ASSUME NEW h, Carries(h, q), Home(u.symbol) = h PROVE Carries(h, r)
  BY <1>2, <1>6 DEF Carries
<1> QED  BY <1>1, <1>4, <1>5, <1>6 DEF r

(* The first update is taken from a sequence.                               *)
LEMMA OfTail ==
    ASSUME NEW q \in Seq(Updates), q # <<>>
    PROVE  /\ Head(q) \in Updates /\ Tail(q) \in Seq(Updates)
           /\ \A s : Of(s, q) = Of(s, <<Head(q)>>) \cup Of(s, Tail(q))
           /\ Rising(q) => /\ Rising(Tail(q))
                           /\ \A s : Before(Of(s, <<Head(q)>>), Of(s, Tail(q)))
           /\ \A h : Carries(h, q) => Carries(h, Tail(q)) /\ Home(Head(q).symbol) = h
<1> DEFINE r == Tail(q)
           u == Head(q)
<1>1. /\ r \in Seq(Updates) /\ Len(q) \in Nat \ {0}
      /\ DOMAIN q = 1..Len(q) /\ DOMAIN r = 1..(Len(q) - 1)
      /\ \A i \in 1..(Len(q) - 1) : r[i] = q[i + 1]
      /\ u = q[1] /\ u \in Updates
  BY HeadTailProperties
<1> HIDE DEF r, u
<1>2. 1 \in DOMAIN q /\ \A i \in DOMAIN r : i + 1 \in DOMAIN q /\ r[i] = q[i + 1] /\ 1 < i + 1
  BY <1>1
<1>3. ASSUME NEW i \in DOMAIN q, i # 1
      PROVE  i - 1 \in DOMAIN r /\ r[i - 1] = q[i]
  <2>1. i - 1 \in DOMAIN r /\ (i - 1) + 1 = i
    BY <1>1, <1>3
  <2> QED  BY <1>2, <2>1
<1>4. ASSUME NEW s
      PROVE  /\ \A v : v \in Of(s, <<u>>) <=> u.symbol = s /\ u.version = v
             /\ Of(s, q) = Of(s, <<u>>) \cup Of(s, r)
  <2>1. \A v : v \in Of(s, <<u>>) <=> u.symbol = s /\ u.version = v
    BY OfFew
  <2>2. ASSUME NEW v
        PROVE  v \in Of(s, q) <=> v \in Of(s, <<u>>) \/ v \in Of(s, r)
    <3>1. v \in Of(s, q) => v \in Of(s, <<u>>) \/ v \in Of(s, r)
      <4>1. ASSUME NEW i \in DOMAIN q, q[i].symbol = s, q[i].version = v
            PROVE  v \in Of(s, <<u>>) \/ v \in Of(s, r)
        <5>1. CASE i = 1
          BY <1>1, <2>1, <4>1, <5>1
        <5>2. CASE i # 1
          BY <1>3, <4>1, <5>2, OfParts
        <5> QED  BY <5>1, <5>2
      <4> QED  BY <4>1, OfParts
    <3>2. v \in Of(s, <<u>>) => v \in Of(s, q)
      BY <1>1, <1>2, <2>1, OfParts
    <3>3. v \in Of(s, r) => v \in Of(s, q)
      BY <1>2, OfParts
    <3> QED  BY <3>1, <3>2, <3>3
  <2> QED  BY <2>1, <2>2
<1>5. ASSUME Rising(q) PROVE Rising(r) /\ \A s : Before(Of(s, <<u>>), Of(s, r))
  <2>1. \A i, j \in DOMAIN r : i < j => i + 1 < j + 1
    BY <1>1
  <2>2. Rising(r)
    BY <1>2, <1>5, <2>1 DEF Rising
  <2>3. ASSUME NEW s, NEW a \in Of(s, <<u>>), NEW b \in Of(s, r) PROVE a < b
    <3>1. q[1].symbol = s /\ q[1].version = a
      BY <1>1, <1>4, <2>3
    <3>2. PICK i \in DOMAIN r : r[i].symbol = s /\ r[i].version = b
      BY <2>3, OfParts
    <3> QED  BY <1>2, <1>5, <3>1, <3>2 DEF Rising
  <2> QED  BY <2>2, <2>3 DEF Before
<1>6. ASSUME NEW h, Carries(h, q) PROVE Carries(h, r) /\ Home(u.symbol) = h
  BY <1>1, <1>2, <1>6 DEF Carries
<1> QED  BY <1>1, <1>4, <1>5, <1>6 DEF r, u

-----------------------------------------------------------------------------
\* The road of a symbol's versions

(* A version goes from each place of its road to the next, or is lost, and  *)
(* a new one comes behind all others.                                       *)
LEMMA RoadMoves ==
    ASSUME NEW G, NEW Q, NEW H, NEW I, NEW L, NEW n \in Nat, Road(G, Q, H, I, L, n)
    PROVE  /\ \A X, J : Splits(I, X, J) /\ H = {} =>
                  /\ Road(G, Q \cup X, {}, J, L, n)
                  /\ Road(G, Q, X, J, L, n)
           /\ \A X, J : Splits(I, X, J) => Road(G, Q, H, J, L \cup X, n)
           /\ Road(G, Q \cup H, {}, I, L, n)
           /\ \A X, J : Splits(Q, X, J) => Road(G \cup X, J, H, I, L, n)
           /\ Road(G, {}, {}, {}, L \cup Q \cup H \cup I, n)
           /\ Road(G, Q, H, I \cup {n + 1}, L, n + 1)
           /\ Road(G, Q, H, I, L \cup {n + 1}, n + 1)
<1> USE DEF Road, Before, Splits
<1>1. \A a \in G \cup Q \cup H \cup I \cup L : a \in Nat /\ a <= n
  OBVIOUS
<1>2. \A a \in G \cup Q \cup H \cup I \cup L : ~(a < a)
  BY <1>1
<1>3. 1..(n + 1) = 1..n \cup {n + 1} /\ n + 1 \notin 1..n /\ \A a \in 1..n : a < n + 1
  OBVIOUS
<1>4. ASSUME NEW X, NEW J, Splits(I, X, J)
      PROVE  /\ H = {} => Road(G, Q \cup X, {}, J, L, n) /\ Road(G, Q, X, J, L, n)
             /\ Road(G, Q, H, J, L \cup X, n)
  BY <1>2, <1>4
<1>5. ASSUME NEW X, NEW J, Splits(Q, X, J) PROVE Road(G \cup X, J, H, I, L, n)
  BY <1>5
<1>6. Road(G, Q \cup H, {}, I, L, n) /\ Road(G, {}, {}, {}, L \cup Q \cup H \cup I, n)
  BY <1>2
<1>7. Road(G, Q, H, I \cup {n + 1}, L, n + 1) /\ Road(G, Q, H, I, L \cup {n + 1}, n + 1)
  BY <1>1, <1>3
<1> HIDE DEF Road, Before, Splits
<1> QED  BY <1>4, <1>5, <1>6, <1>7

-----------------------------------------------------------------------------
\* The actions

\* Shard h moves on and holds what is in held; all else of its state stays.
Becomes(h, phase, held) == shard' = [shard EXCEPT ![h] = [phase |-> phase, held |-> held]]

(* One shard changes.                                                       *)
LEMMA OneShardBecomes ==
    ASSUME StreamOK, NEW h \in Shards, NEW phase \in Phases, NEW held \in Seq(Updates),
           Becomes(h, phase, held),
           IF phase = "putting" THEN \E u \in Updates : held = <<u>> ELSE held = <<>>
    PROVE  /\ shard' \in [Shards -> [phase : Phases, held : Seq(Updates)]] /\ HeldOK'
           /\ shard'[h].held = held /\ \A g \in Shards \ {h} : shard'[g] = shard[g]
<1>1. shard \in [Shards -> [phase : Phases, held : Seq(Updates)]] /\ HeldOK
  BY DEF StreamOK, TypesOK
<1> DEFINE next == [phase |-> phase, held |-> held]
<1>2. next \in [phase : Phases, held : Seq(Updates)] /\ next.phase = phase /\ next.held = held
  OBVIOUS
<1> HIDE DEF next
<1>3. shard' = [shard EXCEPT ![h] = next]
  BY DEF next, Becomes
<1>4. shard'[h] = next /\ \A g \in Shards \ {h} : shard'[g] = shard[g]
  BY <1>1, <1>3
<1> QED  BY <1>1, <1>2, <1>3, <1>4 DEF HeldOK

(* A shard that does not wait for room holds nothing.                       *)
LEMMA HoldsNothing ==
    ASSUME StreamOK, NEW h \in Shards, shard[h].phase # "putting"
    PROVE  shard[h].held = <<>> /\ \A s : Of(s, shard[h].held) = {}
  BY OfFew DEF StreamOK, HeldOK

(* The connection of a shard is made, fails, is refused or waits.           *)
LEMMA ConnectionOK ==
    ASSUME StreamOK, NEW h \in Shards, Connects(h) \/ ConnectFails(h) \/ BackoffOver(h)
    PROVE  StreamOK'
<1>1. PICK phase \in Phases \ {"putting"} : Becomes(h, phase, <<>>)
  BY DEF Connects, ConnectFails, BackoffOver, MovesTo, Idle, Phases, Becomes
<1>2. UNCHANGED <<inbox, queue, sent, got, lost>> /\ shard[h].phase # "putting"
  BY DEF Connects, ConnectFails, BackoffOver
<1>3. /\ shard' \in [Shards -> [phase : Phases, held : Seq(Updates)]] /\ HeldOK'
      /\ shard'[h].held = <<>> /\ \A g \in Shards \ {h} : shard'[g] = shard[g]
  <2>1. <<>> \in Seq(Updates)
    OBVIOUS
  <2> QED  BY <1>1, <2>1, OneShardBecomes
<1>4. \A g \in Shards : shard'[g].held = shard[g].held
  BY <1>2, <1>3, HoldsNothing
<1>5. TypesOK'
  BY <1>2, <1>3 DEF StreamOK, TypesOK
<1>6. RoadsOK'
  BY <1>2, <1>4, HomeOK DEF StreamOK, RoadsOK, HeldOf, InboxOf
<1> QED  BY <1>3, <1>5, <1>6 DEF StreamOK

(* Versions are numbers.                                                    *)
LEMMA OfType ==
    ASSUME NEW s, NEW q \in Seq(Updates)
    PROVE  Of(s, q) \subseteq 1..MaxUpdates
<1>1. \A i \in DOMAIN q : q[i] \in Updates
  OBVIOUS
<1> QED  BY <1>1, OfParts DEF Updates

(* The first frame u of an inbox is taken.                                  *)
LEMMA FrameTaken ==
    ASSUME StreamOK, NEW h \in Shards, shard[h].phase = "open", inbox[h] # <<>>,
           NEW u, u = Head(inbox[h]), inbox' = [inbox EXCEPT ![h] = Tail(@)]
    PROVE  /\ u \in Updates /\ Home(u.symbol) = h
           /\ inbox' \in [Shards -> Seq(Updates)]
           /\ \A g \in Shards : Rising(inbox'[g]) /\ Carries(g, inbox'[g])
           /\ \A s \in Symbols :
                  /\ Splits(InboxOf(s), Of(s, <<u>>), InboxOf(s)')
                  /\ Of(s, <<u>>) = {} \/ (Home(s) = h /\ HeldOf(s) = {})
<1>1. inbox \in [Shards -> Seq(Updates)] /\ Rising(inbox[h]) /\ Carries(h, inbox[h])
  BY DEF StreamOK, TypesOK, RoadsOK
<1>2. PICK r : r = Tail(inbox[h])
  OBVIOUS
<1>3. /\ u \in Updates /\ r \in Seq(Updates) /\ Home(u.symbol) = h
      /\ Rising(r) /\ Carries(h, r)
      /\ \A s : Of(s, inbox[h]) = Of(s, <<u>>) \cup Of(s, r)
      /\ \A s : Before(Of(s, <<u>>), Of(s, r))
  BY <1>1, <1>2, OfTail
<1>4. inbox'[h] = r /\ \A g \in Shards \ {h} : inbox'[g] = inbox[g]
  BY <1>1, <1>2
<1>5. inbox' \in [Shards -> Seq(Updates)]
  BY <1>1, <1>2, <1>3
<1>6. \A g \in Shards : Rising(inbox'[g]) /\ Carries(g, inbox'[g])
  BY <1>3, <1>4 DEF StreamOK, RoadsOK
<1>7. ASSUME NEW s \in Symbols
      PROVE  /\ Splits(InboxOf(s), Of(s, <<u>>), InboxOf(s)')
             /\ Of(s, <<u>>) = {} \/ (Home(s) = h /\ HeldOf(s) = {})
  <2>1. CASE Home(s) = h
    BY <1>3, <1>4, <2>1, HoldsNothing DEF InboxOf, HeldOf, Splits
  <2>2. CASE Home(s) # h
    <3>1. Of(s, <<u>>) = {}
      BY <1>3, <2>2, OfFew
    <3>2. InboxOf(s)' = InboxOf(s)
      BY <1>4, <2>2, HomeOK DEF InboxOf
    <3> QED  BY <3>1, <3>2 DEF Before, Splits
  <2> QED  BY <2>1, <2>2
<1> QED  BY <1>3, <1>5, <1>6, <1>7

(* A shard puts the next update into the queue, or holds it.                *)
LEMMA ReceivesOK ==
    ASSUME StreamOK, NEW h \in Shards, Receives(h)
    PROVE  StreamOK'
<1>1. /\ shard[h].phase = "open" /\ inbox[h] # <<>> /\ inbox' = [inbox EXCEPT ![h] = Tail(@)]
      /\ UNCHANGED <<sent, got, lost>>
  BY DEF Receives
<1>2. PICK u : u = Head(inbox[h])
  OBVIOUS
<1>3. /\ u \in Updates /\ Home(u.symbol) = h
      /\ inbox' \in [Shards -> Seq(Updates)]
      /\ \A g \in Shards : Rising(inbox'[g]) /\ Carries(g, inbox'[g])
      /\ \A s \in Symbols :
             /\ Splits(InboxOf(s), Of(s, <<u>>), InboxOf(s)')
             /\ Of(s, <<u>>) = {} \/ (Home(s) = h /\ HeldOf(s) = {})
  BY <1>1, <1>2, FrameTaken
<1>4. /\ queue \in Seq(Updates) /\ \A s \in Symbols : sent[s] \in Nat
      /\ \A s \in Symbols :
             Road(got[s], Of(s, queue), HeldOf(s), InboxOf(s), lost[s], sent[s])
  BY ClientConstants DEF StreamOK, TypesOK, RoadsOK
<1>5. CASE queue' = Append(queue, u) /\ UNCHANGED shard
  <2>1. Before(Of(u.symbol, queue), {u.version})
    <3>1. u.symbol \in Symbols /\ Of(u.symbol, <<u>>) = {u.version}
      BY <1>3, OfFew DEF Updates
    <3> QED  BY <1>3, <1>4, <3>1 DEF Road, Before, Splits
  <2>2. /\ queue' \in Seq(Updates) /\ Rising(queue')
        /\ \A s : Of(s, queue') = Of(s, queue) \cup Of(s, <<u>>)
    BY <1>3, <1>4, <1>5, <2>1, OfAppend DEF StreamOK, RoadsOK
  <2>3. ASSUME NEW s \in Symbols
        PROVE  Road(got[s], Of(s, queue'), HeldOf(s)', InboxOf(s)', lost[s], sent[s])
    <3>1. HeldOf(s)' = HeldOf(s)
      BY <1>5 DEF HeldOf
    <3>2. CASE Of(s, <<u>>) = {}
      BY <1>3, <1>4, <2>2, <3>1, <3>2 DEF Splits
    <3>3. CASE HeldOf(s) = {}
      <4>1. Road(got[s], Of(s, queue) \cup Of(s, <<u>>), {}, InboxOf(s)', lost[s], sent[s])
        BY <1>3, <1>4, <3>3, RoadMoves
      <4> QED  BY <2>2, <3>1, <3>3, <4>1
    <3> QED  BY <1>3, <3>2, <3>3
  <2>4. TypesOK' /\ HeldOK'
    BY <1>1, <1>3, <1>5, <2>2 DEF StreamOK, TypesOK, HeldOK
  <2>5. RoadsOK'
    BY <1>1, <1>3, <1>5, <2>2, <2>3 DEF StreamOK, RoadsOK
  <2> QED  BY <2>4, <2>5 DEF StreamOK
<1>6. CASE queue' = queue /\ Becomes(h, "putting", <<u>>)
  <2>1. /\ shard' \in [Shards -> [phase : Phases, held : Seq(Updates)]] /\ HeldOK'
        /\ shard'[h].held = <<u>> /\ \A g \in Shards \ {h} : shard'[g] = shard[g]
    <3>1. "putting" \in Phases /\ <<u>> \in Seq(Updates)
      BY <1>3 DEF Phases
    <3> QED  BY <1>3, <1>6, <3>1, OneShardBecomes
  <2>2. ASSUME NEW s \in Symbols
        PROVE  Road(got[s], Of(s, queue'), HeldOf(s)', InboxOf(s)', lost[s], sent[s])
    <3>1. CASE Home(s) = h
      <4>1. HeldOf(s) = {} /\ HeldOf(s)' = Of(s, <<u>>)
        BY <1>1, <2>1, <3>1, HoldsNothing DEF HeldOf
      <4> QED  BY <1>3, <1>4, <1>6, <4>1, RoadMoves
    <3>2. CASE Home(s) # h
      <4>1. HeldOf(s)' = HeldOf(s)
        BY <2>1, <3>2, HomeOK DEF HeldOf
      <4>2. InboxOf(s)' = InboxOf(s)
        BY <1>3, <3>2 DEF Splits
      <4> QED  BY <1>4, <1>6, <4>1, <4>2
    <3> QED  BY <3>1, <3>2
  <2>3. Carries(h, <<u>>)
    BY <1>3 DEF Carries
  <2>4. \A g \in Shards : Carries(g, shard'[g].held)
    BY <2>1, <2>3 DEF StreamOK, RoadsOK
  <2>5. TypesOK'
    BY <1>1, <1>3, <1>6, <2>1 DEF StreamOK, TypesOK
  <2>6. RoadsOK'
    BY <1>1, <1>3, <1>6, <2>2, <2>4 DEF StreamOK, RoadsOK
  <2> QED  BY <2>1, <2>5, <2>6 DEF StreamOK
<1> QED  BY <1>2, <1>5, <1>6 DEF Receives, Becomes

(* A frame is discarded.                                                    *)
LEMMA DiscardsOK ==
    ASSUME StreamOK, NEW h \in Shards, Discards(h)
    PROVE  StreamOK'
<1>1. /\ shard[h].phase = "open" /\ inbox[h] # <<>> /\ inbox' = [inbox EXCEPT ![h] = Tail(@)]
      /\ UNCHANGED <<shard, queue, sent, got>>
  BY DEF Discards
<1>2. PICK u : u = Head(inbox[h])
  OBVIOUS
<1>3. /\ u \in Updates
      /\ inbox' \in [Shards -> Seq(Updates)]
      /\ \A g \in Shards : Rising(inbox'[g]) /\ Carries(g, inbox'[g])
      /\ \A s \in Symbols : Splits(InboxOf(s), Of(s, <<u>>), InboxOf(s)')
  BY <1>1, <1>2, FrameTaken
<1>4. lost' = [s \in Symbols |-> lost[s] \cup Of(s, <<u>>)]
  BY <1>2 DEF Discards, Losing
<1>5. lost' \in [Symbols -> SUBSET Nat]
  <2>1. \A s \in Symbols : Of(s, <<u>>) \subseteq Nat
    <3>1. u.version \in Nat
      BY <1>3 DEF Updates
    <3> QED  BY <3>1, OfFew
  <2> QED  BY <1>4, <2>1 DEF StreamOK, TypesOK
<1>6. ASSUME NEW s \in Symbols
      PROVE  Road(got[s], Of(s, queue), HeldOf(s)', InboxOf(s)', lost'[s], sent[s])
  <2>1. /\ sent[s] \in Nat
        /\ Road(got[s], Of(s, queue), HeldOf(s), InboxOf(s), lost[s], sent[s])
    BY ClientConstants DEF StreamOK, TypesOK, RoadsOK
  <2>2. HeldOf(s)' = HeldOf(s) /\ lost'[s] = lost[s] \cup Of(s, <<u>>)
    BY <1>1, <1>4 DEF HeldOf
  <2>3. Road(got[s], Of(s, queue), HeldOf(s), InboxOf(s)', lost[s] \cup Of(s, <<u>>), sent[s])
    BY <1>3, <2>1, RoadMoves
  <2> QED  BY <2>2, <2>3
<1>7. TypesOK' /\ HeldOK'
  BY <1>1, <1>3, <1>5 DEF StreamOK, TypesOK, HeldOK
<1>8. RoadsOK'
  BY <1>1, <1>3, <1>6 DEF StreamOK, RoadsOK
<1> QED  BY <1>7, <1>8 DEF StreamOK

(* A socket is lost, or given up, with all that it has received.            *)
LEMMA SocketLostOK ==
    ASSUME StreamOK, NEW h \in Shards, Disconnects(h) \/ ShardReturns(h)
    PROVE  StreamOK'
<1>1. /\ shard[h].phase # "putting" /\ inbox' = [inbox EXCEPT ![h] = <<>>]
      /\ lost' = [s \in Symbols |-> lost[s] \cup Of(s, inbox[h])]
      /\ UNCHANGED <<queue, sent, got>>
  BY DEF Disconnects, ShardReturns, Losing
<1>2. PICK phase \in Phases \ {"putting"} : Becomes(h, phase, <<>>)
  BY DEF Disconnects, ShardReturns, MovesTo, Idle, Phases, Becomes
<1>3. /\ shard' \in [Shards -> [phase : Phases, held : Seq(Updates)]] /\ HeldOK'
      /\ shard'[h].held = <<>> /\ \A g \in Shards \ {h} : shard'[g] = shard[g]
  <2>1. <<>> \in Seq(Updates)
    OBVIOUS
  <2> QED  BY <1>2, <2>1, OneShardBecomes
<1>4. \A g \in Shards : shard'[g].held = shard[g].held
  BY <1>1, <1>3, HoldsNothing
<1>5. /\ inbox \in [Shards -> Seq(Updates)] /\ inbox' \in [Shards -> Seq(Updates)]
      /\ inbox'[h] = <<>> /\ \A g \in Shards \ {h} : inbox'[g] = inbox[g]
  BY <1>1 DEF StreamOK, TypesOK
<1>6. lost' \in [Symbols -> SUBSET Nat]
  <2>1. \A s \in Symbols : Of(s, inbox[h]) \subseteq Nat
    BY <1>5, OfType
  <2> QED  BY <1>1, <2>1 DEF StreamOK, TypesOK
<1>7. ASSUME NEW s \in Symbols
      PROVE  Road(got[s], Of(s, queue), HeldOf(s)', InboxOf(s)', lost'[s], sent[s])
  <2>1. /\ sent[s] \in Nat
        /\ Road(got[s], Of(s, queue), HeldOf(s), InboxOf(s), lost[s], sent[s])
    BY ClientConstants DEF StreamOK, TypesOK, RoadsOK
  <2>2. HeldOf(s)' = HeldOf(s) /\ lost'[s] = lost[s] \cup Of(s, inbox[h])
    BY <1>1, <1>4, HomeOK DEF HeldOf
  <2>3. CASE Home(s) = h
    <3>1. InboxOf(s)' = {} /\ InboxOf(s) = Of(s, inbox[h])
      BY <1>5, <2>3, OfFew DEF InboxOf
    <3>2. Splits(InboxOf(s), InboxOf(s), {})
      BY DEF Splits, Before
    <3>3. Road(got[s], Of(s, queue), HeldOf(s), {}, lost[s] \cup InboxOf(s), sent[s])
      BY <2>1, <3>2, RoadMoves
    <3> QED  BY <2>2, <3>1, <3>3
  <2>4. CASE Home(s) # h
    <3>1. InboxOf(s)' = InboxOf(s)
      BY <1>5, <2>4, HomeOK DEF InboxOf
    <3>2. Of(s, inbox[h]) = {}
      BY <2>4, OfParts DEF StreamOK, RoadsOK, Carries
    <3> QED  BY <2>1, <2>2, <3>1, <3>2
  <2> QED  BY <2>3, <2>4
<1>8. TypesOK'
  BY <1>1, <1>3, <1>5, <1>6 DEF StreamOK, TypesOK
<1>9. RoadsOK'
  <2>1. Rising(<<>>) /\ Carries(h, <<>>)
    BY DEF Rising, Carries
  <2>2. \A g \in Shards : /\ Rising(inbox'[g]) /\ Carries(g, inbox'[g])
                          /\ Carries(g, shard'[g].held)
    BY <1>4, <1>5, <2>1 DEF StreamOK, RoadsOK
  <2> QED  BY <1>1, <1>7, <2>2 DEF StreamOK, RoadsOK
<1> QED  BY <1>3, <1>8, <1>9 DEF StreamOK

(* There is room again for the update that a shard holds.                   *)
LEMMA PutsOK ==
    ASSUME StreamOK, NEW h \in Shards, Puts(h)
    PROVE  StreamOK'
<1>1. /\ shard[h].phase = "putting" /\ queue' = queue \o shard[h].held
      /\ UNCHANGED <<inbox, sent, got, lost>>
  BY DEF Puts
<1>2. PICK u \in Updates : shard[h].held = <<u>>
  BY <1>1 DEF StreamOK, HeldOK
<1>3. queue \in Seq(Updates) /\ queue' = Append(queue, u)
  BY <1>1, <1>2 DEF StreamOK, TypesOK
<1>4. Becomes(h, "open", <<>>)
  BY DEF Puts, MovesTo, Idle, Becomes
<1>5. /\ shard' \in [Shards -> [phase : Phases, held : Seq(Updates)]] /\ HeldOK'
      /\ shard'[h].held = <<>> /\ \A g \in Shards \ {h} : shard'[g] = shard[g]
  <2>1. <<>> \in Seq(Updates) /\ "open" \in Phases
    BY DEF Phases
  <2> QED  BY <1>4, <2>1, OneShardBecomes
<1>6. Home(u.symbol) = h /\ u.symbol \in Symbols /\ Of(u.symbol, <<u>>) = {u.version}
  <2>1. Carries(h, <<u>>)
    BY <1>2 DEF StreamOK, RoadsOK
  <2> DEFINE one == <<u>>
  <2>2. DOMAIN one = {1} /\ one[1] = u
    OBVIOUS
  <2> HIDE DEF one
  <2>3. Carries(h, one)
    BY <2>1 DEF one
  <2>4. Home(u.symbol) = h
    BY <2>2, <2>3 DEF Carries
  <2> QED  BY <2>4, OfFew DEF Updates
<1>7. \A s \in Symbols :
        /\ sent[s] \in Nat
        /\ Road(got[s], Of(s, queue), HeldOf(s), InboxOf(s), lost[s], sent[s])
  BY ClientConstants DEF StreamOK, TypesOK, RoadsOK
<1>8. Before(Of(u.symbol, queue), {u.version})
  <2>1. HeldOf(u.symbol) = {u.version}
    BY <1>2, <1>6 DEF HeldOf
  <2> QED  BY <1>6, <1>7, <2>1 DEF Road
<1>9. /\ queue' \in Seq(Updates) /\ Rising(queue')
      /\ \A s : Of(s, queue') = Of(s, queue) \cup Of(s, <<u>>)
  BY <1>3, <1>8, OfAppend DEF StreamOK, RoadsOK
<1>10. ASSUME NEW s \in Symbols
       PROVE  Road(got[s], Of(s, queue'), HeldOf(s)', InboxOf(s)', lost[s], sent[s])
  <2>1. InboxOf(s)' = InboxOf(s)
    BY <1>1 DEF InboxOf
  <2>2. CASE Home(s) = h
    <3>1. HeldOf(s) = Of(s, <<u>>) /\ HeldOf(s)' = {}
      BY <1>2, <1>5, <2>2, OfFew DEF HeldOf
    <3>2. Road(got[s], Of(s, queue) \cup HeldOf(s), {}, InboxOf(s), lost[s], sent[s])
      BY <1>7, RoadMoves
    <3> QED  BY <1>9, <2>1, <3>1, <3>2
  <2>3. CASE Home(s) # h
    <3>1. HeldOf(s)' = HeldOf(s) /\ Of(s, <<u>>) = {}
      BY <1>5, <1>6, <2>3, HomeOK, OfFew DEF HeldOf
    <3> QED  BY <1>7, <1>9, <2>1, <3>1
  <2> QED  BY <2>2, <2>3
<1>11. TypesOK'
  BY <1>1, <1>5, <1>9 DEF StreamOK, TypesOK
<1>12. RoadsOK'
  <2>1. Carries(h, <<>>)
    BY DEF Carries
  <2>2. \A g \in Shards : Carries(g, shard'[g].held)
    BY <1>5, <2>1 DEF StreamOK, RoadsOK
  <2> QED  BY <1>1, <1>9, <1>10, <2>2 DEF StreamOK, RoadsOK
<1> QED  BY <1>5, <1>11, <1>12 DEF StreamOK

(* The consumer gets the next update, which is newer than all that it got   *)
(* of the symbol.                                                           *)
LEMMA YieldsOK ==
    ASSUME StreamOK, Yields
    PROVE  /\ StreamOK'
           /\ \A s \in Symbols : Before(got[s], got'[s] \ got[s])
<1>1. /\ queue # <<>> /\ queue' = Tail(queue)
      /\ UNCHANGED <<shard, inbox, sent, lost>>
  BY DEF Yields
<1>2. PICK u : u = Head(queue)
  OBVIOUS
<1>3. /\ u \in Updates /\ queue' \in Seq(Updates) /\ Rising(queue')
      /\ \A s : Splits(Of(s, queue), Of(s, <<u>>), Of(s, queue'))
  <2>1. queue \in Seq(Updates) /\ Rising(queue)
    BY DEF StreamOK, TypesOK, RoadsOK
  <2> QED  BY <1>1, <1>2, <2>1, OfTail DEF Splits
<1>4. got' = [got EXCEPT ![u.symbol] = @ \cup {u.version}]
  BY <1>2 DEF Yields
<1>5. u.symbol \in Symbols /\ u.version \in Nat
  BY <1>3 DEF Updates
<1>6. got' \in [Symbols -> SUBSET Nat] /\ \A s \in Symbols : got'[s] = got[s] \cup Of(s, <<u>>)
  BY <1>4, <1>5, OfFew DEF StreamOK, TypesOK
<1>7. \A s \in Symbols :
        /\ sent[s] \in Nat
        /\ Road(got[s], Of(s, queue), HeldOf(s), InboxOf(s), lost[s], sent[s])
  BY ClientConstants DEF StreamOK, TypesOK, RoadsOK
<1>8. ASSUME NEW s \in Symbols
      PROVE  Road(got'[s], Of(s, queue'), HeldOf(s)', InboxOf(s)', lost[s], sent[s])
  <2>1. HeldOf(s)' = HeldOf(s) /\ InboxOf(s)' = InboxOf(s)
    BY <1>1 DEF HeldOf, InboxOf
  <2>2. Road(got[s] \cup Of(s, <<u>>), Of(s, queue'), HeldOf(s), InboxOf(s), lost[s], sent[s])
    BY <1>3, <1>7, RoadMoves
  <2> QED  BY <1>6, <2>1, <2>2
<1>9. \A s \in Symbols : Before(got[s], got'[s] \ got[s])
  BY <1>3, <1>6, <1>7 DEF Road, Before, Splits
<1>10. TypesOK' /\ HeldOK'
  BY <1>1, <1>3, <1>6 DEF StreamOK, TypesOK, HeldOK
<1>11. RoadsOK'
  BY <1>1, <1>3, <1>8 DEF StreamOK, RoadsOK
<1> QED  BY <1>9, <1>10, <1>11 DEF StreamOK

(* What is in transit is on the road of its symbol.                         *)
LEMMA TransitOnRoad ==
    ASSUME StreamOK, NEW s \in Symbols
    PROVE  InTransit(s) = Of(s, queue) \cup HeldOf(s) \cup InboxOf(s)
<1>1. Home(s) \in Shards
  BY HomeOK
<1>2. \A h \in Shards : h # Home(s) => Of(s, inbox[h]) = {} /\ Of(s, shard[h].held) = {}
  BY OfParts DEF StreamOK, RoadsOK, Carries
<1> QED  BY <1>1, <1>2 DEF InTransit, HeldOf, InboxOf

(* The consumer goes, and everything on the way is lost.                    *)
LEMMA UnsubscribesOK ==
    ASSUME StreamOK, Unsubscribes
    PROVE  StreamOK'
<1>1. /\ shard' = [h \in Shards |-> Idle("ended")] /\ inbox' = [h \in Shards |-> <<>>]
      /\ queue' = <<>> /\ lost' = [s \in Symbols |-> lost[s] \cup InTransit(s)]
      /\ UNCHANGED <<sent, got>>
  BY DEF Unsubscribes
<1>2. Idle("ended") \in [phase : Phases, held : Seq(Updates)]
      /\ Idle("ended").held = <<>> /\ Idle("ended").phase # "putting"
  BY DEF Idle, Phases
<1>3. ASSUME NEW s \in Symbols
      PROVE  /\ Road(got[s], Of(s, queue'), HeldOf(s)', InboxOf(s)', lost'[s], sent[s])
             /\ InTransit(s) \subseteq Nat
  <2>1. /\ sent[s] \in Nat
        /\ Road(got[s], Of(s, queue), HeldOf(s), InboxOf(s), lost[s], sent[s])
    BY ClientConstants DEF StreamOK, TypesOK, RoadsOK
  <2>2. lost'[s] = lost[s] \cup Of(s, queue) \cup HeldOf(s) \cup InboxOf(s)
    BY <1>1, TransitOnRoad
  <2>3. Of(s, queue') = {} /\ HeldOf(s)' = {} /\ InboxOf(s)' = {}
    BY <1>1, <1>2, HomeOK, OfFew DEF HeldOf, InboxOf
  <2>4. Road(got[s], {}, {}, {}, lost[s] \cup Of(s, queue) \cup HeldOf(s) \cup InboxOf(s), sent[s])
    BY <2>1, RoadMoves
  <2>5. InTransit(s) \subseteq Nat
    BY <2>1, TransitOnRoad DEF Road
  <2> QED  BY <2>2, <2>3, <2>4, <2>5
<1>4. TypesOK' /\ HeldOK'
  <2>1. <<>> \in Seq(Updates)
    OBVIOUS
  <2> QED  BY <1>1, <1>2, <1>3, <2>1 DEF StreamOK, TypesOK, HeldOK
<1>5. RoadsOK'
  <2>1. Rising(<<>>) /\ \A h : Carries(h, <<>>)
    BY DEF Rising, Carries
  <2> QED  BY <1>1, <1>2, <1>3, <2>1 DEF StreamOK, RoadsOK
<1> QED  BY <1>4, <1>5 DEF StreamOK

(* A version is published: it comes last in the inbox of its symbol's       *)
(* shard, or is lost.                                                       *)
LEMMA PublishOK ==
    ASSUME StreamOK, NEW s \in Symbols, Publish(s)
    PROVE  StreamOK'
<1>1. PICK h \in Shards : h = Home(s) /\ ShardsOf(s) = {h}
  BY HomeOK
<1>2. PICK u : u = Update(s, sent[s] + 1)
  OBVIOUS
<1>3. /\ sent[s] \in 0..MaxUpdates /\ sent[s] < MaxUpdates /\ MaxUpdates \in Nat
      /\ sent' = [sent EXCEPT ![s] = @ + 1] /\ UNCHANGED <<shard, queue, got>>
  BY ClientConstants DEF Publish, StreamOK, TypesOK
<1>4. u \in Updates /\ u.symbol = s /\ u.version = sent[s] + 1
  BY <1>2, <1>3 DEF Update, Updates
<1>5. /\ sent' \in [Symbols -> 0..MaxUpdates] /\ sent'[s] = sent[s] + 1
      /\ \A t \in Symbols \ {s} : sent'[t] = sent[t]
  BY <1>3 DEF StreamOK, TypesOK
<1>6. \A t \in Symbols :
        /\ sent[t] \in Nat /\ HeldOf(t)' = HeldOf(t)
        /\ Road(got[t], Of(t, queue), HeldOf(t), InboxOf(t), lost[t], sent[t])
  BY <1>3, ClientConstants DEF StreamOK, TypesOK, RoadsOK, HeldOf
<1>7. inbox \in [Shards -> Seq(Updates)] /\ lost \in [Symbols -> SUBSET Nat]
  BY DEF StreamOK, TypesOK
<1>8. CASE Subscribed(h)
  <2>1. {g \in ShardsOf(s) : Subscribed(g)} = {h}
    BY <1>1, <1>8
  <2>2. /\ inbox' = [g \in Shards |-> IF g = h THEN Append(inbox[g], u) ELSE inbox[g]]
        /\ lost' = lost
    BY <1>2, <2>1 DEF Publish
  <2>3. PICK r : r = Append(inbox[h], u)
    OBVIOUS
  <2>4. inbox'[h] = r /\ \A g \in Shards \ {h} : inbox'[g] = inbox[g]
    BY <2>2, <2>3
  <2>5. Before(Of(s, inbox[h]), {u.version})
    <3>1. Of(s, inbox[h]) \subseteq 1..sent[s]
      BY <1>1, <1>6 DEF InboxOf, Road
    <3> QED  BY <1>3, <1>4, <3>1 DEF Before
  <2>6. /\ r \in Seq(Updates) /\ Rising(r) /\ Carries(h, r)
        /\ \A t : Of(t, r) = Of(t, inbox[h]) \cup Of(t, <<u>>)
    <3>1. Rising(inbox[h]) /\ Carries(h, inbox[h]) /\ inbox[h] \in Seq(Updates)
      BY <1>7 DEF StreamOK, RoadsOK
    <3> QED  BY <1>1, <1>4, <2>3, <2>5, <3>1, OfAppend
  <2>7. inbox' \in [Shards -> Seq(Updates)]
    BY <1>7, <2>2, <2>3, <2>6
  <2>8. ASSUME NEW t \in Symbols
        PROVE  Road(got[t], Of(t, queue), HeldOf(t)', InboxOf(t)', lost[t], sent'[t])
    <3>1. CASE t = s
      <4>1. InboxOf(s)' = InboxOf(s) \cup {sent[s] + 1}
        BY <1>1, <1>4, <2>4, <2>6, OfFew DEF InboxOf
      <4>2. Road(got[s], Of(s, queue), HeldOf(s), InboxOf(s) \cup {sent[s] + 1}, lost[s], sent[s] + 1)
        BY <1>6, RoadMoves
      <4> QED  BY <1>5, <1>6, <3>1, <4>1, <4>2
    <3>2. CASE t # s
      <4>1. Of(t, <<u>>) = {}
        BY <1>4, <3>2, OfFew
      <4>2. InboxOf(t)' = InboxOf(t)
        BY <2>4, <2>6, <4>1, HomeOK DEF InboxOf
      <4> QED  BY <1>5, <1>6, <3>2, <4>2
    <3> QED  BY <3>1, <3>2
  <2>9. TypesOK' /\ HeldOK'
    BY <1>3, <1>5, <2>2, <2>7 DEF StreamOK, TypesOK, HeldOK
  <2>10. RoadsOK'
    BY <1>3, <2>2, <2>4, <2>6, <2>8 DEF StreamOK, RoadsOK
  <2> QED  BY <2>9, <2>10 DEF StreamOK
<1>9. CASE ~Subscribed(h)
  <2>1. {g \in ShardsOf(s) : Subscribed(g)} = {}
    BY <1>1, <1>9
  <2>2. /\ inbox' = [g \in Shards |-> inbox[g]]
        /\ lost' = [lost EXCEPT ![s] = @ \cup {sent[s] + 1}]
    BY <2>1 DEF Publish
  <2>3. inbox' = inbox
    BY <1>7, <2>2
  <2>4. /\ lost' \in [Symbols -> SUBSET Nat] /\ lost'[s] = lost[s] \cup {sent[s] + 1}
        /\ \A t \in Symbols \ {s} : lost'[t] = lost[t]
    BY <1>3, <1>7, <2>2
  <2>5. ASSUME NEW t \in Symbols
        PROVE  Road(got[t], Of(t, queue), HeldOf(t)', InboxOf(t)', lost'[t], sent'[t])
    <3>1. InboxOf(t)' = InboxOf(t)
      BY <2>3 DEF InboxOf
    <3>2. CASE t = s
      <4>1. Road(got[s], Of(s, queue), HeldOf(s), InboxOf(s), lost[s] \cup {sent[s] + 1}, sent[s] + 1)
        BY <1>6, RoadMoves
      <4> QED  BY <1>5, <1>6, <2>4, <3>1, <3>2, <4>1
    <3>3. CASE t # s
      BY <1>5, <1>6, <2>4, <3>1, <3>3
    <3> QED  BY <3>2, <3>3
  <2>6. TypesOK' /\ HeldOK'
    BY <1>3, <1>5, <2>3, <2>4 DEF StreamOK, TypesOK, HeldOK
  <2>7. RoadsOK'
    BY <1>3, <2>3, <2>5 DEF StreamOK, RoadsOK
  <2> QED  BY <2>6, <2>7 DEF StreamOK
<1> QED  BY <1>8, <1>9

(* Every step of the stream keeps the roads in order, and what it hands to  *)
(* the consumer is new.                                                     *)
LEMMA StreamStep ==
    ASSUME StreamOK, [Next]_vars
    PROVE  /\ StreamOK'
           /\ \A s \in Symbols : Before(got[s], got'[s] \ got[s])
<1>1. ASSUME NEW s \in Symbols, Publish(s) PROVE StreamOK' /\ got' = got
  BY <1>1, PublishOK DEF Publish
<1>2. ASSUME NEW h \in Shards, ShardStep(h) PROVE StreamOK' /\ got' = got
  <2>1. StreamOK'
    BY <1>2, ConnectionOK, SocketLostOK, ReceivesOK, DiscardsOK, PutsOK DEF ShardStep
  <2>2. got' = got
    BY <1>2 DEF ShardStep, Connects, ConnectFails, Disconnects, BackoffOver, Receives, Discards,
       Puts, ShardReturns
  <2> QED  BY <2>1, <2>2
<1>3. CASE Unsubscribes
  <2>1. got' = got
    BY <1>3 DEF Unsubscribes
  <2> QED  BY <1>3, <2>1, UnsubscribesOK DEF Before
<1>4. CASE UNCHANGED stream
  BY <1>4 DEF stream, StreamOK, TypesOK, HeldOK, RoadsOK, HeldOf, InboxOf, Before
<1>5. Close \/ Request \/ UNCHANGED vars => UNCHANGED stream
  BY DEF Close, Request, Asks, Settles, Fails, TimePasses, AsksAgain, vars
<1>6. got' = got => \A s \in Symbols : Before(got[s], got'[s] \ got[s])
  BY DEF Before
<1> QED  BY <1>1, <1>2, <1>3, <1>4, <1>5, <1>6, YieldsOK DEF Next

-----------------------------------------------------------------------------
\* The request

(* A request keeps the delay it was told, and sleeps no longer than needed  *)
(* before its next attempt.                                                 *)
LEMMA RequestStep ==
    ASSUME RequestOK, [Next]_vars
    PROVE  /\ RequestOK'
           /\ rest.phase = "sleeping" /\ rest'.phase = "asked" =>
                  /\ ~closed
                  /\ rest.since >= rest.told \/ rest.since >= RetryCap
                  /\ rest'.attempt <= MaxRetries
<1> DEFINE RestSet == [phase : {"idle", "asked", "sleeping"}, attempt : 0..MaxRetries,
                       told : Nat, wait : Nat, since : Nat]
<1>1. rest \in RestSet /\ MaxRetries \in Nat /\ RetryCap \in Nat /\ Told \cup {0} \subseteq Nat
  BY ClientConstants DEF RequestOK
<1>2. NoRequest \in RestSet /\ NoRequest.phase = "idle"
  BY <1>1 DEF NoRequest
<1>3. CASE UNCHANGED rest
  BY <1>3 DEF RequestOK
<1>4. CASE rest' = NoRequest
  BY <1>2, <1>4 DEF RequestOK
<1>5. CASE Asks
  <2>1. rest.phase = "idle" /\ rest' = [NoRequest EXCEPT !.phase = "asked"]
    BY <1>5 DEF Asks
  <2>2. rest' \in RestSet /\ rest'.phase = "asked"
    BY <1>1, <2>1 DEF NoRequest
  <2> QED  BY <2>1, <2>2 DEF RequestOK
<1>6. ASSUME NEW told \in Told \cup {0}, Fails(told), rest' # NoRequest
      PROVE  RequestOK' /\ rest.phase = "asked"
  <2>1. PICK backoff \in 0..RetryCap :
          rest' = [phase |-> "sleeping", attempt |-> rest.attempt, told |-> told,
                   wait |-> Delay(told, backoff), since |-> 0]
    BY <1>6 DEF Fails
  <2>2. ~(rest.attempt >= MaxRetries) /\ rest.phase = "asked"
    BY <1>6 DEF Fails, LastAttempt
  <2>3. PICK delay : delay = Delay(told, backoff)
    OBVIOUS
  <2>4. delay \in Nat /\ (delay >= told \/ delay >= RetryCap)
    BY <1>1, <2>3 DEF Delay
  <2>5. rest' \in RestSet
    BY <1>1, <2>1, <2>3, <2>4
  <2> QED  BY <1>1, <2>1, <2>2, <2>3, <2>4, <2>5 DEF RequestOK
<1>7. CASE TimePasses
  <2>1. /\ rest.phase = "sleeping" /\ rest.wait > 0
        /\ rest' = [rest EXCEPT !.wait = rest.wait - 1, !.since = rest.since + 1]
    BY <1>7 DEF TimePasses
  <2>2. /\ rest'.phase = "sleeping" /\ rest'.attempt = rest.attempt
        /\ rest'.told = rest.told /\ rest'.wait = rest.wait - 1 /\ rest'.since = rest.since + 1
    BY <1>1, <2>1
  <2>3. rest.wait - 1 \in Nat /\ rest.since + 1 \in Nat
    BY <1>1, <2>1
  <2>4. rest' \in RestSet
    BY <1>1, <2>1, <2>3
  <2> QED  BY <1>1, <2>1, <2>2, <2>4 DEF RequestOK
<1>8. CASE AsksAgain /\ rest' # NoRequest
  <2>1. /\ rest.phase = "sleeping" /\ rest.wait = 0 /\ ~closed
        /\ rest' = [rest EXCEPT !.phase = "asked", !.attempt = rest.attempt + 1]
    BY <1>8 DEF AsksAgain
  <2>2. rest.attempt + 1 \in 0..MaxRetries
    BY <1>1, <2>1 DEF RequestOK
  <2>3. rest' \in RestSet /\ rest'.phase = "asked" /\ rest'.attempt = rest.attempt + 1
    BY <1>1, <2>1, <2>2
  <2> QED  BY <1>1, <2>1, <2>2, <2>3 DEF RequestOK
<1>9. CASE Settles
  BY <1>4, <1>9 DEF Settles
<1>10. Close \/ Yields \/ Unsubscribes \/ (\E s \in Symbols : Publish(s))
        \/ (\E h \in Shards : ShardStep(h)) \/ UNCHANGED vars => UNCHANGED rest
  BY DEF Close, Yields, Unsubscribes, Publish, ShardStep, Connects, ConnectFails, Disconnects,
     BackoffOver, Receives, Discards, Puts, ShardReturns, vars
<1> QED  BY <1>3, <1>4, <1>5, <1>6, <1>7, <1>8, <1>9, <1>10 DEF Next, Request

-----------------------------------------------------------------------------
\* The theorems

(* The initial state is in order.                                           *)
LEMMA ClientInit == Init => StreamOK /\ RequestOK
<1> SUFFICES ASSUME Init PROVE StreamOK /\ RequestOK
  OBVIOUS
<1>1. Idle("connecting") \in [phase : Phases, held : Seq(Updates)]
      /\ Idle("connecting").held = <<>> /\ Idle("connecting").phase # "putting"
  BY DEF Idle, Phases
<1>2. <<>> \in Seq(Updates) /\ 0 \in 0..MaxUpdates
  BY ClientConstants
<1>3. TypesOK /\ HeldOK
  BY <1>1, <1>2 DEF Init, TypesOK, HeldOK
<1>4. RoadsOK
  <2>1. Rising(<<>>) /\ \A h : Carries(h, <<>>)
    BY DEF Rising, Carries
  <2>2. ASSUME NEW s \in Symbols
        PROVE  Road(got[s], Of(s, queue), HeldOf(s), InboxOf(s), lost[s], sent[s])
    <3>1. Of(s, queue) = {} /\ HeldOf(s) = {} /\ InboxOf(s) = {}
      BY <1>1, HomeOK, OfFew DEF Init, HeldOf, InboxOf
    <3> QED  BY <3>1 DEF Init, Road, Before
  <2> QED  BY <1>1, <2>1, <2>2 DEF Init, RoadsOK
<1>5. RequestOK
  BY ClientConstants DEF Init, NoRequest, RequestOK
<1> QED  BY <1>3, <1>4, <1>5 DEF StreamOK

(* The roads and the request are in order in every state.                   *)
LEMMA ClientInvariant == Spec => [](StreamOK /\ RequestOK)
<1>1. StreamOK /\ RequestOK /\ [Next]_vars => (StreamOK /\ RequestOK)'
  BY StreamStep, RequestStep
<1> QED  BY <1>1, ClientInit, PTL DEF Spec

(* Neither backpressure nor a reconnect of a shard repeats or mislays an    *)
(* update: each version has been read, is in one place on its way, or was   *)
(* lost with a socket (mexc_public.py:204-303).                             *)
THEOREM ClientUpdatesAccounted == Spec => []UpdatesAccounted
<1>1. StreamOK => UpdatesAccounted
  <2> SUFFICES ASSUME StreamOK, NEW s \in Symbols
               PROVE  /\ got[s] \cup InTransit(s) \cup lost[s] = 1..sent[s]
                      /\ got[s] \cap (InTransit(s) \cup lost[s]) = {}
                      /\ InTransit(s) \cap lost[s] = {}
    BY DEF UpdatesAccounted
  <2>1. /\ sent[s] \in Nat
        /\ Road(got[s], Of(s, queue), HeldOf(s), InboxOf(s), lost[s], sent[s])
    BY ClientConstants DEF StreamOK, TypesOK, RoadsOK
  <2>2. InTransit(s) = Of(s, queue) \cup HeldOf(s) \cup InboxOf(s)
    BY TransitOnRoad
  <2>3. \A v \in 1..sent[s] : ~(v < v)
    BY <2>1
  <2> QED  BY <2>1, <2>2, <2>3 DEF Road, Before
<1> QED  BY <1>1, ClientInvariant, PTL

(* What the consumer gets of a symbol is newer than all that it got, so     *)
(* that a lost update shows as a gap (mexc_public.py:217-303).              *)
THEOREM ClientLossesShowAsGaps == Spec => LossesShowAsGaps
<1>1. StreamOK /\ [Next]_vars =>
        [\A s \in Symbols : got'[s] # got[s] =>
             \A new \in got'[s] \ got[s], old \in got[s] : old < new]_vars
  BY StreamStep DEF Before
<1> QED  BY <1>1, ClientInvariant, PTL DEF Spec, LossesShowAsGaps

(* A request is sent again only after the wait it was told, up to the cap,  *)
(* at most max_retries times and by an open client (mexc_public.py:319-385, *)
(* binance_public.py:240-304, 333).                                         *)
THEOREM ClientRetriesAsTold == Spec => RetriesAsTold
<1>1. RequestOK /\ [Next]_vars =>
        [rest.phase = "sleeping" /\ rest'.phase = "asked" =>
            /\ ~closed
            /\ rest.since >= rest.told \/ rest.since >= RetryCap
            /\ rest'.attempt <= MaxRetries]_vars
  BY RequestStep
<1> QED  BY <1>1, ClientInvariant, PTL DEF Spec, RetriesAsTold
=============================================================================
