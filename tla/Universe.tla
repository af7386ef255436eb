------------------------------ MODULE Universe ------------------------------
(***************************************************************************)
(* src/tri_arb/discovery.py: from the rows the exchange lists to the cycles *)
(* the observer will watch.  Every operator is a stage of                  *)
(* discover_market, in its order.                                          *)
(*                                                                         *)
(* The names of assets and of symbols are numbers, in their alphabetical   *)
(* order.  Prices, quantities and volumes are whole; what is computed from *)
(* them is an exact fraction.                                              *)
(***************************************************************************)
EXTENDS Ratio, Sequences, FiniteSets, SequencesExt

CONSTANTS
    Usdt,           \* the asset every liquidity floor is stated in
    Bps,            \* parts of a spread: 10 000 in the code
    Scale           \* liquidity that counts half: 1 000 000 in the code

ASSUME UniverseAssumption == Usdt \in Nat /\ Bps \in Nat \ {0} /\ Scale \in Nat \ {0}

-----------------------------------------------------------------------------
(* The rows.                                                               *)

Traded(row) == row.base # row.quote

\* parse_exchange_info: the last row of a symbol counts.
Listed(rows) ==
    {rows[i] : i \in {j \in DOMAIN rows : Traded(rows[j]) /\
        \A k \in DOMAIN rows : k > j /\ Traded(rows[k]) => rows[k].name # rows[j].name}}

\* parse_ticker_stats: of several rows the one with the most volume, the first of equals.
Ticker(rows, name) ==
    LET own == {i \in DOMAIN rows : rows[i].name = name}
        best == CHOOSE i \in own : \A j \in own :
            rows[j].volume < rows[i].volume \/ (rows[j].volume = rows[i].volume /\ i <= j)
    IN  IF own = {} THEN [name |-> name, volume |-> 0, bid |-> 0, bidQty |-> 0,
                          ask |-> 0, askQty |-> 0, last |-> 0, average |-> 0]
        ELSE rows[best]

\* combine_market_stats.
Combined(listing, tickers) ==
    {[name |-> row.name, base |-> row.base, quote |-> row.quote, spot |-> row.spot,
      stats |-> Ticker(tickers, row.name)] : row \in Listed(listing)}

Assets(m) == {m.base, m.quote}
Usable(m) == m.stats.bid > 0 /\ m.stats.ask >= m.stats.bid
Spread(m) ==
    IF Usable(m) THEN Ratio(2 * Bps * (m.stats.ask - m.stats.bid), m.stats.ask + m.stats.bid)
    ELSE Infinity

-----------------------------------------------------------------------------
(* Sorting by keys: sequences of fractions, compared left to right.        *)

Precedes(s, t) ==
    \E i \in DOMAIN s : Less(s[i], t[i]) /\ \A j \in 1..(i - 1) : Same(s[j], t[j])

Ranked(S, Key(_)) ==
    [k \in 1..Cardinality(S) |->
        CHOOSE x \in S : Cardinality({y \in S : Precedes(Key(y), Key(x))}) = k - 1]

Flag(b) == IF b THEN Num(-1) ELSE Zero
Falling(x) == <<-x[1], x[2]>>

MarketKey(m) == <<Flag(Usable(m)), Num(-m.stats.volume), Spread(m), Num(m.name)>>

BestMarket(markets) ==
    CHOOSE m \in markets : \A n \in markets : ~Precedes(MarketKey(n), MarketKey(m))

\* The best market of every pair of assets that has one.
ByPair(markets) ==
    [pair \in {Assets(m) : m \in markets} |-> BestMarket({m \in markets : Assets(m) = pair})]

-----------------------------------------------------------------------------
(* Values in another asset.                                                *)

\* _root_conversion_rate: the bid sells the base, the ask buys it; without
\* them the less favourable of the average and the last price.
Rate(asset, root, m) ==
    LET known == {m.stats.average, m.stats.last} \ {0}
    IN  IF m.base = asset
        THEN IF m.stats.bid > 0 THEN Num(m.stats.bid)
             ELSE IF known = {} THEN Zero ELSE Num(Min(known))
        ELSE IF m.stats.ask > 0 THEN Ratio(1, m.stats.ask)
             ELSE IF known = {} THEN Zero ELSE Ratio(1, Max(known))

InRoot(value, m, root, byPair) ==
    IF value = 0 THEN Zero
    ELSE IF m.quote = root THEN Num(value)
    ELSE IF {m.quote, root} \notin DOMAIN byPair THEN Zero
    ELSE Times(Num(value), Rate(m.quote, root, byPair[{m.quote, root}]))

Volume(m, root, byPair) == InRoot(m.stats.volume, m, root, byPair)
TopNotional(m, root, byPair) ==
    InRoot(Min({m.stats.bid * m.stats.bidQty, m.stats.ask * m.stats.askQty}), m, root, byPair)

-----------------------------------------------------------------------------
(* Which markets, which cycles.                                            *)

Eligible(markets, settings) ==
    LET byPair == ByPair({m \in markets : m.spot /\ Usable(m)})
    IN  {m \in markets :
            /\ m.spot
            /\ Assets(m) \cap (settings.excluded \cup settings.special) = {}
            /\ m.name \notin settings.patterns
            /\ m.stats.volume >= settings.minVolume
            /\ settings.requireBook => Usable(m)
            /\ settings.maxSpread = Infinity \/ (Usable(m) /\ Leq(Spread(m), settings.maxSpread))
            /\ settings.minVolumeUsdt = 0
                \/ ~Less(Volume(m, Usdt, byPair), Num(settings.minVolumeUsdt))
            /\ settings.minTop = 0
                \/ ~Less(TopNotional(m, Usdt, byPair), Num(settings.minTop))}

\* build_cycle_leg: the side follows from the asset given away.
CycleLeg(from, to, m) ==
    [from |-> from, to |-> to, symbol |-> m.name,
     op |-> IF from = m.base THEN "SELL_BASE" ELSE "BUY_BASE"]

\* _cycle_scores.
Scores(markets, assets, settings, byPair) ==
    LET volumes == {Volume(m, settings.root, byPair) : m \in {markets[i] : i \in 1..3}}
        liquidity == CHOOSE v \in volumes : \A w \in volumes : Leq(v, w)
        average == Times(Plus(Plus(Spread(markets[1]), Spread(markets[2])), Spread(markets[3])),
                         Ratio(1, 3))
        tight == IF \A i \in 1..3 : Usable(markets[i]) THEN Over(One, Plus(One, average)) ELSE Zero
        deep == IF Less(Zero, liquidity)
                THEN Over(liquidity, Plus(liquidity, Num(Scale))) ELSE Zero
        bonus == IF {assets[2], assets[3]} \cap settings.bridges # {} THEN Ratio(3, 100) ELSE Zero
    IN  [liquidity |-> liquidity, spread |-> tight,
         feasibility |-> Least(One, Plus(Plus(Times(deep, Ratio(7, 10)),
                                              Times(tight, Ratio(3, 10))), bonus))]

\* _make_cycle: root, first, second and back.
MakeCycle(first, second, settings, byPair) ==
    LET assets == <<settings.root, first, second, settings.root>>
        markets == [i \in 1..3 |-> byPair[{assets[i], assets[i + 1]}]]
    IN  [assets |-> assets,
         legs |-> [i \in 1..3 |-> CycleLeg(assets[i], assets[i + 1], markets[i])],
         scores |-> Scores(markets, assets, settings, byPair)]

CycleKey(c) ==
    <<Falling(c.scores.feasibility), Falling(c.scores.liquidity), Falling(c.scores.spread),
      Num(c.assets[2]), Num(c.assets[3])>>

RankCycles(cycles) == Ranked(cycles, CycleKey)

\* build_triangular_cycles: both directions of every triangle through the root.
Triangles(markets, settings) ==
    LET byPair == ByPair(markets)
        neighbours == {a \in UNION DOMAIN byPair : {a, settings.root} \in DOMAIN byPair}
    IN  {MakeCycle(pair[1], pair[2], settings, byPair) :
            pair \in {p \in neighbours \X neighbours : {p[1], p[2]} \in DOMAIN byPair}}

Required(cycles) == UNION {{c.legs[i].symbol : i \in 1..3} : c \in cycles}
Between(c) == {c.assets[2], c.assets[3]}

FitsOneCycle(chosen, group, settings) ==
    /\ Cardinality(Required(chosen \cup group)) <= settings.maxSymbols
    /\ Cardinality(chosen) + 1 <= settings.maxCycles

\* Both caps, for the cycles chosen so far and a pair of directions more.
Fits(chosen, group, settings) ==
    /\ Cardinality(Required(chosen \cup group)) <= settings.maxSymbols
    /\ Cardinality(chosen) + Cardinality(group) <= settings.maxCycles

\* The directions between the same two assets as a cycle: one group of the loop.
GroupOf(cycles, c) == {d \in cycles : Between(d) = Between(c)}

BoundedUntilFull(cycles, settings) ==
    LET ranked == RankCycles(cycles)
        after[n \in 0..Len(ranked)] ==
            IF n = 0 THEN [chosen |-> {}, full |-> FALSE]
            ELSE LET group == GroupOf(cycles, ranked[n])
                     before == after[n - 1]
                 IN  IF before.full \/ group \subseteq before.chosen THEN before
                     ELSE IF Fits(before.chosen, group, settings)
                     THEN [before EXCEPT !.chosen = @ \cup group]
                     ELSE [before EXCEPT !.full = TRUE]
    IN  after[Len(ranked)].chosen

\* One turn of the loop: a group is taken whole where it still fits.
Taken(chosen, group, settings) ==
    IF group \subseteq chosen \/ ~Fits(chosen, group, settings) THEN chosen
    ELSE chosen \cup group

\* What is chosen after the first n of the ranked cycles.
ChosenAfter(cycles, ranked, settings) ==
    LET after[n \in 0..Len(ranked)] ==
            IF n = 0 THEN {} ELSE Taken(after[n - 1], GroupOf(cycles, ranked[n]), settings)
    IN  after

\* _bounded_cycle_universe: whole pairs, best first, each where it still fits.
Bounded(cycles, settings) ==
    LET ranked == RankCycles(cycles)
    IN  ChosenAfter(cycles, ranked, settings)[Len(ranked)]

SymbolKey(settings, m) ==
    <<Flag(settings.root \in Assets(m)), Flag(Assets(m) \cap settings.bridges # {}),
      Num(-m.stats.volume), Spread(m), Num(m.name)>>

\* discover_normalized_market.
Discovery(market, settings) ==
    LET eligible == Eligible(Combined(market.listing, market.tickers), settings)
        cycles == Bounded(Triangles(eligible, settings), settings)
        needed == {m \in eligible : m.name \in Required(cycles)}
    IN  [cycles  |-> RankCycles(cycles),
         symbols |-> LET ranked == Ranked(needed, LAMBDA m : SymbolKey(settings, m))
                     IN  [k \in DOMAIN ranked |-> ranked[k].name]]
=============================================================================
