----------------------------- MODULE MCStartup -----------------------------
(* Four assets around USDT, nine markets, and what may be wrong with one.   *)
EXTENDS Startup

ADA == 1
BTC == 2
ETH == 3
SOL == 4
USD == 5

Row(name, base, quote) == [name |-> name, base |-> base, quote |-> quote, spot |-> TRUE]
Tick(name, volume, bid, ask) ==
    [name |-> name, volume |-> volume, bid |-> bid, bidQty |-> 2, ask |-> ask, askQty |-> 3,
     last |-> 2, average |-> 1]

\* By volume {ADA, BTC} comes first, then {ETH, SOL}, then {ADA, ETH}, {BTC, ETH}.
Listing == << Row(1, ADA, BTC), Row(2, ADA, ETH), Row(3, ADA, USD), Row(4, BTC, USD),
              Row(5, ETH, BTC), Row(6, ETH, USD), Row(7, SOL, ETH), Row(8, SOL, USD),
              Row(9, USD, BTC) >>
Tickers == << Tick(1, 9, 1, 1), Tick(2, 3, 1, 1), Tick(3, 9, 1, 1), Tick(4, 9, 1, 2),
              Tick(5, 2, 1, 1), Tick(6, 8, 1, 1), Tick(7, 8, 1, 1), Tick(8, 8, 1, 1),
              Tick(9, 1, 1, 1) >>

Base == [listing |-> Listing, tickers |-> Tickers]
Showing(tick) == [Base EXCEPT !.tickers[tick.name] = tick]

MCMarkets ==
    { Base,
      [Base EXCEPT !.listing[1].spot = FALSE],
      [Base EXCEPT !.listing[9] = Row(4, USD, BTC)],       \* the other way round, last
      [Base EXCEPT !.tickers = Append(@, Tick(4, 3, 2, 2))],
      [Base EXCEPT !.tickers = Tail(@)],                   \* no ticker for ADABTC
      Showing(Tick(1, 2, 1, 1)), Showing(Tick(4, 9, 0, 0)), Showing(Tick(6, 8, 2, 1)),
      Showing(Tick(9, 9, 1, 1)), Showing(Tick(7, 1, 1, 4)),
      [Base EXCEPT !.tickers = [i \in 1..9 |-> Tick(i, 9, 1, 1)]] }   \* all alike

Plain == [root |-> USD, bridges |-> {}, excluded |-> {}, special |-> {}, patterns |-> {},
          minVolume |-> 0, requireBook |-> TRUE, maxSpread |-> Infinity,
          minVolumeUsdt |-> 0, minTop |-> 0, maxSymbols |-> 5, maxCycles |-> 8]

MCSettings ==
    { Plain,
      [Plain EXCEPT !.maxSymbols = 9, !.maxCycles = 3, !.requireBook = FALSE, !.bridges = {ETH}],
      [Plain EXCEPT !.minVolume = 1, !.maxSpread = Num(4), !.minVolumeUsdt = 2, !.minTop = 1,
                    !.patterns = {9}],
      [Plain EXCEPT !.root = BTC, !.requireBook = FALSE, !.special = {SOL}] }

Fee(symbol, taker) == [symbol |-> symbol, taker |-> taker, both |-> TRUE]
MCRowSets ==
    { {Fee(0, 2)}, {Fee(0, 1), Fee(4, 3)}, {Fee(4, 1), Fee(6, 2)},
      {}, {[Fee(0, 2) EXCEPT !.both = FALSE]}, {Fee(0, 9)} }
=============================================================================
