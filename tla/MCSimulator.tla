---------------------------- MODULE MCSimulator ----------------------------
(* Cycles of three legs over shallow books for Simulator.                  *)
EXTENDS Simulator

Level(price, quantity) == [price |-> price, quantity |-> quantity]

Lot(type, min, max, step) ==
    [type |-> type, min |-> min, max |-> max, step |-> step,
     applyMin |-> "absent", applyMax |-> "absent"]
NotionalFilter(type, min, max, applyMin, applyMax) ==
    [type |-> type, min |-> min, max |-> max, step |-> 0,
     applyMin |-> applyMin, applyMax |-> applyMax]

Free == {}
Lots == {Lot("LOT_SIZE", 0, 0, 2), Lot("MARKET_LOT_SIZE", 1, 8, 3)}
Pairs == {Lot("LOT_SIZE", 2, 0, 2)}
Units == {Lot("LOT_SIZE", 1, 6, 1)}
Worth == {NotionalFilter("NOTIONAL", 3, 12, "yes", "absent"),
          NotionalFilter("MIN_NOTIONAL", 9, 0, "yes", "absent")}
Capped == {NotionalFilter("NOTIONAL", 9, 6, "absent", "yes"), Lot("LOT_SIZE", 0, 0, 1)}
Legacy == {NotionalFilter("MIN_NOTIONAL", 4, 0, "yes", "absent")}
Waived == {NotionalFilter("MIN_NOTIONAL", 9, 0, "no", "absent"), Lot("LOT_SIZE", 0, 0, 1)}
Precise == {Lot("BASE_SIZE_PRECISION", 0, 0, 2),
            NotionalFilter("QUOTE_AMOUNT_PRECISION", 3, 6, "absent", "absent")}
Listed == {Lot("LOT_SIZE", 0, 0, 1), Lot("BASE_SIZE_PRECISION", 0, 0, 3),
           NotionalFilter("MIN_NOTIONAL", 4, 3, "absent", "absent"),
           NotionalFilter("QUOTE_AMOUNT_PRECISION", 9, 0, "absent", "absent")}

Deep == <<Level(2, 4), Level(4, 4)>>        \* asks
DeepBids == <<Level(4, 1), Level(1, 8)>>

Quarter == <<1, 4>>
Tenth == <<1, 10>>
Half == <<1, 2>>
Fifth == <<1, 5>>

MCLeg(op, levels, filters, fee) ==
    [op |-> op, book |-> TRUE, levels |-> levels, filters |-> filters, fee |-> fee]

First == {MCLeg("BUY_BASE", <<Level(1, 4), Level(2, 4)>>, f, Zero) :
              f \in {Free, Pairs, Capped, Units}}
    \cup {MCLeg("SELL_BASE", DeepBids, f, Half) : f \in {Free, Lots}}
Second == {MCLeg("SELL_BASE", DeepBids, f, Half) : f \in {Free, Pairs, Lots, Worth}}
    \cup {MCLeg("BUY_BASE", Deep, f, Zero) : f \in {Units, Legacy}}
    \cup {MCLeg("BUY_BASE", <<>>, Free, Zero),
          [MCLeg("BUY_BASE", <<>>, Free, Zero) EXCEPT !.book = FALSE]}
Third == {MCLeg("SELL_BASE", DeepBids, f, Zero) : f \in {Free, Pairs, Waived}}
    \cup {MCLeg("BUY_BASE", <<Level(1, 2), Level(2, 4)>>, f, Half) : f \in {Free, Capped, Units}}

\* No fee, and half the gross of the others: the root asset left over is worth more.
Losing == {MCLeg("BUY_BASE", <<Level(1, 2), Level(2, 4)>>, f, Zero) : f \in {Free, Units}}

\* The same books under the filters of the other exchange.
Buys(first, filters) == MCLeg("BUY_BASE", <<Level(1, first), Level(2, 4)>>, filters, Zero)
Sells(filters) == MCLeg("SELL_BASE", DeepBids, filters, Half)
MexcFilterSets == {Free, Precise, Listed, Capped}

\* Prices that divide nothing evenly, so that rounding shows.
Uneven == {MCLeg("BUY_BASE", <<Level(3, 4), Level(7, 2)>>, f, Zero) : f \in {Free, Units}}

On(exchange, legs) == [i \in DOMAIN legs |-> [exchange |-> exchange] @@ legs[i]]
MCRoutes ==
    {On("Binance", <<a, b, c>>) : a \in First, b \in Second, c \in Third}
    \cup {On("Binance", <<MCLeg("BUY_BASE", <<Level(1, 4), Level(2, 4)>>, Pairs, Zero),
                          MCLeg("BUY_BASE", Deep, f, Zero), last>>) :
              f \in {Units, Legacy}, last \in Losing}
    \cup {On("MEXC", <<Buys(4, f), Sells(g), Sells(h)>>) : f, g, h \in MexcFilterSets}
    \cup {On("Binance", <<a, Sells(f), MCLeg("BUY_BASE", <<Level(1, 2), Level(3, 4)>>, Free, Tenth)>>) :
              a \in Uneven, f \in {Free, Lots}}
MCAmounts == {Num(n) : n \in {1, 3, 4, 6, 9}}
=============================================================================
