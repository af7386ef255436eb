----------------------------- MODULE Simulator -----------------------------
(***************************************************************************)
(* src/tri_arb/simulator.py: what a paper order of a given size would      *)
(* bring through the legs of a cycle, at the prices the books display.     *)
(* A step is one simulation, of any size in any mode; the operators are    *)
(* its arithmetic.                                                         *)
(*                                                                         *)
(* A leg carries the side of the book it trades against, best level first, *)
(* whether there is a book at all, the filters of its symbol as its        *)
(* exchange names them, at most one of a type, and its fee.  Filters count *)
(* in the smallest lot; 0 stands for an absent or a non-positive value,    *)
(* which the code skips alike (_positive).                                 *)
(*                                                                         *)
(* Every amount is a Decimal, rounded after each operation: the operators  *)
(* take the number of digits that are kept first, and compute without      *)
(* rounding when it is Exact, which only the properties ask for.           *)
(***************************************************************************)
EXTENDS Decimal, Sequences, FiniteSets, SequencesExt

CONSTANTS
    Routes,         \* the cycles to simulate: sequences of legs
    Amounts,        \* start amounts
    Haircut,        \* quantity_haircut of the pessimistic pass, a fraction
    Shock,          \* extra_slippage_bps / 10000, a fraction
    Digits,         \* significant digits of a Decimal: 28 in the program
    Tolerance       \* what rounding to so many digits may add to an amount, relative to it

Modes == {"top", "depth", "pessimistic"}

\* What a book displays: both positive (_level_pair).
LevelType == [price : Nat \ {0}, quantity : Nat \ {0}]

FilterType ==
    [type : {"LOT_SIZE", "MARKET_LOT_SIZE", "BASE_SIZE_PRECISION",
             "NOTIONAL", "MIN_NOTIONAL", "QUOTE_AMOUNT_PRECISION"},
     min : Nat, max : Nat, step : Nat,
     applyMin : {"absent", "yes", "no"}, applyMax : {"absent", "yes", "no"}]

LegType ==
    [exchange : {"Binance", "MEXC"}, op : {"BUY_BASE", "SELL_BASE"}, book : BOOLEAN,
     levels : Seq(LevelType), filters : SUBSET FilterType,
     fee : {f \in Rational : Leq(Zero, f) /\ Less(f, One)}]

BestFirst(leg) ==
    \A i, j \in DOMAIN leg.levels : i < j =>
        IF leg.op = "SELL_BASE" THEN leg.levels[j].price <= leg.levels[i].price
                                ELSE leg.levels[i].price <= leg.levels[j].price

\* The types an exchange has, once each; MEXC names its smallest value once.
OwnFilters(leg) ==
    LET types == {f.type : f \in leg.filters}
    IN  /\ IsFiniteSet(leg.filters)
        /\ \A f, g \in leg.filters : f.type = g.type => f = g
        /\ leg.exchange = "Binance" =>
               types \cap {"BASE_SIZE_PRECISION", "QUOTE_AMOUNT_PRECISION"} = {}
        /\ leg.exchange = "MEXC" =>
               "MARKET_LOT_SIZE" \notin types /\ ~({"NOTIONAL", "MIN_NOTIONAL"} \subseteq types)

ASSUME SimulatorAssumption ==
    /\ \A legs \in Routes :
           /\ legs \in Seq(LegType) /\ legs # <<>>
           /\ \A i \in DOMAIN legs : BestFirst(legs[i]) /\ OwnFilters(legs[i])
    /\ \A amount \in Amounts : amount \in Rational /\ Less(Zero, amount)
    /\ Haircut \in Rational /\ Leq(Zero, Haircut) /\ Less(Haircut, One)
    /\ Shock \in Rational /\ Leq(Zero, Shock) /\ Less(Shock, One)
    /\ Digits \in Nat \ {0}
    /\ Tolerance \in Rational /\ Leq(Zero, Tolerance)

VARIABLES
    route,          \* the legs of the cycle, with books, filters and fees
    ask,            \* the size and mode last simulated
    result,         \* its SimulationResult
    exact           \* what it would be without rounding, to compare with

vars == <<route, ask, result, exact>>

-----------------------------------------------------------------------------
(* Filters.                                                                *)

Positive(values) == values \ {0}

Common(a, b) == LET g == Gcd[<<a, b>>] IN (a \div g) * b

CombinedQuantumLargest(steps) == Max(steps \cup {0})

\* The lots whose multiples satisfy every step: their least common multiple.
CombinedQuantum(steps) ==
    IF Positive(steps) = {} THEN 0 ELSE FoldSet(Common, 1, Positive(steps))

OfType(filters, types) == {f \in filters : f.type \in types}

\* parse_symbol_filters, for Binance: an absent flag means that the rule is not for
\* market orders, and NOTIONAL supersedes the legacy filter.
BinanceFilters(filters) ==
    [lots     |-> OfType(filters, {"LOT_SIZE", "MARKET_LOT_SIZE"}),
     notional |-> {[min |-> f.min, max |-> f.max,
                    applyMin |-> f.applyMin = "yes", applyMax |-> f.applyMax = "yes"] :
                      f \in IF OfType(filters, {"NOTIONAL"}) # {}
                            THEN OfType(filters, {"NOTIONAL"})
                            ELSE OfType(filters, {"MIN_NOTIONAL"})}]

\* A filter of the first types that the symbol has.
FirstOf(filters, types, fallback) ==
    IF OfType(filters, types) # {} THEN OfType(filters, types) ELSE OfType(filters, fallback)

\* _normalize_mexc_filters: precisions of the symbol stand in for missing filters,
\* and the minimum always applies, a maximum never.
MexcFilters(filters) ==
    [lots     |-> {[f EXCEPT !.min = IF f.type = "LOT_SIZE" THEN @ ELSE f.step] :
                      f \in FirstOf(filters, {"LOT_SIZE"}, {"BASE_SIZE_PRECISION"})},
     notional |-> {[min |-> f.min, max |-> f.max, applyMin |-> TRUE, applyMax |-> FALSE] :
                      f \in FirstOf(filters, {"NOTIONAL", "MIN_NOTIONAL"},
                                             {"QUOTE_AMOUNT_PRECISION"})}]

TypedFilters(leg) ==
    IF leg.exchange = "MEXC" THEN MexcFilters(leg.filters) ELSE BinanceFilters(leg.filters)

Largest(values) == Max(values \cup {0})
Smallest(values) == IF Positive(values) = {} THEN Infinity ELSE Num(Min(Positive(values)))

\* _normalise_filters, of the typed filters that the program passes.
Normalised(typed) ==
    [minQty      |-> Num(Largest({f.min : f \in typed.lots})),
     maxQty      |-> Smallest({f.max : f \in typed.lots}),
     step        |-> CombinedQuantum({f.step : f \in typed.lots}),
     minNotional |-> Num(Largest({f.min : f \in {g \in typed.notional : g.applyMin}})),
     maxNotional |-> Smallest({f.max : f \in {g \in typed.notional : g.applyMax}})]

RulesOf(leg) == Normalised(TypedFilters(leg))

NoFilters == Normalised([lots |-> {}, notional |-> {}])

-----------------------------------------------------------------------------
(* One leg.                                                                *)

\* The levels a stressed order meets: less of each, at a worse price.
Effective(digits, leg, haircut, shock) ==
    LET factor == IF leg.op = "SELL_BASE" THEN Subtract(digits, One, shock)
                                          ELSE Add(digits, One, shock)
    IN  [i \in DOMAIN leg.levels |->
            [price |-> Multiply(digits, Num(leg.levels[i].price), factor),
             quantity |-> Multiply(digits, Num(leg.levels[i].quantity),
                                   Subtract(digits, One, haircut))]]

Untouched(amount) == [left |-> amount, base |-> Zero, quote |-> Zero]

TakeBase(digits, walk, level) ==
    LET take == Least(walk.left, level.quantity)
    IN  [left  |-> Subtract(digits, walk.left, take),
         base  |-> Add(digits, walk.base, take),
         quote |-> Add(digits, walk.quote, Multiply(digits, take, level.price))]

\* Nothing more is taken once nothing is left, or less by a rounded cost.
TakeQuote(digits, walk, level) ==
    LET take == Least(level.quantity, Divide(digits, walk.left, level.price))
        cost == Multiply(digits, take, level.price)
    IN  IF Leq(walk.left, Zero) THEN walk
        ELSE [left  |-> Subtract(digits, walk.left, cost),
              base  |-> Add(digits, walk.base, take),
              quote |-> Add(digits, walk.quote, cost)]

\* Walks the levels for an amount of base.
ForBase(digits, amount, levels) ==
    LET after[n \in 0..Len(levels)] ==
            IF n = 0 THEN Untouched(amount) ELSE TakeBase(digits, after[n - 1], levels[n])
    IN  after[Len(levels)]

\* Walks the levels for an amount of quote.
ForQuote(digits, amount, levels) ==
    LET after[n \in 0..Len(levels)] ==
            IF n = 0 THEN Untouched(amount) ELSE TakeQuote(digits, after[n - 1], levels[n])
    IN  after[Len(levels)]

Unlimited(levels) == <<[price |-> levels[1].price, quantity |-> Infinity]>>

OrderQuantityRoundedUp(digits, leg, amount, levels, step) ==
    LET base == IF leg.op = "SELL_BASE" THEN amount ELSE ForQuote(digits, amount, levels).base
    IN  IF step = 0 THEN amount ELSE Add(digits, Floored(digits, base, step), Num(step))

\* The base quantity to order for an amount, before and after lot rounding.
OrderQuantity(digits, leg, amount, levels, step) ==
    IF leg.op = "SELL_BASE" THEN Floored(digits, amount, step)
    ELSE Floored(digits, ForQuote(digits, amount, levels).base, step)

\* The levels take the whole amount; the best price alone takes any.
Enough(digits, leg, amount, mode, levels) ==
    leg.op = "SELL_BASE" \/ mode = "top" \/ Leq(ForQuote(digits, amount, levels).left, Zero)

Rejects(rules, quantity, notional) ==
    \/ quantity = Zero
    \/ Less(quantity, rules.minQty)
    \/ Less(rules.maxQty, quantity)
    \/ Less(notional, rules.minNotional)
    \/ Less(rules.maxNotional, notional)

NotExecuted(amount, rejected) ==
    [input |-> amount, quantity |-> Zero, consumed |-> Zero, unspent |-> amount,
     notional |-> Zero, output |-> Zero, executable |-> FALSE, rejected |-> rejected]

\* What comes of an order of a quantity, once the levels are walked for it.
Filled(digits, leg, amount, fee, rules, quantity, enough, walk) ==
    LET consumed == IF leg.op = "SELL_BASE" THEN walk.base ELSE walk.quote
        gross == IF leg.op = "SELL_BASE" THEN walk.quote ELSE walk.base
        liquid == enough /\ walk.left = Zero /\ quantity # Zero
        rejected == Rejects(rules, quantity, walk.quote)
    IN  [input |-> amount, quantity |-> quantity, consumed |-> consumed,
         unspent |-> IF Leq(amount, consumed) THEN Zero ELSE Subtract(digits, amount, consumed),
         notional |-> walk.quote, output |-> Subtract(digits, gross, Multiply(digits, gross, fee)),
         executable |-> liquid /\ ~rejected, rejected |-> rejected]

Walked(digits, leg, amount, mode, fee, rules, levels) ==
    LET quantity == OrderQuantity(digits, leg, amount, levels, rules.step)
    IN  Filled(digits, leg, amount, fee, rules, quantity,
               Enough(digits, leg, amount, mode, levels), ForBase(digits, quantity, levels))

\* simulate_leg.
Leg(digits, leg, amount, mode, fee, levels, rules) ==
    IF levels = <<>> THEN NotExecuted(amount, FALSE)
    ELSE Walked(digits, leg, amount, mode, fee, rules,
                IF mode = "top" THEN Unlimited(levels) ELSE levels)

-----------------------------------------------------------------------------
(* The route.                                                              *)

ShockFrom(mode) == IF mode = "pessimistic" THEN 2 ELSE 1
HaircutOf(mode) == IF mode = "pessimistic" THEN Haircut ELSE Zero
ShockOf(mode) == IF mode = "pessimistic" THEN Shock ELSE Zero

\* The walk mode, stress and rules of one pass over the legs.
Pass(mode) ==
    [mode |-> IF mode = "top" THEN "top" ELSE "depth", haircut |-> HaircutOf(mode),
     shock |-> ShockOf(mode), from |-> ShockFrom(mode), reference |-> FALSE]
DepthPass(pass) == [pass EXCEPT !.mode = "depth"]
ReferencePass == [Pass("top") EXCEPT !.reference = TRUE]

\* The levels that a pass meets at leg i: the first ones may be spared the stress.
LevelsOf(digits, legs, i, pass) ==
    Effective(digits, legs[i], IF i >= pass.from THEN pass.haircut ELSE Zero,
                               IF i >= pass.from THEN pass.shock ELSE Zero)

\* A leg that cannot execute leaves nothing to the next.
Converted(run, leg) ==
    [executable |-> leg.executable, done |-> Append(run.done, leg),
     current |-> IF leg.executable THEN leg.output ELSE Zero]

Entered(amount) == [executable |-> TRUE, done |-> <<>>, current |-> amount]

\* One turn of _run_route; nothing is left of a route that cannot go on.
Continued(digits, run, leg, levels, pass) ==
    IF ~run.executable \/ ~leg.book
    THEN [run EXCEPT !.executable = FALSE, !.current = Zero]
    ELSE Converted(run, Leg(digits, leg, run.current, pass.mode,
                            IF pass.reference THEN Zero ELSE leg.fee, levels,
                            IF pass.reference THEN NoFilters ELSE RulesOf(leg)))

\* _run_route: legs convert in turn until one cannot.
RunRoute(digits, legs, amount, pass) ==
    LET after[n \in 0..Len(legs)] ==
            IF n = 0 THEN Entered(amount)
            ELSE Continued(digits, after[n - 1], legs[n], LevelsOf(digits, legs, n, pass), pass)
    IN  after[Len(legs)]

\* What a leg's best displayed price makes of an amount, after its fee.
Marked(digits, leg, amount, shock) ==
    IF leg.levels = <<>> THEN Zero ELSE
    LET price == Effective(digits, leg, Zero, shock)[1].price
    IN  Multiply(digits, IF leg.op = "SELL_BASE" THEN Multiply(digits, amount, price)
                                                 ELSE Divide(digits, amount, price),
                 Subtract(digits, One, leg.fee))

\* What leg j's best price makes of it, in the pass's stress.
MarkedIn(digits, legs, j, value, pass) ==
    Marked(digits, legs[j], value, IF j >= pass.from THEN pass.shock ELSE Zero)

\* An amount that enters leg i, marked through the rest of the route.
MarkedOn(digits, legs, i, amount, pass) ==
    LET value[n \in 0..(Len(legs) - i + 1)] ==
            IF n = 0 THEN amount
            ELSE MarkedIn(digits, legs, i + n - 1, value[n - 1], pass)
    IN  value[Len(legs) - i + 1]

ResidualOfNextLeg(digits, legs, i, unspent, pass) ==
    IF i = 1 THEN unspent ELSE MarkedOn(digits, legs, i + 1, unspent, pass)

\* The root-asset value of what leg i left unspent: leg 1 spends the root asset.
ResidualOf(digits, legs, i, unspent, pass) ==
    IF i = 1 THEN unspent ELSE MarkedOn(digits, legs, i, unspent, pass)

ResidualValue(digits, legs, run, pass) ==
    LET sum[n \in 0..Len(run.done)] ==
            IF n = 0 THEN Zero
            ELSE Add(digits, sum[n - 1], ResidualOf(digits, legs, n, run.done[n].unspent, pass))
    IN  sum[Len(run.done)]

-----------------------------------------------------------------------------
(* The largest size.                                                       *)

\* The base that a largest notional leaves, where there is one.
Affordable(digits, notional, levels) ==
    IF notional = Infinity THEN Infinity ELSE ForQuote(digits, notional, levels).base

\* The largest base quantity on offer: within the rules, in whole lots.
LargestBase(digits, leg, levels, rules, most) ==
    IF leg.op = "SELL_BASE"
    THEN Floored(digits, Least(most, Affordable(digits, rules.maxNotional, levels)), rules.step)
    ELSE LET base == Floored(digits, most, rules.step)
             cost == Least(ForBase(digits, base, levels).quote, rules.maxNotional)
         IN  IF rules.maxNotional = Infinity THEN base
             ELSE Floored(digits, ForQuote(digits, cost, levels).base, rules.step)

\* The input that a base quantity stands for, if the minimums let it through.
InputFor(digits, leg, levels, rules, base) ==
    LET quote == ForBase(digits, base, levels).quote
    IN  IF Less(base, rules.minQty) \/ Less(quote, rules.minNotional) THEN Zero
        ELSE IF leg.op = "SELL_BASE" THEN base ELSE quote

\* All the base that the levels display.
TotalBase(digits, levels) ==
    LET sum[n \in 0..Len(levels)] ==
            IF n = 0 THEN Zero ELSE Add(digits, sum[n - 1], levels[n].quantity)
    IN  sum[Len(levels)]

\* _leg_capacity: the input a leg takes at most.
Capacity(digits, leg, levels, rules) ==
    LET most == Least(TotalBase(digits, levels), rules.maxQty)
    IN  InputFor(digits, leg, levels, rules, LargestBase(digits, leg, levels, rules, most))

None == <<-1, 1>>

TakeWorth(digits, walk, level) ==
    LET worth == Least(walk.left, Multiply(digits, level.price, level.quantity))
    IN  [left  |-> Subtract(digits, walk.left, worth),
         base  |-> Add(digits, walk.base, Divide(digits, worth, level.price)),
         quote |-> Add(digits, walk.quote, worth)]

\* Walks the levels for what they are worth.
ForWorth(digits, amount, levels) ==
    LET after[n \in 0..Len(levels)] ==
            IF n = 0 THEN Untouched(amount) ELSE TakeWorth(digits, after[n - 1], levels[n])
    IN  after[Len(levels)]

RequiredInputBeforeFee(digits, leg, levels, net) ==
    LET walk == IF leg.op = "SELL_BASE" THEN ForWorth(digits, net, levels)
                                        ELSE ForBase(digits, net, levels)
    IN  IF levels = <<>> \/ walk.left # Zero THEN None
        ELSE IF leg.op = "SELL_BASE" THEN walk.base ELSE walk.quote

\* _required_input: what must go into a leg for a net amount to come out.
RequiredInput(digits, leg, levels, net) ==
    LET gross == Divide(digits, net, Subtract(digits, One, leg.fee))
        walk == IF leg.op = "SELL_BASE" THEN ForWorth(digits, gross, levels)
                                        ELSE ForBase(digits, gross, levels)
    IN  IF levels = <<>> \/ walk.left # Zero THEN None
        ELSE IF leg.op = "SELL_BASE" THEN walk.base ELSE walk.quote

CarriedOver(digits, leg, levels, target) ==
    IF target = None THEN None ELSE RequiredInput(digits, leg, levels, target)

\* What must enter the route for a leg to be given its capacity; None if no input can.
CarriedBack(digits, legs, i, levels) ==
    LET target[k \in 0..(i - 1)] ==
            IF k = 0 THEN Capacity(digits, legs[i], levels[i], RulesOf(legs[i]))
            ELSE CarriedOver(digits, legs[i - k], levels[i - k], target[k - 1])
    IN  target[i - 1]

\* The leg whose input runs out first.
Scarcest(start) ==
    CHOOSE i \in DOMAIN start : /\ start[i] # None
                                /\ \A j \in DOMAIN start : start[j] = None
                                       \/ Less(start[i], start[j])
                                       \/ (start[i] = start[j] /\ i <= j)

\* A size that does not pass its trial is none, because of the leg that failed.
Tried(size, leg, trial) ==
    IF size = Zero \/ trial.executable THEN [size |-> size, leg |-> leg]
    ELSE [size |-> Zero, leg |-> Len(trial.done)]

LargestOf(digits, legs, pass, start) ==
    LET i == Scarcest(start)
    IN  Tried(start[i], i, RunRoute(digits, legs, start[i], DepthPass(pass)))

StartsOf(digits, legs, levels) == [i \in DOMAIN legs |-> CarriedBack(digits, legs, i, levels)]

\* _estimate_max_with_leg: the scarcest leg, carried back to the start of the
\* route, and tried; a leg whose capacity cannot be carried back is passed over.
Estimate(digits, legs, pass) ==
    LET absent == {i \in DOMAIN legs : ~legs[i].book}
    IN  IF absent # {} THEN [size |-> Zero, leg |-> Min(absent)]
        ELSE LargestOf(digits, legs, pass,
                       StartsOf(digits, legs,
                                [i \in DOMAIN legs |-> LevelsOf(digits, legs, i, pass)]))

-----------------------------------------------------------------------------
(* simulate.                                                               *)

Unsettled == [executable |-> FALSE, final |-> Zero, gross |-> Zero, rejected |-> FALSE,
              legs |-> <<>>, size |-> Zero, limiting |-> 0]

Settled(digits, legs, pass, run, gross, estimate) ==
    [executable |-> run.executable,
     final    |-> IF run.executable
                  THEN Add(digits, run.current, ResidualValue(digits, legs, run, pass)) ELSE Zero,
     gross    |-> gross,
     rejected |-> \E i \in DOMAIN run.done : run.done[i].rejected,
     legs     |-> run.done,
     size     |-> estimate.size,
     \* the leg that failed, or has no book; else the one the estimate names
     limiting |-> IF run.executable THEN estimate.leg
                  ELSE IF \E i \in DOMAIN run.done : ~run.done[i].executable
                  THEN Len(run.done) ELSE Len(run.done) + 1]

Simulated(digits, legs, amount, mode) ==
    Settled(digits, legs, Pass(mode), RunRoute(digits, legs, amount, Pass(mode)),
            RunRoute(digits, legs, amount, ReferencePass).current,
            Estimate(digits, legs, Pass(mode)))

Init ==
    /\ route \in Routes
    /\ ask = [amount |-> Zero, mode |-> "top"]
    /\ result = Unsettled
    /\ exact = Unsettled

\* One simulation per behaviour: simulate keeps nothing for the next one.
Simulate(amount, mode) ==
    /\ result = Unsettled
    /\ ask' = [amount |-> amount, mode |-> mode]
    /\ result' = Simulated(Digits, route, amount, mode)
    /\ exact' = Simulated(Exact, route, amount, mode)
    /\ UNCHANGED route

Next == \E amount \in Amounts, mode \in Modes : Simulate(amount, mode)

Spec == Init /\ [][Next]_vars

-----------------------------------------------------------------------------
(* Properties.                                                             *)

\* What the exchange makes of a market order: a rule that does not say so is not for
\* market orders on Binance, and every minimum is on MEXC, which caps no such order here.
Accepts(leg, filter, quantity, notional) ==
    LET within(value, min, max) ==
            Leq(Num(min), value) /\ (max > 0 => Leq(value, Num(max)))
        whole == filter.step > 0 => quantity[2] = 1 /\ quantity[1] % filter.step = 0
        has(type) == OfType(leg.filters, {type}) # {}
    IN  CASE filter.type \in {"LOT_SIZE", "MARKET_LOT_SIZE"} ->
                within(quantity, filter.min, filter.max) /\ whole
          [] filter.type = "BASE_SIZE_PRECISION" -> has("LOT_SIZE") \/ whole
          [] filter.type = "NOTIONAL" ->
                within(notional,
                       IF leg.exchange = "MEXC" \/ filter.applyMin = "yes" THEN filter.min ELSE 0,
                       IF leg.exchange = "Binance" /\ filter.applyMax = "yes"
                           THEN filter.max ELSE 0)
          [] filter.type = "MIN_NOTIONAL" ->
                (~has("NOTIONAL") /\ (leg.exchange = "MEXC" \/ filter.applyMin = "yes")) =>
                    Leq(Num(filter.min), notional)
          [] filter.type = "QUOTE_AMOUNT_PRECISION" ->
                (~has("NOTIONAL") /\ ~has("MIN_NOTIONAL")) => Leq(Num(filter.min), notional)

\* Whatever filters a symbol has, and in whatever combination, a result called
\* executable holds only orders that each of them accepts.
OrdersMeetEveryFilter ==
    result.executable =>
        \A i \in DOMAIN route : \A filter \in route[i].filters :
            Accepts(route[i], filter, result.legs[i].quantity, result.legs[i].notional)

\* Rounding made no difference to the result.
Unrounded == result = exact

\* An amount, and what rounding may have added to it.
Widened(amount) == IF Unrounded THEN amount ELSE Times(amount, Plus(One, Tolerance))

\* The scanner dismisses a cycle on the gross outcome alone: neither depth,
\* stress nor the mark on the residuals may ever make a gain that is not there.
\* What stays in the root asset is kept at par, so a loss may be less than the gross one.
NeverBeatsGross ==
    result.executable => \/ Leq(result.final, Widened(result.gross))
                         \/ Leq(result.final, Widened(ask.amount))

\* No leg spends more than it was given, and what it leaves could not have
\* bought or sold another lot at the displayed depth.
LotsAreWhole ==
    \A i \in DOMAIN result.legs :
        LET leg == result.legs[i]
            step == RulesOf(route[i]).step
            levels == LevelsOf(Exact, route, i, Pass(ask.mode))
            more == ForBase(Exact, Plus(leg.quantity, Num(step)), levels)
            cost == IF route[i].op = "SELL_BASE" THEN more.base ELSE more.quote
        IN  leg.executable /\ ask.mode # "top" =>
                /\ Leq(leg.consumed, Widened(leg.input))
                /\ (step > 0 /\ more.left = Zero) => Less(leg.input, Widened(cost))

\* No size that the route converts without a remainder is above the one reported,
\* unless rounding made the trial of that size fail, which is reported as none.
SizeIsLargest ==
    LET whole == \A i \in DOMAIN result.legs : result.legs[i].unspent = Zero
    IN  result.executable /\ whole /\ ask.mode # "top" =>
            Leq(ask.amount, Widened(result.size)) \/ (~Unrounded /\ result.size = Zero)
=============================================================================
