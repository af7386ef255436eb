------------------------------ MODULE Startup ------------------------------
(***************************************************************************)
(* Before the first book: a run resolves its fees, then discovers its      *)
(* cycles (src/tri_arb/main.py), on a market that has moved on since the   *)
(* discovery whose symbols the fee check asked for.                        *)
(***************************************************************************)
EXTENDS Universe, Fees

CONSTANTS
    Markets,        \* exchangeInfo and 24-hour tickers the exchange may show
    SettingsChoices,\* discovery sections of the configuration
    FeeRate,        \* simulation.fee_rate
    MaxRuns         \* bound: runs of the program

ASSUME StartupAssumption ==
    /\ \A m \in Markets :
           /\ m.listing \in Seq([name : Nat, base : Nat, quote : Nat, spot : BOOLEAN])
           /\ m.tickers \in Seq([name : Nat, volume : Nat, bid : Nat, bidQty : Nat,
                                ask : Nat, askQty : Nat, last : Nat, average : Nat])
    /\ \A s \in SettingsChoices :                               \* DiscoveryConfig
           s.root \in Nat /\ s.maxSymbols \in Nat /\ s.maxSymbols >= 3
           /\ s.maxCycles \in Nat /\ s.maxCycles >= 1

VARIABLES
    market,         \* what the exchange shows now
    settings,       \* the DiscoveryConfig
    selection,      \* selected_symbols of the last run: the check may read it
    run,            \* the run in progress: its fees, its cycles, what it saw
    runs            \* runs started, for the bound

vars == <<feeVars, market, settings, selection, run, runs>>

NoRun == [pc |-> "none"]

Init ==
    /\ FeesInit
    /\ market \in Markets
    /\ settings \in SettingsChoices
    /\ selection = <<>>
    /\ run = NoRun
    /\ runs = 0

\* Volumes, spreads and listings change between two runs.
MarketMoves ==
    /\ run.pc = "none" /\ runs \in 1..(MaxRuns - 1)   \* a later run looks again
    /\ market' \in Markets \ {market}
    /\ UNCHANGED <<feeVars, settings, selection, run, runs>>

\* _resolve_fee_schedule: --use-account-fees fails where there is no schedule.
ResolveFeeSchedule(account) ==
    /\ run.pc = "none" /\ runs < MaxRuns
    /\ account => config # NoSchedule
    /\ run' = [pc |-> "resolved", fees |-> IF account THEN Loaded(config) ELSE ConfigFee(FeeRate)]
    /\ runs' = runs + 1
    /\ UNCHANGED <<feeVars, market, settings, selection>>

\* run_observer up to the selection files.
Discover ==
    /\ run.pc = "resolved"
    /\ LET discovery == Discovery(market, settings)
       IN  /\ run' = [pc |-> "watching", fees |-> run.fees, saw |-> market,
                      cycles |-> discovery.cycles, symbols |-> discovery.symbols]
           /\ selection' = discovery.symbols
    /\ UNCHANGED <<feeVars, market, settings, runs>>

RunEnds ==
    /\ run.pc = "watching"
    /\ run' = NoRun
    /\ UNCHANGED <<feeVars, market, settings, selection, runs>>

\* The tool is started by hand: on the selection of a run, or on nothing.
StartCheck ==
    \/ selection # <<>> /\ BeginCheck(selection)
    \/ BeginCheck(<<>>)

StartupVars == <<market, settings, selection, run, runs>>

Next ==
    \/ MarketMoves
    \/ \E account \in BOOLEAN : ResolveFeeSchedule(account)
    \/ Discover
    \/ RunEnds
    \/ StartCheck /\ UNCHANGED StartupVars
    \/ CheckStep /\ UNCHANGED StartupVars
    \/ Interrupted /\ UNCHANGED StartupVars

Spec == Init /\ [][Next]_vars

\* A request is answered or times out, a delay passes, a write returns.
FairSpec == Spec /\ WF_vars(CheckStep /\ UNCHANGED StartupVars)

-----------------------------------------------------------------------------
Watching == run.pc = "watching"

Chosen == {run.cycles[k] : k \in DOMAIN run.cycles}
Candidates == Triangles(Eligible(Combined(run.saw.listing, run.saw.tickers), settings), settings)

Mirrors(c, d) ==
    \A i \in 1..3 : /\ c.legs[i].symbol = d.legs[4 - i].symbol
                    /\ c.legs[i].op # d.legs[4 - i].op
                    /\ c.legs[i].from = d.legs[4 - i].to

\* discovery.py:647-678 promises whole direction pairs under two hard caps,
\* and the books that are opened are exactly those the cycles need: every
\* watched cycle has its mirror image over the same markets, each symbol a
\* cycle trades has a book, and no book is idle.
SelectionWhole ==
    Watching =>
        /\ \A c \in Chosen : \E d \in Chosen : Mirrors(c, d)
        /\ Len(run.cycles) <= settings.maxCycles
        /\ Len(run.symbols) <= settings.maxSymbols
        /\ ToSet(run.symbols) = Required(Chosen)
        /\ Len(run.symbols) = Cardinality(Required(Chosen))

\* The greedy selection passes over a pair only because of the better pairs:
\* each triangle left out would break a cap even with only the chosen pairs
\* one direction of which is ranked above it (discovery.py:660-677 goes on
\* after a pair that does not fit).
NoPairLeftOut ==
    Watching =>
        LET candidates == Candidates
        IN  \A c \in candidates \ Chosen :
            LET above == {d \in Chosen : Precedes(CycleKey(d), CycleKey(c))}
                better == {d \in Chosen : \E e \in above : Between(e) = Between(d)}
            IN  ~Fits(better, GroupOf(candidates, c), settings)

\* account_fees.py's conservative rule, from the answers of the exchange to
\* the legs of a run that may watch other symbols than were checked: no leg is
\* charged less than any fee the exchange named for its symbol, nor, when it
\* named none, less than any fee it named at all.
FeesConservative ==
    Watching /\ run.fees.at > 0 =>
        \A s \in Required(Chosen) :
            LET named == TakersOf(raws[run.fees.at].fees, s)
                all == {fee.taker : fee \in raws[run.fees.at].fees}
            IN  \A taker \in (IF named = {} THEN all ELSE named) :
                    FeeForSymbol(run.fees, s) >= taker

\* A check that fails half-way leaves nothing behind a run could load: the
\* schedule comes from a saved raw file in which every symbol asked for was
\* answered (check_mexc_fees, account_fees.py:806-849).
OnlyWholeChecksCount ==
    config # NoSchedule =>
        /\ config.at \in DOMAIN raws
        /\ raws[config.at].symbols \subseteq raws[config.at].answered
        /\ config = FromFees(raws[config.at].fees, config.at)

\* Whatever the exchange answers, a check comes to an end: retries are
\* counted per symbol and the symbols are counted (account_fees.py:724-746).
CheckEnds == check.pc # "none" ~> check.pc = "none"
=============================================================================
