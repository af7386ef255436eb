------------------------------- MODULE Fees -------------------------------
(***************************************************************************)
(* src/tri_arb/account_fees.py: a fee check asks the exchange for the      *)
(* taker fee of each selected symbol, saves the answers, then a schedule   *)
(* derived from them, which later runs load.                               *)
(*                                                                         *)
(* Fees count in parts of Whole, a fee of one.  A row of an answer is a    *)
(* symbol, 0 if it names none, its taker fee, and whether it has both      *)
(* fees.                                                                   *)
(***************************************************************************)
EXTENDS Integers, Sequences, FiniteSets, SequencesExt

CONSTANTS
    Symbols,            \* names a row or a selection may hold
    Whole,              \* the fee that is no fraction any more
    RowSets,            \* the sets of rows one answer may hold
    MaxExplicitSymbols, \* MAX_EXPLICIT_SYMBOLS
    RateLimitRetries,   \* rate_limit_retries
    MaxChecks           \* bound: fee checks started

Rows == [symbol : Symbols \cup {0}, taker : Nat, both : BOOLEAN]

ASSUME FeesAssumption ==
    /\ 0 \notin Symbols /\ IsFiniteSet(Symbols)
    /\ Whole \in Nat
    /\ \A rows \in RowSets : rows \subseteq Rows /\ IsFiniteSet(rows)
    /\ RateLimitRetries \in Nat /\ MaxExplicitSymbols \in Nat /\ MaxChecks \in Nat

VARIABLES
    check,      \* the running fee check: its selection, and what it has got
    raws,       \* the raw files saved: what was asked and which fees came back
    config,     \* configs/generated/mexc_account_fee.yaml, or NoSchedule
    checks      \* fee checks started, for the bound

feeVars == <<check, raws, config, checks>>

-----------------------------------------------------------------------------
(* Fees and schedules.                                                     *)

TakersOf(fees, symbol) == {fee.taker : fee \in {f \in fees : f.symbol = symbol}}
Named(fees) == {fee.symbol : fee \in fees}

\* normalize_mexc_fee_response: an answer as a whole is usable or not.
RowSymbol(row, requested) == IF row.symbol = 0 THEN requested ELSE row.symbol
Normalized(rows, requested) ==
    {[symbol |-> RowSymbol(row, requested), taker |-> row.taker] : row \in {r \in rows : r.both}}
Acceptable(rows, requested) ==
    /\ \A row \in rows : RowSymbol(row, requested) # 0
    /\ Normalized(rows, requested) # {}
    /\ \A fee \in Normalized(rows, requested) : fee.taker < Whole

NoSchedule == [fallback |-> -1, takers |-> <<>>, at |-> 0]

FromFeesLeast(fees, at) ==
    [takers   |-> [s \in Named(fees) |-> Min(TakersOf(fees, s))],
     fallback |-> Max({fee.taker : fee \in fees}), at |-> at]

\* FeeSchedule.from_fees: the dearest fee of a symbol, and of all for the others.
FromFees(fees, at) ==
    [takers   |-> [s \in Named(fees) |-> Max(TakersOf(fees, s))],
     fallback |-> Max({fee.taker : fee \in fees}), at |-> at]

\* load_fee_schedule, FeeSchedule.__post_init__.
Loaded(file) ==
    [file EXCEPT !.fallback = Max({file.fallback} \cup {file.takers[s] : s \in DOMAIN file.takers})]

ConfigFee(rate) == [takers |-> <<>>, fallback |-> rate, at |-> 0]

FeeForSymbol(schedule, symbol) ==
    IF symbol \in DOMAIN schedule.takers THEN schedule.takers[symbol] ELSE schedule.fallback

-----------------------------------------------------------------------------
(* One check.                                                              *)

NoCheck == [pc |-> "none", symbols |-> <<>>, next |-> 1, attempt |-> 0,
            fees |-> {}, answered |-> {}]

Requested == IF check.symbols = <<>> THEN 0 ELSE check.symbols[check.next]

FeesInit ==
    /\ check = NoCheck
    /\ raws = <<>>
    /\ config = NoSchedule
    /\ checks = 0

\* check_mexc_fees with a selection, or with none: one request for all fees.
BeginCheck(symbols) ==
    /\ check.pc = "none" /\ checks < MaxChecks
    /\ Len(symbols) <= MaxExplicitSymbols
    /\ check' = [NoCheck EXCEPT !.pc = "asking", !.symbols = symbols]
    /\ checks' = checks + 1
    /\ UNCHANGED <<raws, config>>

AnsweredBy(rows) ==
    [check EXCEPT !.fees = @ \cup Normalized(rows, Requested),
                  !.answered = @ \cup {Requested},
                  !.attempt = 0,
                  !.next = @ + 1,
                  !.pc = IF check.next < Len(check.symbols) THEN "asking" ELSE "answered"]

\* A usable answer: on to the next symbol, or to the files.
Answered(rows) ==
    /\ check.pc = "asking" /\ Acceptable(rows, Requested)
    /\ check' = AnsweredBy(rows)
    /\ UNCHANGED <<raws, config, checks>>

GivenUpOnSymbol ==
    [check EXCEPT !.attempt = 0, !.next = @ + 1,
                  !.pc = IF check.next < Len(check.symbols) THEN "asking"
                         ELSE IF check.fees = {} THEN "none" ELSE "answered"]

\* Any error ends the whole check: nothing it has got so far is kept.
GivenUp == NoCheck

Malformed(rows) ==
    /\ check.pc = "asking" /\ ~Acceptable(rows, Requested)
    /\ check' = GivenUp
    /\ UNCHANGED <<raws, config, checks>>

\* _fetch_explicit_fee_with_retry: no retry of a request for all fees, after
\* the last attempt, or when the exchange asks for a long wait.
Retried(long) ==
    /\ check.symbols # <<>> /\ check.attempt < RateLimitRetries /\ ~long

RetryUncounted == [check EXCEPT !.pc = "backoff"]

RetryLater == [check EXCEPT !.pc = "backoff", !.attempt = @ + 1]

\* A rate limit or a server error.
Refused(long) ==
    /\ check.pc = "asking"
    /\ check' = IF Retried(long) THEN RetryLater ELSE GivenUp
    /\ UNCHANGED <<raws, config, checks>>

BackoffOver ==
    /\ check.pc = "backoff"
    /\ check' = [check EXCEPT !.pc = "asking"]
    /\ UNCHANGED <<raws, config, checks>>

\* Any other failure of the request.
RequestFails ==
    /\ check.pc = "asking"
    /\ check' = GivenUp
    /\ UNCHANGED <<raws, config, checks>>

SaveRawFeeResponse ==
    /\ check.pc = "answered"
    /\ raws' = Append(raws, [symbols |-> ToSet(check.symbols), answered |-> check.answered,
                             fees |-> check.fees])
    /\ check' = [check EXCEPT !.pc = "saved"]
    /\ UNCHANGED <<config, checks>>

SaveFeeSchedule ==
    /\ check.pc = "saved"
    /\ config' = FromFees(check.fees, Len(raws))
    /\ check' = NoCheck
    /\ UNCHANGED <<raws, checks>>

\* A file cannot be written, or the tool is interrupted: replacing a file is
\* one step, so each is the old one or the new one.
Interrupted ==
    /\ check.pc # "none"
    /\ check' = NoCheck
    /\ UNCHANGED <<raws, config, checks>>

CheckStep ==
    \/ \E rows \in RowSets : Answered(rows) \/ Malformed(rows)
    \/ \E long \in BOOLEAN : Refused(long)
    \/ BackoffOver \/ RequestFails \/ SaveRawFeeResponse \/ SaveFeeSchedule
=============================================================================
