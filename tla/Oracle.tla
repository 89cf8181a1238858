------------------------------- MODULE Oracle -------------------------------
(***************************************************************************)
(* The price oracle pallet of runtime/src/oracle.rs: any signed account    *)
(* appends prices to a symbol's TokenPriceHistory (record_price); the      *)
(* history of every fetched symbol is averaged into AggregatedPrices and   *)
(* trimmed to its newest TOKENS_TO_KEEP entries by                         *)
(* _record_aggregated_prices, which a signed call or the on_finalize of    *)
(* every 10th block runs.                                                  *)
(*                                                                         *)
(* The moment stored beside an aggregate and the events are left out: no  *)
(* property reads them.                                                    *)
(***************************************************************************)
EXTENDS Integers, Sequences, SequencesExt

CONSTANTS
    Symbols,          \* symbols with a storage entry
    Recorded,         \* symbols callers pass to record_price
    FETCHED_CRYPTOS,  \* the sequence of symbols _record_aggregated_prices visits
    Prices,           \* prices callers record
    TOKENS_TO_KEEP,   \* TOKENS_TO_KEEP (scaled down)
    Period,           \* on_finalize aggregates when block % Period = 0 (10 in the code)
    MaxBalance,       \* T::Balance::max_value() (scaled down)
    MaxRecords        \* bound: prices recorded per symbol

ASSUME /\ ToSet(FETCHED_CRYPTOS) \cup Recorded \subseteq Symbols
       /\ Prices \subseteq 0..MaxBalance
       /\ TOKENS_TO_KEEP \in Nat \ {0} /\ Period \in Nat \ {0}

VARIABLES
    history,     \* TokenPriceHistory: symbol -> Vec<Balance>
    aggregated,  \* AggregatedPrices: symbol -> average (0 while unset)
    block,       \* system block number, modulo Period
    recorded,    \* history: every price ever recorded per symbol, in order
    fresh        \* history: a price was recorded since the symbol's last aggregate

vars == <<history, aggregated, block, recorded, fresh>>

Storage == [history |-> history, aggregated |-> aggregated, fresh |-> fresh]

Ok(s) == [ok |-> TRUE, s |-> s]
Err(s) == [ok |-> FALSE, s |-> s]

\* unchecked u128 addition of a release build wraps around
Wrap(x) == x % (MaxBalance + 1)

\* the fold of aggregate_prices: `mem + *price`, unchecked
RECURSIVE PriceSum(_)
PriceSum(h) == IF h = << >> THEN 0 ELSE Wrap(Head(h) + PriceSum(Tail(h)))

\* mutant: the sum is divided by TOKENS_TO_KEEP instead of the length
MeanOverKeep(h) == IF Len(h) = 0 THEN 0 ELSE PriceSum(h) \div TOKENS_TO_KEEP

\* aggregate_prices: the sum divided by the number of stored prices
Mean(h) == IF Len(h) = 0 THEN 0 ELSE PriceSum(h) \div Len(h)

\* mutant: `drain(..TOKENS_TO_KEEP)` keeps the oldest prices
TrimOldest(h) == IF Len(h) < TOKENS_TO_KEEP THEN h ELSE SubSeq(h, 1, TOKENS_TO_KEEP)

\* the kept vector: `old_vec.drain(len - TOKENS_TO_KEEP..)` once it is full
Trim(h) ==
    IF Len(h) < TOKENS_TO_KEEP THEN h
    ELSE SubSeq(h, Len(h) - TOKENS_TO_KEEP + 1, Len(h))

\* the closure mapped over FETCHED_CRYPTOS: fails, writing nothing, on an
\* empty history; else stores the average and the trimmed history
AggregateSymbol(s, sym) ==
    IF s.history[sym] = << >> THEN Err(s)
    ELSE Ok([s EXCEPT !.aggregated[sym] = Mean(s.history[sym]),
                      !.history[sym] = Trim(@),
                      !.fresh[sym] = FALSE])

\* mutant: the first failing symbol stops the loop (a `?` in the closure chain)
RecordAggregatedShortCircuit(s) ==
    FoldLeft(LAMBDA r, sym : IF r.ok THEN AggregateSymbol(r.s, sym) ELSE r, Ok(s), FETCHED_CRYPTOS)

\* _record_aggregated_prices: `.map(..).fold(..)` runs the closure for
\* every symbol, whatever the earlier ones returned, and the function
\* returns Ok(()) in the end
RecordAggregated(s) ==
    Ok(FoldLeft(LAMBDA t, sym : AggregateSymbol(t, sym).s, s, FETCHED_CRYPTOS))

Commit(s) ==
    /\ history' = s.history /\ aggregated' = s.aggregated /\ fresh' = s.fresh

-----------------------------------------------------------------------------
(* The dispatchables and on_finalize.                                      *)

\* record_price(sym, price): _record_price pushes the price
RecordPrice(sym, p) ==
    /\ Len(recorded[sym]) < MaxRecords
    /\ history' = [history EXCEPT ![sym] = Append(@, p)]
    /\ recorded' = [recorded EXCEPT ![sym] = Append(@, p)]
    /\ fresh' = [fresh EXCEPT ![sym] = TRUE]
    /\ UNCHANGED <<aggregated, block>>

\* record_aggregated_prices(): any signed account
RecordAggregatedPrices ==
    /\ Commit(RecordAggregated(Storage).s)
    /\ UNCHANGED <<block, recorded>>

\* on_finalize of the block, then the next block
FinalizeBlock ==
    /\ IF block % Period = 0 THEN Commit(RecordAggregated(Storage).s)
       ELSE UNCHANGED <<history, aggregated, fresh>>
    /\ block' = (block + 1) % Period
    /\ UNCHANGED recorded

Init ==
    /\ history = [sym \in Symbols |-> << >>]
    /\ aggregated = [sym \in Symbols |-> 0]
    /\ block = 1
    /\ recorded = [sym \in Symbols |-> << >>]
    /\ fresh = [sym \in Symbols |-> FALSE]

Next ==
    \/ \E sym \in Recorded, p \in Prices : RecordPrice(sym, p)
    \/ RecordAggregatedPrices
    \/ FinalizeBlock

\* blocks keep being produced and finalized
Spec == Init /\ [][Next]_vars /\ WF_vars(FinalizeBlock)

-----------------------------------------------------------------------------
(* Properties.                                                             *)

Fetched == ToSet(FETCHED_CRYPTOS)

\* the oracle's promise, with the log of all recorded prices as its state
Abstract == INSTANCE OracleAbstract WITH log <- recorded

\* record_price, the averaging of aggregate_prices and the drain of
\* _record_aggregated_prices together implement OracleAbstract: every
\* aggregate stored is the exact average of the newest prices recorded for
\* the symbol, over a window at least TOKENS_TO_KEEP long.
OracleRefinesAbstract == Abstract!ASpec

\* on_finalize runs _record_aggregated_prices every Period blocks and it
\* visits every fetched symbol: a price recorded for a fetched symbol is
\* eventually folded into that symbol's aggregate.
PricesEventuallyAggregated ==
    \A sym \in Fetched : fresh[sym] ~> ~fresh[sym]

=============================================================================
