--------------------------- MODULE OracleAbstract ---------------------------
(***************************************************************************)
(* What the price oracle of runtime/src/oracle.rs promises, without its    *)
(* storage layout: callers append prices to a symbol's log, and an        *)
(* aggregation sets the aggregate of every fetched symbol that has prices *)
(* to the exact average of a window of its newest prices that is at least *)
(* TOKENS_TO_KEEP long (or the whole log, if it is shorter).              *)
(***************************************************************************)
EXTENDS Integers, Sequences, SequencesExt

CONSTANTS Symbols, Recorded, Fetched, Prices, TOKENS_TO_KEEP

VARIABLES
    log,        \* every price recorded per symbol, in order
    aggregated  \* the aggregate per symbol (0 while unset)

avars == <<log, aggregated>>

\* the newest n prices of a log
Newest(h, n) == SubSeq(h, Len(h) - n + 1, Len(h))

\* the averages an aggregation may store for a log: of the newest n prices,
\* for every n from min(Len, TOKENS_TO_KEEP) to Len
Averages(h) ==
    {FoldSeq(LAMBDA p, acc : p + acc, 0, Newest(h, n)) \div n :
        n \in Min({Len(h), TOKENS_TO_KEEP}) .. Len(h)}

\* record_price: append to the log
Record(sym, p) ==
    /\ log' = [log EXCEPT ![sym] = Append(@, p)]
    /\ UNCHANGED aggregated

\* _record_aggregated_prices: every fetched symbol with prices gets one of
\* its averages; the others keep their aggregate
Aggregate ==
    LET Candidates(sym) == IF sym \in Fetched /\ log[sym] # << >>
                           THEN Averages(log[sym]) ELSE {aggregated[sym]}
        Values == UNION {Candidates(sym) : sym \in Symbols}
    IN /\ aggregated' \in {g \in [Symbols -> Values] : \A sym \in Symbols : g[sym] \in Candidates(sym)}
       /\ UNCHANGED log

AInit ==
    /\ log = [sym \in Symbols |-> << >>]
    /\ aggregated = [sym \in Symbols |-> 0]

ANext ==
    \/ \E sym \in Recorded, p \in Prices : Record(sym, p)
    \/ Aggregate

ASpec == AInit /\ [][ANext]_avars

=============================================================================
