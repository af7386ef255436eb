--------------------------- MODULE MCBookManager -----------------------------
(* Small instances of BookManager.  The exchange quotes two bids and one    *)
(* ask; with MaxDepth 1 the lower bid is trimmed, so that removing the      *)
(* upper one at update 3 leaves a hole the exchange does not have.          *)
EXTENDS BookManager, TLC

Quotes(bid1, bid2, ask3) ==
    [k \in Keys |-> CASE k = <<"bids", 1>> -> bid1
                      [] k = <<"bids", 2>> -> bid2
                      [] k = <<"asks", 3>> -> ask3
                      [] OTHER -> 0]

OneHistory == <<Quotes(1, 1, 1), Quotes(1, 2, 1), Quotes(1, 2, 2), Quotes(1, 0, 2)>>

MCTruth == [s \in Symbols |-> [v \in 0..MaxId |-> OneHistory[v + 1]]]

OneShard == [s \in Symbols |-> CHOOSE h \in Shards : TRUE]

\* Symbols are interchangeable: they share the history and the shard.
Interchangeable == Permutations(Symbols)
=============================================================================
