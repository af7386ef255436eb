----------------------------- MODULE MCBookFeed ------------------------------
(* Every history of MaxId updates that starts from any ladder and changes   *)
(* one level at a time, on a grid of three prices with MaxDepth 1 or 2.     *)
EXTENDS BookFeed

OneLevelApart(a, b) == Cardinality({k \in Keys : a[k] # b[k]}) = 1

MCHistories ==
    {h \in [0..MaxId -> Ladder] :
        \A v \in 1..MaxId : OneLevelApart(h[v - 1], h[v])}
=============================================================================
