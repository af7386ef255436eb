--------------------------- MODULE MCPublicClient ---------------------------
(* Two shards of one symbol, or one of two, for PublicClient.              *)
EXTENDS PublicClient

MCMonitored == <<"btc", "eth">>
=============================================================================
