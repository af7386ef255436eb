----------------------------- MODULE MCScanner -----------------------------
(***************************************************************************)
(* Instances of Scanner for TLC.                                           *)
(***************************************************************************)
EXTENDS Scanner

Stage(fees, pessimistic) == [fees |-> fees, pessimistic |-> pessimistic]

\* A signal that passes fees but not the pessimistic pass; and one that fails or
\* passes both.
OneStage == {Stage(TRUE, FALSE)}

FewStages == {Stage(FALSE, FALSE), Stage(TRUE, TRUE)}
=============================================================================
