------------------------------ MODULE MCReport ------------------------------
(* One cycle that pays now and then and one that never does, rechecked after *)
(* 1 and 3 milliseconds.                                                     *)
EXTENDS Report

Survivor == [cycle |-> "c1", raw |-> 3, net |-> 2, depth |-> 1, pnl |-> {1}, pessimistic |-> TRUE,
             executable |-> TRUE, rejected |-> FALSE, age |-> 2]

Loser == [Survivor EXCEPT !.net = 0, !.depth = -3, !.pnl = {-3}, !.pessimistic = FALSE, !.age = 1]

Rejected == [Loser EXCEPT !.cycle = "c2", !.raw = 4, !.net = -1, !.depth = -4, !.pnl = {},
                          !.executable = FALSE, !.rejected = TRUE]

\* Pays under stress only, which rounding can bring about.
Odd == [Loser EXCEPT !.pessimistic = TRUE]

MCSignals == {Survivor, Loser, Rejected, Odd}

Check(profitable, elapsed) == [profitable |-> profitable, elapsed |-> elapsed]

MCChecks == { (1 :> Check(TRUE, 1)) @@ (3 :> Check(TRUE, 3)),
              (1 :> Check(TRUE, 1)) @@ (3 :> Check(FALSE, 4)),
              (1 :> Check(FALSE, 3)) @@ (3 :> Check(FALSE, 3)) }

MCHealths == {[resyncs |-> 0, gaps |-> 1, age |-> 4], [resyncs |-> 2, gaps |-> 1, age |-> 0]}

\* No id means anything.
Alike == Permutations(Ids)

MCGates == [sample |-> 1, decisionSample |-> 2, ghostPercent |-> 50, repeated |-> 2,
            checkpoints |-> 2, survival |-> {1}, totalPnl |-> 0]
=============================================================================
