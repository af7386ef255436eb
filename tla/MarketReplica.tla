---------------------------- MODULE MarketReplica ----------------------------
(***************************************************************************)
(* What the scanner may assume of the books it reads (scanner.py trusts a  *)
(* book that is connected and synchronized): each symbol is either down or *)
(* shows part of the exchange's ladder at one version.  While it stays up  *)
(* the version only grows.  Books come up and move one at a time; any      *)
(* number may go down together.                                            *)
(***************************************************************************)
EXTENDS Integers

CONSTANTS
    Symbols, \* managed symbols
    Keys,    \* <<side, price>> pairs
    MaxId,   \* bound: last version of the exchange's history
    Truth    \* Truth[s][v][k]: quantity of level k of symbol s at version v

VARIABLES head, view

View == [up : BOOLEAN, version : 0..MaxId, levels : [Keys -> Nat]]

Down == [up |-> FALSE, version |-> 0, levels |-> [k \in Keys |-> 0]]

Init ==
    /\ head = [s \in Symbols |-> 0]
    /\ view = [s \in Symbols |-> Down]

Trade(s) ==
    /\ head' = [head EXCEPT ![s] = @ + 1]
    /\ UNCHANGED view

\* A book comes up at any past version, or moves to a newer one.
Shows(s) ==
    /\ view' \in [Symbols -> View]
    /\ view'[s].up
    /\ view'[s].version <= head[s]
    /\ view[s].up => view'[s].version > view[s].version
    /\ \A k \in Keys : view'[s].levels[k] \in {0, Truth[s][view'[s].version][k]}
    /\ \A r \in Symbols \ {s} : view'[r] = view[r]
    /\ UNCHANGED head

GoDown ==
    /\ view' \in [Symbols -> View]
    /\ \A s \in Symbols : view'[s] \in {view[s], Down}
    /\ UNCHANGED head

Next ==
    \/ \E s \in Symbols : Trade(s) \/ Shows(s)
    \/ GoDown

Spec == Init /\ [][Next]_<<head, view>>
=============================================================================
