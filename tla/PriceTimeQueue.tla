--------------------------- MODULE PriceTimeQueue ---------------------------
(***************************************************************************)
(* What one side of a book promises (lib/OrderBook.sol): a set of resting  *)
(* orders of which the best is known, the one behind each, and how many    *)
(* there are.  Better is a higher bid or a lower ask, and at one price the *)
(* earlier order.                                                          *)
(***************************************************************************)
EXTENDS Integers

CONSTANTS NumOrders, Prices

Ids == 1 .. NumOrders

VARIABLES
    side, price,  \* of the orders, fixed before any rests
    resting,      \* the orders put in and not taken out
    best,         \* the first of them, 0: none
    behind,       \* of each, the next one, 0: none
    size          \* how many rest

vars == <<side, price, resting, best, behind, size>>

Ahead(i, j) ==
    \/ price[i] = price[j] /\ i < j
    \/ side * price[i] > side * price[j]

\* n is the first order of S, 0 for none.
First(n, S) ==
    /\ S = {} => n = 0
    /\ S # {} => n \in S /\ \A i \in S \ {n} : Ahead(n, i)

Sorted ==
    /\ First(best, resting)
    /\ \A i \in resting : First(behind[i], {j \in resting : Ahead(i, j)})
    /\ \A i \in Ids \ resting : behind[i] = 0

Init ==
    /\ side \in {1, -1}
    /\ price \in [Ids -> Prices]
    /\ resting = {}
    /\ size = 0
    /\ Sorted

Insert(id) ==
    /\ id \notin resting
    /\ resting' = resting \cup {id}
    /\ size' = size + 1

Remove(id) ==
    /\ id \in resting
    /\ resting' = resting \ {id}
    /\ size' = size - 1

Next ==
    /\ \E id \in Ids : Insert(id) \/ Remove(id)
    /\ Sorted'
    /\ UNCHANGED <<side, price>>

Spec == Init /\ [][Next]_vars
=============================================================================
