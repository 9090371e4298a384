---------------------------- MODULE MCLibraries ----------------------------
(***************************************************************************)
(* The two pieces of the exchange that stand on their own: the linked list *)
(* of a book (lib/OrderBook.sol), and the arithmetic of one position.  The *)
(* book is exercised with an empty position, and the position with one     *)
(* empty book: neither reads the other.                                    *)
(***************************************************************************)
EXTENDS OrderBook, PositionAccounting

EmptyBook == side = 1 /\ price = [id \in Ids |-> 1] /\ inserted = {} /\ walk = Idle
EmptyPosition == lotFills = 0

MCNext ==
    \/ EmptyPosition /\ Next /\ UNCHANGED lotVars
    \/ EmptyBook /\ LotNext /\ UNCHANGED vars

MCInit == Init /\ LotInit
MCSpec ==
    /\ MCInit
    /\ [][MCNext]_<<vars, lotVars>>
    /\ WF_vars(Walking /\ UNCHANGED lotVars)

\* Below zero, nothing, less and more than the margin of a position.
MCBalances == {-2, 0, 1, 3, 5, 12}
=============================================================================
