----------------------------- MODULE OrderBook -----------------------------
(***************************************************************************)
(* One side of a book as contracts/src/lib/OrderBook.sol keeps it: a head, *)
(* a link per order and a count.  insert and remove walk the list; a walk  *)
(* is a call in progress, one step per turn of its loop, and no other call *)
(* runs meanwhile.  The exchange never inserts an order twice.  It removes *)
(* an order it knows to rest, but remove answers for any.                  *)
(***************************************************************************)
EXTENDS Integers

CONSTANTS
    NumOrders,  \* orders that may be placed; an order's id is also its seq
    Prices

ASSUME BookAssumption == NumOrders \in Nat /\ Prices \subseteq Nat

Ids == 1 .. NumOrders

VARIABLES
    side, price,  \* of the orders, as the exchange stored them
    head, next, count,
    walk,         \* the call in progress
    resting,      \* what the exchange has put in and not taken out
    inserted      \* what it has ever put in

vars == <<side, price, head, next, count, walk, resting, inserted>>

Idle == [op |-> "idle"]

Init ==
    /\ side \in {1, -1}
    /\ price \in [Ids -> Prices]
    /\ head = 0
    /\ next = [i \in Ids |-> 0]
    /\ count = 0
    /\ walk = Idle
    /\ resting = {}
    /\ inserted = {}

Ahead(i, j) ==
    \/ price[i] = price[j] /\ i < j
    \/ side * price[i] > side * price[j]

Added(id) ==
    /\ count' = count + 1
    /\ resting' = resting \cup {id}
    /\ inserted' = inserted \cup {id}

\* Mutant of LinkAfter: the new order is linked to what now follows, itself.
LinkAfterSwapped(cur, id) == [next EXCEPT ![cur] = id, ![id] = id]

LinkAfter(cur, id) == [next EXCEPT ![id] = next[cur], ![cur] = id]

\* The condition of the loop of insert.
GoesBehindNext ==
    /\ next[walk.cur] # 0
    /\ ~Ahead(walk.id, next[walk.cur])

\* At the head at once; else the walk starts there.
Insert(id) ==
    /\ walk = Idle
    /\ id \notin inserted
    /\ IF head = 0 \/ Ahead(id, head)
       THEN /\ next' = [next EXCEPT ![id] = head]
            /\ head' = id
            /\ Added(id)
            /\ UNCHANGED walk
       ELSE /\ walk' = [op |-> "insert", id |-> id, cur |-> head]
            /\ UNCHANGED <<head, next, count, resting, inserted>>
    /\ UNCHANGED <<side, price>>

InsertWalks ==
    /\ walk.op = "insert"
    /\ GoesBehindNext
    /\ walk' = [walk EXCEPT !.cur = next[walk.cur]]
    /\ UNCHANGED <<side, price, head, next, count, resting, inserted>>

InsertLinks ==
    /\ walk.op = "insert"
    /\ ~GoesBehindNext
    /\ next' = LinkAfter(walk.cur, walk.id)
    /\ Added(walk.id)
    /\ walk' = Idle
    /\ UNCHANGED <<side, price, head>>

Removed(id) ==
    /\ count' = count - 1
    /\ resting' = resting \ {id}

\* Mutant of Unlink: the removed order keeps its link and is not bypassed.
UnlinkDeletes(cur, id) == [next EXCEPT ![cur] = 0, ![id] = 0]

Unlink(cur, id) == [next EXCEPT ![cur] = next[id], ![id] = 0]

Remove(id) ==
    /\ walk = Idle
    /\ head # 0
    /\ IF head = id
       THEN /\ head' = next[id]
            /\ next' = [next EXCEPT ![id] = 0]
            /\ Removed(id)
            /\ UNCHANGED walk
       ELSE /\ walk' = [op |-> "remove", id |-> id, cur |-> head]
            /\ UNCHANGED <<head, next, count, resting>>
    /\ UNCHANGED <<side, price, inserted>>

RemoveWalks ==
    /\ walk.op = "remove"
    /\ next[walk.cur] # 0 /\ next[walk.cur] # walk.id
    /\ walk' = [walk EXCEPT !.cur = next[walk.cur]]
    /\ UNCHANGED <<side, price, head, next, count, resting, inserted>>

RemoveUnlinks ==
    /\ walk.op = "remove"
    /\ next[walk.cur] = walk.id
    /\ next' = Unlink(walk.cur, walk.id)
    /\ Removed(walk.id)
    /\ walk' = Idle
    /\ UNCHANGED <<side, price, head, inserted>>

\* The order is not on this list: nothing changes and the call returns false.
RemoveMisses ==
    /\ walk.op = "remove"
    /\ next[walk.cur] = 0
    /\ walk' = Idle
    /\ UNCHANGED <<side, price, head, next, count, resting, inserted>>

Walking == InsertWalks \/ InsertLinks \/ RemoveWalks \/ RemoveUnlinks \/ RemoveMisses

Next ==
    \/ \E id \in Ids : Insert(id) \/ Remove(id)
    \/ Walking

\* A call that has started runs to its end; nothing makes anybody call.
Spec == Init /\ [][Next]_vars /\ WF_vars(Walking)

-----------------------------------------------------------------------------
(* Properties *)

Walk == [op: {"insert", "remove"}, id: Ids, cur: Ids]

\* Links lead to orders of the book, and no removal is counted that was not
\* an insertion before (count is a uint64: below 0 the call reverts).
TypeOK ==
    /\ side \in {1, -1} /\ price \in [Ids -> Prices]
    /\ head \in Ids \cup {0} /\ next \in [Ids -> Ids \cup {0}]
    /\ count \in Nat
    /\ walk \in {Idle} \cup Walk
    /\ resting \subseteq inserted /\ inserted \subseteq Ids

(***************************************************************************)
(* The list implements the queue: through every insert and removal at the  *)
(* head, in the middle and at the end, the head is the best, each link     *)
(* leads to the next best, an order that does not rest has none, and the   *)
(* count is right.  A link lost would hide every order behind it from the  *)
(* sweep and from its owner's cancel.                                      *)
(***************************************************************************)
Queue == INSTANCE PriceTimeQueue WITH best <- head, behind <- next, size <- count

QueueSpec == Queue!Spec

\* Every walk ends: the links never close a loop (insert and remove have no
\* other bound).
WalksEnd == walk # Idle ~> walk = Idle
=============================================================================
