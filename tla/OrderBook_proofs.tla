-------------------------- MODULE OrderBook_proofs --------------------------
(***************************************************************************)
(* The linked list of OrderBook implements PriceTimeQueue, for any number  *)
(* of orders and any prices.                                               *)
(***************************************************************************)
EXTENDS OrderBook, FiniteSetTheorems, TLAPS

-----------------------------------------------------------------------------
(* The order of the orders *)

OrdersOK == side \in {1, -1} /\ price \in [Ids -> Prices]

Irreflexive == \A i \in Ids : ~Ahead(i, i)
Transitive == \A i, j, k \in Ids : Ahead(i, j) /\ Ahead(j, k) => Ahead(i, k)
Total == \A i, j \in Ids : i = j \/ Ahead(i, j) \/ Ahead(j, i)

LinearOrder == Irreflexive /\ Transitive /\ Total

\* Price-time priority orders the orders of a side strictly and totally.
LEMMA AheadIsLinear ==
    ASSUME OrdersOK
    PROVE LinearOrder
<1>1. \A i \in Ids : i \in Int /\ price[i] \in Int
    <2>1. \A i \in Ids : price[i] \in Prices
        BY DEF OrdersOK
    <2>2. \A p \in Prices : p \in Int
        BY BookAssumption
    <2>3. \A i \in Ids : i \in Int
        BY BookAssumption DEF Ids
    <2> QED BY <2>1, <2>2, <2>3
<1>2. CASE side = 1
    <2>1. \A i, j \in Ids : Ahead(i, j) <=> (price[i] = price[j] /\ i < j) \/ price[i] > price[j]
        BY <1>1, <1>2 DEF Ahead
    <2> QED BY <1>1, <2>1 DEF LinearOrder, Irreflexive, Transitive, Total
<1>3. CASE side = -1
    <2>1. \A i, j \in Ids : Ahead(i, j) <=> (price[i] = price[j] /\ i < j) \/ price[i] < price[j]
        BY <1>1, <1>3 DEF Ahead
    <2> QED BY <1>1, <2>1 DEF LinearOrder, Irreflexive, Transitive, Total
<1> QED BY <1>2, <1>3 DEF OrdersOK

-----------------------------------------------------------------------------
(* Lists *)

Leads(n, S) ==
    /\ S = {} => n = 0
    /\ S # {} => n \in S /\ \A i \in S \ {n} : Ahead(n, i)

Behind(i, R) == {j \in R : Ahead(i, j)}

\* The list from h along the links n holds R in order.
Sorts(h, n, R) ==
    /\ Leads(h, R)
    /\ \A i \in R : Leads(n[i], Behind(i, R))
    /\ \A i \in Ids \ R : n[i] = 0

List(h, n, R) ==
    /\ R \subseteq Ids /\ n \in [Ids -> Ids \cup {0}]
    /\ Sorts(h, n, R)

\* Zero is nobody's id.
LEMMA ZeroIsNone == 0 \notin Ids
BY BookAssumption DEF Ids

\* A new order that is ahead of the head becomes the head.
LEMMA PushSorts ==
    ASSUME LinearOrder, NEW h, NEW n, NEW R, List(h, n, R),
           NEW id \in Ids, id \notin R,
           h = 0 \/ Ahead(id, h)
    PROVE Sorts(id, [n EXCEPT ![id] = h], R \cup {id})
<1> DEFINE m == [n EXCEPT ![id] = h]
           Q == R \cup {id}
<1>1. \A i \in R : Ahead(id, i)
    BY ZeroIsNone DEF LinearOrder, Transitive, List, Sorts, Leads
<1>2. Behind(id, Q) = R
    BY <1>1 DEF LinearOrder, Irreflexive, Behind
<1>3. \A i \in R : Behind(i, Q) = Behind(i, R)
    BY <1>1 DEF LinearOrder, Irreflexive, Transitive, Behind, List
<1>4. Leads(id, Q)
    BY <1>1 DEF Leads
<1>5. \A i \in Ids \ {id} : m[i] = n[i]
    BY DEF List
<1>6. m[id] = h
    BY DEF List
<1>7. \A i \in Q : Leads(m[i], Behind(i, Q))
    BY <1>2, <1>3, <1>5, <1>6 DEF List, Sorts
<1>8. \A i \in Ids \ Q : m[i] = 0
    BY <1>5 DEF List, Sorts
<1> QED BY <1>4, <1>7, <1>8 DEF Sorts

\* A new order linked between cur and what follows it.
LEMMA LinkSorts ==
    ASSUME LinearOrder, NEW h, NEW n, NEW R, List(h, n, R),
           NEW id \in Ids, id \notin R,
           NEW cur \in R, Ahead(cur, id),
           n[cur] = 0 \/ Ahead(id, n[cur])
    PROVE Sorts(h, [n EXCEPT ![id] = n[cur], ![cur] = id], R \cup {id})
<1> DEFINE m == [n EXCEPT ![id] = n[cur], ![cur] = id]
           Q == R \cup {id}
<1>1. Leads(n[cur], Behind(cur, R))
    BY DEF List, Sorts
<1>2. \A j \in Behind(cur, R) : Ahead(id, j)
    BY <1>1, ZeroIsNone DEF LinearOrder, Transitive, List, Leads, Behind
<1>3. \A j \in R : Ahead(id, j) => Ahead(cur, j)
    BY DEF LinearOrder, Transitive, List
<1>4. Behind(id, Q) = Behind(cur, R)
    BY <1>2, <1>3 DEF LinearOrder, Irreflexive, Behind
<1>5. Behind(cur, Q) = Behind(cur, R) \cup {id}
    BY DEF Behind
<1>6. m[id] = n[cur] /\ m[cur] = id /\ \A i \in Ids \ {id, cur} : m[i] = n[i]
    BY DEF List
<1>7. Leads(h, Q)
    <2>1. h \in R /\ \A i \in R \ {h} : Ahead(h, i)
        BY DEF List, Sorts, Leads
    <2>2. Ahead(h, id)
        BY <2>1 DEF LinearOrder, Transitive, List
    <2> QED BY <2>1, <2>2 DEF Leads
<1>8. Leads(m[id], Behind(id, Q))
    BY <1>1, <1>4, <1>6
<1>9. Leads(m[cur], Behind(cur, Q))
    BY <1>2, <1>5, <1>6 DEF Leads
<1>10. ASSUME NEW i \in R \ {cur}
       PROVE Leads(m[i], Behind(i, Q))
    <2>1. m[i] = n[i] /\ Leads(n[i], Behind(i, R))
        BY <1>6 DEF List, Sorts
    <2>2. CASE Ahead(i, cur)
        <3>1. cur \in Behind(i, R) /\ Behind(i, Q) = Behind(i, R) \cup {id}
            BY <2>2 DEF LinearOrder, Transitive, List, Behind
        <3>2. Ahead(n[i], id)
            BY <2>1, <3>1 DEF LinearOrder, Transitive, List, Leads, Behind
        <3> QED BY <2>1, <3>1, <3>2 DEF Leads
    <2>3. CASE ~Ahead(i, cur)
        <3>1. Ahead(cur, i)
            BY <2>3 DEF LinearOrder, Total, List
        <3>2. Ahead(id, i)
            BY <1>2, <3>1 DEF Behind
        <3>3. Behind(i, Q) = Behind(i, R)
            BY <3>2 DEF LinearOrder, Irreflexive, Transitive, List, Behind
        <3> QED BY <2>1, <3>3
    <2> QED BY <2>2, <2>3
<1>11. \A i \in Q : Leads(m[i], Behind(i, Q))
    BY <1>8, <1>9, <1>10
<1>12. \A i \in Ids \ Q : m[i] = 0
    BY <1>6 DEF List, Sorts
<1> QED BY <1>7, <1>11, <1>12 DEF Sorts

\* The head taken off.
LEMMA PopSorts ==
    ASSUME LinearOrder, NEW h, NEW n, NEW R, List(h, n, R), h \in R
    PROVE Sorts(n[h], [n EXCEPT ![h] = 0], R \ {h})
<1> DEFINE m == [n EXCEPT ![h] = 0]
           Q == R \ {h}
<1>1. \A i \in Q : Ahead(h, i)
    BY DEF List, Sorts, Leads
<1>2. Behind(h, R) = Q
    BY <1>1 DEF LinearOrder, Irreflexive, List, Behind
<1>3. Leads(n[h], Q)
    BY <1>2 DEF List, Sorts
<1>4. \A i \in Q : Behind(i, Q) = Behind(i, R)
    BY <1>1 DEF LinearOrder, Irreflexive, Transitive, List, Behind
<1>5. m[h] = 0 /\ \A i \in Ids \ {h} : m[i] = n[i]
    BY DEF List
<1>6. \A i \in Q : Leads(m[i], Behind(i, Q))
    BY <1>4, <1>5 DEF List, Sorts
<1>7. \A i \in Ids \ Q : m[i] = 0
    BY <1>5 DEF List, Sorts
<1> QED BY <1>3, <1>6, <1>7 DEF Sorts

\* The order that cur leads to bypassed.
LEMMA UnlinkSorts ==
    ASSUME LinearOrder, NEW h, NEW n, NEW R, List(h, n, R),
           NEW cur \in R, NEW id \in R, n[cur] = id, id # h
    PROVE Sorts(h, [n EXCEPT ![cur] = n[id], ![id] = 0], R \ {id})
<1> DEFINE m == [n EXCEPT ![cur] = n[id], ![id] = 0]
           Q == R \ {id}
<1>1. id \in Behind(cur, R) /\ \A j \in Behind(cur, R) \ {id} : Ahead(id, j)
    BY ZeroIsNone DEF List, Sorts, Leads
<1>2. cur # id /\ Ahead(cur, id)
    BY <1>1 DEF LinearOrder, Irreflexive, List, Behind
<1>3. Leads(n[id], Behind(id, R))
    BY DEF List, Sorts
<1>4. Behind(cur, Q) = Behind(id, R)
    BY <1>1, <1>2 DEF LinearOrder, Irreflexive, Transitive, List, Behind
<1>5. m[id] = 0 /\ m[cur] = n[id] /\ \A i \in Ids \ {id, cur} : m[i] = n[i]
    BY <1>2 DEF List
<1>6. Leads(h, Q)
    BY DEF List, Sorts, Leads
<1>7. Leads(m[cur], Behind(cur, Q))
    BY <1>3, <1>4, <1>5
<1>8. ASSUME NEW i \in Q \ {cur}
      PROVE Leads(m[i], Behind(i, Q))
    <2>1. m[i] = n[i] /\ Leads(n[i], Behind(i, R))
        BY <1>5 DEF List, Sorts
    <2>2. CASE Ahead(i, id)
        <3>1. Ahead(i, cur)
            BY <1>1, <2>2 DEF LinearOrder, Irreflexive, Transitive, Total, List, Behind
        <3>2. cur \in Behind(i, R)
            BY <3>1 DEF Behind
        <3>3. n[i] # id
            BY <1>2, <2>1, <3>2 DEF LinearOrder, Irreflexive, Transitive, List, Leads
        <3>4. Behind(i, Q) = Behind(i, R) \ {id} /\ cur \in Behind(i, Q)
            BY <1>2, <3>2 DEF Behind
        <3> QED BY <2>1, <3>3, <3>4 DEF Leads
    <2>3. CASE ~Ahead(i, id)
        <3>1. Behind(i, Q) = Behind(i, R)
            BY <2>3 DEF Behind
        <3> QED BY <2>1, <3>1
    <2> QED BY <2>2, <2>3
<1>9. \A i \in Q : Leads(m[i], Behind(i, Q))
    BY <1>7, <1>8
<1>10. \A i \in Ids \ Q : m[i] = 0
    BY <1>5 DEF List, Sorts
<1> QED BY <1>6, <1>9, <1>10 DEF Sorts

-----------------------------------------------------------------------------
(* The inductive invariant *)

Counted == count = Cardinality(resting)

\* A walk is at a resting order that the one it is called for goes behind:
\* it has not passed its place.
WalkInPlace ==
    walk # Idle =>
        /\ walk \in Walk
        /\ walk.cur \in resting /\ walk.cur # walk.id
        /\ walk.op = "insert" => walk.id \notin inserted
        /\ walk.op = "insert" \/ walk.id \in resting => Ahead(walk.cur, walk.id)
        /\ walk.id # head

IInv == TypeOK /\ Sorts(head, next, resting) /\ Counted /\ WalkInPlace

LEMMA InitIsSorted == Init => IInv
<1> SUFFICES ASSUME Init PROVE IInv
    OBVIOUS
<1>1. TypeOK
    BY DEF Init, TypeOK
<1>2. Sorts(head, next, resting)
    BY DEF Init, Sorts, Leads
<1>3. Counted
    BY FS_EmptySet DEF Init, Counted
<1>4. WalkInPlace
    BY DEF Init, WalkInPlace
<1> QED BY <1>1, <1>2, <1>3, <1>4 DEF IInv

\* The list after a step, from the list it computes.
LEMMA SortsNext ==
    ASSUME NEW h, NEW n, NEW R, Sorts(h, n, R),
           UNCHANGED <<side, price>>, head' = h, next' = n, resting' = R
    PROVE Sorts(head, next, resting)'
BY DEF Sorts, Leads, Behind, Ahead

\* What the invariant gives to every step.
LEMMA InvFacts ==
    ASSUME IInv
    PROVE /\ LinearOrder /\ List(head, next, resting)
          /\ head = 0 <=> resting = {}
          /\ IsFiniteSet(resting) /\ count \in Nat
          /\ head # 0 => head \in resting
          /\ \A i \in resting : next[i] # 0 => next[i] \in resting /\ Ahead(i, next[i])
<1>1. LinearOrder
    BY AheadIsLinear DEF IInv, TypeOK, OrdersOK
<1>2. List(head, next, resting)
    BY DEF IInv, TypeOK, List
<1>3. IsFiniteSet(resting)
    <2>1. IsFiniteSet(Ids)
        BY BookAssumption, FS_Interval DEF Ids
    <2> QED BY <2>1, <1>2, FS_Subset DEF List
<1>4. head = 0 <=> resting = {}
    BY <1>2, ZeroIsNone DEF List, Sorts, Leads
<1>5. head # 0 => head \in resting
    BY <1>2, <1>4 DEF List, Sorts, Leads
<1>6. \A i \in resting : next[i] # 0 => next[i] \in resting /\ Ahead(i, next[i])
    BY <1>2 DEF List, Sorts, Leads, Behind
<1> QED BY <1>1, <1>2, <1>3, <1>4, <1>5, <1>6 DEF IInv, TypeOK

LEMMA AddedKeeps ==
    ASSUME IInv, NEW id \in Ids \ inserted, Added(id)
    PROVE /\ id \notin resting
          /\ Counted' /\ count' \in Nat
          /\ resting' = resting \cup {id}
          /\ resting' \subseteq inserted' /\ inserted' \subseteq Ids
<1>1. id \notin resting
    BY DEF IInv, TypeOK
<1>2. Cardinality(resting \cup {id}) = Cardinality(resting) + 1
    BY <1>1, InvFacts, FS_AddElement
<1> QED BY <1>1, <1>2, InvFacts DEF Added, Counted, IInv, TypeOK

LEMMA RemovedKeeps ==
    ASSUME IInv, NEW id \in resting, Removed(id), UNCHANGED inserted
    PROVE /\ Counted' /\ count' \in Nat
          /\ resting' = resting \ {id}
          /\ resting' \subseteq inserted' /\ inserted' \subseteq Ids
<1>1. Cardinality(resting \ {id}) = Cardinality(resting) - 1
    BY InvFacts, FS_RemoveElement
<1>2. IsFiniteSet(resting \ {id})
    BY InvFacts, FS_RemoveElement
<1>3. Cardinality(resting \ {id}) \in Nat
    BY <1>2, FS_CardinalityType
<1> QED BY <1>1, <1>3 DEF Removed, Counted, IInv, TypeOK

LEMMA InsertKeeps ==
    ASSUME IInv, NEW id \in Ids, Insert(id)
    PROVE IInv'
<1> USE InvFacts
<1>1. CASE head = 0 \/ Ahead(id, head)
    <2>1. /\ next' = [next EXCEPT ![id] = head] /\ head' = id /\ Added(id)
          /\ walk = Idle /\ UNCHANGED <<walk, side, price>> /\ id \in Ids \ inserted
        BY <1>1 DEF Insert
    <2>2. Sorts(head, next, resting)'
        <3>1. Sorts(id, [next EXCEPT ![id] = head], resting \cup {id})
            BY <1>1, <2>1, PushSorts, AddedKeeps
        <3> QED BY <2>1, <3>1, AddedKeeps, SortsNext
    <2>3. TypeOK'
        BY <2>1, AddedKeeps DEF IInv, TypeOK
    <2>4. WalkInPlace'
        BY <2>1 DEF WalkInPlace
    <2> QED BY <2>1, <2>2, <2>3, <2>4, AddedKeeps DEF IInv
<1>2. CASE ~(head = 0 \/ Ahead(id, head))
    <2>1. /\ walk' = [op |-> "insert", id |-> id, cur |-> head] /\ id \notin inserted
          /\ UNCHANGED <<side, price, head, next, count, resting, inserted>>
        BY <1>2 DEF Insert
    <2>2. head \in resting /\ head # id /\ Ahead(head, id)
        BY <1>2, <2>1 DEF IInv, TypeOK, LinearOrder, Total
    <2>3. walk' \in Walk
        BY <2>1, <2>2 DEF IInv, TypeOK, Walk
    <2>4. TypeOK'
        BY <2>1, <2>3 DEF IInv, TypeOK
    <2>5. WalkInPlace'
        BY <2>1, <2>2, <2>3 DEF WalkInPlace, Ahead
    <2>6. Sorts(head, next, resting)' /\ Counted'
        BY <2>1, SortsNext DEF IInv, Counted
    <2> QED BY <2>4, <2>5, <2>6 DEF IInv
<1> QED BY <1>1, <1>2

LEMMA InsertWalksKeeps ==
    ASSUME IInv, InsertWalks
    PROVE IInv'
<1> USE InvFacts
<1> DEFINE n == next[walk.cur]
<1>1. /\ walk.op = "insert" /\ walk # Idle /\ n # 0 /\ ~Ahead(walk.id, n)
      /\ walk' = [walk EXCEPT !.cur = n]
      /\ UNCHANGED <<side, price, head, next, count, resting, inserted>>
    BY DEF InsertWalks, GoesBehindNext, Idle
<1>2. walk \in Walk /\ walk.cur \in resting /\ walk.id \notin inserted /\ walk.id # head
    BY <1>1 DEF IInv, WalkInPlace
<1>3. n \in resting /\ n # walk.id /\ n \in Ids /\ walk.id \in Ids
    BY <1>1, <1>2 DEF IInv, TypeOK, Walk
<1>4. Ahead(n, walk.id)
    BY <1>1, <1>3 DEF LinearOrder, Total
<1> HIDE DEF n
<1>5. walk' \in Walk /\ walk'.op = "insert" /\ walk'.id = walk.id /\ walk'.cur = n
    BY <1>1, <1>2, <1>3 DEF Walk
<1>6. WalkInPlace'
    BY <1>1, <1>2, <1>3, <1>4, <1>5 DEF WalkInPlace, Ahead
<1>7. TypeOK'
    BY <1>1, <1>5 DEF IInv, TypeOK
<1> QED BY <1>1, <1>6, <1>7, SortsNext DEF IInv, Counted

LEMMA InsertLinksKeeps ==
    ASSUME IInv, InsertLinks
    PROVE IInv'
<1> USE InvFacts
<1>1. /\ walk.op = "insert" /\ walk # Idle
      /\ next[walk.cur] = 0 \/ Ahead(walk.id, next[walk.cur])
      /\ next' = LinkAfter(walk.cur, walk.id) /\ Added(walk.id) /\ walk' = Idle
      /\ UNCHANGED <<side, price, head>>
    BY DEF InsertLinks, GoesBehindNext, Idle
<1>2. /\ walk.cur \in resting /\ walk.id \in Ids \ inserted
      /\ Ahead(walk.cur, walk.id)
    BY <1>1 DEF IInv, WalkInPlace, Walk
<1>3. Sorts(head, LinkAfter(walk.cur, walk.id), resting \cup {walk.id})
    BY <1>1, <1>2, LinkSorts, AddedKeeps DEF LinkAfter
<1>4. Sorts(head, next, resting)'
    BY <1>1, <1>2, <1>3, AddedKeeps, SortsNext
<1>5. TypeOK'
    BY <1>1, <1>2, AddedKeeps DEF IInv, TypeOK, LinkAfter
<1>6. WalkInPlace'
    BY <1>1 DEF WalkInPlace, Idle
<1> QED BY <1>1, <1>2, <1>4, <1>5, <1>6, AddedKeeps DEF IInv

LEMMA RemoveKeeps ==
    ASSUME IInv, NEW id \in Ids, Remove(id)
    PROVE IInv'
<1> USE InvFacts
<1>1. CASE head = id
    <2>1. /\ head' = next[id] /\ next' = [next EXCEPT ![id] = 0] /\ Removed(id)
          /\ walk = Idle /\ UNCHANGED <<walk, side, price, inserted>> /\ head \in resting
        BY <1>1 DEF Remove
    <2>2. Sorts(head, next, resting)'
        <3>1. Sorts(next[id], [next EXCEPT ![id] = 0], resting \ {id})
            BY <1>1, <2>1, PopSorts
        <3> QED BY <1>1, <2>1, <3>1, RemovedKeeps, SortsNext
    <2>3. TypeOK'
        BY <1>1, <2>1, RemovedKeeps DEF IInv, TypeOK
    <2>4. WalkInPlace'
        BY <2>1 DEF WalkInPlace
    <2> QED BY <1>1, <2>1, <2>2, <2>3, <2>4, RemovedKeeps DEF IInv
<1>2. CASE head # id
    <2>1. /\ walk' = [op |-> "remove", id |-> id, cur |-> head] /\ head # 0
          /\ UNCHANGED <<side, price, head, next, count, resting, inserted>>
        BY <1>2 DEF Remove
    <2>2. head \in resting /\ (id \in resting => Ahead(head, id))
        BY <1>2, <2>1 DEF List, Sorts, Leads
    <2>3. walk' \in Walk
        BY <2>1, <2>2 DEF IInv, TypeOK, Walk
    <2>4. TypeOK'
        BY <2>1, <2>3 DEF IInv, TypeOK
    <2>5. WalkInPlace'
        BY <1>2, <2>1, <2>2, <2>3 DEF WalkInPlace, Ahead
    <2> QED BY <2>1, <2>4, <2>5, SortsNext DEF IInv, Counted
<1> QED BY <1>1, <1>2

LEMMA RemoveWalksKeeps ==
    ASSUME IInv, RemoveWalks
    PROVE IInv'
<1> USE InvFacts
<1> DEFINE n == next[walk.cur]
<1>1. /\ walk.op = "remove" /\ walk # Idle /\ n # 0 /\ n # walk.id
      /\ walk' = [walk EXCEPT !.cur = n]
      /\ UNCHANGED <<side, price, head, next, count, resting, inserted>>
    BY DEF RemoveWalks, Idle
<1>2. /\ walk \in Walk /\ walk.cur \in resting /\ walk.id # head
      /\ walk.id \in resting => Ahead(walk.cur, walk.id)
    BY <1>1 DEF IInv, WalkInPlace
<1>3. n \in resting /\ n \in Ids
    BY <1>1, <1>2 DEF IInv, TypeOK
<1>4. walk.id \in resting => Ahead(n, walk.id)
    BY <1>1, <1>2 DEF List, Sorts, Leads, Behind
<1> HIDE DEF n
<1>5. walk' \in Walk /\ walk'.op = "remove" /\ walk'.id = walk.id /\ walk'.cur = n
    BY <1>1, <1>2, <1>3 DEF Walk
<1>6. WalkInPlace'
    BY <1>1, <1>2, <1>3, <1>4, <1>5 DEF WalkInPlace, Ahead
<1>7. TypeOK'
    BY <1>1, <1>5 DEF IInv, TypeOK
<1> QED BY <1>1, <1>6, <1>7, SortsNext DEF IInv, Counted

LEMMA RemoveUnlinksKeeps ==
    ASSUME IInv, RemoveUnlinks
    PROVE IInv'
<1> USE InvFacts
<1>1. /\ walk.op = "remove" /\ walk # Idle /\ next[walk.cur] = walk.id
      /\ next' = Unlink(walk.cur, walk.id) /\ Removed(walk.id) /\ walk' = Idle
      /\ UNCHANGED <<side, price, head, inserted>>
    BY DEF RemoveUnlinks, Idle
<1>2. walk \in Walk /\ walk.cur \in resting /\ walk.id # head
    BY <1>1 DEF IInv, WalkInPlace
<1>3. walk.id \in resting
    BY <1>1, <1>2, ZeroIsNone DEF Walk
<1>4. Sorts(head, Unlink(walk.cur, walk.id), resting \ {walk.id})
    BY <1>1, <1>2, <1>3, UnlinkSorts DEF Unlink
<1>5. Sorts(head, next, resting)'
    BY <1>1, <1>3, <1>4, RemovedKeeps, SortsNext
<1>6. TypeOK'
    BY <1>1, <1>2, <1>3, RemovedKeeps DEF IInv, TypeOK, Unlink
<1>7. WalkInPlace'
    BY <1>1 DEF WalkInPlace, Idle
<1> QED BY <1>1, <1>3, <1>5, <1>6, <1>7, RemovedKeeps DEF IInv

LEMMA RemoveMissesKeeps ==
    ASSUME IInv, RemoveMisses
    PROVE IInv'
<1>1. walk' = Idle /\ UNCHANGED <<side, price, head, next, count, resting, inserted>>
    BY DEF RemoveMisses
<1>2. TypeOK' /\ WalkInPlace'
    BY <1>1 DEF IInv, TypeOK, WalkInPlace
<1> QED BY <1>1, <1>2, SortsNext DEF IInv, Counted

LEMMA StutterKeeps ==
    ASSUME IInv, UNCHANGED vars
    PROVE IInv'
<1>1. UNCHANGED <<side, price, head, next, count, walk, resting, inserted>>
    BY DEF vars
<1>2. TypeOK' /\ WalkInPlace'
    BY <1>1 DEF IInv, TypeOK, WalkInPlace, Ahead
<1> QED BY <1>1, <1>2, SortsNext DEF IInv, Counted

LEMMA NextKeeps == IInv /\ [Next]_vars => IInv'
BY InsertKeeps, InsertWalksKeeps, InsertLinksKeeps, RemoveKeeps, RemoveWalksKeeps,
   RemoveUnlinksKeeps, RemoveMissesKeeps, StutterKeeps DEF Next, Walking

\* Links are the price-time order, the count is right and every walk is in
\* place, through every insert and remove.
THEOREM ListHolds == Spec => []IInv
BY InitIsSorted, NextKeeps, PTL DEF Spec

\* Links lead to orders of this book, and the count never falls below 0.
THEOREM TypesHold == Spec => []TypeOK
<1>1. IInv => TypeOK
    BY DEF IInv
<1> QED BY <1>1, ListHolds, PTL

-----------------------------------------------------------------------------
(* Refinement *)

LEMMA InitRefines == Init => Queue!Init
<1> SUFFICES ASSUME Init PROVE Queue!Init
    OBVIOUS
<1>1. Queue!Sorted
    BY DEF Init, Queue!Sorted, Queue!First, Queue!Ids, Ids
<1> QED BY <1>1 DEF Init, Queue!Init, Queue!Ids, Ids

\* What the invariant says of the list is what the queue promises.
LEMMA InvIsSorted == IInv => Queue!Sorted
<1> SUFFICES ASSUME IInv PROVE Queue!Sorted
    OBVIOUS
<1>1. \A i, j : Ahead(i, j) <=> Queue!Ahead(i, j)
    BY DEF Ahead, Queue!Ahead
<1>2. \A n, S : Leads(n, S) <=> Queue!First(n, S)
    BY <1>1 DEF Leads, Queue!First
<1>3. \A i : Behind(i, resting) = {j \in resting : Queue!Ahead(i, j)}
    BY <1>1 DEF Behind
<1> QED BY <1>2, <1>3 DEF IInv, Sorts, Queue!Sorted, Ids, Queue!Ids

\* What a step does to the queue, whoever takes it.
LEMMA StepIsQueueStep ==
    ASSUME IInv, [Next]_vars
    PROVE \/ UNCHANGED <<side, price, resting, head, next, count>>
          \/ \E id \in Ids : /\ Queue!Insert(id) \/ Queue!Remove(id)
                             /\ UNCHANGED <<side, price>>
<1> USE InvFacts
<1>1. ASSUME NEW id \in Ids, Insert(id)
      PROVE \/ UNCHANGED <<side, price, resting, head, next, count>>
            \/ Queue!Insert(id) /\ UNCHANGED <<side, price>>
    BY <1>1 DEF Insert, Added, IInv, TypeOK, Queue!Insert
<1>2. ASSUME NEW id \in Ids, Remove(id)
      PROVE \/ UNCHANGED <<side, price, resting, head, next, count>>
            \/ Queue!Remove(id) /\ UNCHANGED <<side, price>>
    BY <1>2 DEF Remove, Removed, Queue!Remove
<1>3. CASE InsertLinks
    <2>1. /\ walk \in Walk /\ walk.id \notin inserted
          /\ Added(walk.id) /\ UNCHANGED <<side, price>>
        BY <1>3 DEF InsertLinks, IInv, WalkInPlace, Idle
    <2>2. walk.id \in Ids /\ Queue!Insert(walk.id)
        BY <2>1 DEF Walk, Added, IInv, TypeOK, Queue!Insert
    <2> QED BY <2>1, <2>2
<1>4. CASE RemoveUnlinks
    <2>1. /\ walk \in Walk /\ walk.cur \in resting /\ next[walk.cur] = walk.id
          /\ Removed(walk.id) /\ UNCHANGED <<side, price>>
        BY <1>4 DEF RemoveUnlinks, IInv, WalkInPlace, Idle
    <2>2. walk.id \in Ids /\ walk.id \in resting
        BY <2>1, ZeroIsNone DEF Walk
    <2>3. Queue!Remove(walk.id)
        BY <2>1, <2>2 DEF Removed, Queue!Remove
    <2> QED BY <2>1, <2>2, <2>3
<1>5. CASE InsertWalks \/ RemoveWalks \/ RemoveMisses \/ UNCHANGED vars
    BY <1>5 DEF InsertWalks, RemoveWalks, RemoveMisses, vars
<1> QED BY <1>1, <1>2, <1>3, <1>4, <1>5 DEF Next, Walking

LEMMA StepRefines ==
    ASSUME IInv, IInv', [Next]_vars
    PROVE [Queue!Next]_Queue!vars
<1>1. Queue!Sorted'
    BY InvIsSorted, PTL
<1> QED BY <1>1, StepIsQueueStep DEF Queue!Next, Queue!vars, Queue!Ids, Ids

\* The linked list implements the price-time queue: the best order and the one
\* behind each are right through every walk, insert and remove.
THEOREM ListIsQueue == Spec => QueueSpec
<1>1. IInv /\ IInv' /\ [Next]_vars => [Queue!Next]_Queue!vars
    BY StepRefines
<1> QED BY <1>1, InitRefines, ListHolds, PTL DEF Spec, QueueSpec, Queue!Spec
=============================================================================
