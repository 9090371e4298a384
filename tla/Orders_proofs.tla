----------------------------- MODULE Orders_proofs -----------------------------
(* Orders, for any traders, markets, orders, prices and limits.  First the     *)
(* bookkeeping: the books, the open ids, the slot counts and the pending       *)
(* triggers agree with the statuses of the orders, whatever is placed, filled, *)
(* triggered, cancelled or reverted (IInv).  Then what one sweep does to the   *)
(* taker's position, to the liquidity a fill-or-kill order was promised, and   *)
(* to what it passes over (Progress).                                          *)
EXTENDS Orders, PerpMath_proofs, SequenceTheorems, WellFoundedInduction, TLAPS

-----------------------------------------------------------------------------
(* Lists of ids. *)

Elems(s) == {s[k] : k \in 1 .. Len(s)}
Distinct(s) == \A i, j \in 1 .. Len(s) : i # j => s[i] # s[j]

LEMMA AppendIds ==
    ASSUME NEW s \in Seq(Nat), NEW x \in Nat
    PROVE  /\ Append(s, x) \in Seq(Nat) /\ Len(Append(s, x)) = Len(s) + 1
           /\ Elems(Append(s, x)) = Elems(s) \cup {x}
           /\ x \notin Elems(s) /\ Distinct(s) => Distinct(Append(s, x))
<1> DEFINE n == Len(s) + 1
           a == Append(s, x)
<1>1. /\ a \in Seq(Nat) /\ Len(a) = n /\ Len(s) \in Nat
      /\ a[n] = x
      /\ \A k \in 1 .. Len(s) : a[k] = s[k]
    OBVIOUS
<1>2. 1 .. n = (1 .. Len(s)) \cup {n} /\ n \notin 1 .. Len(s)
    BY <1>1
<1> HIDE DEF n, a
<1>3. Elems(a) = Elems(s) \cup {x}
    <2>1. ASSUME NEW y \in Elems(a)
          PROVE  y \in Elems(s) \cup {x}
        <3>1. PICK k \in 1 .. n : y = a[k]
            BY <1>1 DEF Elems
        <3> QED BY <3>1, <1>1, <1>2 DEF Elems
    <2>2. Elems(s) \subseteq Elems(a)
        BY <1>1, <1>2 DEF Elems
    <2>3. x \in Elems(a)
        BY <1>1, <1>2 DEF Elems
    <2> QED BY <2>1, <2>2, <2>3
<1>4. x \notin Elems(s) /\ Distinct(s) => Distinct(a)
    BY ZenonT(60), <1>1, <1>2 DEF Elems, Distinct
<1> QED BY <1>1, <1>3, <1>4 DEF a, n

LEMMA SwapRemoveIds ==
    ASSUME NEW s \in Seq(Nat), Distinct(s), NEW x \in Elems(s)
    PROVE  /\ SwapRemove(s, x) \in Seq(Nat) /\ Len(SwapRemove(s, x)) = Len(s) - 1
           /\ Elems(SwapRemove(s, x)) = Elems(s) \ {x}
           /\ Distinct(SwapRemove(s, x))
           /\ \A k \in 1 .. Len(s) : s[k] = x =>
                \A j \in 1 .. Len(s) - 1 : SwapRemove(s, x)[j] = IF j = k THEN s[Len(s)] ELSE s[j]
<1> DEFINE n == Len(s)
           i == CHOOSE j \in 1 .. Len(s) : s[j] = x
           r == [s EXCEPT ![i] = s[n]]
           t == SubSeq(r, 1, n - 1)
<1>1. Contains(s, x)
    BY DEF Contains, Elems
<1>2. i \in 1 .. n /\ s[i] = x
    BY DEF Elems
<1>3. SwapRemove(s, x) = t
    BY <1>1 DEF SwapRemove
<1>4. n \in Nat \ {0} /\ r \in Seq(Nat) /\ Len(r) = n
      /\ \A j \in 1 .. n : r[j] = IF j = i THEN s[n] ELSE s[j]
    <2> HIDE DEF i
    <2> QED BY <1>2
<1>5. t \in Seq(Nat) /\ Len(t) = n - 1 /\ \A j \in 1 .. n - 1 : t[j] = r[j]
    <2> HIDE DEF r
    <2>1. \A j \in 1 .. n - 1 : r[j] \in Nat
        BY <1>4
    <2>2. n - 1 \in Int /\ 1 \in Int /\ (IF 1 <= n - 1 THEN n - 1 - 1 + 1 ELSE 0) = n - 1
        BY <1>4
    <2>3. \A j \in 1 .. n - 1 : SubSeq(r, 1, n - 1)[j] = r[j]
        BY <1>4
    <2> QED BY <1>4, <2>1, <2>2, <2>3, SubSeqProperties
<1> HIDE DEF i, r, t
<1>6. \A j \in 1 .. n - 1 : t[j] = IF j = i THEN s[n] ELSE s[j]
    BY <1>4, <1>5
<1>7. Elems(t) = Elems(s) \ {x}
    <2>1. ASSUME NEW y \in Elems(t)
          PROVE  y \in Elems(s) \ {x}
        <3>1. PICK j \in 1 .. n - 1 : y = IF j = i THEN s[n] ELSE s[j]
            BY <1>5, <1>6 DEF Elems
        <3>2. PICK k \in 1 .. n : y = s[k] /\ k # i
            BY <3>1, <1>2, <1>4
        <3> QED BY <3>2, <1>2 DEF Elems, Distinct
    <2>2. ASSUME NEW y \in Elems(s) \ {x}
          PROVE  y \in Elems(t)
        <3>1. PICK k \in 1 .. n : y = s[k] /\ k # i
            BY <1>2 DEF Elems
        <3>2. PICK j \in 1 .. n - 1 : t[j] = y
            <4>1. CASE k = n
                <5>1. i \in 1 .. n - 1
                    BY <4>1, <3>1, <1>2, <1>4
                <5> QED BY <5>1, <4>1, <3>1, <1>6
            <4>2. CASE k # n
                <5>1. k \in 1 .. n - 1
                    BY <4>2, <1>4
                <5> QED BY <5>1, <3>1, <1>6
            <4> QED BY <4>1, <4>2
        <3> QED BY <3>2, <1>5 DEF Elems
    <2> QED BY <2>1, <2>2
<1>8. Distinct(t)
    <2> SUFFICES ASSUME NEW j \in 1 .. n - 1, NEW k \in 1 .. n - 1, j # k
                 PROVE  t[j] # t[k]
        BY <1>5 DEF Distinct
    <2>1. PICK a, b \in 1 .. n : t[j] = s[a] /\ t[k] = s[b] /\ a # b
        <3> DEFINE a == IF j = i THEN n ELSE j
                   b == IF k = i THEN n ELSE k
        <3>1. a \in 1 .. n /\ b \in 1 .. n /\ a # b
            BY SMTT(60), <1>4
        <3>2. t[j] = s[a] /\ t[k] = s[b]
            BY <1>6
        <3> QED BY <3>1, <3>2
    <2> QED BY <2>1 DEF Distinct
<1>9. ASSUME NEW k \in 1 .. n, s[k] = x
      PROVE  \A j \in 1 .. n - 1 : t[j] = IF j = k THEN s[n] ELSE s[j]
    <2>1. k = i
        BY <1>2, <1>9 DEF Distinct
    <2> QED BY <2>1, <1>6
<1> QED BY <1>3, <1>5, <1>7, <1>8, <1>9

\* The list without its k-th element.
LEMMA RemovedIds ==
    ASSUME NEW s \in Seq(Nat), NEW k \in 1 .. Len(s)
    PROVE  /\ RemoveAt(s, k) \in Seq(Nat) /\ Len(RemoveAt(s, k)) = Len(s) - 1
           /\ \A j \in 1 .. Len(s) - 1 : RemoveAt(s, k)[j] = IF j < k THEN s[j] ELSE s[j + 1]
<1> DEFINE n == Len(s)
           a == SubSeq(s, 1, k - 1)
           b == SubSeq(s, k + 1, n)
<1>0. n \in Nat /\ k \in Nat /\ 1 <= k /\ k <= n
    OBVIOUS
<1>1. a \in Seq(Nat) /\ Len(a) = k - 1 /\ \A j \in 1 .. k - 1 : a[j] = s[j]
    <2>1. \A j \in 1 .. k - 1 : s[j] \in Nat
        BY <1>0
    <2>2. k - 1 \in Int /\ (IF 1 <= k - 1 THEN k - 1 - 1 + 1 ELSE 0) = k - 1
        BY <1>0
    <2>3. \A j \in 1 .. k - 1 - 1 + 1 : a[j] = s[1 + j - 1]
        BY <2>1, <2>2, SubSeqProperties
    <2>4. a \in Seq(Nat) /\ Len(a) = k - 1
        BY <2>1, <2>2, SubSeqProperties
    <2> QED BY <2>3, <2>4, <1>0
<1>2. b \in Seq(Nat) /\ Len(b) = n - k /\ \A j \in 1 .. n - k : b[j] = s[k + j]
    <2>1. \A j \in k + 1 .. n : s[j] \in Nat
        BY <1>0
    <2>2. k + 1 \in Int /\ n \in Int
        BY <1>0
    <2>3. \A j \in 1 .. n - (k + 1) + 1 : b[j] = s[k + 1 + j - 1]
        BY <2>1, <2>2, SubSeqProperties
    <2>4. b \in Seq(Nat) /\ Len(b) = IF k + 1 <= n THEN n - (k + 1) + 1 ELSE 0
        BY <2>1, <2>2, SubSeqProperties
    <2> HIDE DEF b, n
    <2>5. Len(b) = n - k
        BY <2>4, <1>0
    <2>6. 1 .. n - (k + 1) + 1 = 1 .. n - k /\ \A j \in 1 .. n - k : k + 1 + j - 1 = k + j
        BY <1>0
    <2> QED BY <2>3, <2>4, <2>5, <2>6
<1>3. RemoveAt(s, k) = a \o b
    BY DEF RemoveAt
<1> HIDE DEF a, b, n
<1>4. /\ a \o b \in Seq(Nat) /\ Len(a \o b) = n - 1
      /\ \A j \in 1 .. n - 1 : (a \o b)[j] = IF j <= k - 1 THEN a[j] ELSE b[j - (k - 1)]
    <2>1. /\ a \o b \in Seq(Nat) /\ Len(a \o b) = Len(a) + Len(b)
          /\ \A j \in 1 .. Len(a) + Len(b) : (a \o b)[j] = IF j <= Len(a) THEN a[j] ELSE b[j - Len(a)]
        BY <1>1, <1>2, ConcatProperties
    <2>2. Len(a) + Len(b) = n - 1
        BY <1>0, <1>1, <1>2
    <2> QED BY <2>1, <2>2, <1>1
<1>5. ASSUME NEW j \in 1 .. n - 1
      PROVE  (a \o b)[j] = IF j < k THEN s[j] ELSE s[j + 1]
    <2>1. CASE j < k
        BY <2>1, <1>0, <1>1, <1>4
    <2>2. CASE ~(j < k)
        <3>1. j - (k - 1) \in 1 .. n - k /\ k + (j - (k - 1)) = j + 1 /\ ~(j <= k - 1)
            BY <2>2, <1>0
        <3> QED BY <3>1, <2>2, <1>2, <1>4
    <2> QED BY <2>1, <2>2
<1> QED BY <1>3, <1>4, <1>5 DEF n

\* The list with x put before its k-th element.
LEMMA InsertedIds ==
    ASSUME NEW s \in Seq(Nat), NEW k \in 1 .. Len(s) + 1, NEW x \in Nat
    PROVE  /\ InsertAt(s, k, x) \in Seq(Nat) /\ Len(InsertAt(s, k, x)) = Len(s) + 1
           /\ \A j \in 1 .. Len(s) + 1 :
                InsertAt(s, k, x)[j] = IF j < k THEN s[j] ELSE IF j = k THEN x ELSE s[j - 1]
<1> DEFINE n == Len(s)
           a == SubSeq(s, 1, k - 1)
           b == SubSeq(s, k, n)
           c == a \o <<x>>
<1>0. n \in Nat /\ k \in Nat /\ 1 <= k /\ k <= n + 1
    OBVIOUS
<1>1. a \in Seq(Nat) /\ Len(a) = k - 1 /\ \A j \in 1 .. k - 1 : a[j] = s[j]
    <2>1. \A j \in 1 .. k - 1 : s[j] \in Nat
        BY <1>0
    <2>2. k - 1 \in Int /\ (IF 1 <= k - 1 THEN k - 1 - 1 + 1 ELSE 0) = k - 1
        BY <1>0
    <2>3. \A j \in 1 .. k - 1 - 1 + 1 : a[j] = s[1 + j - 1]
        BY <2>1, <2>2, SubSeqProperties
    <2>4. a \in Seq(Nat) /\ Len(a) = k - 1
        BY <2>1, <2>2, SubSeqProperties
    <2> QED BY <2>3, <2>4, <1>0
<1>2. b \in Seq(Nat) /\ Len(b) = n - k + 1 /\ \A j \in 1 .. n - k + 1 : b[j] = s[k + j - 1]
    <2>1. \A j \in k .. n : s[j] \in Nat
        BY <1>0
    <2>2. k \in Int /\ n \in Int
        BY <1>0
    <2>3. \A j \in 1 .. n - k + 1 : b[j] = s[k + j - 1]
        BY <2>1, <2>2, SubSeqProperties
    <2>4. b \in Seq(Nat) /\ Len(b) = IF k <= n THEN n - k + 1 ELSE 0
        BY <2>1, <2>2, SubSeqProperties
    <2> HIDE DEF b, n
    <2>5. Len(b) = n - k + 1
        BY <2>4, <1>0
    <2> QED BY <2>3, <2>4, <2>5
<1>3. InsertAt(s, k, x) = c \o b
    BY DEF InsertAt
<1> HIDE DEF a, b, n
<1>4. /\ c \in Seq(Nat) /\ Len(c) = k
      /\ \A j \in 1 .. k : c[j] = IF j <= k - 1 THEN a[j] ELSE x
    <2>1. <<x>> \in Seq(Nat) /\ Len(<<x>>) = 1 /\ <<x>>[1] = x
        OBVIOUS
    <2>2. /\ c \in Seq(Nat) /\ Len(c) = Len(a) + Len(<<x>>)
          /\ \A j \in 1 .. Len(a) + Len(<<x>>) : c[j] = IF j <= Len(a) THEN a[j] ELSE <<x>>[j - Len(a)]
        BY <1>1, <2>1, ConcatProperties
    <2>3. Len(a) + Len(<<x>>) = k
        BY <1>0, <1>1, <2>1
    <2>4. \A j \in 1 .. k : j <= Len(a) \/ j - Len(a) = 1
        BY <1>0, <1>1
    <2> HIDE DEF c
    <2> QED BY <2>1, <2>2, <2>3, <2>4, <1>1
<1> HIDE DEF c
<1>5. /\ c \o b \in Seq(Nat) /\ Len(c \o b) = n + 1
      /\ \A j \in 1 .. n + 1 : (c \o b)[j] = IF j <= k THEN c[j] ELSE b[j - k]
    <2>1. /\ c \o b \in Seq(Nat) /\ Len(c \o b) = Len(c) + Len(b)
          /\ \A j \in 1 .. Len(c) + Len(b) : (c \o b)[j] = IF j <= Len(c) THEN c[j] ELSE b[j - Len(c)]
        BY <1>2, <1>4, ConcatProperties
    <2>2. Len(c) + Len(b) = n + 1
        BY <1>0, <1>2, <1>4
    <2> QED BY <2>1, <2>2, <1>4
<1>6. ASSUME NEW j \in 1 .. n + 1
      PROVE  (c \o b)[j] = IF j < k THEN s[j] ELSE IF j = k THEN x ELSE s[j - 1]
    <2>1. CASE j < k
        <3>1. j \in 1 .. k /\ j \in 1 .. k - 1 /\ j <= k - 1 /\ j <= k
            BY <2>1, <1>0
        <3>2. (c \o b)[j] = c[j]
            BY <3>1, <1>5
        <3>3. c[j] = s[j]
            BY <3>1, <1>1, <1>4
        <3> QED BY <2>1, <3>2, <3>3
    <2>2. CASE j = k
        <3>1. j \in 1 .. k /\ ~(j <= k - 1) /\ j <= k
            BY <2>2, <1>0
        <3>2. (c \o b)[j] = c[j]
            BY <3>1, <1>5
        <3>3. c[j] = x
            BY <3>1, <1>4
        <3> QED BY <2>2, <3>2, <3>3, <1>0
    <2>3. CASE j > k
        <3>1. j - k \in 1 .. n - k + 1 /\ k + (j - k) - 1 = j - 1 /\ ~(j <= k) /\ ~(j < k) /\ j # k
            BY <2>3, <1>0
        <3>2. (c \o b)[j] = b[j - k]
            BY <3>1, <1>5
        <3>3. b[j - k] = s[j - 1]
            BY <3>1, <1>2
        <3> QED BY <3>1, <3>2, <3>3
    <2>4. j < k \/ j = k \/ j > k
        BY <1>0
    <2> QED BY <2>1, <2>2, <2>3, <2>4
<1> QED BY <1>3, <1>5, <1>6 DEF n

-----------------------------------------------------------------------------
(* The venue.  An id in `out` is of a live order that a handler has taken  *)
(* from its book or its pending list, or not put there yet.                *)

OrderForms ==
    {o \in [owner : Traders, params : Params, filled : Int, status : Statuses] :
        o.filled <= o.params.size}

Shaped(v) ==
    /\ {"orders", "books", "openIds", "openCount", "pending", "position", "lastFill"} \subseteq DOMAIN v
    /\ v.orders \in Seq(OrderForms)
    /\ v.books \in [Markets -> [Sides -> Seq(Nat)]]
    /\ v.openIds \in [Traders -> Seq(Nat)]
    /\ v.openCount \in [Traders -> Nat]
    /\ v.pending \in [Markets -> Seq(Nat)]

IdsOf(v) == 1 .. Len(v.orders)
LiveIn(v, id) == v.orders[id].status \in {"Pending", "Open"}

Slots(v) ==
    \A t \in Traders :
        /\ Elems(v.openIds[t]) = {id \in IdsOf(v) : LiveIn(v, id) /\ v.orders[id].owner = t}
        /\ Distinct(v.openIds[t])
        /\ v.openCount[t] = Len(v.openIds[t]) /\ v.openCount[t] <= MaxOpenOrders

WaitingIn(v, m, out) ==
    {id \in IdsOf(v) \ out : v.orders[id].status = "Pending" /\ v.orders[id].params.market = m}

Waits(v, out) ==
    \A m \in Markets : Elems(v.pending[m]) = WaitingIn(v, m, out) /\ Distinct(v.pending[m])

RestingIn(v, m, s, out) ==
    {id \in IdsOf(v) \ out : /\ v.orders[id].status = "Open"
                             /\ v.orders[id].params.market = m
                             /\ v.orders[id].params.side = s}

Sorted(v, list) == \A k, l \in 1 .. Len(list) : k < l => Ahead(v.orders, list[k], list[l])

Rests(v, out) ==
    \A m \in Markets, s \in Sides :
        /\ Elems(v.books[m][s]) = RestingIn(v, m, s, out)
        /\ Sorted(v, v.books[m][s])

NamesUnique(v) ==
    \A i, j \in IdsOf(v) :
        i # j /\ LiveIn(v, i) /\ LiveIn(v, j) /\ v.orders[i].owner = v.orders[j].owner
              /\ v.orders[i].params.user # 0
          => v.orders[i].params.user # v.orders[j].params.user

Sound(v, out) == Shaped(v) /\ Slots(v) /\ Waits(v, out) /\ Rests(v, out) /\ NamesUnique(v)

\* The orders of two venues agree in all but what they have filled.
Alike(v, w) ==
    /\ Len(w.orders) = Len(v.orders)
    /\ \A id \in IdsOf(v) : /\ w.orders[id].owner = v.orders[id].owner
                            /\ w.orders[id].params = v.orders[id].params
                            /\ w.orders[id].status = v.orders[id].status

\* Orders are changed at most at some ids.
OnlyAt(v, w, ids) == \A k \in IdsOf(v) \ ids : w.orders[k] = v.orders[k]

\* No order is sent again as another one, and none comes into a book.
Shrinks(v, w) ==
    /\ IdsOf(v) \subseteq IdsOf(w)
    /\ \A k \in IdsOf(v) : w.orders[k].params = v.orders[k].params
    /\ \A m \in Markets, s \in Sides : Elems(w.books[m][s]) \subseteq Elems(v.books[m][s])

LEMMA ShrinksOn ==
    ASSUME NEW u, NEW v, NEW w, Shrinks(u, v), Shrinks(v, w)
    PROVE  Shrinks(u, w)
<1>1. IdsOf(u) \subseteq IdsOf(w)
    BY DEF Shrinks
<1>2. \A k \in IdsOf(u) : w.orders[k].params = u.orders[k].params
    BY DEF Shrinks
<1>3. \A m \in Markets, s \in Sides : Elems(w.books[m][s]) \subseteq Elems(u.books[m][s])
    BY DEF Shrinks
<1> QED BY <1>1, <1>2, <1>3 DEF Shrinks

LEMMA OrderIs ==
    ASSUME NEW v, Shaped(v), NEW id \in IdsOf(v)
    PROVE  /\ v.orders[id] \in OrderForms /\ id \in Nat
           /\ v.orders[id].owner \in Traders /\ v.orders[id].filled \in Int
           /\ v.orders[id].status \in Statuses /\ v.orders[id].params \in Params
           /\ v.orders[id].params.market \in Markets /\ v.orders[id].params.side \in {1, -1}
           /\ v.orders[id].params.price \in Nat /\ v.orders[id].params.size \in Nat
           /\ v.orders[id].filled <= v.orders[id].params.size
<1>1. v.orders[id] \in OrderForms /\ id \in Nat
    BY DEF Shaped, IdsOf
<1>2. /\ v.orders[id].owner \in Traders /\ v.orders[id].filled \in Int
      /\ v.orders[id].status \in Statuses /\ v.orders[id].params \in Params
      /\ v.orders[id].filled <= v.orders[id].params.size
    BY <1>1 DEF OrderForms
<1> QED BY <1>1, <1>2 DEF Params, Sides, Buy, Sell

LEMMA OrderSet ==
    ASSUME NEW s \in Seq(OrderForms), NEW id \in 1 .. Len(s), NEW o \in OrderForms
    PROVE  /\ [s EXCEPT ![id] = o] \in Seq(OrderForms)
           /\ Len([s EXCEPT ![id] = o]) = Len(s)
           /\ \A k \in 1 .. Len(s) : [s EXCEPT ![id] = o][k] = IF k = id THEN o ELSE s[k]
OBVIOUS

LEMMA AheadAlike ==
    ASSUME NEW v, NEW w, NEW i, NEW j,
           w.orders[i].params = v.orders[i].params, w.orders[j].params = v.orders[j].params
    PROVE  Ahead(w.orders, i, j) <=> Ahead(v.orders, i, j)
BY DEF Ahead

LEMMA ElemsAre ==
    ASSUME NEW s \in Seq(Nat)
    PROVE  \A k \in 1 .. Len(s) : s[k] \in Elems(s)
BY DEF Elems

\* What the books hold is of orders; an order is ahead of nothing that is not.
LEMMA RestsAlike ==
    ASSUME NEW v, NEW w, NEW out, Shaped(v), Rests(v, out), IdsOf(v) \subseteq IdsOf(w),
           \A id \in IdsOf(v) : w.orders[id].params = v.orders[id].params,
           NEW m \in Markets, NEW s \in Sides
    PROVE  Sorted(w, v.books[m][s])
<1> DEFINE list == v.books[m][s]
<1>1. Sorted(v, list) /\ list \in Seq(Nat) /\ \A k \in 1 .. Len(list) : list[k] \in IdsOf(v)
    BY DEF Rests, RestingIn, Elems, Shaped
<1> HIDE DEF list
<1>2. Sorted(w, list)
    BY <1>1, AheadAlike DEF Sorted
<1> QED BY <1>2 DEF list

LEMMA FillsKeep ==
    ASSUME NEW v, NEW w, NEW out, Sound(v, out), Shaped(w), Alike(v, w),
           w.books = v.books, w.openIds = v.openIds, w.openCount = v.openCount, w.pending = v.pending
    PROVE  Sound(w, out)
<1>1. IdsOf(w) = IdsOf(v)
    BY DEF Alike, IdsOf
<1>2. \A id \in IdsOf(v) : (LiveIn(w, id) <=> LiveIn(v, id))
    BY DEF Alike, LiveIn
<1>3. Slots(w)
    BY <1>1, <1>2 DEF Sound, Slots, Alike
<1>4. Waits(w, out)
    BY <1>1 DEF Sound, Waits, WaitingIn, Alike
<1>5. Rests(w, out)
    <2>1. \A m \in Markets, s \in Sides : RestingIn(w, m, s, out) = RestingIn(v, m, s, out)
        BY <1>1 DEF RestingIn, Alike
    <2>2. \A m \in Markets, s \in Sides : Sorted(w, v.books[m][s])
        BY <1>1, RestsAlike DEF Sound, Alike
    <2> QED BY <2>1, <2>2 DEF Sound, Rests
<1>6. NamesUnique(w)
    BY SMTT(60), <1>1, <1>2 DEF Sound, NamesUnique, Alike
<1> QED BY <1>3, <1>4, <1>5, <1>6 DEF Sound

LEMMA FilledAlike ==
    ASSUME NEW v, Shaped(v), NEW id \in IdsOf(v), NEW qty \in Int, qty <= Remaining(v.orders[id]), NEW w,
           w.orders = [v.orders EXCEPT ![id].filled = @ + qty]
    PROVE  w.orders \in Seq(OrderForms) /\ Alike(v, w) /\ OnlyAt(v, w, {id})
<1> DEFINE o == [v.orders[id] EXCEPT !.filled = @ + qty]
<1>1. /\ v.orders[id] \in OrderForms /\ v.orders[id].filled + qty \in Int
      /\ v.orders[id].filled + qty <= v.orders[id].params.size /\ v.orders \in Seq(OrderForms)
    <2>1. /\ v.orders[id] \in OrderForms /\ v.orders[id].filled \in Int
          /\ v.orders[id].params.size \in Nat
        BY OrderIs
    <2>2. /\ v.orders[id].filled + qty \in Int
          /\ v.orders[id].filled + qty <= v.orders[id].params.size
        BY <2>1 DEF Remaining
    <2> QED BY <2>1, <2>2 DEF Shaped
<1>2. /\ o \in OrderForms /\ o.owner = v.orders[id].owner /\ o.params = v.orders[id].params
      /\ o.status = v.orders[id].status
    BY <1>1 DEF OrderForms
<1>3. w.orders = [v.orders EXCEPT ![id] = o]
    BY <1>1
<1> HIDE DEF o
<1>4. /\ w.orders \in Seq(OrderForms) /\ Len(w.orders) = Len(v.orders)
      /\ \A k \in 1 .. Len(v.orders) : w.orders[k] = IF k = id THEN o ELSE v.orders[k]
    <2> DEFINE new == [v.orders EXCEPT ![id] = o]
    <2>1. id \in 1 .. Len(v.orders) /\ v.orders \in Seq(OrderForms) /\ o \in OrderForms
        BY <1>1, <1>2 DEF IdsOf
    <2>2. /\ new \in Seq(OrderForms) /\ Len(new) = Len(v.orders)
          /\ \A k \in 1 .. Len(v.orders) : new[k] = IF k = id THEN o ELSE v.orders[k]
        BY <2>1, OrderSet
    <2> HIDE DEF new
    <2> QED BY <2>2, <1>3 DEF new
<1> QED BY <1>2, <1>4 DEF Alike, IdsOf, OnlyAt

LEMMA TradedKeeps ==
    ASSUME NEW v, NEW out, Sound(v, out), NEW taker \in IdsOf(v), NEW maker \in (IdsOf(v) \ {taker}) \cup {0},
           NEW qty \in Int, NEW price,
           qty <= Remaining(v.orders[taker]), maker # 0 => qty <= Remaining(v.orders[maker])
    PROVE  LET w == Traded(v, taker, maker, qty, price)
           IN  /\ Sound(w, out) /\ Alike(v, w) /\ OnlyAt(v, w, {taker, maker})
               /\ Shrinks(v, w)
<1> DEFINE p == v.orders[taker].params
           once == [v EXCEPT !.orders[taker].filled = @ + qty,
                             !.position[v.orders[taker].owner][p.market] = @ + p.side * qty,
                             !.lastFill[p.market] = price]
           twice == [once EXCEPT !.orders[maker].filled = @ + qty,
                                 !.position[v.orders[maker].owner][p.market] = @ - p.side * qty]
<1>1. Shaped(v)
    BY DEF Sound
<1>2. /\ DOMAIN once = DOMAIN v /\ once.orders = [v.orders EXCEPT ![taker].filled = @ + qty]
      /\ once.books = v.books /\ once.openIds = v.openIds /\ once.openCount = v.openCount
      /\ once.pending = v.pending
    BY <1>1 DEF Shaped
<1>3. /\ DOMAIN twice = DOMAIN once /\ twice.orders = [once.orders EXCEPT ![maker].filled = @ + qty]
      /\ twice.books = v.books /\ twice.openIds = v.openIds /\ twice.openCount = v.openCount
      /\ twice.pending = v.pending
    <2> HIDE DEF once
    <2> QED BY <1>1, <1>2 DEF Shaped
<1>4. Traded(v, taker, maker, qty, price) = IF maker = 0 THEN once ELSE twice
    BY DEF Traded
<1> HIDE DEF once, twice
<1>5. Shaped(once) /\ Alike(v, once) /\ OnlyAt(v, once, {taker})
    <2>1. once.orders \in Seq(OrderForms) /\ Alike(v, once) /\ OnlyAt(v, once, {taker})
        BY <1>1, <1>2, FilledAlike
    <2> QED BY <1>1, <1>2, <2>1 DEF Shaped
<1>6. CASE maker = 0
    <2>1. OnlyAt(v, once, {taker, maker})
        BY <1>5 DEF OnlyAt
    <2>2. Shrinks(v, once)
        BY <1>2, <1>5 DEF Shrinks, Alike, IdsOf
    <2> QED BY <2>1, <2>2, <1>2, <1>4, <1>5, <1>6, FillsKeep
<1>7. CASE maker # 0
    <2>1. maker \in IdsOf(once) /\ qty <= Remaining(once.orders[maker])
        BY <1>5, <1>7 DEF Alike, IdsOf, OnlyAt
    <2>2. twice.orders \in Seq(OrderForms) /\ Alike(once, twice) /\ OnlyAt(once, twice, {maker})
        BY <1>3, <1>5, <2>1, FilledAlike
    <2>3. Shaped(twice)
        BY <1>1, <1>2, <1>3, <2>2 DEF Shaped
    <2>4. Alike(v, twice)
        BY <1>5, <2>2 DEF Alike, IdsOf
    <2>5. OnlyAt(v, twice, {taker, maker})
        BY <1>5, <2>2 DEF OnlyAt, Alike, IdsOf
    <2>6. Shrinks(v, twice)
        BY <1>3, <2>4 DEF Shrinks, Alike, IdsOf
    <2> QED BY <1>3, <1>4, <1>7, <2>3, <2>4, <2>5, <2>6, FillsKeep
<1> QED BY <1>6, <1>7

-----------------------------------------------------------------------------
(* One lemma per internal function. *)

\* An order's status is changed; what it was sent as is not.
Restated(orders, id, st) == [orders EXCEPT ![id].status = st]

LEMMA StatusSet ==
    ASSUME NEW v, Shaped(v), NEW id \in IdsOf(v), NEW st \in Statuses
    PROVE  LET new == Restated(v.orders, id, st)
           IN  /\ new \in Seq(OrderForms) /\ Len(new) = Len(v.orders)
               /\ \A k \in IdsOf(v) :
                    /\ new[k].owner = v.orders[k].owner /\ new[k].params = v.orders[k].params
                    /\ new[k].status = IF k = id THEN st ELSE v.orders[k].status
                    /\ k # id => new[k] = v.orders[k]
<1> DEFINE o == [v.orders[id] EXCEPT !.status = st]
           new == Restated(v.orders, id, st)
<1>1. v.orders[id] \in OrderForms /\ v.orders \in Seq(OrderForms)
    BY OrderIs DEF Shaped
<1>2. /\ o \in OrderForms /\ o.owner = v.orders[id].owner /\ o.params = v.orders[id].params
      /\ o.status = st
    BY <1>1 DEF OrderForms
<1>3. new = [v.orders EXCEPT ![id] = o]
    BY <1>1 DEF Restated
<1> HIDE DEF o, new
<1>4. /\ new \in Seq(OrderForms) /\ Len(new) = Len(v.orders)
      /\ \A k \in 1 .. Len(v.orders) : new[k] = IF k = id THEN o ELSE v.orders[k]
    BY <1>1, <1>2, <1>3, OrderSet DEF IdsOf
<1> QED BY <1>2, <1>4 DEF IdsOf, new

\* Its slot is given back: a live order, off its book and its list, ends.
LEMMA EndedKeeps ==
    ASSUME NEW v, NEW out, Sound(v, out), NEW id \in IdsOf(v), id \in out, LiveIn(v, id),
           NEW st \in {"Filled", "Cancelled"}
    PROVE  LET w == Untrack([v EXCEPT !.orders[id].status = st], id)
           IN  /\ Sound(w, out \ {id}) /\ IdsOf(w) = IdsOf(v)
               /\ OnlyAt(v, w, {id}) /\ Shrinks(v, w)
               /\ w.openIds = [v.openIds EXCEPT ![v.orders[id].owner] =
                                  SwapRemove(v.openIds[v.orders[id].owner], id)]
<1> DEFINE u == [v EXCEPT !.orders[id].status = st]
           t == v.orders[id].owner
           ids == v.openIds[t]
           w == Untrack(u, id)
<1>1. Shaped(v) /\ t \in Traders /\ st \in Statuses
    BY OrderIs DEF Sound, Statuses
<1>2. /\ DOMAIN u = DOMAIN v /\ u.orders = [v.orders EXCEPT ![id].status = st]
      /\ u.books = v.books /\ u.openIds = v.openIds /\ u.openCount = v.openCount
      /\ u.pending = v.pending
    BY <1>1 DEF Shaped
<1> HIDE DEF u
<1>3. /\ u.orders \in Seq(OrderForms) /\ Len(u.orders) = Len(v.orders)
      /\ \A k \in IdsOf(v) :
           /\ u.orders[k].owner = v.orders[k].owner /\ u.orders[k].params = v.orders[k].params
           /\ u.orders[k].status = IF k = id THEN st ELSE v.orders[k].status
           /\ k # id => u.orders[k] = v.orders[k]
    <2>1. Shaped(v) /\ st \in Statuses /\ u.orders = Restated(v.orders, id, st)
        BY <1>1, <1>2 DEF Restated
    <2> QED BY <2>1, StatusSet
<1>4. /\ DOMAIN w = DOMAIN v /\ w.orders = u.orders
      /\ w.books = v.books /\ w.pending = v.pending
      /\ w.openIds = [v.openIds EXCEPT ![t] = SwapRemove(ids, id)]
      /\ w.openCount = [v.openCount EXCEPT ![t] = v.openCount[t] - 1]
    <2>1. u.orders[id].owner = t
        BY <1>3
    <2>2. w = [u EXCEPT !.openIds[t] = SwapRemove(@, id), !.openCount[t] = @ - 1]
        BY <2>1 DEF Untrack
    <2> HIDE DEF w
    <2> QED BY <2>2, <1>1, <1>2 DEF Shaped
<1>5. /\ ids \in Seq(Nat) /\ Distinct(ids) /\ id \in Elems(ids) /\ v.openCount[t] = Len(ids)
      /\ v.openCount[t] \in Nat /\ v.openCount[t] <= MaxOpenOrders
      /\ Elems(ids) = {k \in IdsOf(v) : LiveIn(v, k) /\ v.orders[k].owner = t}
    BY <1>1 DEF Sound, Slots, Shaped
<1>6. /\ SwapRemove(ids, id) \in Seq(Nat) /\ Len(SwapRemove(ids, id)) = Len(ids) - 1
      /\ Elems(SwapRemove(ids, id)) = Elems(ids) \ {id}
      /\ Distinct(SwapRemove(ids, id)) /\ Len(ids) \in Nat /\ Len(ids) - 1 \in Nat
    <2>1. /\ SwapRemove(ids, id) \in Seq(Nat) /\ Len(SwapRemove(ids, id)) = Len(ids) - 1
          /\ Elems(SwapRemove(ids, id)) = Elems(ids) \ {id}
          /\ Distinct(SwapRemove(ids, id))
        BY <1>5, SwapRemoveIds
    <2>2. Len(SwapRemove(ids, id)) \in Nat /\ Len(ids) \in Nat
        <3>1. ids \in Seq(Nat) /\ SwapRemove(ids, id) \in Seq(Nat)
            BY Zenon, <1>5, <2>1
        <3> DEFINE cut == SwapRemove(ids, id)
        <3> HIDE DEF cut, ids
        <3>2. cut \in Seq(Nat)
            BY Zenon, <3>1 DEF cut
        <3>3. Len(cut) \in Nat /\ Len(ids) \in Nat
            BY <3>1, <3>2
        <3> QED BY <3>3 DEF cut
    <2> QED BY <2>1, <2>2
<1> HIDE DEF w, ids
<1>7. IdsOf(w) = IdsOf(v) /\ \A k \in IdsOf(v) : LiveIn(w, k) <=> (LiveIn(v, k) /\ k # id)
    BY <1>3, <1>4 DEF IdsOf, LiveIn
<1>8. Shaped(w)
    <2>1. w.openIds \in [Traders -> Seq(Nat)] /\ w.openCount \in [Traders -> Nat]
        BY <1>1, <1>4, <1>5, <1>6 DEF Shaped
    <2> QED BY <2>1, <1>1, <1>3, <1>4 DEF Shaped
<1>9. Slots(w)
    <2> SUFFICES ASSUME NEW r \in Traders
                 PROVE  /\ Elems(w.openIds[r]) = {k \in IdsOf(w) : LiveIn(w, k) /\ w.orders[k].owner = r}
                        /\ Distinct(w.openIds[r])
                        /\ w.openCount[r] = Len(w.openIds[r]) /\ w.openCount[r] <= MaxOpenOrders
        BY DEF Slots
    <2>1. CASE r = t
        <3>1. w.openIds[r] = SwapRemove(ids, id) /\ w.openCount[r] = v.openCount[t] - 1
            BY <2>1, <1>1, <1>4 DEF Shaped
        <3>2. {k \in IdsOf(w) : LiveIn(w, k) /\ w.orders[k].owner = r} = Elems(ids) \ {id}
            BY <2>1, <1>3, <1>4, <1>5, <1>7
        <3>3. w.openCount[r] = Len(w.openIds[r]) /\ w.openCount[r] <= MaxOpenOrders
            BY <3>1, <1>5, <1>6, OrdersAssumption
        <3> QED BY <3>1, <3>2, <3>3, <1>6
    <2>2. CASE r # t
        <3>1. w.openIds[r] = v.openIds[r] /\ w.openCount[r] = v.openCount[r]
            BY <2>2, <1>1, <1>4 DEF Shaped
        <3>2. {k \in IdsOf(w) : LiveIn(w, k) /\ w.orders[k].owner = r}
                = {k \in IdsOf(v) : LiveIn(v, k) /\ v.orders[k].owner = r}
            BY <2>2, <1>3, <1>4, <1>7
        <3> QED BY <3>1, <3>2 DEF Sound, Slots
    <2> QED BY <2>1, <2>2
<1>10. Waits(w, out \ {id})
    <2>1. \A m \in Markets : WaitingIn(w, m, out \ {id}) = WaitingIn(v, m, out)
        BY <1>3, <1>4, <1>7 DEF WaitingIn
    <2> QED BY <2>1, <1>4 DEF Sound, Waits
<1>11. Rests(w, out \ {id})
    <2>1. \A m \in Markets, s \in Sides : RestingIn(w, m, s, out \ {id}) = RestingIn(v, m, s, out)
        BY <1>3, <1>4, <1>7 DEF RestingIn
    <2>2. \A m \in Markets, s \in Sides : Sorted(w, v.books[m][s])
        BY <1>3, <1>4, <1>7, RestsAlike DEF Sound
    <2> QED BY <2>1, <2>2, <1>4 DEF Sound, Rests
<1>12. NamesUnique(w)
    BY <1>3, <1>4, <1>7 DEF Sound, NamesUnique
<1>13. OnlyAt(v, w, {id})
    BY <1>3, <1>4 DEF OnlyAt
<1>14. Shrinks(v, w)
    BY <1>3, <1>4, <1>7 DEF Shrinks
<1> QED BY <1>4, <1>7, <1>8, <1>9, <1>10, <1>11, <1>12, <1>13, <1>14 DEF Sound, w, u, ids

\* A waiting order leaves the list of its market.
LEMMA UnpendKeeps ==
    ASSUME NEW v, NEW out, Sound(v, out), NEW id \in IdsOf(v) \ out, v.orders[id].status = "Pending"
    PROVE  /\ Sound(Unpend(v, id), out \cup {id}) /\ Unpend(v, id).orders = v.orders
           /\ Shrinks(v, Unpend(v, id))
<1> DEFINE m == v.orders[id].params.market
           ids == v.pending[m]
           w == Unpend(v, id)
<1>1. Shaped(v) /\ m \in Markets
    BY OrderIs DEF Sound
<1>2. /\ DOMAIN w = DOMAIN v /\ w.orders = v.orders /\ w.books = v.books
      /\ w.openIds = v.openIds /\ w.openCount = v.openCount
      /\ w.pending = [v.pending EXCEPT ![m] = SwapRemove(ids, id)]
    BY <1>1 DEF Shaped, Unpend
<1>3. ids \in Seq(Nat) /\ Distinct(ids) /\ Elems(ids) = WaitingIn(v, m, out) /\ id \in Elems(ids)
    BY <1>1 DEF Sound, Waits, WaitingIn, Shaped
<1>4. /\ SwapRemove(ids, id) \in Seq(Nat) /\ Elems(SwapRemove(ids, id)) = Elems(ids) \ {id}
      /\ Distinct(SwapRemove(ids, id))
    BY <1>3, SwapRemoveIds
<1> HIDE DEF w, ids
<1>5. Shaped(w)
    <2>1. w.pending \in [Markets -> Seq(Nat)]
        BY <1>1, <1>2, <1>4 DEF Shaped
    <2> QED BY <2>1, <1>1, <1>2 DEF Shaped
<1>6. Waits(w, out \cup {id})
    <2> SUFFICES ASSUME NEW r \in Markets
                 PROVE  /\ Elems(w.pending[r]) = WaitingIn(w, r, out \cup {id})
                        /\ Distinct(w.pending[r])
        BY DEF Waits
    <2>1. CASE r = m
        <3>1. w.pending[r] = SwapRemove(ids, id)
            BY <2>1, <1>1, <1>2 DEF Shaped
        <3>2. WaitingIn(w, r, out \cup {id}) = WaitingIn(v, m, out) \ {id}
            BY <2>1, <1>2 DEF WaitingIn, IdsOf
        <3> QED BY <3>1, <3>2, <1>3, <1>4
    <2>2. CASE r # m
        <3>1. w.pending[r] = v.pending[r]
            BY <2>2, <1>1, <1>2 DEF Shaped
        <3>2. WaitingIn(w, r, out \cup {id}) = WaitingIn(v, r, out)
            BY <2>2, <1>2 DEF WaitingIn, IdsOf
        <3> QED BY <3>1, <3>2 DEF Sound, Waits
    <2> QED BY <2>1, <2>2
<1>7. Rests(w, out \cup {id})
    <2>1. \A r \in Markets, s \in Sides : RestingIn(w, r, s, out \cup {id}) = RestingIn(v, r, s, out)
        BY <1>2 DEF RestingIn, IdsOf
    <2> QED BY <2>1, <1>2 DEF Sound, Rests, Sorted
<1>8. Slots(w) /\ NamesUnique(w)
    BY <1>2 DEF Sound, Slots, NamesUnique, LiveIn, IdsOf
<1>9. Shrinks(v, w)
    BY <1>2 DEF Shrinks, IdsOf
<1> QED BY <1>2, <1>5, <1>6, <1>7, <1>8, <1>9 DEF Sound, w

-----------------------------------------------------------------------------
(* The books.  On one side of one market, Ahead is a strict total order of *)
(* the orders' ids: by price, then by age.                                 *)

LEMMA Least ==
    ASSUME NEW S \in SUBSET Nat, S # {}
    PROVE  \E x \in S : \A y \in S : x <= y
<1> DEFINE R == OpToRel(<, Nat)
<1>1. IsWellFoundedOn(R, Nat)
    BY NatLessThanWellFounded
<1>2. PICK x \in S : \A y \in S : ~ (<<y, x>> \in R)
    BY <1>1, WFMin
<1>3. \A y \in Nat : y < x => <<y, x>> \in R
    BY DEF OpToRel
<1> HIDE DEF R
<1>4. \A y \in S : ~ (y < x)
    BY <1>2, <1>3
<1>5. \A y \in S : x <= y
    BY <1>4
<1> QED BY <1>5

\* The ids of the orders on a side of a market.
Side(v, m, s) == {id \in IdsOf(v) : v.orders[id].params.market = m /\ v.orders[id].params.side = s}

LEMMA AheadIsAnOrder ==
    ASSUME NEW v, Shaped(v), NEW m \in Markets, NEW s \in Sides,
           NEW i \in Side(v, m, s), NEW j \in Side(v, m, s), NEW k \in Side(v, m, s)
    PROVE  /\ ~Ahead(v.orders, i, i)
           /\ i # j => Ahead(v.orders, i, j) \/ Ahead(v.orders, j, i)
           /\ Ahead(v.orders, i, j) /\ Ahead(v.orders, j, k) => Ahead(v.orders, i, k)
<1> DEFINE price(x) == v.orders[x].params.price
<1>1. s \in {1, -1}
    BY DEF Sides, Buy, Sell
<1>2. \A x \in Side(v, m, s) : x \in Nat /\ price(x) \in Nat /\ v.orders[x].params.side = s
    BY OrderIs DEF Side
<1>3. \A x, y \in Side(v, m, s) :
        Ahead(v.orders, x, y) <=> (s * price(x) > s * price(y) \/ (price(x) = price(y) /\ x < y))
    BY <1>2 DEF Ahead
<1> HIDE DEF price
<1>4. CASE s = 1
    <2>1. \A a \in Nat : s * a = a
        BY <1>4
    <2>2. \A x, y \in Side(v, m, s) :
            Ahead(v.orders, x, y) <=> (price(x) > price(y) \/ (price(x) = price(y) /\ x < y))
        BY <2>1, <1>2, <1>3
    <2> QED BY <2>2, <1>2
<1>5. CASE s = -1
    <2>1. \A a \in Nat : s * a = -a
        BY <1>5
    <2>2. \A x, y \in Side(v, m, s) :
            Ahead(v.orders, x, y) <=> (price(x) < price(y) \/ (price(x) = price(y) /\ x < y))
        <3>1. \A a, b \in Nat : -a > -b <=> a < b
            OBVIOUS
        <3> QED BY <3>1, <2>1, <1>2, <1>3
    <2> QED BY <2>2, <1>2
<1> QED BY <1>1, <1>4, <1>5

LEMMA SortedDistinct ==
    ASSUME NEW v, Shaped(v), NEW m \in Markets, NEW s \in Sides,
           NEW list \in Seq(Nat), Elems(list) \subseteq Side(v, m, s), Sorted(v, list)
    PROVE  Distinct(list)
<1> SUFFICES ASSUME NEW i \in 1 .. Len(list), NEW j \in 1 .. Len(list), i # j
             PROVE  list[i] # list[j]
    BY DEF Distinct
<1>1. list[i] \in Side(v, m, s) /\ list[j] \in Side(v, m, s)
    BY ElemsAre
<1>2. i < j \/ j < i
    OBVIOUS
<1> QED BY <1>1, <1>2, AheadIsAnOrder DEF Sorted

LEMMA TakenOut ==
    ASSUME NEW v, NEW list \in Seq(Nat), Distinct(list), Sorted(v, list), NEW x \in Elems(list)
    PROVE  /\ TakeOut(list, x) \in Seq(Nat) /\ Elems(TakeOut(list, x)) = Elems(list) \ {x}
           /\ Sorted(v, TakeOut(list, x))
<1> DEFINE n == Len(list)
           k == CHOOSE j \in 1 .. Len(list) : list[j] = x
           r == RemoveAt(list, k)
<1>1. k \in 1 .. n /\ list[k] = x
    BY DEF Elems
<1>2. TakeOut(list, x) = r
    BY DEF TakeOut, Contains, Elems
<1> HIDE DEF k
<1>3. /\ r \in Seq(Nat) /\ Len(r) = n - 1 /\ n \in Nat
      /\ \A j \in 1 .. n - 1 : r[j] = IF j < k THEN list[j] ELSE list[j + 1]
    <2>1. k \in 1 .. Len(list)
        BY <1>1
    <2>2. /\ RemoveAt(list, k) \in Seq(Nat) /\ Len(RemoveAt(list, k)) = Len(list) - 1
          /\ \A j \in 1 .. Len(list) - 1 :
               RemoveAt(list, k)[j] = IF j < k THEN list[j] ELSE list[j + 1]
        BY <2>1, RemovedIds
    <2> QED BY <2>2
<1> HIDE DEF r, n
<1>4. Elems(r) = Elems(list) \ {x}
    <2>1. ASSUME NEW y \in Elems(r)
          PROVE  y \in Elems(list) \ {x}
        <3>1. PICK j \in 1 .. n - 1 : y = r[j]
            BY <1>3 DEF Elems
        <3>2. PICK l \in 1 .. n : y = list[l] /\ l # k
            <4>1. CASE j < k
                BY <4>1, <3>1, <1>1, <1>3
            <4>2. CASE ~(j < k)
                <5>1. j + 1 \in 1 .. n /\ j + 1 # k
                    BY <4>2, <1>1, <1>3
                <5> QED BY <5>1, <4>2, <3>1, <1>3
            <4> QED BY <4>1, <4>2
        <3> QED BY <3>2, <1>1 DEF Elems, Distinct, n
    <2>2. ASSUME NEW y \in Elems(list) \ {x}
          PROVE  y \in Elems(r)
        <3>1. PICK l \in 1 .. n : y = list[l] /\ l # k
            BY <1>1 DEF Elems, n
        <3>2. PICK j \in 1 .. n - 1 : r[j] = y
            <4>1. CASE l < k
                <5>1. l \in 1 .. n - 1
                    BY <4>1, <1>1, <1>3
                <5> QED BY <5>1, <4>1, <3>1, <1>3
            <4>2. CASE ~(l < k)
                <5>1. l - 1 \in 1 .. n - 1 /\ ~(l - 1 < k) /\ l - 1 + 1 = l
                    BY <4>2, <3>1, <1>1, <1>3
                <5> QED BY <5>1, <3>1, <1>3
            <4> QED BY <4>1, <4>2
        <3> QED BY <3>2, <1>3 DEF Elems
    <2> QED BY <2>1, <2>2
<1>5. Sorted(v, r)
    <2> SUFFICES ASSUME NEW i \in 1 .. n - 1, NEW j \in 1 .. n - 1, i < j
                 PROVE  Ahead(v.orders, r[i], r[j])
        BY <1>3 DEF Sorted
    <2>1. PICK a, b \in 1 .. n : r[i] = list[a] /\ r[j] = list[b] /\ a < b
        <3> DEFINE a == IF i < k THEN i ELSE i + 1
                   b == IF j < k THEN j ELSE j + 1
        <3>1. a \in 1 .. n /\ b \in 1 .. n /\ a < b
            BY <1>1, <1>3
        <3>2. r[i] = list[a] /\ r[j] = list[b]
            BY <1>3
        <3> QED BY <3>1, <3>2
    <2> QED BY <2>1 DEF Sorted, n
<1> QED BY <1>2, <1>3, <1>4, <1>5

LEMMA PutIn ==
    ASSUME NEW v, Shaped(v), NEW m \in Markets, NEW s \in Sides,
           NEW list \in Seq(Nat), Elems(list) \subseteq Side(v, m, s), Sorted(v, list),
           NEW x \in Side(v, m, s) \ Elems(list)
    PROVE  LET behind == {k \in 1 .. Len(list) : Ahead(v.orders, x, list[k])}
               place  == IF behind = {} THEN Len(list) + 1
                         ELSE CHOOSE k \in behind : \A l \in behind : k <= l
               r      == InsertAt(list, place, x)
           IN  r \in Seq(Nat) /\ Elems(r) = Elems(list) \cup {x} /\ Sorted(v, r)
<1> DEFINE n == Len(list)
           behind == {k \in 1 .. Len(list) : Ahead(v.orders, x, list[k])}
           place == IF behind = {} THEN Len(list) + 1
                    ELSE CHOOSE k \in behind : \A l \in behind : k <= l
           r == InsertAt(list, place, x)
<1>1. n \in Nat /\ x \in Nat /\ \A k \in 1 .. n : list[k] \in Side(v, m, s) /\ list[k] # x
    BY ElemsAre DEF Side, IdsOf
<1>2. \A k \in 1 .. n : k \in behind <=> Ahead(v.orders, x, list[k])
    OBVIOUS
<1>3. place \in 1 .. n + 1 /\ (place \in 1 .. n => place \in behind)
      /\ \A k \in 1 .. n : k < place => k \notin behind
    <2>1. CASE behind = {}
        BY <2>1, <1>1
    <2>2. CASE behind # {}
        <3>1. behind \in SUBSET Nat /\ behind \subseteq 1 .. n
            OBVIOUS
        <3>2. \E k \in behind : \A l \in behind : k <= l
            <4> HIDE DEF behind
            <4> QED BY <2>2, <3>1, Least
        <3>3. place = CHOOSE k \in behind : \A l \in behind : k <= l
            BY <2>2
        <3> HIDE DEF behind, place
        <3>4. place \in behind /\ \A l \in behind : place <= l
            BY <3>2, <3>3
        <3> QED BY <3>1, <3>4, <1>1
    <2> QED BY <2>1, <2>2
<1> HIDE DEF behind, place
<1>4. /\ r \in Seq(Nat) /\ Len(r) = n + 1
      /\ \A j \in 1 .. n + 1 :
           r[j] = IF j < place THEN list[j] ELSE IF j = place THEN x ELSE list[j - 1]
    <2>1. place \in 1 .. Len(list) + 1
        BY <1>3
    <2>2. /\ InsertAt(list, place, x) \in Seq(Nat)
          /\ Len(InsertAt(list, place, x)) = Len(list) + 1
          /\ \A j \in 1 .. Len(list) + 1 :
               InsertAt(list, place, x)[j] =
                 IF j < place THEN list[j] ELSE IF j = place THEN x ELSE list[j - 1]
        BY <2>1, <1>1, InsertedIds
    <2> QED BY <2>2
<1> HIDE DEF r
<1>5. Elems(r) = Elems(list) \cup {x}
    <2>1. ASSUME NEW y \in Elems(r)
          PROVE  y \in Elems(list) \cup {x}
        <3>1. PICK j \in 1 .. n + 1 : y = r[j]
            BY <1>4 DEF Elems
        <3>2. y = x \/ \E k \in 1 .. n : y = list[k]
            <4>1. CASE j < place
                <5>1. j \in 1 .. n
                    BY <4>1, <1>1, <1>3
                <5> QED BY <5>1, <4>1, <3>1, <1>4
            <4>2. CASE j = place
                BY <4>2, <3>1, <1>3, <1>4
            <4>3. CASE j > place
                <5>1. j - 1 \in 1 .. n /\ ~(j < place) /\ j # place
                    BY <4>3, <1>1, <1>3
                <5> QED BY <5>1, <3>1, <1>4
            <4> QED BY <4>1, <4>2, <4>3, <1>3
        <3> QED BY <3>2 DEF Elems
    <2>2. ASSUME NEW y \in Elems(list)
          PROVE  y \in Elems(r)
        <3>1. PICK k \in 1 .. n : y = list[k]
            BY DEF Elems
        <3>2. \E j \in 1 .. n + 1 : r[j] = y
            <4>1. CASE k < place
                <5>1. k \in 1 .. n + 1
                    BY <1>1
                <5> QED BY <5>1, <4>1, <3>1, <1>4
            <4>2. CASE ~(k < place)
                <5>1. k + 1 \in 1 .. n + 1 /\ ~(k + 1 < place) /\ k + 1 # place /\ k + 1 - 1 = k
                    BY <4>2, <1>1, <1>3
                <5> QED BY SMTT(60), <5>1, <3>1, <1>4
            <4> QED BY <4>1, <4>2
        <3> QED BY <3>2, <1>4 DEF Elems
    <2>3. x \in Elems(r)
        <3>1. place \in 1 .. n + 1 /\ r[place] = x
            BY <1>1, <1>3, <1>4
        <3> QED BY <3>1, <1>4 DEF Elems
    <2> QED BY <2>1, <2>2, <2>3
<1>6. \A k \in 1 .. n : IF k < place THEN Ahead(v.orders, list[k], x) ELSE Ahead(v.orders, x, list[k])
    <2> SUFFICES ASSUME NEW k \in 1 .. n
                 PROVE  IF k < place THEN Ahead(v.orders, list[k], x)
                        ELSE Ahead(v.orders, x, list[k])
        OBVIOUS
    <2>1. CASE k < place
        <3>1. ~Ahead(v.orders, x, list[k])
            BY <2>1, <1>2, <1>3
        <3> QED BY <2>1, <3>1, <1>1, AheadIsAnOrder
    <2>2. CASE ~(k < place)
        <3>1. place \in 1 .. n /\ Ahead(v.orders, x, list[place])
            BY <2>2, <1>1, <1>2, <1>3
        <3>2. CASE k = place
            BY <3>1, <3>2, <2>2
        <3>3. CASE k # place
            <4>1. place < k
                BY <3>1, <3>3, <2>2, <1>1
            <4>2. Ahead(v.orders, list[place], list[k])
                BY <4>1, <3>1 DEF Sorted, n
            <4> QED BY <4>2, <3>1, <2>2, <1>1, AheadIsAnOrder
        <3> QED BY <3>2, <3>3
    <2> QED BY <2>1, <2>2
<1>7. Sorted(v, r)
    <2> SUFFICES ASSUME NEW i \in 1 .. n + 1, NEW j \in 1 .. n + 1, i < j
                 PROVE  Ahead(v.orders, r[i], r[j])
        BY <1>4 DEF Sorted
    <2>1. CASE i = place
        <3>1. j - 1 \in 1 .. n /\ ~(j < place) /\ j # place /\ ~(j - 1 < place)
            BY <2>1, <1>1, <1>3
        <3>2. r[i] = x /\ r[j] = list[j - 1]
            BY <2>1, <3>1, <1>3, <1>4
        <3> QED BY <3>1, <3>2, <1>6
    <2>2. CASE j = place
        <3>1. i \in 1 .. n /\ i < place
            BY <2>2, <1>1, <1>3
        <3>2. r[j] = x /\ r[i] = list[i]
            BY <2>2, <3>1, <1>3, <1>4
        <3> QED BY <3>1, <3>2, <1>6
    <2>3. CASE i # place /\ j # place
        <3> DEFINE a == IF i < place THEN i ELSE i - 1
                   b == IF j < place THEN j ELSE j - 1
        <3>1. a \in 1 .. n /\ b \in 1 .. n /\ a < b
            BY <2>3, <1>1, <1>3
        <3>2. r[i] = list[a] /\ r[j] = list[b]
            BY <2>3, <1>4
        <3> HIDE DEF a, b
        <3> QED BY <3>1, <3>2 DEF Sorted, n
    <2> QED BY <2>1, <2>2, <2>3
<1> QED BY <1>4, <1>5, <1>7 DEF r, place, behind

\* A book is replaced by one that has, in order, the orders that should be there.
Rebooked(v, id, b) ==
    [v EXCEPT !.books[v.orders[id].params.market][v.orders[id].params.side] = b]

Fits(v, id, b, out, back) ==
    /\ id \in IdsOf(v) /\ v.orders[id].status = "Open" /\ out \ {id} = back \ {id}
    /\ b \in Seq(Nat) /\ Sorted(v, b)
    /\ Elems(b) = RestingIn(v, v.orders[id].params.market, v.orders[id].params.side, back)

LEMMA BookSet ==
    ASSUME NEW v, NEW id, NEW b, NEW out, NEW back, Sound(v, out), Fits(v, id, b, out, back)
    PROVE  Sound(Rebooked(v, id, b), back) /\ Rebooked(v, id, b).orders = v.orders
<1> DEFINE m == v.orders[id].params.market
           s == v.orders[id].params.side
           w == Rebooked(v, id, b)
<1>0. /\ id \in IdsOf(v) /\ v.orders[id].status = "Open" /\ out \ {id} = back \ {id}
      /\ b \in Seq(Nat) /\ Sorted(v, b) /\ Elems(b) = RestingIn(v, m, s, back)
    BY Zenon DEF Fits
<1>1. Shaped(v) /\ m \in Markets /\ s \in Sides
    BY <1>0, OrderIs DEF Sound, Sides, Buy, Sell
<1> HIDE DEF m, s
<1>2. /\ DOMAIN w = DOMAIN v /\ w.orders = v.orders /\ w.pending = v.pending
      /\ w.openIds = v.openIds /\ w.openCount = v.openCount
      /\ w.books = [v.books EXCEPT ![m][s] = b]
    <2>1. w = [v EXCEPT !.books[m][s] = b]
        BY DEF Rebooked, m, s
    <2> HIDE DEF w
    <2> QED BY <2>1, <1>1 DEF Shaped
<1> HIDE DEF w
<1>3. v.books \in [Markets -> [Sides -> Seq(Nat)]]
    BY <1>1 DEF Shaped
<1>4. /\ w.books \in [Markets -> [Sides -> Seq(Nat)]] /\ w.books[m][s] = b
      /\ \A r \in Markets, d \in Sides : r # m \/ d # s => w.books[r][d] = v.books[r][d]
    BY <1>0, <1>1, <1>2, <1>3
<1>5. Shaped(w)
    BY <1>1, <1>2, <1>4 DEF Shaped
<1>6. IdsOf(w) = IdsOf(v)
    BY <1>2 DEF IdsOf
<1>7. Slots(w) /\ NamesUnique(w)
    BY <1>2, <1>6 DEF Sound, Slots, NamesUnique, LiveIn
<1>8. Waits(w, back)
    <2>1. \A r \in Markets : WaitingIn(w, r, back) = WaitingIn(v, r, out)
        BY <1>0, <1>2, <1>6 DEF WaitingIn
    <2> QED BY <2>1, <1>2 DEF Sound, Waits
<1>9. Rests(w, back)
    <2> SUFFICES ASSUME NEW r \in Markets, NEW d \in Sides
                 PROVE  /\ Elems(w.books[r][d]) = RestingIn(w, r, d, back)
                        /\ Sorted(w, w.books[r][d])
        BY DEF Rests
    <2>1. RestingIn(w, r, d, back) = RestingIn(v, r, d, back)
        BY <1>2, <1>6 DEF RestingIn
    <2>2. CASE r = m /\ d = s
        <3>1. Sorted(w, b)
            BY <1>0, <1>2 DEF Sorted
        <3> QED BY <3>1, <2>1, <2>2, <1>0, <1>4
    <2>3. CASE r # m \/ d # s
        <3>1. RestingIn(v, r, d, back) = RestingIn(v, r, d, out)
            BY <2>3, <1>0 DEF RestingIn, m, s
        <3>2. Elems(v.books[r][d]) = RestingIn(v, r, d, out) /\ Sorted(v, v.books[r][d])
            BY DEF Sound, Rests
        <3>3. Sorted(w, v.books[r][d])
            BY <3>2, <1>2 DEF Sorted
        <3> QED BY <3>1, <3>2, <3>3, <2>1, <2>3, <1>4
    <2> QED BY <2>2, <2>3
<1> QED BY <1>2, <1>5, <1>7, <1>8, <1>9 DEF Sound, w, m, s

LEMMA BookIs ==
    ASSUME NEW v, NEW out, Sound(v, out), NEW m \in Markets, NEW s \in Sides
    PROVE  /\ v.books[m][s] \in Seq(Nat) /\ Elems(v.books[m][s]) = RestingIn(v, m, s, out)
           /\ Sorted(v, v.books[m][s]) /\ RestingIn(v, m, s, out) \subseteq Side(v, m, s)
           /\ Distinct(v.books[m][s])
<1>1. /\ v.books[m][s] \in Seq(Nat) /\ Elems(v.books[m][s]) = RestingIn(v, m, s, out)
      /\ Sorted(v, v.books[m][s]) /\ Shaped(v)
    BY DEF Sound, Rests, Shaped
<1>2. RestingIn(v, m, s, out) \subseteq Side(v, m, s)
    BY DEF RestingIn, Side
<1> QED BY <1>1, <1>2, SortedDistinct

LEMMA UnrestKeeps ==
    ASSUME NEW v, NEW out, Sound(v, out), NEW id \in IdsOf(v) \ out, v.orders[id].status = "Open"
    PROVE  /\ Sound(Unrest(v, id), out \cup {id}) /\ Unrest(v, id).orders = v.orders
           /\ Shrinks(v, Unrest(v, id))
<1> DEFINE m == v.orders[id].params.market
           s == v.orders[id].params.side
           b == TakeOut(v.books[m][s], id)
<1>1. m \in Markets /\ s \in Sides /\ Shaped(v)
    BY OrderIs DEF Sound, Sides, Buy, Sell
<1>2. /\ v.books[m][s] \in Seq(Nat) /\ Elems(v.books[m][s]) = RestingIn(v, m, s, out)
      /\ Sorted(v, v.books[m][s]) /\ Distinct(v.books[m][s])
    BY <1>1, BookIs
<1>3. id \in Elems(v.books[m][s])
    BY <1>2 DEF RestingIn
<1>4. b \in Seq(Nat) /\ Elems(b) = Elems(v.books[m][s]) \ {id} /\ Sorted(v, b)
    BY <1>2, <1>3, TakenOut
<1>5. RestingIn(v, m, s, out \cup {id}) = RestingIn(v, m, s, out) \ {id}
    BY DEF RestingIn
<1>6. Unrest(v, id) = Rebooked(v, id, b)
    BY DEF Unrest, Rebooked
<1> HIDE DEF b
<1>7. out \ {id} = (out \cup {id}) \ {id}
    OBVIOUS
<1>8. Elems(b) = RestingIn(v, m, s, out \cup {id})
    BY <1>2, <1>4, <1>5
<1>9. Sound(Rebooked(v, id, b), out \cup {id}) /\ Rebooked(v, id, b).orders = v.orders
    <2> DEFINE back == out \cup {id}
    <2>1. /\ b \in Seq(Nat) /\ Sorted(v, b) /\ out \ {id} = back \ {id}
          /\ Elems(b) = RestingIn(v, v.orders[id].params.market, v.orders[id].params.side, back)
        BY Zenon, <1>4, <1>7, <1>8
    <2> HIDE DEF back, m, s
    <2>2. Fits(v, id, b, out, back)
        BY Zenon, <2>1 DEF Fits
    <2>3. Sound(Rebooked(v, id, b), back) /\ Rebooked(v, id, b).orders = v.orders
        BY <2>2, BookSet
    <2> QED BY Zenon, <2>3 DEF back
<1>10. Shrinks(v, Unrest(v, id))
    <2> DEFINE w == Unrest(v, id)
    <2>1. Sound(w, out \cup {id}) /\ w.orders = v.orders
        BY <1>6, <1>9
    <2> HIDE DEF w, m, s
    <2>2. \A r \in Markets, d \in Sides : Elems(w.books[r][d]) = RestingIn(w, r, d, out \cup {id})
        BY <2>1 DEF Sound, Rests
    <2>3. \A r \in Markets, d \in Sides : Elems(v.books[r][d]) = RestingIn(v, r, d, out)
        BY DEF Sound, Rests
    <2>4. \A r \in Markets, d \in Sides : RestingIn(w, r, d, out \cup {id}) \subseteq RestingIn(v, r, d, out)
        BY <2>1 DEF RestingIn, IdsOf
    <2>5. Shrinks(v, w)
        BY <2>1, <2>2, <2>3, <2>4 DEF Shrinks, IdsOf
    <2> QED BY <2>5 DEF w
<1> QED BY <1>6, <1>9, <1>10

LEMMA RestKeeps ==
    ASSUME NEW v, NEW out, Sound(v, out), NEW id \in IdsOf(v), id \in out, v.orders[id].status = "Open"
    PROVE  Sound(Rest(v, id), out \ {id}) /\ Rest(v, id).orders = v.orders
<1> DEFINE m == v.orders[id].params.market
           s == v.orders[id].params.side
           list == v.books[m][s]
           behind == {k \in 1 .. Len(list) : Ahead(v.orders, id, list[k])}
           place == IF behind = {} THEN Len(list) + 1
                    ELSE CHOOSE k \in behind : \A l \in behind : k <= l
           b == InsertAt(list, place, id)
<1>1. m \in Markets /\ s \in Sides /\ Shaped(v) /\ id \in Side(v, m, s)
    BY OrderIs DEF Sound, Sides, Buy, Sell, Side
<1>2. /\ list \in Seq(Nat) /\ Elems(list) = RestingIn(v, m, s, out)
      /\ Sorted(v, list) /\ Elems(list) \subseteq Side(v, m, s)
    BY <1>1, BookIs
<1>3. id \notin Elems(list)
    BY <1>2 DEF RestingIn
<1>4. b \in Seq(Nat) /\ Elems(b) = Elems(list) \cup {id} /\ Sorted(v, b)
    <2> HIDE DEF list, m, s
    <2> QED BY <1>1, <1>2, <1>3, PutIn
<1>5. RestingIn(v, m, s, out \ {id}) = RestingIn(v, m, s, out) \cup {id}
    BY DEF RestingIn
<1>6. Rest(v, id) = Rebooked(v, id, b)
    BY DEF Rest, Rebooked
<1> HIDE DEF b, place, behind
<1>7. out \ {id} = (out \ {id}) \ {id}
    OBVIOUS
<1>8. Elems(b) = RestingIn(v, m, s, out \ {id})
    BY <1>2, <1>4, <1>5
<1> HIDE DEF list
<1>9. Sound(Rebooked(v, id, b), out \ {id}) /\ Rebooked(v, id, b).orders = v.orders
    <2> DEFINE back == out \ {id}
    <2>1. Fits(v, id, b, out, back)
        BY Zenon, <1>4, <1>7, <1>8 DEF Fits
    <2> HIDE DEF back
    <2>2. Sound(Rebooked(v, id, b), back) /\ Rebooked(v, id, b).orders = v.orders
        BY <2>1, BookSet
    <2> QED BY Zenon, <2>2 DEF back
<1> QED BY <1>6, <1>9

\* A live order that is in no book and no list becomes Open.
LEMMA ReopenedKeeps ==
    ASSUME NEW v, NEW out, Sound(v, out), NEW id \in IdsOf(v), id \in out, LiveIn(v, id)
    PROVE  LET w == [v EXCEPT !.orders[id].status = "Open"]
           IN  /\ Sound(w, out) /\ IdsOf(w) = IdsOf(v) /\ w.orders[id].status = "Open"
               /\ w.orders[id].params = v.orders[id].params /\ OnlyAt(v, w, {id})
               /\ Shrinks(v, w)
<1> DEFINE w == [v EXCEPT !.orders[id].status = "Open"]
<1>1. Shaped(v) /\ "Open" \in Statuses
    BY DEF Sound, Statuses
<1>2. /\ DOMAIN w = DOMAIN v /\ w.orders = Restated(v.orders, id, "Open")
      /\ w.books = v.books /\ w.openIds = v.openIds /\ w.openCount = v.openCount
      /\ w.pending = v.pending
    BY <1>1 DEF Shaped, Restated
<1> HIDE DEF w
<1>3. /\ w.orders \in Seq(OrderForms) /\ Len(w.orders) = Len(v.orders)
      /\ \A k \in IdsOf(v) :
           /\ w.orders[k].owner = v.orders[k].owner /\ w.orders[k].params = v.orders[k].params
           /\ w.orders[k].status = IF k = id THEN "Open" ELSE v.orders[k].status
           /\ k # id => w.orders[k] = v.orders[k]
    BY <1>1, <1>2, StatusSet
<1>4. IdsOf(w) = IdsOf(v) /\ \A k \in IdsOf(v) : LiveIn(w, k) <=> LiveIn(v, k)
    BY <1>3 DEF IdsOf, LiveIn
<1>5. Shaped(w)
    BY <1>1, <1>2, <1>3 DEF Shaped
<1>6. Slots(w)
    BY <1>2, <1>3, <1>4 DEF Sound, Slots
<1>7. Waits(w, out)
    <2>1. \A m \in Markets : WaitingIn(w, m, out) = WaitingIn(v, m, out)
        BY <1>3, <1>4 DEF WaitingIn
    <2> QED BY <2>1, <1>2 DEF Sound, Waits
<1>8. Rests(w, out)
    <2>1. \A m \in Markets, s \in Sides : RestingIn(w, m, s, out) = RestingIn(v, m, s, out)
        BY <1>3, <1>4 DEF RestingIn
    <2>2. \A m \in Markets, s \in Sides : Sorted(w, v.books[m][s])
        BY <1>3, <1>4, RestsAlike DEF Sound
    <2> QED BY <2>1, <2>2, <1>2 DEF Sound, Rests
<1>9. NamesUnique(w)
    BY SMTT(60), <1>3, <1>4 DEF Sound, NamesUnique
<1>10. OnlyAt(v, w, {id})
    BY <1>3 DEF OnlyAt
<1>11. Shrinks(v, w)
    BY <1>2, <1>3, <1>4 DEF Shrinks
<1> QED BY <1>3, <1>4, <1>5, <1>6, <1>7, <1>8, <1>9, <1>10, <1>11 DEF Sound, w

\* Cancelled by its owner, or with all of the owner's orders.
LEMMA WithdrawnKeeps ==
    ASSUME NEW v, Sound(v, {}), NEW id \in IdsOf(v), LiveIn(v, id)
    PROVE  /\ Sound(Withdrawn(v, id), {}) /\ OnlyAt(v, Withdrawn(v, id), {id})
           /\ Shrinks(v, Withdrawn(v, id))
           /\ Withdrawn(v, id).openIds = [v.openIds EXCEPT ![v.orders[id].owner] =
                                             SwapRemove(v.openIds[v.orders[id].owner], id)]
<1> DEFINE u == IF v.orders[id].status = "Pending" THEN Unpend(v, id) ELSE Unrest(v, id)
<1>1. Sound(u, {} \cup {id}) /\ u.orders = v.orders /\ Shrinks(v, u)
    <2>1. CASE v.orders[id].status = "Pending"
        <3>1. /\ Sound(Unpend(v, id), {} \cup {id}) /\ Unpend(v, id).orders = v.orders
              /\ Shrinks(v, Unpend(v, id))
            BY <2>1, UnpendKeeps
        <3> QED BY <3>1, <2>1
    <2>2. CASE v.orders[id].status # "Pending"
        <3>1. v.orders[id].status = "Open"
            BY <2>2 DEF LiveIn
        <3>2. /\ Sound(Unrest(v, id), {} \cup {id}) /\ Unrest(v, id).orders = v.orders
              /\ Shrinks(v, Unrest(v, id))
            BY <3>1, UnrestKeeps
        <3> QED BY <3>2, <2>2
    <2> QED BY <2>1, <2>2
<1>2. Withdrawn(v, id) = Untrack([u EXCEPT !.orders[id].status = "Cancelled"], id)
    BY DEF Withdrawn, Cancel
<1>6. u.openIds = v.openIds
    BY DEF Unpend, Unrest, Sound, Shaped
<1> HIDE DEF u
<1>3. Sound(u, {id}) /\ id \in IdsOf(u) /\ LiveIn(u, id)
    <2>1. {} \cup {id} = {id}
        OBVIOUS
    <2> QED BY <2>1, <1>1 DEF IdsOf, LiveIn
<1>4. LET w == Untrack([u EXCEPT !.orders[id].status = "Cancelled"], id)
      IN  Sound(w, {id} \ {id}) /\ OnlyAt(u, w, {id}) /\ Shrinks(u, w)
          /\ w.openIds = [u.openIds EXCEPT ![u.orders[id].owner] =
                             SwapRemove(u.openIds[u.orders[id].owner], id)]
    BY <1>3, EndedKeeps
<1>5. {id} \ {id} = {}
    OBVIOUS
<1> QED BY <1>1, <1>2, <1>4, <1>5, <1>6, ShrinksOn DEF OnlyAt, IdsOf

\* The maker of a fill that leaves nothing of it.
LEMMA MakerFilled ==
    ASSUME NEW v, NEW taker, Sound(v, {taker}), NEW id \in IdsOf(v) \ {taker},
           v.orders[id].status = "Open"
    PROVE  LET w == FinishFilled(Unrest(v, id), id)
           IN  /\ Sound(w, {taker}) /\ IdsOf(w) = IdsOf(v)
               /\ OnlyAt(v, w, {id}) /\ Shrinks(v, w)
<1> DEFINE u == Unrest(v, id)
<1>1. Sound(u, {taker} \cup {id}) /\ u.orders = v.orders /\ Shrinks(v, u)
    BY UnrestKeeps
<1>2. FinishFilled(u, id) = Untrack([u EXCEPT !.orders[id].status = "Filled"], id)
    BY DEF FinishFilled
<1> HIDE DEF u
<1>3. id \in IdsOf(u) /\ LiveIn(u, id) /\ IdsOf(u) = IdsOf(v) /\ id \in {taker} \cup {id}
    BY <1>1 DEF IdsOf, LiveIn
<1>4. LET w == Untrack([u EXCEPT !.orders[id].status = "Filled"], id)
      IN  /\ Sound(w, ({taker} \cup {id}) \ {id}) /\ IdsOf(w) = IdsOf(u)
          /\ OnlyAt(u, w, {id}) /\ Shrinks(u, w)
    BY ZenonT(60), <1>1, <1>3, EndedKeeps
<1>5. ({taker} \cup {id}) \ {id} = {taker}
    OBVIOUS
<1> QED BY <1>1, <1>2, <1>3, <1>4, <1>5, ShrinksOn DEF u, OnlyAt

\* A new order: it has a slot and an id that no other live order of its owner has.
New(t, p, st) == [owner |-> t, params |-> p, filled |-> 0, status |-> st]

LEMMA PlacedKeeps ==
    ASSUME NEW v, Sound(v, {}), NEW t \in Traders, NEW p \in Params, NEW st \in {"Pending", "Open"},
           v.openCount[t] < MaxOpenOrders,
           \A k \in IdsOf(v) : LiveIn(v, k) /\ v.orders[k].owner = t /\ p.user # 0 =>
                                   v.orders[k].params.user # p.user
    PROVE  LET id == Len(v.orders) + 1
               w  == Track([v EXCEPT !.orders = Append(@, New(t, p, st))], id)
           IN  /\ Sound(w, {id}) /\ id \in IdsOf(w) /\ w.orders[id] = New(t, p, st)
               /\ OnlyAt(v, w, {}) /\ Shrinks(v, w)
<1> DEFINE id == Len(v.orders) + 1
           o == New(t, p, st)
           u == [v EXCEPT !.orders = Append(@, o)]
           w == Track(u, id)
           ids == v.openIds[t]
<1>1. /\ Shaped(v) /\ v.orders \in Seq(OrderForms) /\ Len(v.orders) \in Nat /\ id \in Nat
      /\ IdsOf(v) = 1 .. Len(v.orders) /\ id \notin IdsOf(v)
    BY DEF Sound, Shaped, IdsOf
<1>2. o \in OrderForms /\ o.owner = t /\ o.params = p /\ o.status = st
    <2>1. p.size \in Nat /\ 0 <= p.size
        BY DEF Params
    <2>2. o \in [owner : Traders, params : Params, filled : Int, status : Statuses]
        BY DEF New, Statuses
    <2>3. o.owner = t /\ o.params = p /\ o.status = st /\ o.filled = 0
        BY DEF New
    <2> HIDE DEF o
    <2> QED BY <2>1, <2>2, <2>3 DEF OrderForms
<1>3. /\ DOMAIN u = DOMAIN v /\ u.orders = Append(v.orders, o)
      /\ u.books = v.books /\ u.openIds = v.openIds /\ u.openCount = v.openCount
      /\ u.pending = v.pending
    BY <1>1 DEF Shaped
<1> HIDE DEF o, u
<1>4. /\ u.orders \in Seq(OrderForms) /\ Len(u.orders) = id /\ u.orders[id] = o
      /\ \A k \in IdsOf(v) : u.orders[k] = v.orders[k]
    BY <1>1, <1>2, <1>3
<1>5. /\ DOMAIN w = DOMAIN v /\ w.orders = u.orders /\ w.books = v.books /\ w.pending = v.pending
      /\ w.openIds = [v.openIds EXCEPT ![t] = Append(ids, id)]
      /\ w.openCount = [v.openCount EXCEPT ![t] = v.openCount[t] + 1]
    <2>1. w = [u EXCEPT !.openIds[t] = Append(@, id), !.openCount[t] = @ + 1]
        BY <1>2, <1>4 DEF Track
    <2> HIDE DEF w, id
    <2> QED BY <2>1, <1>1, <1>3 DEF Shaped
<1>6. /\ ids \in Seq(Nat) /\ Distinct(ids) /\ v.openCount[t] = Len(ids)
      /\ v.openCount[t] \in Nat /\ v.openCount[t] + 1 <= MaxOpenOrders
      /\ Elems(ids) = {k \in IdsOf(v) : LiveIn(v, k) /\ v.orders[k].owner = t}
    BY <1>1, OrdersAssumption DEF Sound, Slots, Shaped
<1> HIDE DEF w, ids
<1>7. id \notin Elems(ids)
    BY <1>1, <1>6
<1>8. /\ Append(ids, id) \in Seq(Nat) /\ Len(Append(ids, id)) = Len(ids) + 1
      /\ Elems(Append(ids, id)) = Elems(ids) \cup {id} /\ Distinct(Append(ids, id))
    <2> HIDE DEF id
    <2> QED BY <1>1, <1>6, <1>7, AppendIds
<1>9. IdsOf(w) = IdsOf(v) \cup {id}
    BY <1>1, <1>4, <1>5 DEF IdsOf
<1> HIDE DEF id
<1>10. LiveIn(w, id) /\ \A k \in IdsOf(v) : LiveIn(w, k) <=> LiveIn(v, k)
    BY <1>2, <1>4, <1>5 DEF LiveIn
<1>11. Shaped(w)
    <2>1. w.openIds \in [Traders -> Seq(Nat)] /\ w.openCount \in [Traders -> Nat]
        BY <1>1, <1>5, <1>6, <1>8 DEF Shaped
    <2> QED BY <2>1, <1>1, <1>4, <1>5 DEF Shaped
<1>12. Slots(w)
    <2> SUFFICES ASSUME NEW r \in Traders
                 PROVE  /\ Elems(w.openIds[r]) = {k \in IdsOf(w) : LiveIn(w, k) /\ w.orders[k].owner = r}
                        /\ Distinct(w.openIds[r])
                        /\ w.openCount[r] = Len(w.openIds[r]) /\ w.openCount[r] <= MaxOpenOrders
        BY DEF Slots
    <2>1. CASE r = t
        <3>1. w.openIds[r] = Append(ids, id) /\ w.openCount[r] = v.openCount[t] + 1
            BY <2>1, <1>1, <1>5 DEF Shaped
        <3>2. {k \in IdsOf(w) : LiveIn(w, k) /\ w.orders[k].owner = r} = Elems(ids) \cup {id}
            BY <2>1, <1>2, <1>4, <1>5, <1>6, <1>9, <1>10
        <3>3. w.openCount[r] = Len(w.openIds[r]) /\ w.openCount[r] <= MaxOpenOrders
            BY <3>1, <1>6, <1>8
        <3> QED BY <3>1, <3>2, <3>3, <1>8
    <2>2. CASE r # t
        <3>1. w.openIds[r] = v.openIds[r] /\ w.openCount[r] = v.openCount[r]
            BY <2>2, <1>1, <1>5 DEF Shaped
        <3>2. {k \in IdsOf(w) : LiveIn(w, k) /\ w.orders[k].owner = r}
                = {k \in IdsOf(v) : LiveIn(v, k) /\ v.orders[k].owner = r}
            BY <2>2, <1>2, <1>4, <1>5, <1>9, <1>10
        <3> QED BY <3>1, <3>2 DEF Sound, Slots
    <2> QED BY <2>1, <2>2
<1>13. Waits(w, {id})
    <2>1. \A m \in Markets : WaitingIn(w, m, {id}) = WaitingIn(v, m, {})
        BY <1>1, <1>4, <1>5, <1>9 DEF WaitingIn
    <2> QED BY <2>1, <1>5 DEF Sound, Waits
<1>14. Rests(w, {id})
    <2>1. \A m \in Markets, s \in Sides : RestingIn(w, m, s, {id}) = RestingIn(v, m, s, {})
        BY <1>1, <1>4, <1>5, <1>9 DEF RestingIn
    <2>2. \A k \in IdsOf(v) : w.orders[k].params = v.orders[k].params
        BY <1>4, <1>5
    <2>3. \A m \in Markets, s \in Sides : Sorted(w, v.books[m][s])
        BY <1>1, <1>9, <2>2, RestsAlike DEF Sound
    <2> QED BY ZenonT(60), <2>1, <2>3, <1>5 DEF Sound, Rests
<1>15. NamesUnique(w)
    <2> SUFFICES ASSUME NEW i \in IdsOf(w), NEW j \in IdsOf(w), i # j, LiveIn(w, i), LiveIn(w, j),
                        w.orders[i].owner = w.orders[j].owner, w.orders[i].params.user # 0
                 PROVE  w.orders[i].params.user # w.orders[j].params.user
        BY DEF NamesUnique
    <2>1. CASE i # id /\ j # id
        BY <2>1, <1>4, <1>5, <1>9, <1>10 DEF Sound, NamesUnique
    <2>2. CASE i = id
        BY <2>2, <1>2, <1>4, <1>5, <1>9, <1>10
    <2>3. CASE j = id
        BY <2>3, <1>2, <1>4, <1>5, <1>9, <1>10
    <2> QED BY <2>1, <2>2, <2>3
<1>16. OnlyAt(v, w, {})
    BY <1>4, <1>5 DEF OnlyAt
<1>17. Shrinks(v, w)
    BY <1>4, <1>5, <1>9 DEF Shrinks
<1> QED BY <1>4, <1>5, <1>9, <1>11, <1>12, <1>13, <1>14, <1>15, <1>16, <1>17 DEF Sound, w, u, id, o

\* An order that waits for its price joins the list of its market.
LEMMA PendedKeeps ==
    ASSUME NEW v, NEW out, Sound(v, out), NEW id \in IdsOf(v), id \in out,
           v.orders[id].status = "Pending"
    PROVE  Sound([v EXCEPT !.pending[v.orders[id].params.market] = Append(@, id)], out \ {id})
<1> DEFINE m == v.orders[id].params.market
           ids == v.pending[m]
           w == [v EXCEPT !.pending[m] = Append(@, id)]
<1>1. Shaped(v) /\ m \in Markets /\ id \in Nat
    BY OrderIs DEF Sound
<1>2. /\ DOMAIN w = DOMAIN v /\ w.orders = v.orders /\ w.books = v.books
      /\ w.openIds = v.openIds /\ w.openCount = v.openCount
      /\ w.pending = [v.pending EXCEPT ![m] = Append(ids, id)]
    BY <1>1 DEF Shaped
<1>3. ids \in Seq(Nat) /\ Distinct(ids) /\ Elems(ids) = WaitingIn(v, m, out) /\ id \notin Elems(ids)
    BY <1>1 DEF Sound, Waits, WaitingIn, Shaped
<1>4. /\ Append(ids, id) \in Seq(Nat) /\ Elems(Append(ids, id)) = Elems(ids) \cup {id}
      /\ Distinct(Append(ids, id))
    BY <1>1, <1>3, AppendIds
<1> HIDE DEF w, ids
<1>5. Shaped(w)
    <2>1. w.pending \in [Markets -> Seq(Nat)]
        BY <1>1, <1>2, <1>4 DEF Shaped
    <2> QED BY <2>1, <1>1, <1>2 DEF Shaped
<1>6. Waits(w, out \ {id})
    <2> SUFFICES ASSUME NEW r \in Markets
                 PROVE  Elems(w.pending[r]) = WaitingIn(w, r, out \ {id}) /\ Distinct(w.pending[r])
        BY DEF Waits
    <2>1. CASE r = m
        <3>1. w.pending[r] = Append(ids, id)
            BY <2>1, <1>1, <1>2 DEF Shaped
        <3>2. WaitingIn(w, r, out \ {id}) = WaitingIn(v, m, out) \cup {id}
            BY <2>1, <1>2 DEF WaitingIn, IdsOf
        <3> QED BY <3>1, <3>2, <1>3, <1>4
    <2>2. CASE r # m
        <3>1. w.pending[r] = v.pending[r]
            BY <2>2, <1>1, <1>2 DEF Shaped
        <3>2. WaitingIn(w, r, out \ {id}) = WaitingIn(v, r, out)
            BY <2>2, <1>2 DEF WaitingIn, IdsOf
        <3> QED BY <3>1, <3>2 DEF Sound, Waits
    <2> QED BY <2>1, <2>2
<1>7. Rests(w, out \ {id})
    <2>1. \A r \in Markets, s \in Sides : RestingIn(w, r, s, out \ {id}) = RestingIn(v, r, s, out)
        BY <1>2 DEF RestingIn, IdsOf
    <2> QED BY <2>1, <1>2 DEF Sound, Rests, Sorted
<1>8. Slots(w) /\ NamesUnique(w)
    BY <1>2 DEF Sound, Slots, NamesUnique, LiveIn, IdsOf
<1> QED BY <1>5, <1>6, <1>7, <1>8 DEF Sound, w

-----------------------------------------------------------------------------
(* The inductive invariant: between the steps of a sweep the order being   *)
(* executed is the only live one in no book and on no list.                *)

Sweep(c, v) ==
    /\ c.op = "sweep" /\ DOMAIN c = {"op", "id", "before", "backstopLeft", "tape"}
    /\ c.id \in IdsOf(v) /\ v.orders[c.id].status = "Open"
    /\ c.backstopLeft \in Int
    /\ Sound(v, {c.id}) /\ Sound(c.before, {})

CancelsAll(c, v) ==
    /\ c.op = "cancelAll" /\ {"op", "owner", "i"} \subseteq DOMAIN c
    /\ c.owner \in Traders /\ c.i \in Nat \ {0}
    /\ Sound(v, {})

Kept(c, v) == \/ c = Idle /\ Sound(v, {})
              \/ Sweep(c, v)
              \/ CancelsAll(c, v)

IInv == Kept(call, venue)

LEMMA IdleIs ==
    ASSUME IInv
    PROVE  /\ call = Idle => Sound(venue, {})
           /\ call.op = "sweep" => Sweep(call, venue)
           /\ call.op = "cancelAll" => CancelsAll(call, venue)
BY DEF IInv, Kept, Idle, Sweep, CancelsAll

\* The first order of the book a taker meets: it rests, and is another order.
LEMMA FirstOf ==
    ASSUME NEW v, NEW id \in IdsOf(v), Sound(v, {id}),
           v.books[v.orders[id].params.market][-v.orders[id].params.side] # <<>>
    PROVE  LET maker == v.books[v.orders[id].params.market][-v.orders[id].params.side][1]
           IN  maker \in IdsOf(v) \ {id} /\ maker # 0 /\ v.orders[maker].status = "Open"
<1> DEFINE m == v.orders[id].params.market
           s == -v.orders[id].params.side
           book == v.books[m][s]
<1>1. m \in Markets /\ s \in Sides
    <2>1. Shaped(v)
        BY DEF Sound
    <2>2. m \in Markets /\ v.orders[id].params.side \in {1, -1}
        BY <2>1, OrderIs
    <2> QED BY <2>2 DEF Sides, Buy, Sell
<1> HIDE DEF m, s
<1>2. book \in Seq(Nat) /\ Elems(book) = RestingIn(v, m, s, {id})
    BY <1>1, BookIs
<1>3. book # <<>>
    BY DEF m, s
<1>4. book[1] \in Elems(book)
    <2> HIDE DEF book
    <2>1. 1 \in 1 .. Len(book)
        BY <1>2, <1>3
    <2> QED BY <2>1, <1>2, ElemsAre
<1>5. book[1] \in IdsOf(v) \ {id} /\ v.orders[book[1]].status = "Open"
    BY <1>2, <1>4 DEF RestingIn
<1>6. book[1] # 0
    BY <1>5 DEF IdsOf
<1> QED BY <1>5, <1>6 DEF m, s

\* Filled and cancelled orders are as they were.
Spared(v, w) == \A k \in IdsOf(v) : ~LiveIn(v, k) => w.orders[k] = v.orders[k]

LEMMA InitKept == Init => IInv
<1> SUFFICES ASSUME Init
             PROVE  Sound(venue, {}) /\ call = Idle
    BY DEF IInv, Kept
<1>1. /\ venue.orders = <<>> /\ venue.openCount = [t \in Traders |-> 0]
      /\ venue.books = [m \in Markets |-> [s \in Sides |-> <<>>]]
      /\ venue.openIds = [t \in Traders |-> <<>>] /\ venue.pending = [m \in Markets |-> <<>>]
      /\ DOMAIN venue = {"orders", "books", "openIds", "openCount", "pending", "position", "lastFill"}
      /\ call = Idle
    BY DEF Init
<1>2. /\ <<>> \in Seq(OrderForms) /\ <<>> \in Seq(Nat)
      /\ Len(<<>>) = 0 /\ 1 .. 0 = {} /\ Elems(<<>>) = {} /\ Distinct(<<>>)
    BY DEF Elems, Distinct
<1>3. IdsOf(venue) = {}
    BY <1>1, <1>2 DEF IdsOf
<1>4. Shaped(venue)
    BY <1>1, <1>2 DEF Shaped
<1>5. Slots(venue)
    BY <1>1, <1>2, <1>3, OrdersAssumption DEF Slots
<1>6. Waits(venue, {})
    BY <1>1, <1>2, <1>3 DEF Waits, WaitingIn
<1>7. Rests(venue, {})
    BY <1>1, <1>2, <1>3 DEF Rests, RestingIn, Sorted
<1>8. NamesUnique(venue)
    BY <1>3 DEF NamesUnique
<1> QED BY <1>1, <1>4, <1>5, <1>6, <1>7, <1>8 DEF Sound

\* _execute: the order is out until the sweep ends.
LEMMA ExecuteKept ==
    ASSUME NEW v, NEW id, Execute(v, id), Sound(venue, {}),
           Sound(v, {id}), id \in IdsOf(v), v.orders[id].status = "Open"
    PROVE  IInv' /\ venue' = v
<1>1. /\ venue' = v
      /\ call' = [op |-> "sweep", id |-> id, before |-> venue,
                  backstopLeft |-> BackstopMaxSize, tape |-> <<>>]
    BY DEF Execute
<1>2. Sweep(call', venue')
    BY <1>1, OrdersAssumption DEF Sweep
<1> QED BY <1>1, <1>2 DEF IInv, Kept

\* The user's own id is free of every live order of the account.
LEMMA NameFree ==
    ASSUME Sound(venue, {}), NEW t \in Traders, NEW user, UserIdFree(t, user)
    PROVE  \A k \in IdsOf(venue) : LiveIn(venue, k) /\ venue.orders[k].owner = t /\ user # 0 =>
                                       venue.orders[k].params.user # user
<1> SUFFICES ASSUME NEW k \in IdsOf(venue), LiveIn(venue, k), venue.orders[k].owner = t, user # 0
             PROVE  venue.orders[k].params.user # user
    OBVIOUS
<1>1. k \in Elems(venue.openIds[t])
    BY DEF Sound, Slots
<1>2. PICK i \in 1 .. Len(venue.openIds[t]) : k = venue.openIds[t][i]
    BY <1>1 DEF Elems
<1> QED BY <1>2 DEF UserIdFree

LEMMA PlaceOrderKept ==
    ASSUME IInv, NEW t \in Traders, NEW p \in Templates, PlaceOrder(t, p)
    PROVE  IInv' /\ Spared(venue, venue') /\ Shrinks(venue, venue')
<1> DEFINE id == Len(venue.orders) + 1
           st == IF IsTrigger(p) THEN "Pending" ELSE "Open"
           w == Track([venue EXCEPT !.orders = Append(@, New(t, p, st))], id)
<1>1. Sound(venue, {}) /\ p \in Params /\ st \in {"Pending", "Open"}
    BY IdleIs, OrdersAssumption DEF PlaceOrder
<1>2. venue.openCount[t] < MaxOpenOrders /\ UserIdFree(t, p.user)
    BY DEF PlaceOrder
<1> HIDE DEF st
<1>3. /\ Sound(w, {id}) /\ id \in IdsOf(w) /\ w.orders[id] = New(t, p, st)
      /\ OnlyAt(venue, w, {}) /\ Shrinks(venue, w)
    <2>1. \A k \in IdsOf(venue) : LiveIn(venue, k) /\ venue.orders[k].owner = t /\ p.user # 0 =>
                                      venue.orders[k].params.user # p.user
        BY <1>1, <1>2, NameFree
    <2> QED BY <2>1, <1>1, <1>2, PlacedKeeps
<1>4. IF IsTrigger(p)
      THEN venue' = [w EXCEPT !.pending[p.market] = Append(@, id)] /\ call' = Idle
      ELSE Execute(w, id)
    BY DEF PlaceOrder, New, st
<1> HIDE DEF w, id
<1>8. venue'.orders = w.orders /\ venue'.books = w.books =>
        Spared(venue, venue') /\ Shrinks(venue, venue')
    BY <1>3 DEF Spared, OnlyAt, Shrinks, IdsOf
<1>5. w.orders[id].status = st /\ w.orders[id].params = p
    BY <1>3 DEF New
<1>6. CASE IsTrigger(p)
    <2>1. Sound([w EXCEPT !.pending[w.orders[id].params.market] = Append(@, id)], {id} \ {id})
        BY <1>3, <1>5, <1>6, PendedKeeps DEF st
    <2>2. {id} \ {id} = {}
        OBVIOUS
    <2>3. Sound(venue', {}) /\ call' = Idle
        BY <2>1, <2>2, <1>4, <1>5, <1>6
    <2>4. {"orders", "books", "pending"} \subseteq DOMAIN w
        BY <1>3 DEF Sound, Shaped
    <2>5. venue'.orders = w.orders /\ venue'.books = w.books
        BY <2>4, <1>4, <1>6
    <2> QED BY <2>3, <2>5, <1>8 DEF IInv, Kept
<1>7. CASE ~IsTrigger(p)
    <2>1. Execute(w, id) /\ w.orders[id].status = "Open"
        BY <1>4, <1>5, <1>7 DEF st
    <2>2. IInv' /\ venue' = w
        BY <2>1, <1>1, <1>3, ExecuteKept
    <2> QED BY <2>2, <1>8
<1> QED BY <1>6, <1>7

LEMMA TriggerOrderKept ==
    ASSUME IInv, NEW id \in 1 .. Len(venue.orders), TriggerOrder(id)
    PROVE  IInv' /\ Spared(venue, venue') /\ Shrinks(venue, venue')
<1> DEFINE u == Unpend(venue, id)
           awake == [u EXCEPT !.orders[id].status = "Open"]
<1>1. Sound(venue, {}) /\ id \in IdsOf(venue) /\ venue.orders[id].status = "Pending"
    BY IdleIs DEF TriggerOrder, IdsOf
<1>2. IF Stale(venue.orders[id]) THEN venue' = Cancel(awake, id) /\ call' = Idle
      ELSE Execute(awake, id)
    BY DEF TriggerOrder
<1> HIDE DEF awake
<1>3. /\ Sound(u, {id}) /\ u.orders = venue.orders /\ id \in IdsOf(u) /\ LiveIn(u, id)
      /\ Shrinks(venue, u)
    <2>1. id \in IdsOf(venue) \ {}
        BY <1>1
    <2>2. Sound(u, {} \cup {id}) /\ u.orders = venue.orders /\ Shrinks(venue, u)
        BY <2>1, <1>1, UnpendKeeps
    <2>3. {} \cup {id} = {id}
        OBVIOUS
    <2> HIDE DEF u
    <2> QED BY <2>2, <2>3, <1>1 DEF IdsOf, LiveIn
<1> HIDE DEF u
<1> USE DEF awake
<1>4. /\ Sound(awake, {id}) /\ id \in IdsOf(awake) /\ awake.orders[id].status = "Open"
      /\ OnlyAt(u, awake, {id}) /\ IdsOf(awake) = IdsOf(u) /\ Shrinks(u, awake)
    BY <1>3, ReopenedKeeps
<1> HIDE DEF awake
<1>7. /\ OnlyAt(venue, awake, {id}) /\ IdsOf(awake) = IdsOf(venue) /\ LiveIn(venue, id)
      /\ Shrinks(venue, awake)
    BY <1>1, <1>3, <1>4, ShrinksOn DEF OnlyAt, IdsOf, LiveIn
<1>5. CASE Stale(venue.orders[id])
    <2>1. LiveIn(awake, id)
        BY <1>4 DEF LiveIn
    <2>2. LET w == Untrack([awake EXCEPT !.orders[id].status = "Cancelled"], id)
          IN  Sound(w, {id} \ {id}) /\ OnlyAt(awake, w, {id}) /\ Shrinks(awake, w)
        BY <1>4, <2>1, EndedKeeps
    <2>3. {id} \ {id} = {}
        OBVIOUS
    <2>4. Sound(venue', {}) /\ call' = Idle /\ OnlyAt(awake, venue', {id}) /\ Shrinks(awake, venue')
        BY <2>2, <2>3, <1>2, <1>5 DEF Cancel
    <2>5. Spared(venue, venue')
        BY <2>4, <1>7 DEF Spared, OnlyAt, IdsOf
    <2> QED BY <2>4, <2>5, <1>7, ShrinksOn DEF IInv, Kept
<1>6. CASE ~Stale(venue.orders[id])
    <2>1. IInv' /\ venue' = awake
        BY <1>1, <1>2, <1>4, <1>6, ExecuteKept
    <2> QED BY <2>1, <1>7 DEF Spared, OnlyAt
<1> QED BY <1>5, <1>6

LEMMA FillFromBookKept ==
    ASSUME IInv, FillFromBook
    PROVE  IInv' /\ Spared(venue, venue') /\ Shrinks(venue, venue')
<1> DEFINE id == call.id
           maker == OppositeBook[1]
           rests == venue.orders[maker]
           qty == Lesser(Remaining(Taker), Remaining(rests))
           price == rests.params.price
           done == Traded(venue, id, maker, qty, price)
<1>1. Sweep(call, venue)
    BY IdleIs DEF FillFromBook, Sweeping
<1>2. Sound(venue, {id}) /\ id \in IdsOf(venue) /\ venue.orders[id].status = "Open"
    BY <1>1 DEF Sweep
<1>3. maker \in IdsOf(venue) \ {id} /\ maker # 0 /\ venue.orders[maker].status = "Open"
    <2>1. OppositeBook # <<>>
        BY DEF FillFromBook, BookFirst, BookOk
    <2> QED BY <2>1, <1>2, FirstOf DEF OppositeBook, Taker
<1>4. qty \in Int /\ qty <= Remaining(Taker) /\ qty <= Remaining(rests)
    <2>1. \A k \in IdsOf(venue) : Remaining(venue.orders[k]) \in Int
        <3> SUFFICES ASSUME NEW k \in IdsOf(venue)
                     PROVE  Remaining(venue.orders[k]) \in Int
            OBVIOUS
        <3>1. venue.orders[k].filled \in Int /\ venue.orders[k].params.size \in Nat
            BY <1>2, OrderIs DEF Sound
        <3> QED BY <3>1 DEF Remaining
    <2> QED BY <2>1, <1>2, <1>3 DEF Lesser, Taker
<1>5. /\ venue' = IF qty = Remaining(rests) THEN FinishFilled(Unrest(done, maker), maker) ELSE done
      /\ call' = [call EXCEPT !.tape = Append(@, [maker |-> maker, qty |-> qty, price |-> price])]
    BY DEF FillFromBook
<1> HIDE DEF maker, qty, price
<1>6. Sound(done, {id}) /\ Alike(venue, done) /\ OnlyAt(venue, done, {id, maker})
      /\ Shrinks(venue, done)
    <2>1. qty <= Remaining(venue.orders[id])
        BY <1>4 DEF Taker
    <2>2. maker \in (IdsOf(venue) \ {id}) \cup {0}
        BY <1>3
    <2> HIDE DEF id
    <2> QED BY <2>1, <2>2, <1>2, <1>4, TradedKeeps
<1> HIDE DEF done, rests
<1>7. /\ IdsOf(done) = IdsOf(venue)
      /\ done.orders[id].status = "Open" /\ done.orders[maker].status = "Open"
    BY <1>2, <1>3, <1>6 DEF Alike, IdsOf
<1>8. Sound(venue', {id}) /\ id \in IdsOf(venue') /\ venue'.orders[id].status = "Open"
      /\ OnlyAt(venue, venue', {id, maker}) /\ Shrinks(venue, venue')
    <2>1. CASE venue' = done
        BY <2>1, <1>2, <1>6, <1>7
    <2>2. CASE venue' = FinishFilled(Unrest(done, maker), maker)
        <3> HIDE DEF id
        <3>1. maker \in IdsOf(done) \ {id}
            BY <1>3, <1>7
        <3>2. LET w == FinishFilled(Unrest(done, maker), maker)
              IN  /\ Sound(w, {id}) /\ IdsOf(w) = IdsOf(done)
                  /\ OnlyAt(done, w, {maker}) /\ Shrinks(done, w)
            BY <3>1, <1>6, <1>7, MakerFilled
        <3>3. id \in IdsOf(done) \ {maker}
            BY <1>2, <1>3, <1>7
        <3> QED BY <2>2, <3>2, <3>3, <1>6, <1>7, ShrinksOn DEF OnlyAt
    <2> QED BY <2>1, <2>2, <1>5
<1>9. Sweep(call', venue')
    <2>1. /\ DOMAIN call' = DOMAIN call /\ call'.op = call.op /\ call'.id = call.id
          /\ call'.before = call.before /\ call'.backstopLeft = call.backstopLeft
        BY <1>1, <1>5 DEF Sweep
    <2> QED BY <2>1, <1>1, <1>8 DEF Sweep
<1>10. Spared(venue, venue')
    BY <1>2, <1>3, <1>8 DEF Spared, OnlyAt, LiveIn
<1> QED BY <1>8, <1>9, <1>10 DEF IInv, Kept

\* Undone: the venue of before the call.
LEMMA SelfTradeKept ==
    ASSUME IInv, SelfTrade
    PROVE  IInv' /\ venue' = call.before
<1>1. Sweep(call, venue) /\ venue' = call.before /\ call' = Idle
    BY IdleIs DEF SelfTrade, Sweeping
<1> QED BY <1>1 DEF IInv, Kept, Sweep

LEMMA FillFromBackstopKept ==
    ASSUME IInv, FillFromBackstop
    PROVE  IInv' /\ Spared(venue, venue') /\ Shrinks(venue, venue')
<1> DEFINE id == call.id
           qty == Lesser(Remaining(Taker), call.backstopLeft)
           price == BackPrice(Taker.params.market, Taker.params.side)
           done == Traded(venue, id, 0, qty, price)
<1>1. Sweep(call, venue)
    BY IdleIs DEF FillFromBackstop, Sweeping
<1>2. /\ Sound(venue, {id}) /\ id \in IdsOf(venue) /\ venue.orders[id].status = "Open"
      /\ call.backstopLeft \in Int
    BY <1>1 DEF Sweep
<1>3. qty \in Int /\ qty <= Remaining(venue.orders[id])
    <2>1. Taker.filled \in Int /\ Taker.params.size \in Nat
        BY <1>2, OrderIs DEF Sound, Taker
    <2> QED BY <2>1, <1>2 DEF Lesser, Remaining, Taker
<1>4. /\ venue' = done
      /\ call' = [call EXCEPT !.backstopLeft = @ - qty,
                              !.tape = Append(@, [maker |-> 0, qty |-> qty, price |-> price])]
    BY DEF FillFromBackstop
<1> HIDE DEF qty, price
<1>5. Sound(done, {id}) /\ Alike(venue, done) /\ OnlyAt(venue, done, {id, 0})
      /\ Shrinks(venue, done)
    <2> HIDE DEF id
    <2>1. 0 \in (IdsOf(venue) \ {id}) \cup {0}
        OBVIOUS
    <2> QED BY <2>1, <1>2, <1>3, TradedKeeps
<1> HIDE DEF done
<1>6. id \in IdsOf(done) /\ done.orders[id].status = "Open"
    BY <1>2, <1>5 DEF Alike, IdsOf
<1>7. Sweep(call', venue')
    <2>1. /\ DOMAIN call' = DOMAIN call /\ call'.op = call.op /\ call'.id = call.id
          /\ call'.before = call.before /\ call'.backstopLeft = call.backstopLeft - qty
        BY <1>1, <1>4 DEF Sweep
    <2>2. call.backstopLeft - qty \in Int
        BY <1>2, <1>3
    <2> QED BY <2>1, <2>2, <1>1, <1>4, <1>5, <1>6 DEF Sweep
<1>8. Spared(venue, venue')
    <2>1. 0 \notin IdsOf(venue)
        BY DEF IdsOf
    <2> QED BY <2>1, <1>2, <1>4, <1>5 DEF Spared, OnlyAt, LiveIn
<1> QED BY <1>4, <1>5, <1>7, <1>8 DEF IInv, Kept

LEMMA EndSweepKept ==
    ASSUME IInv, EndSweep
    PROVE  /\ IInv' /\ Spared(venue, venue')
           /\ \/ Shrinks(venue, venue')
              \/ /\ venue' = Rest(venue, call.id)
                 /\ Remaining(Taker) # 0 /\ IsLimit(Taker.params)
<1> DEFINE id == call.id
<1>1. Sweep(call, venue)
    BY IdleIs DEF EndSweep
<1>2. /\ Sound(venue, {id}) /\ id \in IdsOf(venue) /\ venue.orders[id].status = "Open"
      /\ LiveIn(venue, id) /\ id \in {id} /\ {id} \ {id} = {}
    BY <1>1 DEF Sweep, LiveIn
<1>3. /\ \/ venue' = FinishFilled(venue, id)
         \/ venue' = Rest(venue, id) /\ Remaining(Taker) # 0 /\ IsLimit(Taker.params)
         \/ venue' = Cancel(venue, id)
      /\ call' = Idle
    BY DEF EndSweep
<1> HIDE DEF id
<1>4. /\ Sound(FinishFilled(venue, id), {id} \ {id}) /\ OnlyAt(venue, FinishFilled(venue, id), {id})
      /\ Shrinks(venue, FinishFilled(venue, id))
    <2>1. LET w == Untrack([venue EXCEPT !.orders[id].status = "Filled"], id)
          IN  Sound(w, {id} \ {id}) /\ OnlyAt(venue, w, {id}) /\ Shrinks(venue, w)
        BY <1>2, EndedKeeps
    <2> QED BY <2>1 DEF FinishFilled
<1>5. /\ Sound(Cancel(venue, id), {id} \ {id}) /\ OnlyAt(venue, Cancel(venue, id), {id})
      /\ Shrinks(venue, Cancel(venue, id))
    <2>1. LET w == Untrack([venue EXCEPT !.orders[id].status = "Cancelled"], id)
          IN  Sound(w, {id} \ {id}) /\ OnlyAt(venue, w, {id}) /\ Shrinks(venue, w)
        BY <1>2, EndedKeeps
    <2> QED BY <2>1 DEF Cancel
<1>6. Sound(Rest(venue, id), {id} \ {id}) /\ OnlyAt(venue, Rest(venue, id), {id})
    BY <1>2, RestKeeps DEF OnlyAt
<1>7. Sound(venue', {}) /\ OnlyAt(venue, venue', {id})
    BY <1>2, <1>3, <1>4, <1>5, <1>6
<1>8. Spared(venue, venue')
    BY <1>2, <1>7 DEF Spared, OnlyAt
<1> QED BY <1>3, <1>4, <1>5, <1>7, <1>8 DEF id, IInv, Kept

LEMMA CancelOrderKept ==
    ASSUME IInv, NEW id \in 1 .. Len(venue.orders), CancelOrder(id)
    PROVE  IInv' /\ Spared(venue, venue') /\ Shrinks(venue, venue')
<1>1. /\ Sound(venue, {}) /\ id \in IdsOf(venue) /\ LiveIn(venue, id)
      /\ venue' = Withdrawn(venue, id) /\ call' = Idle
    BY IdleIs DEF CancelOrder, IdsOf, LiveIn
<1>2. Sound(venue', {}) /\ OnlyAt(venue, venue', {id}) /\ Shrinks(venue, venue')
    BY <1>1, WithdrawnKeeps
<1>3. Spared(venue, venue')
    BY <1>1, <1>2 DEF Spared, OnlyAt
<1> QED BY <1>1, <1>2, <1>3 DEF IInv, Kept

LEMMA CancelNextKept ==
    ASSUME IInv, CancelNext
    PROVE  IInv' /\ Spared(venue, venue') /\ Shrinks(venue, venue')
<1> DEFINE ids == venue.openIds[call.owner]
           id == ids[call.i]
           hit == venue.orders[id].params.market \in call.scope
<1>1. CancelsAll(call, venue) /\ call.i <= Len(ids)
    BY IdleIs DEF CancelNext
<1>2. Sound(venue, {}) /\ call.owner \in Traders /\ call.i \in Nat \ {0}
    BY <1>1 DEF CancelsAll
<1>3. id \in IdsOf(venue) /\ LiveIn(venue, id)
    <2>1. /\ ids \in Seq(Nat)
          /\ Elems(ids) = {k \in IdsOf(venue) : LiveIn(venue, k) /\ venue.orders[k].owner = call.owner}
        BY <1>2 DEF Sound, Slots, Shaped
    <2>2. id \in Elems(ids)
        <3> HIDE DEF ids
        <3>1. call.i \in 1 .. Len(ids)
            BY <1>1, <1>2, <2>1
        <3> QED BY <3>1, <2>1, ElemsAre
    <2> QED BY <2>1, <2>2
<1>4. /\ venue' = IF hit THEN Withdrawn(venue, id) ELSE venue
      /\ call' = [call EXCEPT !.i = NextPlace(@, hit)]
    BY DEF CancelNext
<1> HIDE DEF id, hit
<1>5. Sound(venue', {}) /\ Spared(venue, venue') /\ Shrinks(venue, venue')
    <2>1. /\ Sound(Withdrawn(venue, id), {}) /\ OnlyAt(venue, Withdrawn(venue, id), {id})
          /\ Shrinks(venue, Withdrawn(venue, id))
        BY <1>2, <1>3, WithdrawnKeeps
    <2>2. Spared(venue, Withdrawn(venue, id)) /\ Spared(venue, venue) /\ Shrinks(venue, venue)
        BY <2>1, <1>3 DEF Spared, OnlyAt, Shrinks
    <2> QED BY <2>1, <2>2, <1>2, <1>4
<1>6. CancelsAll(call', venue')
    <2>1. /\ DOMAIN call' = DOMAIN call /\ call'.op = call.op /\ call'.owner = call.owner
          /\ call'.i = NextPlace(call.i, hit)
        BY <1>1, <1>4 DEF CancelsAll
    <2>2. NextPlace(call.i, hit) \in Nat \ {0}
        BY <1>2 DEF NextPlace
    <2> QED BY <2>1, <2>2, <1>1, <1>2, <1>5 DEF CancelsAll
<1> QED BY <1>5, <1>6 DEF IInv, Kept

\* Sizes and last prices are no part of the bookkeeping.
LEMMA ForcedCloseKept ==
    ASSUME IInv, NEW t \in Traders, NEW m \in Markets, ForcedClose(t, m)
    PROVE  IInv' /\ Spared(venue, venue') /\ Shrinks(venue, venue')
<1>1. Sound(venue, {}) /\ call' = Idle
    BY IdleIs DEF ForcedClose, Move
<1>2. Shaped(venue)
    BY <1>1 DEF Sound
<1>3. PICK size, price : venue' = [venue EXCEPT !.position[t][m] = size, !.lastFill[m] = price]
    BY DEF ForcedClose
<1>4. /\ DOMAIN venue' = DOMAIN venue /\ venue'.orders = venue.orders /\ venue'.books = venue.books
      /\ venue'.openIds = venue.openIds /\ venue'.openCount = venue.openCount
      /\ venue'.pending = venue.pending
    BY <1>2, <1>3 DEF Shaped
<1>5. Shaped(venue') /\ Alike(venue, venue')
    BY <1>2, <1>4 DEF Shaped, Alike
<1>6. Sound(venue', {})
    BY <1>1, <1>4, <1>5, FillsKeep
<1>7. Spared(venue, venue') /\ Shrinks(venue, venue')
    BY <1>4 DEF Spared, Shrinks, IdsOf
<1> QED BY <1>1, <1>6, <1>7 DEF IInv, Kept

\* Only a call that is undone changes an order that was filled or cancelled.
LEMMA StepKept ==
    ASSUME IInv, [Next]_vars
    PROVE  IInv' /\ (Spared(venue, venue') \/ (call.op = "sweep" /\ venue' = call.before))
<1> DEFINE Goal == /\ IInv'
                   /\ Spared(venue, venue') \/ (call.op = "sweep" /\ venue' = call.before)
<1>1. ASSUME NEW t \in Traders, NEW p \in Templates, PlaceOrder(t, p)
      PROVE  Goal
    BY <1>1, PlaceOrderKept
<1>2. ASSUME NEW id \in 1 .. Len(venue.orders), TriggerOrder(id)
      PROVE  Goal
    BY <1>2, TriggerOrderKept
<1>3. ASSUME NEW id \in 1 .. Len(venue.orders), CancelOrder(id)
      PROVE  Goal
    BY <1>3, CancelOrderKept
<1>0. venue' = venue => Spared(venue, venue')
    BY DEF Spared
<1>4. ASSUME NEW t \in Traders, NEW scope, CancelAll(t, scope)
      PROVE  Goal
    <2>1. /\ Sound(venue, {}) /\ venue' = venue
          /\ call' = [op |-> "cancelAll", owner |-> t, scope |-> scope, i |-> 1]
        BY <1>4, IdleIs DEF CancelAll
    <2>2. CancelsAll(call', venue')
        BY <2>1 DEF CancelsAll
    <2> QED BY <2>1, <2>2, <1>0 DEF IInv, Kept
<1>5. CASE CallStep
    <2>1. CASE EndCancelAll
        <3>1. Sound(venue, {}) /\ venue' = venue /\ call' = Idle
            BY <2>1, IdleIs DEF EndCancelAll, CancelsAll
        <3> QED BY <3>1, <1>0 DEF IInv, Kept
    <2>2. CASE SelfTrade
        <3>1. IInv' /\ venue' = call.before /\ call.op = "sweep"
            BY <2>2, SelfTradeKept DEF SelfTrade, Sweeping
        <3> QED BY <3>1
    <2> QED BY <1>5, <2>1, <2>2, FillFromBookKept, FillFromBackstopKept, EndSweepKept,
               CancelNextKept DEF CallStep
<1>6. CASE Environment
    <2>1. ASSUME NEW t \in Traders, NEW m \in Markets, ForcedClose(t, m)
          PROVE  Goal
        BY <2>1, ForcedCloseKept
    <2>2. CASE UNCHANGED <<venue, call>>
        BY <2>2, <1>0 DEF IInv
    <2> QED BY <1>6, <2>1, <2>2
            DEF Environment, Move, MoveIndex, SetStatus, SetPaused, BackstopBalance
<1>7. CASE UNCHANGED vars
    BY <1>7, <1>0 DEF IInv, vars
<1> QED BY <1>1, <1>2, <1>3, <1>4, <1>5, <1>6, <1>7 DEF Next, UserStep

LEMMA AlwaysKept == Spec => []IInv
BY InitKept, StepKept, PTL DEF Spec

-----------------------------------------------------------------------------
(* What it gives. *)

LEMMA KeptIsSound == IInv => \/ Sound(venue, {})
                             \/ /\ Sound(venue, {call.id}) /\ call # Idle
                                /\ venue.orders[call.id].status = "Open"
BY DEF IInv, Kept, Sweep, CancelsAll, Idle

(***************************************************************************)
(* SlotsExact: between calls the ids an account has open, and the counter  *)
(* that limits them, are exactly its orders that wait or rest.             *)
(***************************************************************************)
THEOREM SlotsAreLiveOrders == Spec => []SlotsExact
<1>1. IInv => SlotsExact
    <2> SUFFICES ASSUME IInv, call = Idle
                 PROVE  SlotsExact
        BY DEF SlotsExact
    <2>1. Slots(venue)
        BY IdleIs DEF Sound
    <2> QED BY <2>1 DEF SlotsExact, Slots, Elems, Distinct, Ids, IdsOf, Live, LiveIn
<1> QED BY <1>1, AlwaysKept, PTL

(***************************************************************************)
(* PendingExact: a keeper finds on the lists of the markets exactly the    *)
(* orders that wait for their price, also in the middle of a sweep.        *)
(***************************************************************************)
THEOREM PendingAreWaiting == Spec => []PendingExact
<1>1. IInv => PendingExact
    <2> SUFFICES ASSUME IInv, NEW m \in Markets
                 PROVE  /\ Elems(venue.pending[m]) =
                             {id \in Ids : /\ venue.orders[id].status = "Pending"
                                           /\ venue.orders[id].params.market = m}
                        /\ Distinct(venue.pending[m])
        BY DEF PendingExact, Elems, Distinct
    <2>1. CASE Sound(venue, {})
        <3>1. Elems(venue.pending[m]) = WaitingIn(venue, m, {}) /\ Distinct(venue.pending[m])
            BY <2>1 DEF Sound, Waits
        <3> QED BY <3>1 DEF WaitingIn, Ids, IdsOf
    <2>2. CASE Sound(venue, {call.id}) /\ venue.orders[call.id].status = "Open"
        <3>1. Elems(venue.pending[m]) = WaitingIn(venue, m, {call.id}) /\ Distinct(venue.pending[m])
            BY <2>2 DEF Sound, Waits
        <3> QED BY <3>1, <2>2 DEF WaitingIn, Ids, IdsOf
    <2> QED BY <2>1, <2>2, KeptIsSound
<1> QED BY <1>1, AlwaysKept, PTL

(***************************************************************************)
(* BooksExact: between calls every order that is Open is in its book, and  *)
(* nothing else is, and each book is in price-time order.                  *)
(***************************************************************************)
THEOREM BooksAreOpenOrders == Spec => []BooksExact
<1>1. IInv => BooksExact
    <2> SUFFICES ASSUME IInv, call = Idle
                 PROVE  BooksExact
        BY DEF BooksExact
    <2>1. Rests(venue, {})
        BY IdleIs DEF Sound
    <2> QED BY <2>1 DEF BooksExact, Rests, RestingIn, Sorted, Elems, Ids, IdsOf
<1> QED BY <1>1, AlwaysKept, PTL

(***************************************************************************)
(* UserIdsUnique: no two live orders of an account have the same id of the *)
(* user's, at any time.                                                    *)
(***************************************************************************)
THEOREM UserIdsNeverShared == Spec => []UserIdsUnique
<1>1. IInv => UserIdsUnique
    <2> SUFFICES ASSUME IInv
                 PROVE  UserIdsUnique
        OBVIOUS
    <2>1. NamesUnique(venue)
        BY KeptIsSound DEF Sound
    <2> QED BY <2>1 DEF UserIdsUnique, NamesUnique, Ids, IdsOf, Live, LiveIn
<1> QED BY <1>1, AlwaysKept, PTL

(***************************************************************************)
(* TerminalIsFinal: an order that was filled or cancelled is never filled, *)
(* reopened or changed again, except by the undoing of the call that       *)
(* filled or cancelled it.                                                 *)
(***************************************************************************)
THEOREM EndedStaysEnded == Spec => TerminalIsFinal
<1>1. ASSUME IInv, [Next]_vars
      PROVE  [\A id \in Ids :
                 venue.orders[id].status \in {"Filled", "Cancelled"}
                   /\ ~(call.op = "sweep" /\ venue' = call.before) =>
                     venue'.orders[id] = venue.orders[id]]_vars
    <2>1. Spared(venue, venue') \/ (call.op = "sweep" /\ venue' = call.before)
        BY <1>1, StepKept
    <2> QED BY <2>1 DEF Spared, Ids, IdsOf, LiveIn
<1> QED BY <1>1, AlwaysKept, PTL DEF Spec, TerminalIsFinal

-----------------------------------------------------------------------------
(* The books never cross: what rests was offered to the other side first.  *)

Apart(v) ==
    \A m \in Markets :
        \A i \in Elems(v.books[m][Buy]), j \in Elems(v.books[m][Sell]) :
            v.orders[i].params.price < v.orders[j].params.price

\* With fewer orders in the books they stay apart.
LEMMA ApartOn ==
    ASSUME NEW v, NEW w, NEW out, Sound(v, out), Apart(v), Shrinks(v, w)
    PROVE  Apart(w)
<1> SUFFICES ASSUME NEW m \in Markets,
                    NEW i \in Elems(w.books[m][Buy]), NEW j \in Elems(w.books[m][Sell])
             PROVE  w.orders[i].params.price < w.orders[j].params.price
    BY DEF Apart
<1>1. Buy \in Sides /\ Sell \in Sides
    BY DEF Sides
<1>2. i \in Elems(v.books[m][Buy]) /\ j \in Elems(v.books[m][Sell])
    BY <1>1 DEF Shrinks
<1>3. i \in IdsOf(v) /\ j \in IdsOf(v)
    <2>1. \A s \in Sides : Elems(v.books[m][s]) = RestingIn(v, m, s, out)
        BY DEF Sound, Rests
    <2> QED BY <2>1, <1>1, <1>2 DEF RestingIn
<1> QED BY <1>2, <1>3 DEF Apart, Shrinks

\* The first of a sorted book has the best price of it.
LEMMA FirstIsBest ==
    ASSUME NEW v, NEW out, Sound(v, out), NEW m \in Markets, NEW s \in Sides,
           NEW j \in Elems(v.books[m][s])
    PROVE  /\ v.books[m][s] # <<>> /\ v.books[m][s][1] \in IdsOf(v)
           /\ s * v.orders[v.books[m][s][1]].params.price >= s * v.orders[j].params.price
<1> DEFINE book == v.books[m][s]
           first == v.orders[book[1]].params
           other == v.orders[j].params
<1>1. /\ book \in Seq(Nat) /\ Elems(book) = RestingIn(v, m, s, out) /\ Sorted(v, book)
      /\ Shaped(v)
    BY BookIs DEF Sound
<1>2. PICK l \in 1 .. Len(book) : j = book[l]
    BY DEF Elems
<1>3. 1 \in 1 .. Len(book) /\ book # <<>> /\ (l = 1 \/ 1 < l)
    <2> HIDE DEF book
    <2> QED BY <1>1, <1>2
<1>4. book[1] \in RestingIn(v, m, s, out) /\ j \in RestingIn(v, m, s, out)
    <2> HIDE DEF book
    <2> QED BY <1>1, <1>2, <1>3, ElemsAre
<1>5. /\ book[1] \in IdsOf(v) /\ j \in IdsOf(v) /\ first.side = s /\ other.side = s
      /\ first.price \in Nat /\ other.price \in Nat
    <2>1. book[1] \in IdsOf(v) /\ j \in IdsOf(v) /\ first.side = s /\ other.side = s
        BY <1>4 DEF RestingIn
    <2> QED BY <2>1, <1>1, OrderIs
<1>6. s \in {1, -1}
    BY DEF Sides, Buy, Sell
<1>7. s * first.price >= s * other.price
    <2>1. \A a, b \in Nat : s * a > s * b \/ a = b => s * a >= s * b
        BY <1>6
    <2>2. CASE l = 1
        BY <2>1, <2>2, <1>2, <1>5
    <2>3. CASE 1 < l
        <3>1. Ahead(v.orders, book[1], j)
            BY <2>3, <1>1, <1>2, <1>3 DEF Sorted
        <3>2. first.side * first.price > first.side * other.price \/ first.price = other.price
            BY <3>1 DEF Ahead
        <3> HIDE DEF first, other
        <3> QED BY <3>2, <2>1, <1>5
    <2> QED BY <2>2, <2>3, <1>3
<1> QED BY <1>3, <1>5, <1>7

\* What is left of a limit order meets nothing in the opposite book.
LEMMA RestIsApart ==
    ASSUME Sweep(call, venue), EndSweep, Remaining(Taker) # 0, IsLimit(Taker.params)
    PROVE  \A j \in Elems(OppositeBook) :
               Taker.params.side * Taker.params.price
                 < Taker.params.side * venue.orders[j].params.price
<1> DEFINE id == call.id
           p == Taker.params
           m == p.market
           s == p.side
<1>1. /\ Sound(venue, {id}) /\ id \in IdsOf(venue) /\ Shaped(venue)
      /\ call.op = "sweep"
    BY DEF Sweep, Sound
<1>2. /\ m \in Markets /\ s \in {1, -1} /\ p.price \in Nat
      /\ Taker.filled \in Int /\ p.size \in Nat /\ Taker.filled <= p.size
    BY <1>1, OrderIs DEF Taker
<1>3. Remaining(Taker) > 0
    BY <1>2 DEF Remaining
<1>4. ~BookOk
    <2>1. ~BookFirst /\ ~BackOk
        BY <1>1, <1>3 DEF EndSweep, Sweeping
    <2> QED BY <2>1 DEF BookFirst
<1> SUFFICES ASSUME NEW j \in Elems(OppositeBook)
             PROVE  s * p.price < s * venue.orders[j].params.price
    OBVIOUS
<1>5. -s \in Sides /\ OppositeBook = venue.books[m][-s]
    BY <1>2 DEF Sides, Buy, Sell, OppositeBook
<1> DEFINE best == venue.orders[OppositeBook[1]].params.price
           price == venue.orders[j].params.price
<1>6. /\ OppositeBook # <<>> /\ OppositeBook[1] \in IdsOf(venue) /\ j \in IdsOf(venue)
      /\ (-s) * best >= (-s) * price
    <2>1. j \in Elems(venue.books[m][-s])
        BY <1>5
    <2>2. j \in IdsOf(venue)
        BY SMTT(60), <2>1, <1>1, <1>2, <1>5 DEF Sound, Rests, RestingIn
    <2> HIDE DEF m, s
    <2> QED BY <2>1, <2>2, <1>1, <1>2, <1>5, FirstIsBest
<1>7. best \in Nat /\ price \in Nat
    BY <1>1, <1>6, OrderIs
<1>8. ~Crosses(s, p.price, best)
    BY <1>4, <1>6 DEF BookOk, Takes
<1>9. ~(s * p.price >= s * best)
    BY <1>8 DEF Crosses
<1> HIDE DEF p, s, best, price
<1>10. \A a, b, c \in Nat : (-s) * b >= (-s) * c /\ ~(s * a >= s * b) => s * a < s * c
    <2>1. CASE s = 1
        <3>1. \A a \in Nat : s * a = a /\ (-s) * a = -a
            BY <2>1
        <3>2. \A a, b, c \in Nat : -b >= -c /\ ~(a >= b) => a < c
            OBVIOUS
        <3> QED BY <3>1, <3>2
    <2>2. CASE s = -1
        <3>1. \A a \in Nat : s * a = -a /\ (-s) * a = a
            BY <2>2
        <3>2. \A a, b, c \in Nat : b >= c /\ ~(-a >= -b) => -a < -c
            OBVIOUS
        <3> QED BY <3>1, <3>2
    <2> QED BY <2>1, <2>2, <1>2
<1>11. s * p.price < s * price
    BY <1>2, <1>6, <1>7, <1>9, <1>10
<1> QED BY <1>11 DEF p, s, price

LEMMA EndSweepApart ==
    ASSUME IInv, Apart(venue), EndSweep
    PROVE  Apart(venue')
<1> DEFINE id == call.id
           p == Taker.params
<1>1. Sweep(call, venue) /\ Sound(venue, {id}) /\ id \in IdsOf(venue) /\ Shaped(venue)
    BY IdleIs DEF EndSweep, Sweep, Sound
<1>2. CASE Shrinks(venue, venue')
    BY <1>1, <1>2, ApartOn
<1>3. CASE venue' = Rest(venue, id) /\ Remaining(Taker) # 0 /\ IsLimit(p)
    <2>1. Sound(venue', {}) /\ venue'.orders = venue.orders
        <3>1. venue.orders[id].status = "Open" /\ id \in {id} /\ {id} \ {id} = {}
            BY <1>1 DEF Sweep
        <3> HIDE DEF id
        <3>2. Sound(Rest(venue, id), {id} \ {id}) /\ Rest(venue, id).orders = venue.orders
            BY <3>1, <1>1, RestKeeps
        <3> QED BY <3>1, <3>2, <1>3
    <2>2. \A m \in Markets, s \in Sides :
            Elems(venue'.books[m][s]) \subseteq Elems(venue.books[m][s])
               \cup {k \in {id} : p.market = m /\ p.side = s}
        <3>1. \A m \in Markets, s \in Sides :
                RestingIn(venue', m, s, {}) \subseteq RestingIn(venue, m, s, {id})
                   \cup {k \in {id} : p.market = m /\ p.side = s}
            BY <2>1 DEF RestingIn, IdsOf, Taker
        <3> HIDE DEF p, id
        <3>2. \A m \in Markets, s \in Sides : Elems(venue'.books[m][s]) = RestingIn(venue', m, s, {})
            BY <2>1 DEF Sound, Rests
        <3>3. \A m \in Markets, s \in Sides : Elems(venue.books[m][s]) = RestingIn(venue, m, s, {id})
            BY <1>1 DEF Sound, Rests
        <3>4. ASSUME NEW m \in Markets, NEW s \in Sides
              PROVE  Elems(venue'.books[m][s]) \subseteq Elems(venue.books[m][s])
                        \cup {k \in {id} : p.market = m /\ p.side = s}
            <4>1. Elems(venue'.books[m][s]) = RestingIn(venue', m, s, {})
                BY <3>2
            <4>2. Elems(venue.books[m][s]) = RestingIn(venue, m, s, {id})
                BY <3>3
            <4>3. RestingIn(venue', m, s, {}) \subseteq RestingIn(venue, m, s, {id})
                     \cup {k \in {id} : p.market = m /\ p.side = s}
                BY <3>1
            <4> QED BY <4>1, <4>2, <4>3
        <3> QED BY <3>4
    <2>3. \A j \in Elems(OppositeBook) : p.side * p.price < p.side * venue.orders[j].params.price
        BY <1>1, <1>3, RestIsApart
    <2>4. /\ p.side \in {Buy, Sell} /\ p.price \in Nat /\ Buy = 1 /\ Sell = -1 /\ -Buy = Sell /\ -Sell = Buy
          /\ p = venue.orders[id].params
        <3>1. p = venue.orders[id].params
            BY DEF Taker
        <3> HIDE DEF p, id
        <3>2. p.side \in {1, -1} /\ p.price \in Nat
            BY <3>1, <1>1, OrderIs
        <3>3. Buy = 1 /\ Sell = -1
            BY DEF Buy, Sell
        <3>4. -Buy = Sell /\ -Sell = Buy
            <4>1. \A b \in Int : b + 1 = 0 => -b = 1
                OBVIOUS
            <4>2. Sell \in Int /\ Sell + 1 = 0
                BY <3>3
            <4>3. -Sell = 1
                BY <4>1, <4>2
            <4> QED BY <4>3, <3>3
        <3> QED BY <3>1, <3>2, <3>3, <3>4
    <2>5. \A m \in Markets, s \in Sides : \A j \in Elems(venue.books[m][s]) :
             venue.orders[j].params.price \in Nat
        <3> SUFFICES ASSUME NEW m \in Markets, NEW s \in Sides, NEW j \in Elems(venue.books[m][s])
                     PROVE  venue.orders[j].params.price \in Nat
            OBVIOUS
        <3>1. j \in IdsOf(venue)
            BY <1>1 DEF Sound, Rests, RestingIn
        <3> QED BY <3>1, <1>1, OrderIs
    <2> SUFFICES ASSUME NEW m \in Markets,
                        NEW i \in Elems(venue'.books[m][Buy]), NEW j \in Elems(venue'.books[m][Sell])
                 PROVE  venue.orders[i].params.price < venue.orders[j].params.price
        BY <2>1 DEF Apart
    <2>6. /\ i \in Elems(venue.books[m][Buy]) \/ (i = id /\ p.market = m /\ p.side = Buy)
          /\ j \in Elems(venue.books[m][Sell]) \/ (j = id /\ p.market = m /\ p.side = Sell)
        <3>1. Buy \in Sides /\ Sell \in Sides
            BY DEF Sides
        <3> HIDE DEF id, p
        <3> QED BY <3>1, <2>2
    <2>7. CASE i \in Elems(venue.books[m][Buy]) /\ j \in Elems(venue.books[m][Sell])
        BY <2>7 DEF Apart
    <2>8. CASE i = id /\ p.market = m /\ p.side = Buy /\ j \in Elems(venue.books[m][Sell])
        <3>1. OppositeBook = venue.books[m][Sell] /\ Sell \in Sides
            BY <2>4, <2>8 DEF OppositeBook, Sides
        <3>2. 1 * p.price < 1 * venue.orders[j].params.price
            BY <2>3, <2>4, <2>8, <3>1
        <3>3. venue.orders[j].params.price \in Nat
            BY <2>5, <2>8, <3>1
        <3> HIDE DEF p
        <3>4. p.price < venue.orders[j].params.price
            BY <3>2, <3>3, <2>4
        <3> QED BY <3>4, <2>4, <2>8
    <2>9. CASE i \in Elems(venue.books[m][Buy]) /\ j = id /\ p.market = m /\ p.side = Sell
        <3>1. OppositeBook = venue.books[m][Buy] /\ Buy \in Sides
            BY <2>4, <2>9 DEF OppositeBook, Sides
        <3>2. (-1) * p.price < (-1) * venue.orders[i].params.price
            BY <2>3, <2>4, <2>9, <3>1
        <3>3. venue.orders[i].params.price \in Nat
            BY <2>5, <2>9, <3>1
        <3> HIDE DEF p
        <3>4. venue.orders[i].params.price < p.price
            BY <3>2, <3>3, <2>4
        <3> QED BY <3>4, <2>4, <2>9
    <2>10. Buy # Sell
        BY DEF Buy, Sell
    <2> HIDE DEF p, id
    <2> QED BY <2>6, <2>7, <2>8, <2>9, <2>10
<1> QED BY <1>2, <1>3, EndSweepKept

\* A call that is undone goes back to a venue whose books were apart.
AlwaysApart == Apart(venue) /\ (call.op = "sweep" => Apart(call.before))

LEMMA StepApart ==
    ASSUME IInv, AlwaysApart, [Next]_vars
    PROVE  AlwaysApart'
<1>1. PICK out : Sound(venue, out)
    BY KeptIsSound
<1>2. Apart(venue) /\ (Shrinks(venue, venue') => Apart(venue'))
    BY <1>1, ApartOn DEF AlwaysApart
<1>3. ASSUME NEW v, NEW id, Execute(v, id), Apart(venue')
      PROVE  AlwaysApart'
    BY <1>2, <1>3 DEF Execute, AlwaysApart
<1>4. ASSUME call' = Idle, Apart(venue')
      PROVE  AlwaysApart'
    BY <1>4 DEF Idle, AlwaysApart
<1>5. ASSUME call'.op = call.op, call'.op = "sweep" => call'.before = call.before, Apart(venue')
      PROVE  AlwaysApart'
    BY <1>5 DEF AlwaysApart
<1>6. ASSUME NEW t \in Traders, NEW p \in Templates, PlaceOrder(t, p)
      PROVE  AlwaysApart'
    <2>1. Apart(venue')
        BY <1>2, <1>6, PlaceOrderKept
    <2>2. call' = Idle \/ \E v, id : Execute(v, id)
        BY <1>6 DEF PlaceOrder
    <2> QED BY <2>1, <2>2, <1>3, <1>4
<1>7. ASSUME NEW id \in 1 .. Len(venue.orders), TriggerOrder(id)
      PROVE  AlwaysApart'
    <2>1. Apart(venue')
        BY <1>2, <1>7, TriggerOrderKept
    <2>2. call' = Idle \/ \E v, k : Execute(v, k)
        BY <1>7 DEF TriggerOrder
    <2> QED BY <2>1, <2>2, <1>3, <1>4
<1>8. ASSUME NEW id \in 1 .. Len(venue.orders), CancelOrder(id)
      PROVE  AlwaysApart'
    <2>1. Apart(venue') /\ call' = call
        BY <1>2, <1>8, CancelOrderKept DEF CancelOrder
    <2> QED BY <2>1, <1>5
<1>9. ASSUME NEW t \in Traders, NEW scope, CancelAll(t, scope)
      PROVE  AlwaysApart'
    <2>1. venue' = venue /\ call'.op = "cancelAll"
        BY <1>9 DEF CancelAll
    <2> QED BY <2>1, <1>2 DEF AlwaysApart
<1>10. CASE FillFromBook
    <2>1. Sweep(call, venue) /\ Apart(venue')
        BY <1>2, <1>10, IdleIs, FillFromBookKept DEF FillFromBook, Sweeping
    <2>2. call'.op = call.op /\ call'.before = call.before
        BY <1>10, <2>1 DEF FillFromBook, Sweep
    <2> QED BY <2>1, <2>2, <1>5
<1>11. CASE FillFromBackstop
    <2>1. Sweep(call, venue) /\ Apart(venue')
        BY <1>2, <1>11, IdleIs, FillFromBackstopKept DEF FillFromBackstop, Sweeping
    <2>2. call'.op = call.op /\ call'.before = call.before
        BY <1>11, <2>1 DEF FillFromBackstop, Sweep
    <2> QED BY <2>1, <2>2, <1>5
<1>12. CASE SelfTrade
    <2>1. venue' = call.before /\ call' = Idle /\ call.op = "sweep"
        BY <1>12 DEF SelfTrade, Sweeping
    <2>2. Apart(venue')
        BY <2>1 DEF AlwaysApart
    <2> QED BY <2>1, <2>2, <1>4
<1>13. CASE EndSweep
    <2>1. Apart(venue')
        BY <1>2, <1>13, EndSweepApart
    <2>2. call' = Idle
        BY <1>13 DEF EndSweep
    <2> QED BY <2>1, <2>2, <1>4
<1>14. CASE CancelNext
    <2>1. CancelsAll(call, venue) /\ Apart(venue')
        BY <1>2, <1>14, IdleIs, CancelNextKept DEF CancelNext
    <2>2. call'.op = call.op /\ call.op = "cancelAll"
        BY <1>14, <2>1 DEF CancelNext, CancelsAll
    <2> QED BY <2>1, <2>2, <1>5
<1>15. CASE EndCancelAll
    <2>1. venue' = venue /\ call' = Idle
        BY <1>15 DEF EndCancelAll
    <2> QED BY <2>1, <1>2, <1>4
<1>16. CASE Environment
    <2>1. ASSUME NEW t \in Traders, NEW m \in Markets, ForcedClose(t, m)
          PROVE  AlwaysApart'
        <3>1. Apart(venue') /\ call' = call
            BY <1>2, <2>1, ForcedCloseKept DEF ForcedClose, Move
        <3> QED BY <3>1, <1>5
    <2>2. CASE UNCHANGED <<venue, call>>
        BY <2>2 DEF AlwaysApart
    <2> QED BY <1>16, <2>1, <2>2
            DEF Environment, Move, MoveIndex, SetStatus, SetPaused, BackstopBalance
<1>17. CASE UNCHANGED vars
    BY <1>17 DEF AlwaysApart, vars
<1> QED BY <1>6, <1>7, <1>8, <1>9, <1>10, <1>11, <1>12, <1>13, <1>14, <1>15, <1>16, <1>17
        DEF Next, UserStep, CallStep

(***************************************************************************)
(* Uncrossed: no resting bid is at or above a resting ask of its market,   *)
(* whatever triggers, cancellations and undone calls come between.         *)
(***************************************************************************)
THEOREM BooksNeverCross == Spec => []Uncrossed
<1>1. Init => AlwaysApart
    <2> SUFFICES ASSUME Init
                 PROVE  AlwaysApart
        OBVIOUS
    <2>1. venue.books = [m \in Markets |-> [s \in Sides |-> <<>>]] /\ call = Idle
        BY DEF Init
    <2>2. Elems(<<>>) = {} /\ Buy \in Sides /\ Sell \in Sides
        BY DEF Elems, Sides
    <2> QED BY <2>1, <2>2 DEF AlwaysApart, Apart, Idle
<1>2. IInv /\ AlwaysApart /\ [Next]_vars => AlwaysApart'
    BY StepApart
<1>3. AlwaysApart => Uncrossed
    BY DEF AlwaysApart, Apart, Uncrossed, Elems
<1> QED BY <1>1, <1>2, <1>3, AlwaysKept, PTL DEF Spec

-----------------------------------------------------------------------------
(* cancelAll: what its walk has passed is out of scope.                    *)

Walked ==
    call.op = "cancelAll" =>
        LET ids == venue.openIds[call.owner]
        IN  \A j \in 1 .. Len(ids) :
                j < call.i => venue.orders[ids[j]].params.market \notin call.scope

LEMMA CancelNextWalks ==
    ASSUME IInv, Walked, CancelNext
    PROVE  Walked'
<1> DEFINE t == call.owner
           ids == venue.openIds[t]
           id == ids[call.i]
           hit == venue.orders[id].params.market \in call.scope
           n == Len(ids)
<1>1. /\ CancelsAll(call, venue) /\ Sound(venue, {}) /\ Shaped(venue)
      /\ t \in Traders /\ call.i \in Nat \ {0} /\ call.i <= n
    BY IdleIs DEF CancelNext, CancelsAll, Sound
<1>2. /\ ids \in Seq(Nat) /\ Distinct(ids)
      /\ Elems(ids) = {k \in IdsOf(venue) : LiveIn(venue, k) /\ venue.orders[k].owner = t}
    BY <1>1 DEF Sound, Slots, Shaped
<1>3. call.i \in 1 .. n /\ n \in Nat /\ \A j \in 1 .. n : ids[j] \in Elems(ids)
    <2> HIDE DEF ids
    <2> QED BY <1>1, <1>2, ElemsAre
<1>4. /\ venue' = IF hit THEN Withdrawn(venue, id) ELSE venue
      /\ call' = [call EXCEPT !.i = NextPlace(@, hit)]
    BY DEF CancelNext
<1>5. /\ call'.op = "cancelAll" /\ call'.owner = t /\ call'.scope = call.scope
      /\ call'.i = NextPlace(call.i, hit)
    BY <1>1, <1>4 DEF CancelsAll
<1>6. \A j \in 1 .. n : j < call.i => venue.orders[ids[j]].params.market \notin call.scope
    BY <1>1 DEF Walked, CancelsAll
<1> HIDE DEF ids, n, t
<1>7. CASE ~hit
    <2>1. venue' = venue /\ call'.i = call.i + 1
        BY <1>4, <1>5, <1>7 DEF NextPlace
    <2>2. \A j \in 1 .. n : j < call.i + 1 => venue.orders[ids[j]].params.market \notin call.scope
        BY <1>1, <1>3, <1>6, <1>7
    <2> QED BY <2>1, <2>2, <1>5 DEF Walked, ids, n
<1>8. CASE hit
    <2>1. call'.i = call.i /\ venue' = Withdrawn(venue, id)
        BY <1>4, <1>5, <1>8 DEF NextPlace
    <2>2. id \in IdsOf(venue) /\ LiveIn(venue, id) /\ venue.orders[id].owner = t /\ id \in Elems(ids)
        BY <1>2, <1>3
    <2> HIDE DEF id, hit
    <2>3. /\ venue'.openIds = [venue.openIds EXCEPT ![t] = SwapRemove(venue.openIds[t], id)]
          /\ Shrinks(venue, venue')
        BY <2>1, <2>2, <1>1, WithdrawnKeeps
    <2>4. venue'.openIds[t] = SwapRemove(ids, id)
        BY <2>3, <1>1 DEF Shaped, ids
    <2>5. /\ Len(SwapRemove(ids, id)) = n - 1
          /\ \A j \in 1 .. n - 1 : SwapRemove(ids, id)[j] = IF j = call.i THEN ids[n] ELSE ids[j]
        <3>1. ids[call.i] = id /\ call.i \in 1 .. Len(ids)
            BY <1>3 DEF id, n
        <3>2. /\ Len(SwapRemove(ids, id)) = Len(ids) - 1
              /\ \A k \in 1 .. Len(ids) : ids[k] = id =>
                   \A j \in 1 .. Len(ids) - 1 :
                      SwapRemove(ids, id)[j] = IF j = k THEN ids[Len(ids)] ELSE ids[j]
            BY <2>2, <1>2, SwapRemoveIds
        <3> QED BY <3>1, <3>2 DEF n
    <2>6. ASSUME NEW j \in 1 .. n - 1, j < call.i
          PROVE  venue'.orders[SwapRemove(ids, id)[j]].params.market \notin call.scope
        <3>1. SwapRemove(ids, id)[j] = ids[j] /\ j \in 1 .. n
            BY <2>5, <2>6, <1>1, <1>3
        <3>2. ids[j] \in IdsOf(venue)
            BY <3>1, <1>2, <1>3
        <3>3. venue'.orders[ids[j]].params = venue.orders[ids[j]].params
            BY <3>2, <2>3 DEF Shrinks
        <3> QED BY <3>1, <3>3, <2>6, <1>6
    <2> DEFINE cut == SwapRemove(ids, id)
    <2>7. Len(cut) = n - 1 /\ venue'.openIds[t] = cut
        BY Zenon, <2>4, <2>5
    <2>8. \A j \in 1 .. n - 1 : j < call.i => venue'.orders[cut[j]].params.market \notin call.scope
        BY Zenon, <2>6
    <2> HIDE DEF cut
    <2>9. call'.owner = t /\ call'.i = call.i /\ call'.scope = call.scope
        BY Zenon, <2>1, <1>5
    <2> QED BY <2>7, <2>8, <2>9 DEF Walked
<1> QED BY <1>7, <1>8

LEMMA StepWalks ==
    ASSUME IInv, Walked, [Next]_vars
    PROVE  Walked'
<1>1. (call' = Idle \/ call'.op = "sweep") => Walked'
    BY SMTT(60) DEF Walked, Idle
<1>2. ASSUME NEW t, NEW scope, CancelAll(t, scope)
      PROVE  Walked'
    <2>1. IInv' /\ call'.op = "cancelAll" /\ call'.i = 1
        BY <1>2, StepKept DEF CancelAll
    <2>2. Walked'
        <3> SUFFICES ASSUME NEW j \in 1 .. Len(venue'.openIds[call'.owner])
                     PROVE  ~(j < 1)
            BY <2>1 DEF Walked
        <3> QED OBVIOUS
    <2> QED BY <2>2
<1>3. ASSUME NEW t \in Traders, NEW p \in Templates, PlaceOrder(t, p)
      PROVE  Walked'
    BY <1>1, <1>3 DEF PlaceOrder, Execute
<1>4. ASSUME NEW id, TriggerOrder(id)
      PROVE  Walked'
    BY <1>1, <1>4 DEF TriggerOrder, Execute
<1>5. ASSUME NEW id, CancelOrder(id)
      PROVE  Walked'
    BY <1>1, <1>5 DEF CancelOrder
<1>6. CASE CallStep
    <2>1. ASSUME FillFromBook \/ FillFromBackstop
          PROVE  call'.op = "sweep"
        <3>1. Sweep(call, venue)
            BY <2>1, IdleIs DEF FillFromBook, FillFromBackstop, Sweeping
        <3>2. call'.op = call.op
            BY <2>1, <3>1 DEF FillFromBook, FillFromBackstop, Sweep
        <3> QED BY <3>1, <3>2 DEF Sweep
    <2> QED BY <1>1, <1>6, <2>1, CancelNextWalks
            DEF CallStep, SelfTrade, EndSweep, EndCancelAll
<1>7. CASE Environment
    BY <1>1, <1>7
       DEF Environment, Move, ForcedClose, MoveIndex, SetStatus, SetPaused, BackstopBalance
<1>8. CASE UNCHANGED vars
    BY <1>8 DEF Walked, vars
<1> QED BY <1>2, <1>3, <1>4, <1>5, <1>6, <1>7, <1>8 DEF Next, UserStep

(***************************************************************************)
(* CancelAllSkipsNone: when cancelAll ends, no live order of the account   *)
(* is left in its scope, though each cancellation moved the last id of the *)
(* list it walks.                                                          *)
(***************************************************************************)
THEOREM CancelAllFindsEach == Spec => CancelAllSkipsNone
<1>1. Init => Walked
    BY DEF Init, Walked, Idle
<1>2. IInv /\ Walked /\ [Next]_vars => Walked'
    BY StepWalks
<1>3. ASSUME IInv, Walked, [Next]_vars
      PROVE  [call.op = "cancelAll" /\ call' = Idle =>
                \A id \in Ids :
                    Live(id) /\ venue.orders[id].owner = call.owner =>
                        venue.orders[id].params.market \notin call.scope]_vars
    <2> SUFFICES ASSUME call.op = "cancelAll", call' = Idle, vars' # vars,
                        NEW id \in Ids, Live(id), venue.orders[id].owner = call.owner
                 PROVE  venue.orders[id].params.market \notin call.scope
        OBVIOUS
    <2>1. CancelsAll(call, venue) /\ call # Idle /\ call.op # "sweep"
        BY <1>3, IdleIs DEF Idle
    <2>2. EndCancelAll
        <3>1. ~CancelNext
            BY <2>1 DEF CancelNext, CancelsAll, Idle
        <3> QED BY <1>3, <2>1, <3>1
                DEF Next, UserStep, CallStep, Environment, PlaceOrder, TriggerOrder, CancelOrder,
                    CancelAll, FillFromBook, SelfTrade, FillFromBackstop, EndSweep, Sweeping,
                    ForcedClose, MoveIndex, SetStatus, SetPaused, BackstopBalance, Move
    <2>3. id \in Elems(venue.openIds[call.owner])
        BY <2>1 DEF CancelsAll, Sound, Slots, Ids, IdsOf, Live, LiveIn
    <2>4. PICK j \in 1 .. Len(venue.openIds[call.owner]) : id = venue.openIds[call.owner][j]
        BY <2>3 DEF Elems
    <2>5. j < call.i
        <3>1. Len(venue.openIds[call.owner]) \in Nat
            BY <2>1 DEF CancelsAll, Sound, Shaped
        <3> QED BY <3>1, <2>1, <2>2 DEF EndCancelAll, CancelsAll
    <2> QED BY <2>4, <2>5, <1>3 DEF Walked
<1> QED BY <1>1, <1>2, <1>3, AlwaysKept, PTL DEF Spec, CancelAllSkipsNone-----------------------------------------------------------------------------
(* Positions, and what has been filled.  Between calls no waiting order is *)
(* filled in part, a fill-or-kill order was filled whole or not at all, and*)
(* only limit orders that may rest are left open; while a sweep runs this  *)
(* holds of all orders but the one that takes.                             *)

Settled(o) ==
    /\ o.status = "Pending" => o.filled = 0
    /\ o.params.tif = "FOK" => o.filled \in {0, o.params.size}
    /\ o.status = "Open" => IsLimit(o.params) /\ o.params.tif \in {"GTC", "PostOnly"}

Priced(p) == IsLimit(p) => p.price # 0

Fine(v, out) ==
    /\ v.position \in [Traders -> [Markets -> Int]]
    /\ \A k \in IdsOf(v) \ out : Settled(v.orders[k])
    /\ \A k \in IdsOf(v) : Priced(v.orders[k].params)

\* What the lists of an order are changed to leaves the orders and positions alone.
LEMMA ListsFrame ==
    ASSUME NEW v, Shaped(v), NEW id
    PROVE  /\ Untrack(v, id).orders = v.orders /\ Untrack(v, id).position = v.position
           /\ Unpend(v, id).orders = v.orders /\ Unpend(v, id).position = v.position
           /\ Unrest(v, id).orders = v.orders /\ Unrest(v, id).position = v.position
           /\ Rest(v, id).orders = v.orders /\ Rest(v, id).position = v.position
           /\ Track(v, id).orders = v.orders /\ Track(v, id).position = v.position
           /\ Untrack(v, id).books = v.books /\ Unpend(v, id).books = v.books
           /\ Track(v, id).books = v.books
<1>1. Untrack(v, id).orders = v.orders /\ Untrack(v, id).position = v.position /\ Untrack(v, id).books = v.books
    BY DEF Untrack, Shaped
<1>2. Unpend(v, id).orders = v.orders /\ Unpend(v, id).position = v.position /\ Unpend(v, id).books = v.books
    BY DEF Unpend, Shaped
<1>3. Unrest(v, id).orders = v.orders /\ Unrest(v, id).position = v.position
    BY DEF Unrest, Shaped
<1>4. Rest(v, id).orders = v.orders /\ Rest(v, id).position = v.position
    BY DEF Rest, Shaped
<1>5. Track(v, id).orders = v.orders /\ Track(v, id).position = v.position /\ Track(v, id).books = v.books
    BY DEF Track, Shaped
<1> QED BY <1>1, <1>2, <1>3, <1>4, <1>5

LEMMA StatusFrame ==
    ASSUME NEW v, Shaped(v), NEW id \in IdsOf(v), NEW st \in Statuses
    PROVE  LET w == [v EXCEPT !.orders[id].status = st]
           IN  /\ w.orders = Restated(v.orders, id, st) /\ w.position = v.position
               /\ w.books = v.books /\ Shaped(w) /\ IdsOf(w) = IdsOf(v)
               /\ \A k \in IdsOf(v) : w.orders[k].filled = v.orders[k].filled
<1> DEFINE w == [v EXCEPT !.orders[id].status = st]
<1>1. /\ DOMAIN w = DOMAIN v /\ w.orders = Restated(v.orders, id, st) /\ w.position = v.position
      /\ w.books = v.books /\ w.openIds = v.openIds /\ w.openCount = v.openCount
      /\ w.pending = v.pending
    BY DEF Shaped, Restated
<1> HIDE DEF w
<1>2. w.orders \in Seq(OrderForms) /\ Len(w.orders) = Len(v.orders)
    BY <1>1, StatusSet
<1>3. Shaped(w) /\ IdsOf(w) = IdsOf(v)
    BY <1>1, <1>2 DEF Shaped, IdsOf
<1>4. \A k \in IdsOf(v) : w.orders[k].filled = v.orders[k].filled
    <2>1. v.orders[id] \in OrderForms /\ v.orders \in Seq(OrderForms)
        BY OrderIs DEF Shaped
    <2>2. [v.orders[id] EXCEPT !.status = st].filled = v.orders[id].filled
        BY <2>1 DEF OrderForms
    <2> QED BY <1>1, <2>1, <2>2 DEF Restated, IdsOf
<1> QED BY <1>1, <1>3, <1>4 DEF w

\* An order whose status alone changes.
LEMMA RestatedIs ==
    ASSUME NEW v, Shaped(v), NEW id \in IdsOf(v), NEW st \in Statuses, NEW w,
           w.orders = Restated(v.orders, id, st)
    PROVE  /\ IdsOf(w) = IdsOf(v)
           /\ \A k \in IdsOf(v) : /\ k # id => w.orders[k] = v.orders[k]
                                  /\ w.orders[k].params = v.orders[k].params
                                  /\ w.orders[k].owner = v.orders[k].owner
                                  /\ w.orders[k].filled = v.orders[k].filled
           /\ w.orders[id].status = st
<1> DEFINE u == [v EXCEPT !.orders[id].status = st]
<1>1. u.orders = w.orders /\ \A k \in IdsOf(v) : u.orders[k].filled = v.orders[k].filled
    <2> HIDE DEF u
    <2>1. /\ u.orders = Restated(v.orders, id, st)
          /\ \A k \in IdsOf(v) : u.orders[k].filled = v.orders[k].filled
        BY StatusFrame DEF u
    <2> QED BY <2>1
<1> HIDE DEF u
<1> DEFINE new == Restated(v.orders, id, st)
<1>2. /\ Len(new) = Len(v.orders)
      /\ \A k \in IdsOf(v) :
           /\ new[k].owner = v.orders[k].owner /\ new[k].params = v.orders[k].params
           /\ new[k].status = IF k = id THEN st ELSE v.orders[k].status
           /\ k # id => new[k] = v.orders[k]
    BY StatusSet
<1> HIDE DEF new
<1>3. w.orders = new
    BY DEF new
<1> QED BY <1>1, <1>2, <1>3 DEF IdsOf

LEMMA EndedFine ==
    ASSUME NEW v, NEW out, Shaped(v), Fine(v, out), NEW id \in IdsOf(v),
           v.orders[id].params.tif = "FOK" => v.orders[id].filled \in {0, v.orders[id].params.size},
           NEW st \in {"Filled", "Cancelled"}
    PROVE  LET w == Untrack([v EXCEPT !.orders[id].status = st], id)
           IN  Fine(w, out \ {id}) /\ w.orders = Restated(v.orders, id, st) /\ w.position = v.position
<1> DEFINE u == [v EXCEPT !.orders[id].status = st]
           w == Untrack(u, id)
<1>0. st \in Statuses
    BY DEF Statuses
<1>1. u.orders = Restated(v.orders, id, st) /\ u.position = v.position /\ Shaped(u)
    BY <1>0, StatusFrame
<1> HIDE DEF u
<1>2. w.orders = Restated(v.orders, id, st) /\ w.position = v.position
    BY <1>1, ListsFrame
<1> HIDE DEF w
<1>3. /\ IdsOf(w) = IdsOf(v)
      /\ \A k \in IdsOf(v) : /\ k # id => w.orders[k] = v.orders[k]
                             /\ w.orders[k].params = v.orders[k].params
                             /\ w.orders[k].filled = v.orders[k].filled
      /\ w.orders[id].status = st
    BY <1>0, <1>1, <1>2, RestatedIs
<1>4. Settled(w.orders[id])
    BY <1>3 DEF Settled
<1>5. Fine(w, out \ {id})
    BY <1>2, <1>3, <1>4 DEF Fine
<1> QED BY <1>2, <1>5 DEF w, u

\* With the same orders and positions.
LEMMA FineSame ==
    ASSUME NEW v, NEW w, NEW out, Fine(v, out), w.orders = v.orders, w.position = v.position
    PROVE  Fine(w, out)
BY DEF Fine, IdsOf

LEMMA WithdrawnFine ==
    ASSUME NEW v, Sound(v, {}), Fine(v, {}), NEW id \in IdsOf(v), LiveIn(v, id)
    PROVE  Fine(Withdrawn(v, id), {})
<1> DEFINE u == IF v.orders[id].status = "Pending" THEN Unpend(v, id) ELSE Unrest(v, id)
<1>1. Shaped(v)
    BY DEF Sound
<1>2. u.orders = v.orders /\ u.position = v.position
    BY <1>1, ListsFrame
<1>3. Shaped(u)
    <2>1. CASE v.orders[id].status = "Pending"
        <3>1. id \in IdsOf(v) \ {}
            OBVIOUS
        <3> QED BY <2>1, <3>1, UnpendKeeps DEF Sound
    <2>2. CASE v.orders[id].status # "Pending"
        <3>1. id \in IdsOf(v) \ {} /\ v.orders[id].status = "Open"
            BY <2>2 DEF LiveIn
        <3> QED BY <2>2, <3>1, UnrestKeeps DEF Sound
    <2> QED BY <2>1, <2>2
<1>4. Withdrawn(v, id) = Untrack([u EXCEPT !.orders[id].status = "Cancelled"], id)
    BY DEF Withdrawn, Cancel
<1> HIDE DEF u
<1>5. Fine(u, {}) /\ id \in IdsOf(u)
    BY <1>2, FineSame DEF IdsOf
<1>6. u.orders[id].params.tif = "FOK" => u.orders[id].filled \in {0, u.orders[id].params.size}
    BY <1>5 DEF Fine, Settled
<1>7. LET w == Untrack([u EXCEPT !.orders[id].status = "Cancelled"], id)
      IN  Fine(w, {} \ {id}) /\ w.orders = Restated(u.orders, id, "Cancelled") /\ w.position = u.position
    BY <1>3, <1>5, <1>6, EndedFine
<1>8. {} \ {id} = {}
    OBVIOUS
<1> QED BY <1>4, <1>7, <1>8
\* The maker's order is another account's.
Parties(v, taker, maker) == maker # 0 => v.orders[maker].owner # v.orders[taker].owner

\* A fill: the taker's size and fill move together.
Charged(v, w, taker, maker, qty) ==
    LET t == v.orders[taker].owner
        p == v.orders[taker].params
    IN  /\ w.position \in [Traders -> [Markets -> Int]]
        /\ w.position[t][p.market] = v.position[t][p.market] + p.side * qty
        /\ w.books = v.books
        /\ w.orders[taker].filled = v.orders[taker].filled + qty
        /\ maker # 0 => w.orders[maker].filled = v.orders[maker].filled + qty

LEMMA TradedIs ==
    ASSUME NEW v, Shaped(v), v.position \in [Traders -> [Markets -> Int]],
           NEW taker \in IdsOf(v), NEW maker \in (IdsOf(v) \ {taker}) \cup {0},
           NEW qty \in Int, NEW price, Parties(v, taker, maker)
    PROVE  Charged(v, Traded(v, taker, maker, qty, price), taker, maker, qty)
<1> SUFFICES LET w == Traded(v, taker, maker, qty, price)
               t == v.orders[taker].owner
               p == v.orders[taker].params
           IN  /\ w.position \in [Traders -> [Markets -> Int]]
               /\ w.position[t][p.market] = v.position[t][p.market] + p.side * qty
               /\ w.books = v.books
               /\ w.orders[taker].filled = v.orders[taker].filled + qty
               /\ maker # 0 => w.orders[maker].filled = v.orders[maker].filled + qty
    BY DEF Charged
<1> DEFINE p == v.orders[taker].params
           t == v.orders[taker].owner
           m == p.market
           size == v.position[t][m] + p.side * qty
           once == [v EXCEPT !.orders[taker].filled = @ + qty,
                             !.position[t][m] = @ + p.side * qty,
                             !.lastFill[m] = price]
           u == v.orders[maker].owner
           rest == once.position[u][m] - p.side * qty
           twice == [once EXCEPT !.orders[maker].filled = @ + qty,
                                 !.position[u][m] = @ - p.side * qty]
<1>1. /\ v.orders \in Seq(OrderForms) /\ v.orders[taker] \in OrderForms /\ taker \in 1 .. Len(v.orders)
      /\ t \in Traders /\ m \in Markets /\ p.side \in {1, -1} /\ p.side * qty \in Int
    <2>1. p.side \in {1, -1}
        BY OrderIs
    <2>2. p.side * qty \in Int
        <3> HIDE DEF p
        <3> QED BY <2>1
    <2> QED BY <2>1, <2>2, OrderIs DEF Shaped, IdsOf
<1>2. /\ DOMAIN once = DOMAIN v /\ once.orders = [v.orders EXCEPT ![taker].filled = @ + qty]
      /\ once.books = v.books
      /\ once.position = [v.position EXCEPT ![t][m] = size]
    BY DEF Shaped
<1>3. /\ DOMAIN twice = DOMAIN once /\ twice.orders = [once.orders EXCEPT ![maker].filled = @ + qty]
      /\ twice.books = v.books
      /\ twice.position = [once.position EXCEPT ![u][m] = rest]
    <2> HIDE DEF once
    <2> QED BY <1>2 DEF Shaped
<1>4. Traded(v, taker, maker, qty, price) = IF maker = 0 THEN once ELSE twice
    BY DEF Traded
<1> HIDE DEF once, twice
<1>5. size \in Int
    <2>1. v.position[t][m] \in Int
        BY <1>1
    <2> HIDE DEF t, m, p
    <2> QED BY <2>1, <1>1
<1>6. /\ once.position \in [Traders -> [Markets -> Int]] /\ once.position[t][m] = size
    <2> HIDE DEF t, m, p, size
    <2> QED BY <1>1, <1>2, <1>5
<1>7. /\ once.orders[taker].filled = v.orders[taker].filled + qty
      /\ maker \in IdsOf(v) => once.orders[maker] = v.orders[maker]
      /\ maker \in IdsOf(v) => maker \in DOMAIN once.orders
    <2>1. [v.orders[taker] EXCEPT !.filled = @ + qty].filled = v.orders[taker].filled + qty
        BY <1>1 DEF OrderForms
    <2> HIDE DEF p, t, m
    <2> QED BY <2>1, <1>1, <1>2 DEF IdsOf
<1>8. CASE maker = 0
    BY <1>8, <1>2, <1>4, <1>6, <1>7
<1>9. CASE maker # 0
    <2>1. maker \in IdsOf(v) \ {taker} /\ u \in Traders /\ u # t /\ v.orders[maker] \in OrderForms
        BY <1>9, OrderIs DEF Parties
    <2>2. rest \in Int
        <3>1. once.position[u][m] \in Int
            BY <2>1, <1>1, <1>6
        <3> HIDE DEF t, m, p, u
        <3> QED BY <3>1, <1>1
    <2>3. twice.position \in [Traders -> [Markets -> Int]] /\ twice.position[t][m] = size
        <3> HIDE DEF t, m, p, u, rest, size
        <3> QED BY <1>1, <1>3, <1>6, <2>1, <2>2
    <2>4. /\ twice.orders[taker] = once.orders[taker]
          /\ twice.orders[maker].filled = v.orders[maker].filled + qty
        <3>1. [v.orders[maker] EXCEPT !.filled = @ + qty].filled = v.orders[maker].filled + qty
            BY <2>1 DEF OrderForms
        <3> HIDE DEF t, m, p, u
        <3> QED BY <3>1, <2>1, <1>3, <1>7
    <2> QED BY <1>3, <1>4, <1>7, <1>9, <2>3, <2>4
<1> QED BY <1>8, <1>9

\* A new order, before it is pended or executed.
LEMMA PlacedIs ==
    ASSUME NEW v, Sound(v, {}), NEW t \in Traders, NEW p \in Params, NEW st \in {"Pending", "Open"},
           Fine(v, {}), Priced(p)
    PROVE  LET id == Len(v.orders) + 1
               w  == Track([v EXCEPT !.orders = Append(@, New(t, p, st))], id)
           IN  w.position = v.position /\ Fine(w, {id}) /\ (st = "Pending" => Fine(w, {}))
<1> DEFINE id == Len(v.orders) + 1
           o == New(t, p, st)
           u == [v EXCEPT !.orders = Append(@, o)]
           w == Track(u, id)
<1>1. /\ v.orders \in Seq(OrderForms) /\ Len(v.orders) \in Nat /\ DOMAIN u = DOMAIN v
      /\ u.orders = Append(v.orders, o) /\ u.position = v.position
    BY DEF Sound, Shaped
<1> HIDE DEF u
<1>2. w.orders = u.orders /\ w.position = u.position
    <2>1. {"openIds", "openCount", "orders", "position"} \subseteq DOMAIN u
        BY <1>1 DEF Sound, Shaped
    <2> QED BY <2>1 DEF Track
<1> HIDE DEF w
<1>3. IdsOf(w) = IdsOf(v) \cup {id} /\ \A k \in IdsOf(v) : w.orders[k] = v.orders[k]
    <2> HIDE DEF o
    <2> QED BY <1>1, <1>2 DEF IdsOf
<1>4. w.orders[id] = o
    <2> HIDE DEF o
    <2> QED BY <1>1, <1>2
<1>5. o.params = p /\ (st = "Pending" => Settled(o))
    BY DEF New, Settled
<1> HIDE DEF o, id
<1>6. Fine(w, {id})
    BY <1>1, <1>2, <1>3, <1>4, <1>5 DEF Fine
<1>7. st = "Pending" => Fine(w, {})
    BY <1>1, <1>2, <1>3, <1>4, <1>5 DEF Fine
<1> QED BY <1>1, <1>2, <1>6, <1>7 DEF w, u, id, o

-----------------------------------------------------------------------------
(* The state of a sweep: what it has moved, what is left for it, and what  *)
(* it has passed over.                                                     *)

Fills == [maker : Nat, qty : Nat, price : Int]

MarketsOk ==
    market \in [Markets -> [status : {"Active", "Paused", "ReduceOnly", "Settling"}, index : Indexes]]

\* The taker's position is what it was, moved by what the order has taken.
Moved ==
    LET o == Taker
        before == call.before.position[o.owner][o.params.market]
    IN  /\ o.filled >= 0
        /\ venue.position[o.owner][o.params.market] = before + o.params.side * o.filled
        /\ o.params.reduceOnly => Reduces(before, o.params)

\* What an order of this owner may take from the opposite book.
Counted(v, p, owner) ==
    {k \in Elems(v.books[p.market][-p.side]) :
        v.orders[k].owner # owner /\ Takes(p, v.orders[k].params.price)}

Unfilled(v) == [k \in IdsOf(v) |-> Remaining(v.orders[k])]

\* What it may take from the backstop, of what the backstop has left for this call.
FromBackstop(p, left) ==
    LET back == BackPrice(p.market, p.side)
    IN  IF back # 0 /\ Takes(p, back) THEN left ELSE 0

\* There is still enough on the other side for a fill-or-kill order.
Enough ==
    LET p == Taker.params
    IN  p.tif = "FOK" =>
            Remaining(Taker) <= SumFunctionOnSet(Unfilled(venue), Counted(venue, p, Taker.owner))
                                  + FromBackstop(p, call.backstopLeft)

\* A post-only order has nothing to take.
Posting ==
    Taker.params.tif = "PostOnly" /\ IsLimit(Taker.params) =>
        call.tape = <<>> /\ ~BookOk /\ ~BackOk

\* Every fill so far was at least as good as what is left.
Behind ==
    /\ call.tape \in Seq(Fills)
    /\ \A i \in 1 .. Len(call.tape) :
          /\ call.tape[i].maker \in IdsOf(venue) \cup {0}
          /\ BookIsBehind(call.tape[i]) /\ BackstopIsBehind(call.tape[i])

Progress ==
    \/ call.op # "sweep" /\ Fine(venue, {})
    \/ /\ call.op = "sweep" /\ Fine(venue, {call.id}) /\ Fine(call.before, {})
       /\ Moved /\ Enough /\ Posting /\ Behind

LEMMA StepMarkets ==
    ASSUME MarketsOk, [Next]_vars
    PROVE  MarketsOk'
<1>1. market' = market => MarketsOk'
    BY DEF MarketsOk
<1>2. ASSUME NEW m \in Markets, NEW price \in Indexes, MoveIndex(m, price)
      PROVE  MarketsOk'
    BY <1>2 DEF MoveIndex, MarketsOk
<1>3. ASSUME NEW m \in Markets, NEW st \in {"Active", "Paused", "ReduceOnly", "Settling"}, SetStatus(m, st)
      PROVE  MarketsOk'
    BY <1>3 DEF SetStatus, MarketsOk
<1>4. UserStep \/ CallStep => market' = market
    BY DEF UserStep, CallStep, PlaceOrder, TriggerOrder, CancelOrder, CancelAll, FillFromBook, SelfTrade,
           FillFromBackstop, EndSweep, CancelNext, EndCancelAll
<1>5. Environment => market' = market \/ (\E m \in Markets, price \in Indexes : MoveIndex(m, price))
                       \/ (\E m \in Markets, st \in {"Active", "Paused", "ReduceOnly", "Settling"} : SetStatus(m, st))
    BY DEF Environment, ForcedClose, SetPaused, BackstopBalance
<1> QED BY <1>1, <1>2, <1>3, <1>4, <1>5 DEF Next, vars

\* A sweep's own steps move neither an index nor the backstop's balance.
LEMMA CallStepFixed == CallStep => market' = market /\ funded' = funded
BY DEF CallStep, FillFromBook, SelfTrade, FillFromBackstop, EndSweep, CancelNext, EndCancelAll
\* Outside a sweep: no position but a forced one, no fill.
LEMMA ForcedFine ==
    ASSUME Sound(venue, {}), Fine(venue, {}), NEW t \in Traders, NEW m \in Markets, ForcedClose(t, m)
    PROVE  Fine(venue', {})
<1>1. \E size \in Int : \E price :
         venue' = [venue EXCEPT !.position[t][m] = size, !.lastFill[m] = price]
    <2>1. venue.position[t][m] \in Int
        BY DEF Fine
    <2>2. Abs(venue.position[t][m]) \in Int
        BY <2>1, AbsNat
    <2>3. -Abs(venue.position[t][m]) .. Abs(venue.position[t][m]) \subseteq Int
        BY <2>2
    <2> QED BY <2>3 DEF ForcedClose
<1>0. PICK size \in Int : \E price :
         venue' = [venue EXCEPT !.position[t][m] = size, !.lastFill[m] = price]
    BY <1>1
<1>2. venue'.orders = venue.orders /\ venue'.position = [venue.position EXCEPT ![t][m] = size]
    BY <1>0 DEF Sound, Shaped
<1>3. venue'.position \in [Traders -> [Markets -> Int]]
    BY <1>2 DEF Fine
<1> QED BY <1>2, <1>3 DEF Fine, IdsOf

\* Every step that neither starts, continues nor ends a sweep.
LEMMA OutsideFine ==
    ASSUME IInv, Progress, [Next]_vars, call.op # "sweep", call'.op # "sweep"
    PROVE  Fine(venue', {})
<1>1. Fine(venue, {})
    BY DEF Progress
<1>2. venue' = venue => Fine(venue', {})
    BY <1>1
<1>0. Sound(venue, {})
    BY DEF IInv, Kept, Sweep, CancelsAll
<1>3. ASSUME NEW t \in Traders, NEW p \in Templates, PlaceOrder(t, p)
      PROVE  Fine(venue', {})
    <2> DEFINE id == Len(venue.orders) + 1
               w == Track([venue EXCEPT !.orders = Append(@, New(t, p, "Pending"))], id)
    <2> DEFINE st == IF IsTrigger(p) THEN "Pending" ELSE "Open"
               x == Track([venue EXCEPT !.orders = Append(@, New(t, p, st))], id)
    <2>4. IF IsTrigger(p) THEN venue' = [x EXCEPT !.pending[p.market] = Append(@, id)] /\ call' = Idle
          ELSE Execute(x, id)
        BY <1>3 DEF PlaceOrder, New
    <2>5. ~Execute(x, id)
        <3> HIDE DEF x
        <3> QED BY DEF Execute
    <2>6. Priced(p) /\ p \in Params
        BY <1>3, OrdersAssumption DEF PlaceOrder, Priced, InBand
    <2>7. IsTrigger(p) => x = w
        OBVIOUS
    <2> HIDE DEF w, x
    <2>1. IsTrigger(p) /\ venue' = [w EXCEPT !.pending[p.market] = Append(@, id)] /\ Priced(p) /\ p \in Params
        BY <2>4, <2>5, <2>6, <2>7
    <2> USE DEF w
    <2>2. Fine(w, {}) /\ Sound(w, {id})
        <3>1. Fine(w, {})
            BY <1>0, <1>1, <2>1, PlacedIs
        <3>2. venue.openCount[t] < MaxOpenOrders /\ UserIdFree(t, p.user)
            BY <1>3 DEF PlaceOrder
        <3>3. \A k \in IdsOf(venue) : LiveIn(venue, k) /\ venue.orders[k].owner = t /\ p.user # 0 =>
                                          venue.orders[k].params.user # p.user
            BY <1>0, <3>2, NameFree
        <3> QED BY <3>1, <3>2, <3>3, <1>0, <2>1, PlacedKeeps
    <2> HIDE DEF w, id
    <2>3. venue'.orders = w.orders /\ venue'.position = w.position
        BY <2>1, <2>2 DEF Sound, Shaped
    <2> QED BY <2>2, <2>3, FineSame
<1>4. ASSUME NEW id \in 1 .. Len(venue.orders), TriggerOrder(id)
      PROVE  Fine(venue', {})
    <2> DEFINE u == Unpend(venue, id)
               awake == [u EXCEPT !.orders[id].status = "Open"]
    <2>1. venue' = Cancel(awake, id) /\ id \in IdsOf(venue) \ {} /\ venue.orders[id].status = "Pending"
        BY <1>4 DEF TriggerOrder, Execute, IdsOf
    <2> HIDE DEF awake
    <2>2. Shaped(u) /\ u.orders = venue.orders /\ u.position = venue.position /\ Fine(u, {}) /\ id \in IdsOf(u)
        <3>1. Sound(u, {} \cup {id}) /\ u.orders = venue.orders
            BY <1>0, <2>1, UnpendKeeps
        <3>2. u.position = venue.position
            BY <1>0, ListsFrame DEF Sound
        <3> HIDE DEF u
        <3> QED BY <3>1, <3>2, <1>1, <2>1, FineSame DEF Sound, IdsOf
    <2> HIDE DEF u
    <2>3. /\ awake.orders = Restated(u.orders, id, "Open") /\ awake.position = u.position
          /\ Shaped(awake)
        <3>1. "Open" \in Statuses
            BY DEF Statuses
        <3> QED BY <3>1, <2>2, StatusFrame DEF awake
    <2>4. /\ IdsOf(awake) = IdsOf(u)
          /\ \A k \in IdsOf(u) : /\ k # id => awake.orders[k] = u.orders[k]
                                 /\ awake.orders[k].params = u.orders[k].params
                                 /\ awake.orders[k].filled = u.orders[k].filled
        <3>1. "Open" \in Statuses
            BY DEF Statuses
        <3> QED BY <3>1, <2>2, <2>3, RestatedIs
    <2>5. Fine(awake, {id}) /\ awake.orders[id].filled = 0
        BY <2>1, <2>2, <2>3, <2>4 DEF Fine, Settled
    <2>6. LET w == Untrack([awake EXCEPT !.orders[id].status = "Cancelled"], id)
          IN  Fine(w, {id} \ {id}) /\ w.orders = Restated(awake.orders, id, "Cancelled") /\ w.position = awake.position
        BY <2>2, <2>3, <2>4, <2>5, EndedFine
    <2>7. {id} \ {id} = {}
        OBVIOUS
    <2> QED BY <2>1, <2>6, <2>7 DEF Cancel
<1>5. ASSUME NEW id \in 1 .. Len(venue.orders), CancelOrder(id)
      PROVE  Fine(venue', {})
    <2>1. venue' = Withdrawn(venue, id) /\ id \in IdsOf(venue) /\ LiveIn(venue, id)
        BY <1>5 DEF CancelOrder, IdsOf, LiveIn
    <2> QED BY <2>1, <1>0, <1>1, WithdrawnFine
<1>6. ASSUME CancelNext
      PROVE  Fine(venue', {})
    <2> DEFINE ids == venue.openIds[call.owner]
               id == ids[call.i]
    <2>1. CancelsAll(call, venue) /\ call.i <= Len(ids)
        BY <1>6, IdleIs DEF CancelNext
    <2>2. call.owner \in Traders /\ call.i \in Nat \ {0}
        BY <2>1 DEF CancelsAll
    <2>3. /\ ids \in Seq(Nat)
          /\ Elems(ids) = {k \in IdsOf(venue) : LiveIn(venue, k) /\ venue.orders[k].owner = call.owner}
        BY <1>0, <2>2 DEF Sound, Slots, Shaped
    <2>4. id \in IdsOf(venue) /\ LiveIn(venue, id)
        <3> HIDE DEF ids
        <3>1. call.i \in 1 .. Len(ids)
            BY <2>1, <2>2, <2>3
        <3> QED BY <3>1, <2>3, ElemsAre
    <2>5. venue' = Withdrawn(venue, id) \/ venue' = venue
        BY <1>6 DEF CancelNext
    <2> HIDE DEF id
    <2> QED BY <2>4, <2>5, <1>0, <1>1, WithdrawnFine
<1>7. ASSUME NEW t \in Traders, NEW m \in Markets, ForcedClose(t, m)
      PROVE  Fine(venue', {})
    BY <1>0, <1>1, <1>7, ForcedFine
<1>8. CallStep => CancelNext \/ venue' = venue
    BY DEF CallStep, FillFromBook, SelfTrade, FillFromBackstop, EndSweep, EndCancelAll, Sweeping
<1>9. Environment => venue' = venue \/ \E t \in Traders, m \in Markets : ForcedClose(t, m)
    BY DEF Environment, MoveIndex, SetStatus, SetPaused, BackstopBalance
<1>10. UserStep => \/ venue' = venue
                   \/ \E t \in Traders, p \in Templates : PlaceOrder(t, p)
                   \/ \E id \in 1 .. Len(venue.orders) : TriggerOrder(id) \/ CancelOrder(id)
    BY DEF UserStep, CancelAll
<1> QED BY <1>2, <1>3, <1>4, <1>5, <1>6, <1>7, <1>8, <1>9, <1>10 DEF Next, vars

-----------------------------------------------------------------------------
(* A fill from the book, and one from the backstop.                        *)

Maker == OppositeBook[1]
TakenQty == Lesser(Remaining(Taker), Remaining(venue.orders[Maker]))

LEMMA TakerIs ==
    ASSUME Sweep(call, venue)
    PROVE  /\ Sound(venue, {call.id}) /\ Shaped(venue) /\ call.id \in IdsOf(venue)
           /\ Taker = venue.orders[call.id] /\ Taker.status = "Open"
           /\ Taker.owner \in Traders /\ Taker.params.market \in Markets
           /\ Taker.params.side \in {1, -1} /\ Taker.params.side \in Sides /\ -Taker.params.side \in Sides
           /\ Taker.filled \in Int /\ Taker.params.size \in Nat /\ Taker.params.price \in Nat
           /\ Taker.filled <= Taker.params.size /\ Remaining(Taker) \in Nat
           /\ Taker.params \in Params
           /\ OppositeBook = venue.books[Taker.params.market][-Taker.params.side]
           /\ OppositeBook \in Seq(Nat)
           /\ Elems(OppositeBook) = RestingIn(venue, Taker.params.market, -Taker.params.side, {call.id})
           /\ Sorted(venue, OppositeBook)
<1>1. /\ Sound(venue, {call.id}) /\ Shaped(venue) /\ call.id \in IdsOf(venue)
      /\ Taker = venue.orders[call.id] /\ Taker.status = "Open"
    BY DEF Sweep, Sound, Taker
<1>2. /\ Taker.owner \in Traders /\ Taker.params.market \in Markets
      /\ Taker.params.side \in {1, -1}
      /\ Taker.filled \in Int /\ Taker.params.size \in Nat /\ Taker.params.price \in Nat
      /\ Taker.filled <= Taker.params.size /\ Taker.params \in Params
    BY <1>1, OrderIs
<1>3. Remaining(Taker) \in Nat
    BY <1>2 DEF Remaining
<1>4. Taker.params.side \in Sides /\ -Taker.params.side \in Sides
    BY <1>2 DEF Sides, Buy, Sell
<1>5. OppositeBook = venue.books[Taker.params.market][-Taker.params.side]
    BY DEF OppositeBook
<1>6. /\ OppositeBook \in Seq(Nat) /\ Sorted(venue, OppositeBook)
      /\ Elems(OppositeBook) = RestingIn(venue, Taker.params.market, -Taker.params.side, {call.id})
    BY <1>1, <1>2, <1>4, <1>5, BookIs
<1> QED BY <1>1, <1>2, <1>3, <1>4, <1>5, <1>6

\* What one fill does to the venue, whoever makes it.
Filled(v, w, taker, maker, qty) ==
    LET t == v.orders[taker].owner
        p == v.orders[taker].params
    IN  /\ IdsOf(w) = IdsOf(v)
        /\ \A k \in IdsOf(v) : /\ w.orders[k].owner = v.orders[k].owner
                               /\ w.orders[k].params = v.orders[k].params
        /\ \A k \in IdsOf(v) \ {taker, maker} : w.orders[k] = v.orders[k]
        /\ w.orders[taker].filled = v.orders[taker].filled + qty
        /\ maker # 0 => w.orders[maker].filled = v.orders[maker].filled + qty
        /\ w.position \in [Traders -> [Markets -> Int]]
        /\ w.position[t][p.market] = v.position[t][p.market] + p.side * qty

LEMMA BackstopFills ==
    ASSUME IInv, Progress, FillFromBackstop
    PROVE  LET qty == Lesser(Remaining(Taker), call.backstopLeft)
               price == BackPrice(Taker.params.market, Taker.params.side)
           IN  /\ Sweep(call, venue)
               /\ qty \in Nat /\ qty <= Remaining(Taker) /\ qty <= call.backstopLeft
               /\ Filled(venue, venue', call.id, 0, qty)
               /\ venue'.books = venue.books
               /\ call'.op = "sweep" /\ call'.id = call.id /\ call'.before = call.before
               /\ call'.backstopLeft = call.backstopLeft - qty
               /\ call'.tape = Append(call.tape, [maker |-> 0, qty |-> qty, price |-> price])
<1> DEFINE qty == Lesser(Remaining(Taker), call.backstopLeft)
           price == BackPrice(Taker.params.market, Taker.params.side)
<1>1. Sweep(call, venue)
    BY IdleIs DEF FillFromBackstop, Sweeping
<1>2. call.backstopLeft \in Int /\ call.backstopLeft > 0 /\ Remaining(Taker) > 0
    BY <1>1 DEF Sweep, FillFromBackstop, BackOk, Sweeping
<1>3. qty \in Nat /\ qty <= Remaining(Taker) /\ qty <= call.backstopLeft
    <2>1. Remaining(Taker) \in Nat
        BY <1>1, TakerIs
    <2> QED BY <2>1, <1>2 DEF Lesser
<1>4. /\ venue' = Traded(venue, call.id, 0, qty, price)
      /\ call' = [call EXCEPT !.backstopLeft = @ - qty,
                              !.tape = Append(@, [maker |-> 0, qty |-> qty, price |-> price])]
    BY DEF FillFromBackstop
<1>5. venue.position \in [Traders -> [Markets -> Int]] /\ Shaped(venue) /\ call.id \in IdsOf(venue)
    BY <1>1, TakerIs DEF Progress, Fine, Sweep
<1> HIDE DEF qty, price
<1>6. /\ venue'.position \in [Traders -> [Markets -> Int]]
      /\ venue'.position[Taker.owner][Taker.params.market] =
           venue.position[Taker.owner][Taker.params.market] + Taker.params.side * qty
      /\ venue'.books = venue.books
      /\ venue'.orders[call.id].filled = venue.orders[call.id].filled + qty
    <2> DEFINE zero == 0
    <2>1. zero \in (IdsOf(venue) \ {call.id}) \cup {0} /\ zero = 0 /\ qty \in Int
        BY <1>3
    <2> HIDE DEF zero
    <2> DEFINE id == call.id
               v == venue
    <2>2. /\ v.position \in [Traders -> [Markets -> Int]] /\ Shaped(v) /\ id \in IdsOf(v)
          /\ zero \in (IdsOf(v) \ {id}) \cup {0}
          /\ Parties(v, id, zero)
        BY <2>1, <1>5 DEF Parties
    <2> HIDE DEF id, v
    <2>3. Charged(v, Traded(v, id, zero, qty, price), id, zero, qty)
        BY <2>1, <2>2, TradedIs
    <2> QED BY <2>1, <2>3, <1>4 DEF Charged, Taker, id, v
<1>7. Alike(venue, venue') /\ OnlyAt(venue, venue', {call.id, 0})
    <2>1. 0 \in (IdsOf(venue) \ {call.id}) \cup {0} /\ qty <= Remaining(venue.orders[call.id]) /\ qty \in Int
        BY <1>3 DEF Taker
    <2>2. Sound(venue, {call.id})
        BY <1>1 DEF Sweep
    <2> QED BY <2>1, <2>2, <1>4, <1>5, TradedKeeps
<1>8. Filled(venue, venue', call.id, 0, qty)
    BY <1>6, <1>7 DEF Filled, Alike, OnlyAt, IdsOf, Taker
<1>9. /\ call'.op = "sweep" /\ call'.id = call.id /\ call'.before = call.before
      /\ call'.backstopLeft = call.backstopLeft - qty
      /\ call'.tape = Append(call.tape, [maker |-> 0, qty |-> qty, price |-> price])
    BY <1>1, <1>4 DEF Sweep
<1> QED BY <1>1, <1>3, <1>6, <1>8, <1>9 DEF qty, price
LEMMA BookFills ==
    ASSUME IInv, Progress, FillFromBook
    PROVE  /\ Sweep(call, venue)
           /\ OppositeBook # <<>> /\ Maker \in Elems(OppositeBook) /\ Maker \in IdsOf(venue) \ {call.id}
           /\ Maker # 0 /\ venue.orders[Maker].owner # Taker.owner
           /\ venue.orders[Maker].status = "Open" /\ venue.orders[Maker].params.price \in Nat
           /\ Takes(Taker.params, venue.orders[Maker].params.price)
           /\ TakenQty \in Nat /\ TakenQty <= Remaining(Taker)
           /\ TakenQty <= Remaining(venue.orders[Maker])
           /\ Filled(venue, venue', call.id, Maker, TakenQty)
           /\ venue'.orders[Maker].status =
                IF TakenQty = Remaining(venue.orders[Maker]) THEN "Filled" ELSE "Open"
           /\ venue'.orders[call.id].status = "Open"
           /\ Sound(venue', {call.id})
           /\ call'.op = "sweep" /\ call'.id = call.id /\ call'.before = call.before
           /\ call'.backstopLeft = call.backstopLeft
           /\ call'.tape = Append(call.tape, [maker |-> Maker, qty |-> TakenQty,
                                              price |-> venue.orders[Maker].params.price])
<1> DEFINE id == call.id
           maker == Maker
           v == venue
           rests == v.orders[maker]
           qty == TakenQty
           price == rests.params.price
           done == Traded(v, id, maker, qty, price)
<1>1. Sweep(call, venue) /\ OppositeBook # <<>> /\ BookOk
    BY IdleIs DEF FillFromBook, Sweeping, BookFirst, BookOk
<1>2. /\ Sound(v, {id}) /\ id \in IdsOf(v) /\ Shaped(v) /\ v.orders[id].status = "Open"
      /\ Taker = v.orders[id] /\ Remaining(Taker) \in Nat
    BY <1>1, TakerIs
<1>3. maker \in IdsOf(v) \ {id} /\ maker # 0 /\ rests.status = "Open"
    BY <1>1, <1>2, FirstOf DEF OppositeBook, Maker
<1>4. maker \in Elems(OppositeBook)
    <2>1. OppositeBook \in Seq(Nat)
        BY <1>1, TakerIs
    <2>2. 1 \in 1 .. Len(OppositeBook)
        BY <1>1, <2>1
    <2> QED BY <2>1, <2>2, ElemsAre DEF Maker
<1>5. rests.owner # Taker.owner
    BY DEF FillFromBook, Maker
<1>6. Takes(Taker.params, price) /\ price \in Nat
    BY <1>1, <1>2, <1>3, OrderIs DEF BookOk, Maker
<1>7. qty \in Nat /\ qty <= Remaining(Taker) /\ qty <= Remaining(rests)
    <2>1. Remaining(rests) \in Nat
        BY <1>2, <1>3, OrderIs DEF Remaining
    <2> QED BY <2>1, <1>2 DEF TakenQty, Lesser
<1>8. /\ venue' = IF qty = Remaining(rests) THEN FinishFilled(Unrest(done, maker), maker) ELSE done
      /\ call' = [call EXCEPT !.tape = Append(@, [maker |-> maker, qty |-> qty, price |-> price])]
    BY DEF FillFromBook, Maker, TakenQty, Taker
<1>9. /\ call'.op = "sweep" /\ call'.id = call.id /\ call'.before = call.before
      /\ call'.backstopLeft = call.backstopLeft
      /\ call'.tape = Append(call.tape, [maker |-> maker, qty |-> qty, price |-> price])
    <2> HIDE DEF maker, qty, price
    <2> QED BY <1>1, <1>8 DEF Sweep
<1>10. v.position \in [Traders -> [Markets -> Int]]
    BY <1>1 DEF Progress, Fine, Sweep
<1> HIDE DEF id, maker, v, qty, price
<1>11. /\ done.position \in [Traders -> [Markets -> Int]]
       /\ done.position[Taker.owner][Taker.params.market] =
            v.position[Taker.owner][Taker.params.market] + Taker.params.side * qty
       /\ done.orders[id].filled = v.orders[id].filled + qty
       /\ done.orders[maker].filled = v.orders[maker].filled + qty
    <2>1. /\ v.position \in [Traders -> [Markets -> Int]] /\ Shaped(v) /\ id \in IdsOf(v)
          /\ maker \in (IdsOf(v) \ {id}) \cup {0} /\ qty \in Int
          /\ Parties(v, id, maker)
        BY <1>2, <1>3, <1>5, <1>7, <1>10 DEF Parties
    <2> HIDE DEF done, rests
    <2>2. Charged(v, Traded(v, id, maker, qty, price), id, maker, qty)
        BY <2>1, TradedIs
    <2> QED BY <2>2, <1>2, <1>3 DEF Charged, done
<1>12. Sound(done, {id}) /\ Alike(v, done) /\ OnlyAt(v, done, {id, maker})
    <2>1. /\ maker \in (IdsOf(v) \ {id}) \cup {0} /\ qty \in Int /\ qty <= Remaining(v.orders[id])
          /\ maker # 0 => qty <= Remaining(v.orders[maker])
        BY <1>2, <1>3, <1>7
    <2> QED BY <2>1, <1>2, TradedKeeps
<1> HIDE DEF done
<1>13. CASE qty # Remaining(rests)
    <2>1. venue' = done
        BY <1>8, <1>13
    <2>2. Filled(v, done, id, maker, qty)
        BY <1>2, <1>3, <1>11, <1>12 DEF Filled, Alike, OnlyAt, IdsOf
    <2>3. done.orders[maker].status = "Open" /\ done.orders[id].status = "Open"
        BY <1>2, <1>3, <1>12 DEF Alike, IdsOf
    <2> QED BY <2>1, <2>2, <2>3, <1>1, <1>3, <1>4, <1>5, <1>6, <1>7, <1>9, <1>12, <1>13 DEF id, v, maker, qty, price
<1>14. CASE qty = Remaining(rests)
    <2> DEFINE u == Unrest(done, maker)
               w == FinishFilled(u, maker)
    <2>1. /\ Shaped(done) /\ maker \in IdsOf(done) \ {id} /\ done.orders[maker].status = "Open"
          /\ done.orders[id].status = "Open" /\ IdsOf(done) = IdsOf(v)
        BY <1>2, <1>3, <1>12 DEF Alike, IdsOf, Sound
    <2>2. u.orders = done.orders /\ u.position = done.position
        BY <2>1, ListsFrame
    <2>3. Shaped(u)
        <3>1. Sound(u, {id} \cup {maker})
            BY <2>1, <1>12, UnrestKeeps
        <3> QED BY <3>1 DEF Sound
    <2>4. Sound(w, {id})
        BY <2>1, <1>12, MakerFilled
    <2>5. w = Untrack([u EXCEPT !.orders[maker].status = "Filled"], maker)
        BY DEF FinishFilled
    <2> HIDE DEF u, w
    <2> DEFINE x == [u EXCEPT !.orders[maker].status = "Filled"]
    <2>6. maker \in IdsOf(u) /\ "Filled" \in Statuses
        BY <2>1, <2>2 DEF IdsOf, Statuses
    <2>7. x.orders = Restated(u.orders, maker, "Filled") /\ x.position = u.position /\ Shaped(x)
        BY <2>3, <2>6, StatusFrame
    <2> HIDE DEF x
    <2>8. w.orders = Restated(u.orders, maker, "Filled") /\ w.position = u.position
        BY ZenonT(60), <2>5, <2>7, ListsFrame DEF x
    <2>9. /\ IdsOf(w) = IdsOf(u)
          /\ \A k \in IdsOf(u) : /\ k # maker => w.orders[k] = u.orders[k]
                                 /\ w.orders[k].params = u.orders[k].params
                                 /\ w.orders[k].owner = u.orders[k].owner
                                 /\ w.orders[k].filled = u.orders[k].filled
          /\ w.orders[maker].status = "Filled"
        BY <2>3, <2>6, <2>8, RestatedIs
    <2>10. IdsOf(u) = IdsOf(v)
        BY <2>1, <2>2 DEF IdsOf
    <2>11. Filled(v, w, id, maker, qty)
        <3>1. IdsOf(done) = IdsOf(v) /\ id \in IdsOf(v) /\ maker \in IdsOf(v) \ {id}
            BY <2>1, <1>2, <1>3
        <3>2. \A k \in IdsOf(v) : /\ w.orders[k].owner = v.orders[k].owner
                                  /\ w.orders[k].params = v.orders[k].params
            BY <2>2, <2>9, <2>10, <1>12 DEF Alike
        <3>3. \A k \in IdsOf(v) \ {id, maker} : w.orders[k] = v.orders[k]
            BY <2>2, <2>9, <2>10, <1>12 DEF OnlyAt
        <3>4. /\ w.orders[id].filled = v.orders[id].filled + qty
              /\ w.orders[maker].filled = v.orders[maker].filled + qty
            BY <3>1, <2>2, <2>9, <2>10, <1>11
        <3>5. /\ w.position \in [Traders -> [Markets -> Int]]
              /\ w.position[v.orders[id].owner][v.orders[id].params.market] =
                   v.position[v.orders[id].owner][v.orders[id].params.market] + v.orders[id].params.side * qty
            BY <2>2, <2>8, <1>2, <1>11
        <3> QED BY <3>2, <3>3, <3>4, <3>5, <2>9, <2>10 DEF Filled
    <2>12. w.orders[id].status = "Open"
        BY <2>1, <2>2, <2>9, <2>10, <1>2
    <2>13. venue' = w
        BY <1>8, <1>14 DEF w, u
    <2> QED BY <2>4, <2>9, <2>11, <2>12, <2>13, <1>1, <1>3, <1>4, <1>5, <1>6, <1>7, <1>9, <1>14 DEF id, v, maker, qty, price
<1> QED BY <1>13, <1>14

\* Between fills nobody but the taker and the maker changes; the maker stays a
\* limit order that may rest, and no fill-or-kill order.
LEMMA FillFine ==
    ASSUME NEW v, NEW w, NEW taker \in IdsOf(v), NEW maker, Fine(v, {taker}), NEW qty,
           Filled(v, w, taker, maker, qty),
           maker # 0 => /\ maker \in IdsOf(v) \ {taker} /\ v.orders[maker].status = "Open"
                        /\ w.orders[maker].status \in {"Open", "Filled"}
    PROVE  Fine(w, {taker})
<1>1. w.position \in [Traders -> [Markets -> Int]] /\ IdsOf(w) = IdsOf(v)
    BY DEF Filled
<1>2. \A k \in IdsOf(w) : Priced(w.orders[k].params)
    BY DEF Filled, Fine
<1>3. ASSUME NEW k \in IdsOf(w) \ {taker}
      PROVE  Settled(w.orders[k])
    <2>1. CASE k # maker
        BY <2>1, <1>1 DEF Filled, Fine
    <2>2. CASE k = maker
        <3>1. maker # 0
            BY <2>2, <1>1 DEF IdsOf
        <3>2. /\ Settled(v.orders[maker]) /\ v.orders[maker].status = "Open"
              /\ w.orders[maker].params = v.orders[maker].params
              /\ w.orders[maker].status \in {"Open", "Filled"}
            BY <3>1, <2>2, <1>1 DEF Filled, Fine
        <3> QED BY <3>2, <2>2 DEF Settled
    <2> QED BY <2>1, <2>2
<1> QED BY <1>1, <1>2, <1>3 DEF Fine

LEMMA FillMoved ==
    ASSUME Sweep(call, venue), Progress, NEW maker, NEW qty \in Nat,
           Filled(venue, venue', call.id, maker, qty),
           call'.id = call.id, call'.before = call.before
    PROVE  Moved'
<1> DEFINE before == call.before.position[Taker.owner][Taker.params.market]
           now == venue.position[Taker.owner][Taker.params.market]
           s == Taker.params.side
<1>1. /\ call.id \in IdsOf(venue) /\ Taker = venue.orders[call.id] /\ Taker.filled \in Int
      /\ Taker.owner \in Traders /\ Taker.params.market \in Markets /\ s \in {1, -1}
    BY TakerIs
<1>2. /\ Moved /\ call.before.position \in [Traders -> [Markets -> Int]]
    BY DEF Progress, Sweep, Fine
<1>3. /\ Taker.filled >= 0 /\ now = before + s * Taker.filled
      /\ Taker.params.reduceOnly => Reduces(before, Taker.params)
    BY <1>2 DEF Moved
<1>4. /\ Taker'.owner = Taker.owner /\ Taker'.params = Taker.params
      /\ Taker'.filled = Taker.filled + qty
      /\ venue'.position[Taker.owner][Taker.params.market] = now + s * qty
    BY <1>1 DEF Filled, Taker
<1>5. before \in Int
    BY <1>1, <1>2
<1>6. (Taker.filled + qty) >= 0
      /\ now + s * qty = before + s * (Taker.filled + qty)
    <2> HIDE DEF before, now, s
    <2>1. \A a, b \in Int : s * (a + b) = s * a + s * b /\ s * a \in Int /\ s * b \in Int
        BY <1>1
    <2>2. /\ s * (Taker.filled + qty) = s * Taker.filled + s * qty
          /\ s * Taker.filled \in Int /\ s * qty \in Int
        BY <2>1, <1>1
    <2>3. Taker.filled + qty >= 0
        BY <1>1, <1>3
    <2> QED BY <2>2, <2>3, <1>3, <1>5
<1>7. call'.before.position[Taker'.owner][Taker'.params.market] = before
    BY <1>4
<1> HIDE DEF before, now, s
<1> QED BY <1>3, <1>4, <1>6, <1>7 DEF Moved, s
\* What the backstop offers the taker.
Offered == BackPrice(Taker.params.market, Taker.params.side)

LEMMA BackPriceIs ==
    ASSUME MarketsOk, NEW m \in Markets, NEW side \in {1, -1}
    PROVE  BackPrice(m, side) \in Int
<1>1. market[m].index \in Nat
    BY OrdersAssumption DEF MarketsOk
<1>2. \A x \in Nat : Above(x, SpreadBps) \in Int /\ Below(x, SpreadBps) \in Int
    <2> SUFFICES ASSUME NEW x \in Nat
                 PROVE  Above(x, SpreadBps) \in Int /\ Below(x, SpreadBps) \in Int
        OBVIOUS
    <2>1. SpreadBps \in Int /\ BPS \in Nat \ {0}
        BY OrdersAssumption, ScaleAssumption
    <2>2. x * (BPS + SpreadBps) \in Int /\ x * (BPS - SpreadBps) \in Int
        BY <2>1
    <2> QED BY <2>1, <2>2, IntDiv DEF Above, Below
<1> QED BY <1>1, <1>2 DEF BackPrice

LEMMA OfferedIs ==
    ASSUME Sweep(call, venue), MarketsOk
    PROVE  Offered \in Int
<1>1. Taker.params.market \in Markets /\ Taker.params.side \in {1, -1}
    BY TakerIs
<1> QED BY <1>1, BackPriceIs DEF Offered

\* Nothing rests at a better price for the taker than the first of the book.
LEMMA BestFirst ==
    ASSUME Sweep(call, venue), NEW j \in Elems(OppositeBook)
    PROVE  /\ OppositeBook # <<>> /\ j \in IdsOf(venue)
           /\ venue.orders[j].params.price \in Nat
           /\ venue.orders[OppositeBook[1]].params.price \in Nat
           /\ Taker.params.side * venue.orders[OppositeBook[1]].params.price
                <= Taker.params.side * venue.orders[j].params.price
<1> DEFINE m == Taker.params.market
           s == Taker.params.side
           best == venue.orders[OppositeBook[1]].params.price
           price == venue.orders[j].params.price
<1>1. /\ Sound(venue, {call.id}) /\ Shaped(venue) /\ m \in Markets /\ s \in {1, -1} /\ -s \in Sides
      /\ OppositeBook = venue.books[m][-s]
      /\ Elems(OppositeBook) = RestingIn(venue, m, -s, {call.id})
    BY TakerIs
<1>2. j \in IdsOf(venue)
    BY <1>1 DEF RestingIn
<1>3. OppositeBook # <<>> /\ OppositeBook[1] \in IdsOf(venue) /\ (-s) * best >= (-s) * price
    <2>1. j \in Elems(venue.books[m][-s])
        BY <1>1
    <2> HIDE DEF m, s
    <2> QED BY <2>1, <1>1, FirstIsBest
<1>4. best \in Nat /\ price \in Nat
    BY <1>1, <1>2, <1>3, OrderIs
<1>5. s * best <= s * price
    <2> HIDE DEF s, best, price
    <2>1. CASE s = 1
        BY <2>1, <1>3, <1>4
    <2>2. CASE s = -1
        BY <2>2, <1>3, <1>4
    <2> QED BY <2>1, <2>2, <1>1
<1> QED BY <1>2, <1>3, <1>4, <1>5

\* Read before and after a fill.
LEMMA FixedReads ==
    ASSUME Sweep(call, venue), market' = market, funded' = funded,
           NEW maker, NEW qty, Filled(venue, venue', call.id, maker, qty), call'.id = call.id
    PROVE  /\ Taker'.params = Taker.params /\ Taker'.owner = Taker.owner
           /\ Taker'.filled = Taker.filled + qty
           /\ Offered' = Offered
           /\ OppositeBook' = venue'.books[Taker.params.market][-Taker.params.side]
<1>1. Taker'.params = Taker.params /\ Taker'.owner = Taker.owner /\ Taker'.filled = Taker.filled + qty
    BY TakerIs DEF Taker, Filled
<1>2. Offered' = Offered
    BY <1>1 DEF Offered, BackPrice
<1>3. OppositeBook' = venue'.books[Taker.params.market][-Taker.params.side]
    BY <1>1 DEF OppositeBook
<1> QED BY <1>1, <1>2, <1>3

\* The backstop does not come back to the taker: what it has left only shrinks.
LEMMA BackOkOn ==
    ASSUME Sweep(call, venue), market' = market, funded' = funded,
           NEW maker, NEW qty, Filled(venue, venue', call.id, maker, qty), call'.id = call.id,
           call'.backstopLeft \in Int, call'.backstopLeft <= call.backstopLeft, BackOk'
    PROVE  BackOk
<1>1. Taker'.params = Taker.params /\ Offered' = Offered
    BY FixedReads
<1>2. Offered' # 0 /\ call'.backstopLeft > 0 /\ Takes(Taker.params, Offered)
    BY <1>1 DEF BackOk, Offered, Takes
<1>3. call.backstopLeft \in Int
    BY DEF Sweep
<1>4. call.backstopLeft > 0
    BY <1>2, <1>3
<1> QED BY <1>1, <1>2, <1>4 DEF BackOk, Offered

\* What was behind a fill stays behind it, and the new fill is ahead of what is left.
LEMMA BehindOn ==
    ASSUME Sweep(call, venue), Behind, market' = market, funded' = funded,
           NEW maker, NEW qty, Filled(venue, venue', call.id, maker, qty), call'.id = call.id,
           call'.backstopLeft \in Int, call'.backstopLeft <= call.backstopLeft,
           Elems(OppositeBook') \subseteq Elems(OppositeBook), OppositeBook' \in Seq(Nat),
           NEW fill \in Fills, fill.maker \in IdsOf(venue) \cup {0},
           BookIsBehind(fill), BackstopIsBehind(fill),
           call'.tape = Append(call.tape, fill)
    PROVE  Behind'
<1> DEFINE p == Taker.params
<1>1. /\ Taker'.params = p /\ Offered' = Offered /\ IdsOf(venue') = IdsOf(venue)
      /\ \A k \in IdsOf(venue) : venue'.orders[k].params = venue.orders[k].params
    BY FixedReads DEF Filled
<1>2. \A k \in Elems(OppositeBook) : k \in IdsOf(venue)
    BY BestFirst
<1>3. ASSUME NEW f, f.maker \in IdsOf(venue) \cup {0}, BookIsBehind(f)
      PROVE  BookIsBehind(f)'
    <2> SUFFICES ASSUME NEW k \in 1 .. Len(OppositeBook')
                 PROVE  LET left == OppositeBook'[k]
                        IN  \/ left = f.maker
                            \/ f.maker # 0 /\ Ahead(venue'.orders, f.maker, left)
                            \/ f.maker = 0 /\ p.side * f.price < p.side * venue'.orders[left].params.price
        BY <1>1 DEF BookIsBehind
    <2> DEFINE left == OppositeBook'[k]
    <2>1. left \in Elems(OppositeBook)
        BY DEF Elems
    <2>2. PICK l \in 1 .. Len(OppositeBook) : OppositeBook[l] = left
        BY <2>1 DEF Elems
    <2>3. left \in IdsOf(venue) /\ venue'.orders[left].params = venue.orders[left].params
        BY <2>1, <1>1, <1>2
    <2> HIDE DEF left
    <2>4. \/ left = f.maker
          \/ f.maker # 0 /\ Ahead(venue.orders, f.maker, left)
          \/ f.maker = 0 /\ p.side * f.price < p.side * venue.orders[left].params.price
        BY <2>2, <1>3 DEF BookIsBehind
    <2>5. f.maker # 0 => (Ahead(venue'.orders, f.maker, left) <=> Ahead(venue.orders, f.maker, left))
        BY <2>3, <1>1, <1>3 DEF Ahead
    <2>6. \/ left = f.maker
          \/ f.maker # 0 /\ Ahead(venue'.orders, f.maker, left)
          \/ f.maker = 0 /\ p.side * f.price < p.side * venue'.orders[left].params.price
        BY <2>3, <2>4, <2>5
    <2> QED BY <2>6 DEF left
<1>4. ASSUME NEW f, BackstopIsBehind(f)
      PROVE  BackstopIsBehind(f)'
    <2>1. BackOk' => BackOk
        BY BackOkOn
    <2> QED BY <2>1, <1>1, <1>4 DEF BackstopIsBehind, Offered
<1>5. /\ call'.tape \in Seq(Fills) /\ call.tape \in Seq(Fills)
      /\ \A i \in 1 .. Len(call'.tape) : \/ i \in 1 .. Len(call.tape) /\ call'.tape[i] = call.tape[i]
                                         \/ call'.tape[i] = fill
    <2> DEFINE tape == call.tape
    <2>1. tape \in Seq(Fills) /\ call'.tape = Append(tape, fill)
        BY DEF Behind
    <2> HIDE DEF tape
    <2>2. /\ Append(tape, fill) \in Seq(Fills)
          /\ \A i \in 1 .. Len(Append(tape, fill)) : \/ i \in 1 .. Len(tape) /\ Append(tape, fill)[i] = tape[i]
                                                     \/ Append(tape, fill)[i] = fill
        BY <2>1
    <2> QED BY <2>1, <2>2 DEF tape
<1>6. ASSUME NEW i \in 1 .. Len(call'.tape)
      PROVE  (/\ call.tape[i].maker \in IdsOf(venue) \cup {0}
              /\ BookIsBehind(call.tape[i]) /\ BackstopIsBehind(call.tape[i]))'
    <2>1. PICK f : f = call'.tape[i]
        OBVIOUS
    <2>2. f.maker \in IdsOf(venue) \cup {0} /\ BookIsBehind(f) /\ BackstopIsBehind(f)
        <3>1. CASE i \in 1 .. Len(call.tape) /\ call'.tape[i] = call.tape[i]
            <4>1. f = call.tape[i]
                BY <3>1, <2>1
            <4>2. /\ call.tape[i].maker \in IdsOf(venue) \cup {0}
                  /\ BookIsBehind(call.tape[i]) /\ BackstopIsBehind(call.tape[i])
                BY <3>1 DEF Behind
            <4> QED BY <4>1, <4>2 DEF BookIsBehind, BackstopIsBehind
        <3>2. CASE call'.tape[i] = fill
            BY <3>2, <2>1
        <3> QED BY <3>1, <3>2, <1>5
    <2>3. BookIsBehind(f)' /\ BackstopIsBehind(f)'
        BY <2>2, <1>3, <1>4
    <2>4. BookIsBehind(call.tape[i])'
        BY <2>1, <2>3 DEF BookIsBehind
    <2>5. BackstopIsBehind(call.tape[i])'
        BY <2>1, <2>3 DEF BackstopIsBehind
    <2> QED BY <2>1, <2>2, <2>4, <2>5, <1>1
<1> QED BY <1>5, <1>6 DEF Behind
LEMMA BookFillBehind ==
    ASSUME IInv, Progress, MarketsOk, FillFromBook
    PROVE  Behind'
<1> DEFINE price == venue.orders[Maker].params.price
           fill == [maker |-> Maker, qty |-> TakenQty, price |-> price]
           s == Taker.params.side
<1>1. /\ Sweep(call, venue) /\ OppositeBook # <<>> /\ Maker \in IdsOf(venue) \ {call.id}
      /\ TakenQty \in Nat /\ Filled(venue, venue', call.id, Maker, TakenQty)
      /\ call'.id = call.id /\ call'.backstopLeft = call.backstopLeft
      /\ call'.tape = Append(call.tape, fill) /\ Sound(venue', {call.id}) /\ price \in Nat
    BY BookFills
<1>2. Behind /\ market' = market /\ funded' = funded
    BY <1>1 DEF Progress, Sweep, FillFromBook
<1>3. call.backstopLeft \in Int
    BY <1>1 DEF Sweep
<1>4. Elems(OppositeBook') \subseteq Elems(OppositeBook) /\ OppositeBook' \in Seq(Nat)
    <2>1. OppositeBook' = venue'.books[Taker.params.market][-s]
        BY <1>1, <1>2, FixedReads
    <2>2. /\ Taker.params.market \in Markets /\ -s \in Sides
          /\ OppositeBook = venue.books[Taker.params.market][-s]
        BY <1>1, TakerIs
    <2>3. Shrinks(venue, venue')
        BY FillFromBookKept
    <2>4. Shaped(venue')
        BY <1>1 DEF Sound
    <2> QED BY <2>1, <2>2, <2>3, <2>4 DEF Shrinks, Shaped
<1>5. BookIsBehind(fill)
    <2>1. OppositeBook \in Seq(Nat) /\ Sorted(venue, OppositeBook)
        BY <1>1, TakerIs
    <2>2. ASSUME NEW k \in 1 .. Len(OppositeBook)
          PROVE  OppositeBook[k] = Maker \/ Ahead(venue.orders, Maker, OppositeBook[k])
        <3>1. CASE k = 1
            BY <3>1 DEF Maker
        <3>2. CASE 1 < k
            <4>1. 1 \in 1 .. Len(OppositeBook)
                BY <2>1, <3>2
            <4> QED BY <4>1, <3>2, <2>1 DEF Sorted, Maker
        <3> QED BY <3>1, <3>2, <2>1
    <2>3. Maker # 0
        BY <1>1 DEF IdsOf
    <2> QED BY <2>2, <2>3 DEF BookIsBehind
<1>6. BackstopIsBehind(fill)
    <2>1. BackOk => Crosses(s, Offered, price)
        BY DEF FillFromBook, BookFirst, Offered, Maker
    <2> QED BY <2>1 DEF BackstopIsBehind, Offered
<1>7. fill \in Fills /\ fill.maker \in IdsOf(venue) \cup {0}
    BY <1>1 DEF Fills, IdsOf
<1> DEFINE maker == Maker
           qty == TakenQty
<1>8. Filled(venue, venue', call.id, maker, qty) /\ call'.backstopLeft <= call.backstopLeft /\ call'.backstopLeft \in Int
    BY <1>1, <1>3
<1> HIDE DEF fill, maker, qty
<1> QED BY <1>1, <1>2, <1>4, <1>5, <1>6, <1>7, <1>8, BehindOn

LEMMA BackstopFillBehind ==
    ASSUME IInv, Progress, MarketsOk, FillFromBackstop
    PROVE  Behind'
<1> DEFINE qty == Lesser(Remaining(Taker), call.backstopLeft)
           fill == [maker |-> 0, qty |-> qty, price |-> Offered]
           s == Taker.params.side
           p == Taker.params
<1>1. /\ Sweep(call, venue) /\ qty \in Nat /\ qty <= call.backstopLeft
      /\ Filled(venue, venue', call.id, 0, qty)
      /\ venue'.books = venue.books
      /\ call'.id = call.id /\ call'.backstopLeft = call.backstopLeft - qty
      /\ call'.tape = Append(call.tape, fill)
    BY BackstopFills DEF Offered
<1>2. Behind /\ market' = market /\ funded' = funded /\ ~BookFirst /\ BackOk
    BY <1>1 DEF Progress, Sweep, FillFromBackstop
<1>3. /\ Offered \in Int /\ Takes(p, Offered) /\ call.backstopLeft \in Int
      /\ s \in {1, -1} /\ p.price \in Nat /\ OppositeBook \in Seq(Nat)
    BY <1>1, <1>2, OfferedIs, TakerIs DEF BackOk, Offered, Sweep
<1>4. Elems(OppositeBook') \subseteq Elems(OppositeBook) /\ OppositeBook' \in Seq(Nat)
    <2>1. OppositeBook' = OppositeBook
        BY <1>1, <1>2, FixedReads DEF OppositeBook
    <2> QED BY <2>1, <1>3
<1>5. BookIsBehind(fill)
    <2> SUFFICES ASSUME NEW k \in 1 .. Len(OppositeBook)
                 PROVE  s * Offered < s * venue.orders[OppositeBook[k]].params.price
        BY DEF BookIsBehind
    <2> DEFINE j == OppositeBook[k]
               price == venue.orders[j].params.price
               best == venue.orders[OppositeBook[1]].params.price
    <2>1. /\ OppositeBook # <<>> /\ price \in Nat /\ best \in Nat /\ s * best <= s * price
        <3>1. j \in Elems(OppositeBook)
            BY DEF Elems
        <3> HIDE DEF j
        <3> QED BY <3>1, <1>1, BestFirst
    <2>0. price \in Nat /\ best \in Nat
        BY Zenon, <2>1
    <2>2. s * Offered < s * best
        <3>1. CASE BookOk
            <4>1. ~Crosses(s, Offered, best)
                BY <3>1, <1>2 DEF BookFirst, Offered
            <4> HIDE DEF s, best
            <4> QED BY <4>1, <1>3, <2>1 DEF Crosses
        <3>2. CASE ~BookOk
            <4>1. IsLimit(p) /\ ~(s * p.price >= s * best)
                BY <3>2, <2>1 DEF BookOk, Takes, Crosses
            <4>2. s * p.price >= s * Offered
                BY <4>1, <1>3 DEF Takes, Crosses
            <4> DEFINE limit == p.price
                       offered == Offered
            <4>3. limit \in Nat /\ offered \in Int /\ s \in {1, -1}
                BY Zenon, <1>3
            <4>4. ~(s * limit >= s * best) /\ s * limit >= s * offered
                BY <4>1, <4>2
            <4> HIDE DEF s, best, limit, offered
            <4>5. s * limit \in Int /\ s * best \in Int /\ s * offered \in Int
                BY <4>3, <2>0
            <4>6. s * offered < s * best
                BY <4>4, <4>5
            <4> QED BY <4>6 DEF offered
        <3> QED BY <3>1, <3>2
    <2> DEFINE offer == Offered
    <2>6. s \in {1, -1} /\ offer \in Int
        BY Zenon, <1>3
    <2> HIDE DEF s, price, best, offer
    <2>7. s \in Int /\ price \in Int /\ best \in Int /\ offer \in Int
        BY <2>6, <2>0
    <2>8. s * price \in Int /\ s * best \in Int /\ s * offer \in Int
        BY <2>7
    <2>3. s * price \in Int /\ s * best \in Int /\ s * Offered \in Int
        BY <2>8 DEF offer
    <2>4. s * Offered < s * price
        BY <2>1, <2>2, <2>3
    <2> QED BY <2>4 DEF s, price
<1>6. BackstopIsBehind(fill)
    BY DEF BackstopIsBehind
<1>7. fill \in Fills /\ fill.maker \in IdsOf(venue) \cup {0}
    BY <1>1, <1>3 DEF Fills
<1>8. call'.backstopLeft \in Int /\ call'.backstopLeft <= call.backstopLeft
    BY <1>1, <1>3
<1> DEFINE maker == 0
<1>9. Filled(venue, venue', call.id, maker, qty)
    BY <1>1
<1> HIDE DEF fill, qty, maker, p, s
<1> QED BY <1>1, <1>2, <1>4, <1>5, <1>6, <1>7, <1>8, <1>9, BehindOn

\* Only an order that takes has fills.
LEMMA FillPosting ==
    ASSUME Sweep(call, venue), Posting, BookOk \/ BackOk, market' = market, funded' = funded,
           NEW maker, NEW qty, Filled(venue, venue', call.id, maker, qty), call'.id = call.id
    PROVE  Posting'
<1>1. Taker'.params = Taker.params
    BY FixedReads
<1>2. ~(Taker.params.tif = "PostOnly" /\ IsLimit(Taker.params))
    BY DEF Posting
<1>3. IsLimit(Taker.params)' = IsLimit(Taker.params)
    BY <1>1 DEF IsLimit
<1> QED BY <1>1, <1>2, <1>3 DEF Posting
\* One order gives q, and leaves the sum when it has nothing left.
LEMMA SumTaken ==
    ASSUME NEW C, IsFiniteSet(C), NEW D, D \subseteq C, NEW f, NEW g,
           \A x \in C : f[x] \in Int /\ g[x] \in Int,
           NEW a \in C, NEW q \in Int, \A x \in C \ {a} : g[x] = f[x], g[a] = f[a] - q,
           \A x \in C \ D : g[x] = 0
    PROVE  SumFunctionOnSet(g, D) = SumFunctionOnSet(f, C) - q
<1>1. SumFunctionOnSet(g, C) = SumFunctionOnSet(g, D)
    BY SumWithin
<1>2. SumFunctionOnSet(g, C) = g[a] + SumFunctionOnSet(g, C \ {a})
    BY SumTakeOut
<1>3. SumFunctionOnSet(f, C) = f[a] + SumFunctionOnSet(f, C \ {a})
    BY SumTakeOut
<1>4. IsFiniteSet(C \ {a})
    BY FS_RemoveElement
<1>5. SumFunctionOnSet(g, C \ {a}) = SumFunctionOnSet(f, C \ {a})
    BY <1>4, SumSame
<1>6. SumFunctionOnSet(f, C \ {a}) \in Int
    BY <1>4, SumInt
<1> DEFINE rest == SumFunctionOnSet(f, C \ {a})
           x == f[a]
           y == g[a]
<1>7. x \in Int /\ y \in Int /\ y = x - q /\ rest \in Int
    BY <1>6
<1>8. SumFunctionOnSet(g, D) = y + rest /\ SumFunctionOnSet(f, C) = x + rest
    BY <1>1, <1>2, <1>3, <1>5
<1> HIDE DEF rest, x, y
<1> QED BY <1>7, <1>8

LEMMA CountedOf ==
    ASSUME NEW v, NEW out, Sound(v, out), NEW p \in Params, NEW owner
    PROVE  LET C == Counted(v, p, owner)
           IN  /\ IsFiniteSet(C) /\ C \subseteq IdsOf(v) \ out
               /\ \A k \in C : Unfilled(v)[k] \in Nat
<1>1. Counted(v, p, owner) \subseteq IdsOf(v) \ out
    <2>1. p.market \in Markets /\ -p.side \in Sides
        BY DEF Params, Sides, Buy, Sell
    <2> QED BY <2>1, BookIs DEF Counted, RestingIn
<1>2. IsFiniteSet(IdsOf(v))
    <2>1. Len(v.orders) \in Nat
        BY DEF Sound, Shaped
    <2> QED BY <2>1, FS_Interval DEF IdsOf
<1>3. ASSUME NEW k \in IdsOf(v)
      PROVE  Unfilled(v)[k] \in Nat
    <2>1. Remaining(v.orders[k]) \in Nat
        BY OrderIs DEF Remaining, Sound
    <2> QED BY <2>1 DEF Unfilled
<1> QED BY <1>1, <1>2, <1>3, FS_Subset

LEMMA CountedIs ==
    ASSUME Sweep(call, venue)
    PROVE  LET C == Counted(venue, Taker.params, Taker.owner)
           IN  /\ IsFiniteSet(C) /\ C \subseteq IdsOf(venue) \ {call.id}
               /\ \A k \in C : Unfilled(venue)[k] \in Nat
BY TakerIs, CountedOf

LEMMA BookFillEnough ==
    ASSUME IInv, Progress, MarketsOk, FillFromBook
    PROVE  Enough'
<1> DEFINE p == Taker.params
           o == Taker.owner
           left == Remaining(Taker)
           C == Counted(venue, p, o)
           f == Unfilled(venue)
           rests == venue.orders[Maker]
<1>1. /\ Sweep(call, venue) /\ Maker \in Elems(OppositeBook) /\ Maker \in IdsOf(venue) \ {call.id}
      /\ rests.owner # o /\ Takes(p, rests.params.price)
      /\ TakenQty \in Nat /\ Filled(venue, venue', call.id, Maker, TakenQty)
      /\ Sound(venue', {call.id}) /\ call'.id = call.id /\ call'.backstopLeft = call.backstopLeft
      /\ rests.status = "Open"
      /\ venue'.orders[Maker].status = IF TakenQty = Remaining(rests) THEN "Filled" ELSE "Open"
    BY BookFills
<1>2. Enough /\ market' = market /\ funded' = funded
    BY <1>1 DEF Progress, Sweep, FillFromBook
<1>3. /\ Taker'.params = p /\ Taker'.owner = o /\ Taker'.filled = Taker.filled + TakenQty
      /\ OppositeBook' = venue'.books[p.market][-p.side]
    BY <1>1, <1>2, FixedReads
<1>4. /\ p.market \in Markets /\ -p.side \in Sides /\ left \in Nat /\ Taker.filled \in Int /\ p.size \in Nat
      /\ OppositeBook = venue.books[p.market][-p.side]
      /\ Elems(OppositeBook) = RestingIn(venue, p.market, -p.side, {call.id})
    BY <1>1, TakerIs
<1>5. IsFiniteSet(C) /\ C \subseteq IdsOf(venue) \ {call.id} /\ \A k \in C : f[k] \in Nat
    BY <1>1, CountedIs
<1>6. Maker \in C
    BY <1>1, <1>4 DEF Counted
<1>7. PICK w : w = venue'
    OBVIOUS
<1> DEFINE D == Counted(w, p, o)
           g == Unfilled(w)
<1>8. /\ Filled(venue, w, call.id, Maker, TakenQty) /\ Sound(w, {call.id})
      /\ w.orders[Maker].status = IF TakenQty = Remaining(rests) THEN "Filled" ELSE "Open"
    BY <1>1, <1>7
<1>9. Elems(w.books[p.market][-p.side]) = RestingIn(w, p.market, -p.side, {call.id})
    BY <1>4, <1>8, BookIs
<1>10. \A k \in IdsOf(venue) \ {call.id, Maker} : w.orders[k] = venue.orders[k]
    BY <1>8 DEF Filled
<1>11. IdsOf(w) = IdsOf(venue) /\ w.orders[Maker].params = rests.params /\ w.orders[Maker].owner = rests.owner
    BY <1>1, <1>8 DEF Filled
<1>12. \A k \in C \ {Maker} : k \in D
    <2> SUFFICES ASSUME NEW k \in C, k # Maker
                 PROVE  k \in D
        OBVIOUS
    <2>1. k \in RestingIn(venue, p.market, -p.side, {call.id}) /\ venue.orders[k].owner # o
          /\ Takes(p, venue.orders[k].params.price)
        BY <1>4 DEF Counted
    <2>2. k \in IdsOf(venue) \ {call.id, Maker} /\ w.orders[k] = venue.orders[k]
        BY <2>1, <1>10 DEF RestingIn
    <2>3. k \in RestingIn(w, p.market, -p.side, {call.id})
        BY <2>1, <2>2, <1>11 DEF RestingIn
    <2> QED BY <2>1, <2>2, <2>3, <1>9 DEF Counted
<1>13. D \subseteq C
    <2> SUFFICES ASSUME NEW k \in D, k # Maker
                 PROVE  k \in C
        BY <1>6
    <2>1. k \in RestingIn(w, p.market, -p.side, {call.id}) /\ w.orders[k].owner # o
          /\ Takes(p, w.orders[k].params.price)
        BY <1>9 DEF Counted
    <2>2. k \in IdsOf(venue) \ {call.id, Maker}
        BY <2>1, <1>11 DEF RestingIn
    <2> QED BY <2>1, <2>2, <1>4, <1>10 DEF Counted, RestingIn
<1>14. Remaining(w.orders[Maker]) = Remaining(rests) - TakenQty
    <2>1. w.orders[Maker].filled = rests.filled + TakenQty
        <3>1. Maker # 0
            BY <1>1 DEF IdsOf
        <3> QED BY <3>1, <1>8 DEF Filled
    <2>2. rests.filled \in Int /\ rests.params.size \in Int
        BY SMTT(60), <1>1, TakerIs, OrderIs
    <2> QED BY <2>1, <2>2, <1>1, <1>11 DEF Remaining
<1>15. g[Maker] = f[Maker] - TakenQty
    BY <1>14, <1>1, <1>11 DEF Unfilled
<1>16. \A k \in C \ {Maker} : g[k] = f[k]
    BY <1>5, <1>10, <1>11 DEF Unfilled
<1>17. \A k \in C : f[k] \in Int /\ g[k] \in Int
    <2> HIDE DEF C, f, g
    <2> QED BY <1>1, <1>5, <1>6, <1>15, <1>16
<1>18. \A k \in C \ D : g[k] = 0
    <2> SUFFICES ASSUME Maker \notin D
                 PROVE  g[Maker] = 0
        BY <1>12
    <2>1. w.orders[Maker].status # "Open"
        <3>1. Maker \in RestingIn(venue, p.market, -p.side, {call.id})
            BY <1>1, <1>4
        <3> QED BY <3>1, <1>1, <1>9, <1>11 DEF Counted, RestingIn
    <2>2. TakenQty = Remaining(rests)
        BY <2>1, <1>8
    <2>3. f[Maker] = TakenQty
        BY <2>2, <1>1 DEF Unfilled
    <2> HIDE DEF f, g
    <2> QED BY <2>3, <1>1, <1>15
<1>19. SumFunctionOnSet(g, D) = SumFunctionOnSet(f, C) - TakenQty
    <2> DEFINE a == Maker
               q == TakenQty
    <2>1. a \in C /\ q \in Int /\ g[a] = f[a] - q /\ (\A k \in C \ {a} : g[k] = f[k])
        BY <1>1, <1>6, <1>15, <1>16
    <2> HIDE DEF a, q, C, D, f, g
    <2>2. SumFunctionOnSet(g, D) = SumFunctionOnSet(f, C) - q
        BY <2>1, <1>5, <1>13, <1>17, <1>18, SumTaken
    <2> QED BY <2>2 DEF q
<1>20. SumFunctionOnSet(f, C) \in Int
    <2> HIDE DEF C, f
    <2> QED BY <1>5, <1>17, SumInt
<1>21. Remaining(Taker)' = left - TakenQty
    BY <1>1, <1>3, <1>4 DEF Remaining
<1>22. FromBackstop(p, call.backstopLeft)' = FromBackstop(p, call.backstopLeft) /\ FromBackstop(p, call.backstopLeft) \in Int
    <2>1. call.backstopLeft \in Int
        BY <1>1 DEF Sweep
    <2> QED BY <2>1, <1>1, <1>2, <1>3 DEF FromBackstop, BackPrice
<1> DEFINE back == FromBackstop(p, call.backstopLeft)
           sum == SumFunctionOnSet(f, C)
<1>23. p.tif = "FOK" => left <= sum + back
    BY <1>2 DEF Enough
<1>24. p.tif = "FOK" => left - TakenQty <= (sum - TakenQty) + back
    <2> HIDE DEF left, sum, back
    <2> QED BY <1>1, <1>4, <1>20, <1>22, <1>23 DEF sum, back
<1> QED BY <1>3, <1>7, <1>19, <1>21, <1>22, <1>24 DEF Enough
LEMMA BackstopFillEnough ==
    ASSUME IInv, Progress, MarketsOk, FillFromBackstop
    PROVE  Enough'
<1> DEFINE p == Taker.params
           o == Taker.owner
           left == Remaining(Taker)
           C == Counted(venue, p, o)
           f == Unfilled(venue)
           qty == Lesser(Remaining(Taker), call.backstopLeft)
<1>1. /\ Sweep(call, venue) /\ qty \in Nat /\ Filled(venue, venue', call.id, 0, qty)
      /\ venue'.books = venue.books
      /\ call'.id = call.id /\ call'.backstopLeft = call.backstopLeft - qty
    BY BackstopFills
<1>2. Enough /\ market' = market /\ funded' = funded /\ BackOk
    BY <1>1 DEF Progress, Sweep, FillFromBackstop
<1> HIDE DEF qty
<1>3. Taker'.params = p /\ Taker'.owner = o /\ Taker'.filled = Taker.filled + qty
    <2> DEFINE maker == 0
    <2>1. Filled(venue, venue', call.id, maker, qty)
        BY <1>1
    <2> HIDE DEF maker
    <2> QED BY <2>1, <1>1, <1>2, FixedReads
<1>4. left \in Nat /\ Taker.filled \in Int /\ p.size \in Nat
    BY <1>1, TakerIs
<1>5. IsFiniteSet(C) /\ C \subseteq IdsOf(venue) \ {call.id} /\ \A k \in C : f[k] \in Nat
    BY <1>1, CountedIs
<1>6. PICK w : w = venue'
    OBVIOUS
<1> DEFINE D == Counted(w, p, o)
           g == Unfilled(w)
<1>7. \A k \in IdsOf(venue) \ {call.id} : w.orders[k] = venue.orders[k]
    <2>1. 0 \notin IdsOf(venue)
        BY DEF IdsOf
    <2>2. \A k \in IdsOf(venue) \ {call.id, 0} : w.orders[k] = venue.orders[k]
        BY <1>1, <1>6 DEF Filled
    <2> QED BY <2>1, <2>2
<1>8. IdsOf(w) = IdsOf(venue) /\ \A k \in IdsOf(venue) : /\ w.orders[k].owner = venue.orders[k].owner
                                                         /\ w.orders[k].params = venue.orders[k].params
    BY <1>1, <1>6 DEF Filled
<1>9. /\ Elems(venue.books[p.market][-p.side]) \subseteq IdsOf(venue)
      /\ w.books = venue.books
    BY <1>1, <1>6, TakerIs DEF RestingIn
<1>10. D = C
    BY <1>8, <1>9 DEF Counted
<1>11. \A k \in C : g[k] = f[k]
    BY <1>5, <1>7, <1>8 DEF Unfilled
<1>12. SumFunctionOnSet(g, D) = SumFunctionOnSet(f, C) /\ SumFunctionOnSet(f, C) \in Int
    <2>1. SumFunctionOnSet(f, C) = SumFunctionOnSet(g, C)
        <3> HIDE DEF C, f, g
        <3> QED BY <1>5, <1>11, SumSame
    <2>2. SumFunctionOnSet(f, C) \in Int
        <3>1. \A k \in C : f[k] \in Int
            BY <1>5
        <3> HIDE DEF C, f
        <3> QED BY <3>1, <1>5, SumInt
    <2> QED BY <2>1, <2>2, <1>10
<1>13. Remaining(Taker)' = left - qty
    BY <1>1, <1>3, <1>4 DEF Remaining
<1>14. /\ FromBackstop(p, call.backstopLeft) = call.backstopLeft /\ call.backstopLeft \in Int
       /\ FromBackstop(p, call.backstopLeft)' = call.backstopLeft - qty
    <2>1. BackPrice(p.market, p.side)' = BackPrice(p.market, p.side)
        BY <1>2, <1>3 DEF BackPrice
    <2>2. BackPrice(p.market, p.side) # 0 /\ Takes(p, BackPrice(p.market, p.side))
        BY <1>2 DEF BackOk
    <2>3. call.backstopLeft \in Int
        BY <1>1 DEF Sweep
    <2> QED BY <2>1, <2>2, <2>3, <1>1, <1>3 DEF FromBackstop
<1> DEFINE back == call.backstopLeft
           sum == SumFunctionOnSet(f, C)
<1>15. p.tif = "FOK" => left <= sum + back
    BY <1>2, <1>14 DEF Enough
<1>16. p.tif = "FOK" => left - qty <= sum + (back - qty)
    <2>1. left \in Int /\ sum \in Int /\ back \in Int /\ qty \in Int
        BY <1>1, <1>4, <1>12, <1>14
    <2> HIDE DEF left, sum, back
    <2> QED BY <2>1, <1>15
<1>17. /\ Taker'.params.tif = p.tif
       /\ SumFunctionOnSet(Unfilled(venue'), Counted(venue', Taker'.params, Taker'.owner)) = sum
    BY <1>3, <1>6, <1>12
<1>18. FromBackstop(Taker.params, call.backstopLeft)' = back - qty
    BY <1>3, <1>14 DEF FromBackstop
<1> QED BY <1>13, <1>16, <1>17, <1>18 DEF Enough

\* A sweep that ends has left a fill-or-kill order untouched or filled it.
LEMMA SweepEndsWhole ==
    ASSUME Sweep(call, venue), Enough, MarketsOk, Moved, EndSweep, Taker.params.tif = "FOK"
    PROVE  Remaining(Taker) = 0 /\ Taker.filled = Taker.params.size
<1> DEFINE p == Taker.params
           left == Remaining(Taker)
           C == Counted(venue, p, Taker.owner)
<1>1. left \in Nat /\ p.side \in {1, -1} /\ p.price \in Nat /\ p.size \in Int /\ Taker.filled \in Int
      /\ OppositeBook = venue.books[p.market][-p.side]
    BY TakerIs
<1>2. ASSUME left > 0
      PROVE  FALSE
    <2>1. ~BookOk /\ ~BackOk
        BY <1>2 DEF EndSweep, Sweeping, BookFirst
    <2>2. ASSUME NEW k \in C
          PROVE  FALSE
        <3> DEFINE s == p.side
                   best == venue.orders[OppositeBook[1]].params.price
                   price == venue.orders[k].params.price
        <3>1. k \in Elems(OppositeBook) /\ Takes(p, price)
            BY <1>1 DEF Counted
        <3>2. OppositeBook # <<>> /\ price \in Nat /\ best \in Nat /\ s * best <= s * price
            BY <3>1, BestFirst
        <3>3. IsLimit(p) /\ ~(s * p.price >= s * best)
            BY <2>1, <3>2 DEF BookOk, Takes, Crosses
        <3>4. s * p.price >= s * price
            BY <3>1, <3>3 DEF Takes, Crosses
        <3> DEFINE limit == p.price
        <3>5. limit \in Nat /\ s \in {1, -1}
            BY <1>1
        <3>6. s * limit >= s * price /\ ~(s * limit >= s * best)
            BY <3>3, <3>4
        <3> HIDE DEF s, best, price, limit
        <3>7. s * limit \in Int /\ s * best \in Int /\ s * price \in Int
            BY <3>2, <3>5
        <3> QED BY <3>2, <3>6, <3>7
    <2>3. SumFunctionOnSet(Unfilled(venue), C) = 0
        BY <2>2, SumEmpty
    <2>4. FromBackstop(p, call.backstopLeft) \in Int /\ FromBackstop(p, call.backstopLeft) <= 0
        <3>1. call.backstopLeft \in Int
            BY DEF Sweep
        <3> QED BY <3>1, <2>1 DEF FromBackstop, BackOk
    <2>5. left <= 0 + FromBackstop(p, call.backstopLeft)
        BY <2>3 DEF Enough
    <2> QED BY <2>4, <2>5, <1>1, <1>2
<1>3. left = 0
    BY <1>1, <1>2
<1> QED BY <1>1, <1>3 DEF Remaining
LEMMA EndSweepFine ==
    ASSUME IInv, Progress, MarketsOk, EndSweep
    PROVE  Fine(venue', {}) /\ Sweep(call, venue)
<1> DEFINE id == call.id
           p == Taker.params
<1>1. Sweep(call, venue) /\ call.op = "sweep"
    BY IdleIs DEF EndSweep
<1>2. /\ Shaped(venue) /\ id \in IdsOf(venue) /\ Taker = venue.orders[id] /\ Taker.status = "Open"
      /\ p.size \in Nat
    BY <1>1, TakerIs
<1>3. Fine(venue, {id}) /\ Enough /\ Moved
    BY <1>1 DEF Progress
<1>4. p.tif = "FOK" => venue.orders[id].filled \in {0, venue.orders[id].params.size}
    BY <1>1, <1>2, <1>3, SweepEndsWhole
<1>5. ASSUME NEW st \in {"Filled", "Cancelled"},
             venue' = Untrack([venue EXCEPT !.orders[id].status = st], id)
      PROVE  Fine(venue', {})
    <2>1. {id} \ {id} = {}
        OBVIOUS
    <2> HIDE DEF id
    <2>2. venue.orders[id].params.tif = "FOK" => venue.orders[id].filled \in {0, venue.orders[id].params.size}
        BY <1>2, <1>4
    <2>3. LET w == Untrack([venue EXCEPT !.orders[id].status = st], id)
          IN  Fine(w, {id} \ {id})
        BY <2>2, <1>2, <1>3, EndedFine
    <2> QED BY <2>1, <2>3, <1>5
<1>6. CASE Remaining(Taker) = 0
    <2>1. venue' = Untrack([venue EXCEPT !.orders[id].status = "Filled"], id)
        BY <1>6 DEF EndSweep, FinishFilled
    <2> QED BY <2>1, <1>1, <1>5
<1>7. CASE Remaining(Taker) # 0 /\ IsLimit(p) /\ p.tif \in {"GTC", "PostOnly"}
    <2>1. venue' = Rest(venue, id)
        BY <1>7 DEF EndSweep
    <2>2. venue'.orders = venue.orders /\ venue'.position = venue.position
        BY <2>1, <1>2, ListsFrame
    <2>3. Settled(venue.orders[id])
        BY <1>2, <1>4, <1>7 DEF Settled
    <2>4. Fine(venue', {})
        <3> HIDE DEF id
        <3> QED BY <2>2, <2>3, <1>3 DEF Fine, IdsOf
    <2> QED BY <2>4, <1>1
<1>8. CASE Remaining(Taker) # 0 /\ ~(IsLimit(p) /\ p.tif \in {"GTC", "PostOnly"})
    <2>1. venue' = Untrack([venue EXCEPT !.orders[id].status = "Cancelled"], id)
        BY <1>8 DEF EndSweep, Cancel
    <2> QED BY <2>1, <1>1, <1>5
<1> QED BY <1>1, <1>6, <1>7, <1>8

-----------------------------------------------------------------------------
(* The start of a sweep: what the checks of _execute establish.            *)

\* Numbering what is summed differently does not change the sum.
LEMMA SumRenamed ==
    ASSUME NEW I, IsFiniteSet(I), NEW e, NEW h,
           \A i \in I : h[e[i]] \in Int,
           \A i, j \in I : i # j => e[i] # e[j]
    PROVE  SumFunction([i \in I |-> h[e[i]]]) = SumFunctionOnSet(h, {e[i] : i \in I})
<1> DEFINE f == [i \in I |-> h[e[i]]]
           Image(U) == {e[i] : i \in U}
           G == {U \in SUBSET I : /\ SumFunctionOnSet(f, U) = SumFunctionOnSet(h, Image(U))
                                  /\ IsFiniteSet(Image(U))}
<1>1. {} \in G
    <2>1. Image({}) = {}
        OBVIOUS
    <2> HIDE DEF f, Image
    <2> QED BY <2>1, SumEmpty, FS_EmptySet
<1>2. ASSUME NEW U \in SUBSET I, U # {}, \A x \in U : U \ {x} \in G
      PROVE  U \in G
    <2>1. PICK x \in U : TRUE
        BY <1>2
    <2>2. IsFiniteSet(U)
        BY FS_Subset
    <2>4. Image(U \ {x}) = Image(U) \ {e[x]} /\ e[x] \in Image(U)
        OBVIOUS
    <2>3. IsFiniteSet(Image(U))
        <3>1. IsFiniteSet(Image(U \ {x})) /\ Image(U) = Image(U \ {x}) \cup {e[x]}
            BY <1>2, <2>4
        <3> DEFINE T == Image(U \ {x})
                   y == e[x]
        <3>2. IsFiniteSet(T) /\ Image(U) = T \cup {y}
            BY <3>1
        <3> HIDE DEF Image, T, y
        <3>3. IsFiniteSet(T \cup {y})
            BY <3>2, FS_AddElement
        <3> QED BY <3>2, <3>3
    <2>5. (\A i \in U : f[i] \in Int) /\ (\A y \in Image(U) : h[y] \in Int) /\ f[x] = h[e[x]]
        OBVIOUS
    <2>6. SumFunctionOnSet(f, U \ {x}) = SumFunctionOnSet(h, Image(U \ {x}))
        BY <1>2
    <2> DEFINE a == e[x]
               T == Image(U)
    <2>7. SumFunctionOnSet(f, U) = f[x] + SumFunctionOnSet(f, U \ {x})
        <3> HIDE DEF f
        <3> QED BY <2>2, <2>5, SumTakeOut
    <2>8. SumFunctionOnSet(h, T) = h[a] + SumFunctionOnSet(h, T \ {a})
        <3>1. a \in T /\ IsFiniteSet(T) /\ \A y \in T : h[y] \in Int
            BY <2>3, <2>4, <2>5
        <3> HIDE DEF a, T
        <3> QED BY <3>1, SumTakeOut
    <2> QED BY <2>3, <2>4, <2>5, <2>6, <2>7, <2>8
<1>3. SUBSET I \subseteq G
    <2>1. G \in SUBSET SUBSET I
        OBVIOUS
    <2> HIDE DEF G
    <2> QED BY <2>1, <1>1, <1>2, AllSubsets
<1>4. SumFunctionOnSet(f, I) = SumFunctionOnSet(h, Image(I))
    BY <1>3
<1>5. SumFunction(f) = SumFunctionOnSet(f, I)
    <2>1. f \in [I -> Int]
        OBVIOUS
    <2> HIDE DEF f
    <2> QED BY <2>1, SumFunctionIs
<1> QED BY <1>4, <1>5

\* What _crossableSize counts, place by place, is what the sweep could take, order by order.
LEMMA CrossableIs ==
    ASSUME NEW v, NEW out, Sound(v, out), NEW p \in Params, NEW owner
    PROVE  Crossable(v, p, owner) = SumFunctionOnSet(Unfilled(v), Counted(v, p, owner))
                                      + FromBackstop(p, BackstopMaxSize)
<1> DEFINE book == v.books[p.market][-p.side]
           I == {k \in 1 .. Len(book) : /\ v.orders[book[k]].owner # owner
                                        /\ Takes(p, v.orders[book[k]].params.price)}
           h == Unfilled(v)
           C == Counted(v, p, owner)
<1>1. p.market \in Markets /\ -p.side \in Sides
    BY DEF Params, Sides, Buy, Sell
<1>2. /\ book \in Seq(Nat) /\ Distinct(book) /\ Elems(book) \subseteq IdsOf(v) /\ Shaped(v)
    BY <1>1, BookIs DEF RestingIn, Sound
<1>3. Crossable(v, p, owner) = SumFunction([k \in I |-> Remaining(v.orders[book[k]])])
                                 + FromBackstop(p, BackstopMaxSize)
    BY DEF Crossable, FromBackstop
<1>4. C = {book[k] : k \in I}
    BY DEF Counted, Elems
<1>5. \A k \in I : book[k] \in IdsOf(v) /\ h[book[k]] = Remaining(v.orders[book[k]])
    BY <1>2 DEF Elems, Unfilled
<1>6. \A k \in I : h[book[k]] \in Int
    <2> SUFFICES ASSUME NEW k \in I
                 PROVE  h[book[k]] \in Int
        OBVIOUS
    <2> DEFINE j == book[k]
    <2>1. j \in IdsOf(v) /\ h[j] = Remaining(v.orders[j])
        BY <1>5
    <2> HIDE DEF j, h, book, I
    <2>2. Remaining(v.orders[j]) \in Int
        BY <2>1, <1>2, OrderIs DEF Remaining
    <2> QED BY <2>1, <2>2 DEF j
<1>7. IsFiniteSet(I) /\ \A i, j \in I : i # j => book[i] # book[j]
    <2>1. Len(book) \in Nat
        BY <1>2
    <2>2. IsFiniteSet(1 .. Len(book))
        BY <2>1, FS_Interval
    <2> QED BY <2>2, <1>2, FS_Subset DEF Distinct
<1>8. [k \in I |-> Remaining(v.orders[book[k]])] = [k \in I |-> h[book[k]]]
    BY <1>5
<1>9. SumFunction([k \in I |-> h[book[k]]]) = SumFunctionOnSet(h, {book[k] : k \in I})
    <2> HIDE DEF I, h, book
    <2> QED BY <1>6, <1>7, SumRenamed
<1> QED BY <1>3, <1>4, <1>8, <1>9
\* A post-only order that passes _postOnlyOk meets no offer at its price or better.
LEMMA PostOnlyMeetsNothing ==
    ASSUME MarketsOk, NEW v, NEW out, Sound(v, out), Fine(v, out), NEW p \in Params,
           p.tif = "PostOnly", IsLimit(p), PostOnlyOk(v, p)
    PROVE  /\ \A k \in Elems(v.books[p.market][-p.side]) : ~Takes(p, v.orders[k].params.price)
           /\ BackPrice(p.market, p.side) # 0 => ~Takes(p, BackPrice(p.market, p.side))
<1> DEFINE s == p.side
           book == v.books[p.market][-p.side]
           back == BackPrice(p.market, p.side)
           prices == {v.orders[book[k]].params.price : k \in 1 .. Len(book)}
           offer == prices \cup ({back} \ {0})
           best == CHOOSE x \in offer : \A y \in offer : s * x <= s * y
           first == v.orders[book[1]].params.price
           limit == p.price
<1>1. s \in {1, -1} /\ p.market \in Markets /\ -p.side \in Sides /\ limit \in Nat /\ Shaped(v)
    BY DEF Params, Sides, Buy, Sell, Sound
<1>2. back \in Int
    BY <1>1, BackPriceIs
<1>3. book \in Seq(Nat) /\ Elems(book) = RestingIn(v, p.market, -p.side, out)
    BY <1>1, BookIs
<1>4. ASSUME NEW k \in Elems(book)
      PROVE  /\ v.orders[k].params.price \in Nat \ {0}
             /\ book # <<>> /\ first \in Nat /\ s * first <= s * v.orders[k].params.price
    <2> DEFINE price == v.orders[k].params.price
    <2>1. k \in IdsOf(v) \ out /\ v.orders[k].status = "Open"
        BY <1>3 DEF RestingIn
    <2>2. price \in Nat \ {0}
        <3>1. IsLimit(v.orders[k].params) /\ price \in Nat
            BY <2>1, <1>1, OrderIs DEF Fine, Settled
        <3> QED BY <3>1, <2>1 DEF Fine, Priced
    <2>3. book # <<>> /\ book[1] \in IdsOf(v) /\ (-s) * first >= (-s) * price
        <3> DEFINE t == -p.side
                   m == p.market
        <3>1. m \in Markets /\ t \in Sides /\ k \in Elems(v.books[m][t])
            BY <1>1
        <3> HIDE DEF m, t
        <3>2. /\ v.books[m][t] # <<>> /\ v.books[m][t][1] \in IdsOf(v)
              /\ t * v.orders[v.books[m][t][1]].params.price >= t * v.orders[k].params.price
            BY <3>1, FirstIsBest
        <3> QED BY <3>2 DEF m, t
    <2>4. first \in Nat
        BY <2>3, <1>1, OrderIs
    <2> HIDE DEF book, first, price, s
    <2>5. s * first <= s * price
        <3>1. CASE s = 1
            BY <3>1, <2>2, <2>3, <2>4
        <3>2. CASE s = -1
            BY <3>2, <2>2, <2>3, <2>4
        <3> QED BY <3>1, <3>2, <1>1
    <2> QED BY <2>2, <2>3, <2>4, <2>5 DEF price
<1>5. \A x \in prices : x \in Nat \ {0} /\ first \in prices /\ first \in Nat /\ s * first <= s * x
    <2> SUFFICES ASSUME NEW i \in 1 .. Len(book)
                 PROVE  LET x == v.orders[book[i]].params.price
                        IN  x \in Nat \ {0} /\ first \in prices /\ first \in Nat /\ s * first <= s * x
        OBVIOUS
    <2>1. book[i] \in Elems(book)
        BY DEF Elems
    <2>2. 1 \in 1 .. Len(book)
        BY <1>3
    <2>3. first \in prices
        BY <2>2
    <2> DEFINE j == book[i]
    <2> HIDE DEF first, prices, s, book
    <2> QED BY <2>1, <2>3, <1>4
<1> HIDE DEF s, book, back, prices, first
<1>6. offer # {} => /\ best \in offer /\ best # 0
                    /\ \A y \in offer : s * best <= s * y
    <2> SUFFICES ASSUME offer # {}
                 PROVE  \E x \in offer : \A y \in offer : s * x <= s * y
        BY <1>5
    <2>1. \A x, y \in Int : s * x <= s * y \/ s * y <= s * x
        BY <1>1
    <2>2. \A x, y, z \in Int : s * x <= s * y /\ s * y <= s * z => s * x <= s * z
        BY <1>1
    <2>3. \A x \in Int : s * x <= s * x
        BY <1>1
    <2>4. CASE prices = {}
        <3>1. offer = {back}
            BY <2>4
        <3> QED BY <3>1, <2>3, <1>2
    <2>5. CASE prices # {}
        <3>1. first \in prices /\ first \in Int /\ \A x \in prices : s * first <= s * x /\ x \in Int
            BY <2>5, <1>5
        <3>2. CASE back = 0
            <4>1. offer = prices
                BY <3>2
            <4> QED BY <4>1, <3>1
        <3>3. CASE back # 0 /\ s * first <= s * back
            <4>1. \A y \in offer : s * first <= s * y
                BY <3>1, <3>3
            <4> QED BY <4>1, <3>1
        <3>4. CASE back # 0 /\ s * back <= s * first
            <4>1. \A y \in offer : s * back <= s * y
                BY <3>1, <3>4, <2>2, <2>3, <1>2
            <4> QED BY <4>1, <3>4
        <3> QED BY <3>1, <3>2, <3>3, <3>4, <2>1, <1>2
    <2> QED BY <2>4, <2>5
<1>7. BestOpposite(v, p) = IF offer = {} THEN 0 ELSE best
    BY DEF BestOpposite, offer, best, prices, book, back, s
<1>8. ASSUME NEW y \in offer
      PROVE  ~Takes(p, y)
    <2>1. best \in offer /\ best # 0 /\ s * best <= s * y
        BY <1>6
    <2>2. ~Crosses(p.side, p.price, best)
        BY <2>1, <1>7 DEF PostOnlyOk
    <2> HIDE DEF best
    <2>3. ~(s * limit >= s * best)
        BY <2>2 DEF Crosses, s
    <2>4. y \in Int /\ best \in Int
        BY <2>1, <1>2, <1>5
    <2> HIDE DEF offer, limit
    <2>5. s * limit \in Int /\ s * best \in Int /\ s * y \in Int
        BY <2>4, <1>1
    <2>6. ~(s * limit >= s * y)
        BY <2>1, <2>3, <2>5
    <2> QED BY <2>6 DEF Takes, Crosses, s, limit
<1>9. \A k \in Elems(book) : v.orders[k].params.price \in offer
    BY DEF Elems, prices
<1>10. back # 0 => back \in offer
    OBVIOUS
<1> HIDE DEF offer
<1> QED BY <1>8, <1>9, <1>10 DEF book, back

LEMMA ExecuteProgress ==
    ASSUME MarketsOk, market' = market, funded' = funded,
           NEW v, NEW id \in IdsOf(v), Execute(v, id), Sound(v, {id}), Fine(v, {id}), Fine(venue, {}),
           v.position = venue.position, v.orders[id].filled = 0,
           v.orders[id].params.reduceOnly =>
               Reduces(venue.position[v.orders[id].owner][v.orders[id].params.market], v.orders[id].params)
    PROVE  Progress'
<1> DEFINE o == v.orders[id]
           p == o.params
           book == v.books[p.market][-p.side]
           back == BackPrice(p.market, p.side)
<1>1. /\ venue' = v /\ call'.op = "sweep" /\ call'.id = id /\ call'.before = venue
      /\ call'.backstopLeft = BackstopMaxSize /\ call'.tape = <<>>
      /\ PostOnlyOk(v, p) /\ (p.tif = "FOK" => Crossable(v, p, o.owner) >= p.size)
    BY DEF Execute
<1>2. /\ Shaped(v) /\ p \in Params /\ p.market \in Markets /\ o.owner \in Traders
      /\ p.side \in {1, -1} /\ p.size \in Nat
    BY OrderIs DEF Sound
<1>3. Taker' = o /\ OppositeBook' = book
    BY <1>1 DEF Taker, OppositeBook
<1>4. BackPrice(Taker.params.market, Taker.params.side)' = back
    BY <1>3 DEF BackPrice
<1>5. Moved'
    <2> DEFINE before == venue.position[o.owner][p.market]
    <2>1. before \in Int
        BY <1>2 DEF Fine
    <2>2. p.side * 0 = 0
        BY <1>2
    <2>3. before = before + p.side * o.filled /\ o.filled >= 0
        <3> HIDE DEF before
        <3> QED BY <2>1, <2>2
    <2> QED BY <2>3, <1>1, <1>3 DEF Moved
<1>6. Enough'
    <2> DEFINE sum == SumFunctionOnSet(Unfilled(v), Counted(v, p, o.owner))
    <2>1. Crossable(v, p, o.owner) = sum + FromBackstop(p, BackstopMaxSize)
        BY <1>2, CrossableIs
    <2>2. FromBackstop(Taker.params, call.backstopLeft)' = FromBackstop(p, BackstopMaxSize)
        <3>1. Taker'.params = p /\ call'.backstopLeft = BackstopMaxSize
            BY Zenon, <1>1, <1>3
        <3>2. BackPrice(Taker.params.market, Taker.params.side)' = BackPrice(p.market, p.side)
            BY Zenon, <1>4
        <3> HIDE DEF p
        <3>3. FromBackstop(Taker.params, call.backstopLeft)' =
                LET b == BackPrice(Taker.params.market, Taker.params.side)'
                IN  IF b # 0 /\ Takes(Taker'.params, b) THEN call'.backstopLeft ELSE 0
            BY DEF FromBackstop
        <3> QED BY Zenon, <3>1, <3>2, <3>3 DEF FromBackstop
    <2>3. Remaining(Taker)' = p.size
        BY <1>2, <1>3 DEF Remaining
    <2>4. SumFunctionOnSet(Unfilled(venue'), Counted(venue', Taker'.params, Taker'.owner)) = sum
        BY <1>1, <1>3
    <2>5. p.tif = "FOK" => p.size <= sum + FromBackstop(p, BackstopMaxSize)
        <3> DEFINE all == sum + FromBackstop(p, BackstopMaxSize)
        <3>1. all \in Int
            <4>1. IsFiniteSet(Counted(v, p, o.owner)) /\ \A k \in Counted(v, p, o.owner) : Unfilled(v)[k] \in Int
                BY <1>2, CountedOf
            <4>2. sum \in Int
                BY <4>1, SumInt
            <4>3. FromBackstop(p, BackstopMaxSize) \in Int
                BY OrdersAssumption DEF FromBackstop
            <4> QED BY <4>2, <4>3
        <3>2. p.tif = "FOK" => all >= p.size
            BY <1>1, <2>1
        <3> HIDE DEF all
        <3>3. p.tif = "FOK" => p.size <= all
            BY <3>1, <3>2, <1>2
        <3> QED BY <3>3 DEF all
    <2> HIDE DEF sum
    <2> QED BY <2>2, <2>3, <2>4, <2>5, <1>3 DEF Enough
<1>7. Posting'
    <2> SUFFICES ASSUME p.tif = "PostOnly", IsLimit(p)
                 PROVE  ~BookOk' /\ ~BackOk'
        BY <1>1, <1>3 DEF Posting, IsLimit
    <2>1. /\ \A k \in Elems(book) : ~Takes(p, v.orders[k].params.price)
          /\ back # 0 => ~Takes(p, back)
        BY <1>1, <1>2, PostOnlyMeetsNothing
    <2>2. ~BackOk'
        BY <2>1, <1>3, <1>4 DEF BackOk, Takes, IsLimit
    <2>3. ASSUME book # <<>>
          PROVE  ~Takes(p, v.orders[book[1]].params.price)
        <3>1. book \in Seq(Nat)
            <4>1. -p.side \in Sides
                BY <1>2 DEF Sides, Buy, Sell
            <4> QED BY <4>1, <1>2, BookIs
        <3>2. book[1] \in Elems(book)
            <4> HIDE DEF book
            <4>1. 1 \in 1 .. Len(book)
                BY <2>3, <3>1
            <4> QED BY <4>1 DEF Elems
        <3> QED BY <3>2, <2>1
    <2>4. ~BookOk'
        BY <2>3, <1>1, <1>3 DEF BookOk, Takes, IsLimit
    <2> QED BY <2>2, <2>4
<1>8. Behind'
    <2>1. <<>> \in Seq(Fills) /\ Len(<<>>) = 0 /\ 1 .. 0 = {}
        OBVIOUS
    <2> QED BY <2>1, <1>1 DEF Behind
<1>9. Fine(venue', {call'.id}) /\ Fine(call'.before, {})
    BY <1>1
<1> QED BY <1>1, <1>5, <1>6, <1>7, <1>8, <1>9 DEF Progress
LEMMA PlaceOrderProgress ==
    ASSUME IInv, Progress, MarketsOk, NEW t \in Traders, NEW p \in Templates, PlaceOrder(t, p),
           call'.op = "sweep"
    PROVE  Progress'
<1> DEFINE id == Len(venue.orders) + 1
           w == Track([venue EXCEPT !.orders = Append(@, New(t, p, "Open"))], id)
<1>1. /\ call = Idle /\ Sound(venue, {}) /\ Fine(venue, {}) /\ p \in Params
      /\ venue.openCount[t] < MaxOpenOrders /\ UserIdFree(t, p.user)
      /\ market' = market /\ funded' = funded
      /\ Priced(p) /\ (p.reduceOnly => Reduces(venue.position[t][p.market], p))
    BY IdleIs, OrdersAssumption DEF PlaceOrder, Progress, Idle, Priced, InBand
<1>2. ~IsTrigger(p)
    BY DEF PlaceOrder, Idle
<1>3. Execute(w, id)
    BY <1>2 DEF PlaceOrder, New
<1>4. /\ Sound(w, {id}) /\ id \in IdsOf(w) /\ w.orders[id] = New(t, p, "Open")
    <2>1. \A k \in IdsOf(venue) : LiveIn(venue, k) /\ venue.orders[k].owner = t /\ p.user # 0 =>
                                      venue.orders[k].params.user # p.user
        BY <1>1, NameFree
    <2> QED BY <2>1, <1>1, PlacedKeeps
<1>5. w.position = venue.position /\ Fine(w, {id})
    BY <1>1, PlacedIs
<1> HIDE DEF w, id
<1>6. w.orders[id].owner = t /\ w.orders[id].params = p /\ w.orders[id].filled = 0
    BY <1>4 DEF New
<1> QED BY <1>1, <1>3, <1>4, <1>5, <1>6, ExecuteProgress

LEMMA TriggerOrderProgress ==
    ASSUME IInv, Progress, MarketsOk, NEW id \in 1 .. Len(venue.orders), TriggerOrder(id),
           call'.op = "sweep"
    PROVE  Progress'
<1> DEFINE u == Unpend(venue, id)
           awake == [u EXCEPT !.orders[id].status = "Open"]
           o == venue.orders[id]
<1>1. /\ call = Idle /\ Sound(venue, {}) /\ Fine(venue, {}) /\ id \in IdsOf(venue) \ {}
      /\ o.status = "Pending" /\ market' = market /\ funded' = funded
    BY IdleIs DEF TriggerOrder, Progress, Idle, IdsOf
<1>2. ~Stale(o) /\ Execute(awake, id)
    BY DEF TriggerOrder, Idle
<1> HIDE DEF awake
<1>3. /\ Shaped(u) /\ u.orders = venue.orders /\ u.position = venue.position /\ Fine(u, {})
      /\ id \in IdsOf(u) /\ Sound(u, {id}) /\ LiveIn(u, id)
    <2>1. Sound(u, {} \cup {id}) /\ u.orders = venue.orders
        BY <1>1, UnpendKeeps
    <2>2. u.position = venue.position
        BY <1>1, ListsFrame DEF Sound
    <2>3. {} \cup {id} = {id}
        OBVIOUS
    <2> HIDE DEF u
    <2> QED BY <2>1, <2>2, <2>3, <1>1, FineSame DEF Sound, IdsOf, LiveIn
<1> HIDE DEF u
<1> HIDE DEF o
<1>4. "Open" \in Statuses
    BY DEF Statuses
<1>5. Sound(awake, {id}) /\ id \in IdsOf(awake)
    <2>1. Sound(u, {id}) /\ id \in IdsOf(u) /\ LiveIn(u, id)
        BY <1>3
    <2> DEFINE out == {id}
    <2>2. id \in out /\ Sound(u, out)
        BY <2>1
    <2> HIDE DEF out
    <2>3. LET w == [u EXCEPT !.orders[id].status = "Open"]
          IN  Sound(w, out) /\ IdsOf(w) = IdsOf(u)
        BY <2>1, <2>2, ReopenedKeeps
    <2> QED BY <2>1, <2>3 DEF awake, out
<1>6. awake.orders = Restated(u.orders, id, "Open") /\ awake.position = u.position
    <2>1. Shaped(u) /\ id \in IdsOf(u)
        BY <1>3
    <2> QED BY <2>1, <1>4, StatusFrame DEF awake
<1>7. /\ IdsOf(awake) = IdsOf(u)
      /\ \A k \in IdsOf(u) : /\ k # id => awake.orders[k] = u.orders[k]
                             /\ awake.orders[k].params = u.orders[k].params
                             /\ awake.orders[k].owner = u.orders[k].owner
                             /\ awake.orders[k].filled = u.orders[k].filled
    BY <1>3, <1>4, <1>6, RestatedIs
<1>8. /\ Fine(awake, {id}) /\ awake.orders[id].filled = 0 /\ awake.position = venue.position
      /\ awake.orders[id].params = o.params /\ awake.orders[id].owner = o.owner
    BY <1>1, <1>3, <1>6, <1>7 DEF Fine, Settled, o
<1>9. o.params.reduceOnly => Reduces(venue.position[o.owner][o.params.market], o.params)
    BY <1>2 DEF Stale
<1> QED BY <1>1, <1>2, <1>5, <1>8, <1>9, ExecuteProgress

LEMMA FillFromBookProgress ==
    ASSUME IInv, Progress, MarketsOk, FillFromBook
    PROVE  Progress'
<1>1. /\ Sweep(call, venue) /\ Maker \in IdsOf(venue) \ {call.id} /\ TakenQty \in Nat
      /\ Filled(venue, venue', call.id, Maker, TakenQty)
      /\ venue.orders[Maker].status = "Open" /\ venue'.orders[Maker].status \in {"Open", "Filled"}
      /\ call'.op = "sweep" /\ call'.id = call.id /\ call'.before = call.before
    BY BookFills
<1>2. /\ Fine(venue, {call.id}) /\ Fine(call.before, {}) /\ Posting /\ BookOk
      /\ market' = market /\ funded' = funded /\ call.id \in IdsOf(venue)
    BY <1>1, TakerIs DEF Progress, Sweep, FillFromBook, BookFirst
<1> DEFINE maker == Maker
           qty == TakenQty
           id == call.id
<1>3. Fine(venue', {id})
    <2>1. /\ id \in IdsOf(venue) /\ Fine(venue, {id}) /\ Filled(venue, venue', id, maker, qty)
          /\ maker \in IdsOf(venue) \ {id} /\ venue.orders[maker].status = "Open"
          /\ venue'.orders[maker].status \in {"Open", "Filled"}
        BY <1>1, <1>2
    <2> HIDE DEF maker, qty, id
    <2> QED BY <2>1, FillFine
<1>4. Moved'
    <2>1. Filled(venue, venue', call.id, maker, qty) /\ qty \in Nat
        BY <1>1
    <2> HIDE DEF maker, qty
    <2> QED BY <2>1, <1>1, FillMoved
<1>5. Posting'
    <2>1. Filled(venue, venue', call.id, maker, qty)
        BY <1>1
    <2> HIDE DEF maker, qty
    <2> QED BY <2>1, <1>1, <1>2, FillPosting
<1>6. Enough' /\ Behind'
    BY BookFillEnough, BookFillBehind
<1> QED BY <1>1, <1>2, <1>3, <1>4, <1>5, <1>6 DEF Progress

LEMMA FillFromBackstopProgress ==
    ASSUME IInv, Progress, MarketsOk, FillFromBackstop
    PROVE  Progress'
<1> DEFINE maker == 0
           qty == Lesser(Remaining(Taker), call.backstopLeft)
           id == call.id
<1>1. /\ Sweep(call, venue) /\ qty \in Nat /\ Filled(venue, venue', id, maker, qty)
      /\ call'.op = "sweep" /\ call'.id = call.id /\ call'.before = call.before
    BY BackstopFills
<1>2. /\ Fine(venue, {id}) /\ Fine(call.before, {}) /\ Posting /\ BackOk
      /\ market' = market /\ funded' = funded /\ id \in IdsOf(venue) /\ maker = 0
    BY <1>1, TakerIs DEF Progress, Sweep, FillFromBackstop
<1> HIDE DEF maker, qty
<1>3. Fine(venue', {id})
    <2> HIDE DEF id
    <2> QED BY <1>1, <1>2, FillFine
<1>4. Moved'
    BY <1>1, FillMoved
<1>5. Posting'
    BY <1>1, <1>2, FillPosting
<1>6. Enough' /\ Behind'
    BY BackstopFillEnough, BackstopFillBehind
<1> QED BY <1>1, <1>2, <1>3, <1>4, <1>5, <1>6 DEF Progress

LEMMA StepProgress ==
    ASSUME IInv, MarketsOk, Progress, [Next]_vars
    PROVE  Progress'
<1>1. CASE UNCHANGED vars
    <2>1. venue' = venue /\ market' = market /\ funded' = funded /\ call' = call
        BY <1>1 DEF vars
    <2>2. Taker' = Taker /\ OppositeBook' = OppositeBook
        BY <2>1 DEF Taker, OppositeBook
    <2>3. \A m, s : BackPrice(m, s)' = BackPrice(m, s)
        BY <2>1 DEF BackPrice
    <2>4. (BookOk' <=> BookOk) /\ (BackOk' <=> BackOk)
        BY <2>1, <2>2, <2>3 DEF BookOk, BackOk
    <2>5. Moved' <=> Moved
        BY <2>1, <2>2 DEF Moved
    <2>6. Enough' <=> Enough
        BY <2>1, <2>2, <2>3 DEF Enough, FromBackstop
    <2>7. Posting' <=> Posting
        BY <2>1, <2>2, <2>4 DEF Posting
    <2>8. \A f : (BookIsBehind(f)' <=> BookIsBehind(f)) /\ (BackstopIsBehind(f)' <=> BackstopIsBehind(f))
        BY <2>1, <2>2, <2>3, <2>4 DEF BookIsBehind, BackstopIsBehind
    <2>9. Behind' <=> Behind
        BY <2>1, <2>8 DEF Behind, BookIsBehind, BackstopIsBehind
    <2> QED BY <2>1, <2>5, <2>6, <2>7, <2>9 DEF Progress
<1>2. CASE call.op # "sweep" /\ call'.op # "sweep"
    <2>1. Fine(venue', {})
        BY <1>2, OutsideFine
    <2> QED BY <2>1, <1>2 DEF Progress
<1>3. CASE Next /\ call.op # "sweep" /\ call'.op = "sweep"
    <2>1. ~Environment
        BY <1>3 DEF Environment, ForcedClose, MoveIndex, SetStatus, SetPaused, BackstopBalance, Move
    <2>2. ~CallStep
        <3>1. CallStep => CancelNext \/ EndCancelAll
            BY <1>3 DEF CallStep, FillFromBook, SelfTrade, FillFromBackstop, EndSweep, Sweeping
        <3>2. ~EndCancelAll
            BY <1>3 DEF EndCancelAll, Idle
        <3>3. ~CancelNext
            <4> SUFFICES ASSUME CancelNext
                         PROVE  FALSE
                OBVIOUS
            <4>1. CancelsAll(call, venue)
                BY IdleIs DEF CancelNext
            <4>2. call'.op = "cancelAll"
                BY <4>1 DEF CancelNext, CancelsAll
            <4> QED BY <4>2, <1>3
        <3> QED BY <3>1, <3>2, <3>3
    <2>3. ASSUME NEW id \in 1 .. Len(venue.orders), CancelOrder(id)
          PROVE  FALSE
        BY <2>3, <1>3 DEF CancelOrder
    <2>4. ASSUME NEW t \in Traders, NEW scope, CancelAll(t, scope)
          PROVE  FALSE
        BY <2>4, <1>3 DEF CancelAll
    <2>5. \/ \E t \in Traders, p \in Templates : PlaceOrder(t, p)
          \/ \E id \in 1 .. Len(venue.orders) : TriggerOrder(id)
        BY <2>1, <2>2, <2>3, <2>4, <1>3 DEF Next, UserStep
    <2> QED BY <2>5, <1>3, PlaceOrderProgress, TriggerOrderProgress
<1>4. CASE Next /\ call.op = "sweep"
    <2>1. FillFromBook \/ FillFromBackstop \/ SelfTrade \/ EndSweep
        <3>1. call # Idle
            BY <1>4 DEF Idle
        <3>2. ~Environment
            BY <3>1 DEF Environment, ForcedClose, MoveIndex, SetStatus, SetPaused, BackstopBalance, Move
        <3>3. ~UserStep
            BY <3>1 DEF UserStep, PlaceOrder, TriggerOrder, CancelOrder, CancelAll
        <3>4. ~CancelNext /\ ~EndCancelAll
            BY <1>4 DEF CancelNext, EndCancelAll
        <3> QED BY <3>2, <3>3, <3>4, <1>4 DEF Next, CallStep
    <2>2. CASE SelfTrade
        <3>1. Fine(call.before, {}) /\ venue' = call.before /\ call'.op # "sweep"
            BY <2>2, <1>4 DEF SelfTrade, Progress, Idle
        <3> QED BY <3>1 DEF Progress
    <2>3. CASE EndSweep
        <3>1. Fine(venue', {}) /\ call'.op # "sweep"
            BY <2>3, EndSweepFine DEF EndSweep, Idle
        <3> QED BY <3>1 DEF Progress
    <2> QED BY <2>1, <2>2, <2>3, FillFromBookProgress, FillFromBackstopProgress
<1> QED BY <1>1, <1>2, <1>3, <1>4

LEMMA AlwaysProgress == Spec => [](IInv /\ MarketsOk /\ Progress)
<1>1. Init => IInv /\ MarketsOk /\ Progress
    <2> SUFFICES ASSUME Init
                 PROVE  MarketsOk /\ Fine(venue, {}) /\ call.op # "sweep"
        BY InitKept DEF Progress
    <2>1. market \in [Markets -> [status : {"Active"}, index : Indexes]] /\ call.op # "sweep"
        BY DEF Init, Idle
    <2>2. MarketsOk
        BY <2>1 DEF MarketsOk
    <2>3. venue.orders = <<>> /\ venue.position = [t \in Traders |-> [m \in Markets |-> 0]]
        BY DEF Init
    <2>4. IdsOf(venue) = {}
        BY <2>3 DEF IdsOf
    <2> QED BY <2>1, <2>2, <2>3, <2>4 DEF Fine
<1>2. IInv /\ MarketsOk /\ Progress /\ [Next]_vars => (IInv /\ MarketsOk /\ Progress)'
    BY StepKept, StepMarkets, StepProgress
<1> QED BY <1>1, <1>2, PTL DEF Spec
-----------------------------------------------------------------------------
(* What a sweep keeps to. *)

LEMMA MovedShrinks ==
    ASSUME NEW before \in Int, NEW side \in {1, -1}, NEW filled \in Nat, NEW size \in Nat,
           filled <= size, before # 0, (before > 0) = (side = -1), size <= Abs(before)
    PROVE  LET now == before + side * filled
           IN  /\ Abs(now) <= Abs(before)
               /\ now # 0 => (now > 0) = (before > 0)
<1>1. CASE side = -1
    <2>1. before > 0 /\ Abs(before) = before
        BY <1>1 DEF Abs
    <2>2. before + side * filled = before - filled
        BY <1>1
    <2> QED BY <2>1, <2>2 DEF Abs
<1>2. CASE side = 1
    <2>1. before < 0 /\ Abs(before) = -before
        BY <1>2 DEF Abs
    <2>2. before + side * filled = before + filled
        BY <1>2
    <2> QED BY <2>1, <2>2 DEF Abs
<1> QED BY <1>1, <1>2

(***************************************************************************)
(* While a reduce-only order takes, its owner's position only shrinks and  *)
(* keeps its sign, whatever happened to the position between placing the   *)
(* order, triggering it and the sweep.                                     *)
(***************************************************************************)
THEOREM ReduceOnlyOrdersShrink == Spec => []ReduceOnlyTakerShrinks
<1>1. IInv /\ MarketsOk /\ Progress => ReduceOnlyTakerShrinks
    <2> SUFFICES ASSUME IInv, Progress, call.op = "sweep", Taker.params.reduceOnly
                 PROVE  ShrinksItsOwner(Taker.owner, Taker.params.market)
        BY DEF ReduceOnlyTakerShrinks
    <2> DEFINE before == call.before.position[Taker.owner][Taker.params.market]
               s == Taker.params.side
               size == Taker.params.size
               filled == Taker.filled
    <2>1. Sweep(call, venue)
        BY IdleIs
    <2>2. /\ s \in {1, -1} /\ size \in Nat /\ filled \in Int /\ filled <= size
          /\ Taker.owner \in Traders /\ Taker.params.market \in Markets
        BY <2>1, TakerIs
    <2>3. /\ Moved /\ before \in Int
        BY <2>2 DEF Progress, Fine
    <2>4. /\ filled >= 0 /\ Reduces(before, Taker.params)
          /\ venue.position[Taker.owner][Taker.params.market] = before + s * filled
        BY <2>3 DEF Moved
    <2>5. before # 0 /\ (before > 0) = (s = -1) /\ size <= Abs(before)
        BY <2>4 DEF Reduces, Sell
    <2>6. filled \in Nat
        BY <2>2, <2>4
    <2> HIDE DEF before, s, size, filled
    <2>7. LET now == before + s * filled
          IN  /\ Abs(now) <= Abs(before)
              /\ now # 0 => (now > 0) = (before > 0)
        BY <2>2, <2>3, <2>5, <2>6, MovedShrinks
    <2> QED BY <2>4, <2>7 DEF ShrinksItsOwner, before
<1> QED BY <1>1, AlwaysProgress, PTL

(***************************************************************************)
(* A fill-or-kill order is filled in full or not at all, though the walk   *)
(* of _crossableSize and the sweep read the book differently; an immediate *)
(* or market order never rests; a post-only limit order takes nothing from *)
(* the book or the backstop.                                               *)
(***************************************************************************)
THEOREM TimeInForceHolds == Spec => []TimeInForceKept
<1>1. IInv /\ MarketsOk /\ Progress => TimeInForceKept
    <2> SUFFICES ASSUME Progress
                 PROVE  TimeInForceKept
        OBVIOUS
    <2>1. ASSUME NEW id \in Ids, ~(call.op = "sweep" /\ call.id = id)
          PROVE  LET o == venue.orders[id]
                 IN  /\ o.params.tif = "FOK" => o.filled \in {0, o.params.size}
                     /\ o.status = "Open" => IsLimit(o.params) /\ o.params.tif \in {"GTC", "PostOnly"}
        <3>1. Settled(venue.orders[id])
            BY <2>1 DEF Progress, Fine, Ids, IdsOf
        <3> QED BY <3>1 DEF Settled
    <2>2. ASSUME call.op = "sweep", Taker.params.tif = "PostOnly", IsLimit(Taker.params)
          PROVE  call.tape = <<>>
        BY <2>2 DEF Progress, Posting
    <2> QED BY <2>1, <2>2 DEF TimeInForceKept
<1> QED BY <1>1, AlwaysProgress, PTL

(***************************************************************************)
(* Price-time priority and no trade-through over a whole sweep: nothing    *)
(* that was ahead of what was filled, in the book or at the backstop, is   *)
(* left when it ends.                                                      *)
(***************************************************************************)
THEOREM SweepsTakeTheBest == Spec => NothingBetterLeft
<1> DEFINE Step == call.op = "sweep" /\ call' = Idle /\ venue' # call.before =>
                     \A i \in 1 .. Len(call.tape) :
                         BookIsBehind(call.tape[i]) /\ BackstopIsBehind(call.tape[i])
<1>1. IInv /\ MarketsOk /\ Progress => [Step]_vars
    BY DEF Progress, Behind
<1> QED BY <1>1, AlwaysProgress, PTL DEF NothingBetterLeft
=============================================================================
