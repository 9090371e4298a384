--------------------------- MODULE PerpMath_proofs ---------------------------
(***************************************************************************)
(* Lemmas about the arithmetic of PerpMath, for every scale, size, price   *)
(* and fee: what stays an integer, and what a fill does to a position.     *)
(* Then what the proofs about a ledger need of sums over its accounts, and *)
(* how much each rounding can lose.                                        *)
(***************************************************************************)
EXTENDS PerpMath, Functions, FiniteSetTheorems, NaturalsInduction, TLAPS

(***************************************************************************)
(* Arithmetic: the operators of PerpMath stay within the integers.         *)
(***************************************************************************)
LEMMA AbsNat == \A n \in Int : /\ Abs(n) \in Nat
                               /\ n # 0 => Abs(n) > 0
  BY DEF Abs

LEMMA NatDiv == \A a \in Nat, b \in Nat \ {0} : a \div b \in Nat /\ a % b \in Nat
  OBVIOUS

LEMMA IntDiv == \A a \in Int, b \in Nat \ {0} : a \div b \in Int /\ a % b \in Int
  OBVIOUS

LEMMA TruncDivInt == \A a \in Int, b \in Nat \ {0} : TruncDiv(a, b) \in Int
  BY NatDiv DEF TruncDiv

LEMMA BlendNat ==
  ASSUME NEW s \in Nat, NEW e \in Nat, NEW q \in Nat \ {0}, NEW p \in Nat
  PROVE  BlendedEntry(s, e, q, p) \in Nat
<1>1. s * e \in Nat /\ q * p \in Nat /\ s + q \in Nat \ {0}
  OBVIOUS
<1>2. s * e + q * p \in Nat
  BY <1>1
<1>. QED
  BY <1>1, <1>2, NatDiv DEF BlendedEntry

\* One fill moves the size by exactly its quantity and keeps the entry a price.
LEMMA MovePositionType ==
  ASSUME NEW size \in Int, NEW entry \in Nat, NEW delta \in Int \ {0}, NEW price \in Nat
  PROVE  LET moved == MovePosition(size, entry, delta, price)
         IN  /\ moved.size = size + delta
             /\ moved.entry \in Nat
             /\ moved.realized \in Int
<1>. DEFINE closing == IF Abs(delta) < Abs(size) THEN Abs(delta) ELSE Abs(size)
            gain    == IF size > 0 THEN price - entry ELSE entry - price
<1>1. Abs(size) \in Nat /\ Abs(delta) \in Nat \ {0}
  BY AbsNat
<1>2. BlendedEntry(Abs(size), entry, Abs(delta), price) \in Nat
  BY <1>1, BlendNat
<1>3. closing * gain \in Int
  BY <1>1
<1>4. TruncDiv(closing * gain, NOTIONAL_DIVISOR) \in Int
  BY <1>3, TruncDivInt, ScaleAssumption
<1>. HIDE DEF closing, gain
<1>. QED
  BY <1>2, <1>4 DEF MovePosition, closing, gain

LEMMA FundingOwedInt ==
  \A size, snapshot, cumulative \in Int : FundingOwed(size, snapshot, cumulative) \in Int
<1>. SUFFICES ASSUME NEW size \in Int, NEW snapshot \in Int, NEW cumulative \in Int
              PROVE  FundingOwed(size, snapshot, cumulative) \in Int
  OBVIOUS
<1>1. size * (cumulative - snapshot) \in Int
  OBVIOUS
<1>. QED
  BY <1>1, TruncDivInt, ScaleAssumption DEF FundingOwed

LEMMA UnrealizedPnlInt ==
  ASSUME NEW size \in Int, NEW entry \in Int, NEW mark \in Int
  PROVE  UnrealizedPnl(size, entry, mark) \in Int
<1>1. size * (mark - entry) \in Int
  OBVIOUS
<1>. QED
  BY <1>1, TruncDivInt, ScaleAssumption DEF UnrealizedPnl

LEMMA FlatGainsNothing ==
  ASSUME NEW entry \in Int, NEW mark \in Int
  PROVE  UnrealizedPnl(0, entry, mark) = 0
<1>1. 0 * (mark - entry) = 0
  OBVIOUS
<1>2. TruncDiv(0, NOTIONAL_DIVISOR) = 0
  BY ScaleAssumption DEF TruncDiv
<1>. QED
  BY <1>1, <1>2 DEF UnrealizedPnl

LEMMA NotionalInt ==
  ASSUME NEW size \in Int, NEW price \in Int
  PROVE  Notional(size, price) \in Int
<1>1. size * price \in Int
  OBVIOUS
<1>. QED
  BY <1>1, IntDiv, ScaleAssumption DEF Notional

LEMMA FeesInt ==
  ASSUME NEW n \in Int, NEW bps \in Int
  PROVE  TakerFee(n, bps) \in Int /\ MakerFee(n, bps) \in Int /\ MarginOf(n, bps) \in Int
<1>1. n * bps \in Int
  OBVIOUS
<1>. QED
  BY <1>1, IntDiv, TruncDivInt, ScaleAssumption DEF TakerFee, MakerFee, MarginOf

LEMMA IndexDeltaInt ==
  ASSUME NEW rate \in Int, NEW price \in Int
  PROVE  IndexDelta(rate, price) \in Int
<1>1. rate * price \in Int
  OBVIOUS
<1>. QED
  BY <1>1, TruncDivInt, ScaleAssumption DEF IndexDelta

\* The mark is a price as long as the basis is at most 100 %.
LEMMA MarkPriceNat ==
  ASSUME NEW lastFill \in Nat, NEW index \in Nat, NEW basis \in 0 .. BPS
  PROVE  MarkPrice(lastFill, index, basis) \in Nat
<1>1. BPS - basis \in Nat /\ BPS + basis \in Nat /\ BPS \in Nat \ {0}
  BY ScaleAssumption
<1>2. index * (BPS - basis) \in Nat /\ index * (BPS + basis) \in Nat
  BY <1>1
<1>3. Below(index, basis) \in Nat /\ Above(index, basis) \in Nat
  BY <1>1, <1>2, NatDiv DEF Below, Above
<1>. QED
  BY <1>3 DEF MarkPrice, Clamp

(***************************************************************************)
(* Whatever a fill's notional, a rebate no larger than the taker fee never *)
(* costs the exchange: the two fees are rounded by different divisions,    *)
(* and what is left is at least zero (_fill; the bound on the rebate is    *)
(* _validateParams).                                                       *)
(***************************************************************************)
THEOREM NetFeeNeverNegative ==
  ASSUME NEW n \in Nat, NEW taker \in Nat, NEW rebate \in Nat, rebate <= taker
  PROVE  TakerFee(n, taker) + MakerFee(n, -rebate) >= 0
<1>1. n * taker \in Nat /\ n * rebate \in Nat /\ n * (-rebate) = -(n * rebate)
  OBVIOUS
<1>2. n * rebate <= n * taker
  OBVIOUS
<1>3. MakerFee(n, -rebate) = -((n * rebate) \div BPS)
  <2>1. CASE n * rebate = 0
    BY <2>1, <1>1, ScaleAssumption DEF MakerFee, TruncDiv
  <2>2. CASE n * rebate > 0
    BY <2>2, <1>1, ScaleAssumption DEF MakerFee, TruncDiv
  <2> QED BY <1>1, <2>1, <2>2
<1>4. (n * rebate) \div BPS <= (n * taker) \div BPS
  BY <1>1, <1>2, ScaleAssumption
<1>5. (n * rebate) \div BPS \in Nat /\ (n * taker) \div BPS \in Nat
  BY <1>1, NatDiv, ScaleAssumption
<1> QED BY <1>3, <1>4, <1>5 DEF TakerFee

(***************************************************************************)
(* Induction, stated over sets so that no operator is a parameter: the set *)
(* of what the induction has reached is the whole.                         *)
(***************************************************************************)
LEMMA AllNaturals ==
  ASSUME NEW G \in SUBSET Nat, 0 \in G, \A n \in G : n + 1 \in G
  PROVE  G = Nat
<1>. DEFINE R   == OpToRel(<, Nat)
            bad == Nat \ G
<1>1. IsWellFoundedOn(R, Nat)
  BY NatLessThanWellFounded
<1>2. \A x \in Nat, y \in Nat : y < x => <<y, x>> \in R
  BY DEF OpToRel
<1>. HIDE DEF R
<1>3. SUFFICES ASSUME bad # {} PROVE FALSE
  OBVIOUS
<1>4. PICK x \in bad : \A y \in bad : ~ (<<y, x>> \in R)
  BY <1>1, <1>3, WFMin
<1>5. x \in Nat \ {0} /\ x - 1 \in Nat /\ x - 1 < x
  OBVIOUS
<1>6. x - 1 \in G
  BY <1>2, <1>4, <1>5
<1>7. x - 1 + 1 \in G /\ x - 1 + 1 = x
  BY <1>5, <1>6
<1>. QED
  BY <1>7

LEMMA AllSubsets ==
  ASSUME NEW S, IsFiniteSet(S),
         NEW G \in SUBSET SUBSET S, {} \in G,
         \A T \in SUBSET S : T # {} /\ (\A x \in T : T \ {x} \in G) => T \in G
  PROVE  SUBSET S \subseteq G
<1>. DEFINE Sized(n) == {T \in SUBSET S : Cardinality(T) = n}
            good     == {n \in Nat : Sized(n) \subseteq G}
<1>1. \A T \in SUBSET S : IsFiniteSet(T) /\ Cardinality(T) \in Nat
  BY FS_Subset, FS_CardinalityType
<1>2. 0 \in good
  BY <1>1, FS_EmptySet
<1>3. ASSUME NEW n \in good PROVE n + 1 \in good
  <2>1. ASSUME NEW T \in Sized(n + 1) PROVE T \in G
    <3>1. /\ T \in SUBSET S /\ Cardinality(T) = n + 1 /\ T # {}
      BY <1>1, FS_EmptySet
    <3>2. ASSUME NEW x \in T PROVE T \ {x} \in G
      <4>1. T \ {x} \in SUBSET S /\ IsFiniteSet(T)
        BY <3>1, <1>1
      <4>2. Cardinality(T \ {x}) = Cardinality(T) - 1
        BY <4>1, <3>2, FS_RemoveElement
      <4>3. Cardinality(T \ {x}) = n
        BY <4>2, <3>1
      <4>. QED
        BY <4>1, <4>3
    <3>. QED
      BY <3>1, <3>2
  <2>. QED
    BY <2>1
<1>4. good = Nat
  <2>. HIDE DEF good
  <2>1. good \in SUBSET Nat
    BY DEF good
  <2>. QED
    BY <2>1, <1>2, <1>3, AllNaturals
<1>. QED
  BY <1>1, <1>4

(***************************************************************************)
(* The sum of a function over a finite set (FoldFunctionOnSet): that the   *)
(* recursion behind the fold has one solution, then what the sum is when   *)
(* an element is taken out of the set or changes its value.                *)
(***************************************************************************)
Pick(s) == CHOOSE x \in s : TRUE

LEMMA PickIn == \A s : s # {} => Pick(s) \in s
  BY DEF Pick

\* g sums f over every subset in D, by the recursion that defines a fold.
Sums(g, f, D) ==
  g = [s \in D |-> IF s = {} THEN 0 ELSE f[Pick(s)] + g[s \ {Pick(s)}]]

LEMMA SumIsChosen ==
  ASSUME NEW f, NEW S
  PROVE  SumFunctionOnSet(f, S) = (CHOOSE g : Sums(g, f, SUBSET S))[S]
  BY DEF SumFunctionOnSet, FoldFunctionOnSet, MapThenFoldSet, Sums, Pick

LEMMA SumsExist ==
  ASSUME NEW f, NEW S, IsFiniteSet(S)
  PROVE  \E g : Sums(g, f, SUBSET S)
<1>. DEFINE UpTo(n) == {T \in SUBSET S : Cardinality(T) <= n}
            good    == {n \in Nat : \E g : Sums(g, f, UpTo(n))}
<1>1. \A T \in SUBSET S : IsFiniteSet(T) /\ Cardinality(T) \in Nat
  BY FS_Subset, FS_CardinalityType
<1>2. 0 \in good
  <2>1. UpTo(0) = {{}}
    BY <1>1, FS_EmptySet
  <2>2. Sums([s \in {{}} |-> 0], f, {{}})
    BY DEF Sums
  <2>. QED
    BY <2>1, <2>2
<1>3. ASSUME NEW n \in good PROVE n + 1 \in good
  <2>1. PICK g : Sums(g, f, UpTo(n))
    OBVIOUS
  <2>. DEFINE h == [s \in UpTo(n + 1) |-> IF s = {} THEN 0 ELSE f[Pick(s)] + g[s \ {Pick(s)}]]
  <2>2. UpTo(n) \subseteq UpTo(n + 1)
    BY <1>1
  <2>3. \A s \in UpTo(n) : h[s] = g[s]
    BY <2>1, <2>2 DEF Sums
  <2>4. ASSUME NEW s \in UpTo(n + 1), s # {} PROVE s \ {Pick(s)} \in UpTo(n)
    <3>1. Cardinality(s \ {Pick(s)}) = Cardinality(s) - 1
      BY <2>4, <1>1, PickIn, FS_RemoveElement
    <3>. QED
      BY <3>1, <1>1
  <2>. HIDE DEF UpTo
  <2>5. h = [s \in UpTo(n + 1) |-> IF s = {} THEN 0 ELSE f[Pick(s)] + h[s \ {Pick(s)}]]
    BY <2>3, <2>4
  <2>6. Sums(h, f, UpTo(n + 1))
    BY <2>5 DEF Sums
  <2>. QED
    BY <2>6
<1>4. good = Nat
  <2>. HIDE DEF good
  <2>1. good \in SUBSET Nat
    BY DEF good
  <2>. QED
    BY <2>1, <1>2, <1>3, AllNaturals
<1>5. UpTo(Cardinality(S)) = SUBSET S
  BY <1>1, FS_Subset
<1>6. Cardinality(S) \in good
  BY <1>1, <1>4
<1>. QED
  BY <1>5, <1>6

\* The same over all of S.
SumsAll(g, f, S) == Sums(g, f, SUBSET S)

LEMMA SumsAgree ==
  ASSUME NEW f, NEW S, IsFiniteSet(S), NEW T, T \subseteq S,
         NEW g, SumsAll(g, f, S), NEW h, SumsAll(h, f, T)
  PROVE  g[T] = h[T]
<1>. DEFINE G == {U \in SUBSET T : g[U] = h[U]}
<1>1. IsFiniteSet(T)
  BY FS_Subset
<1>2. \A U \in SUBSET T :
        /\ g[U] = IF U = {} THEN 0 ELSE f[Pick(U)] + g[U \ {Pick(U)}]
        /\ h[U] = IF U = {} THEN 0 ELSE f[Pick(U)] + h[U \ {Pick(U)}]
  BY DEF SumsAll, Sums
<1>3. {} \in G
  BY <1>2
<1>4. \A U \in SUBSET T : U # {} /\ (\A x \in U : U \ {x} \in G) => U \in G
  BY <1>2, PickIn
<1>. HIDE DEF G
<1>5. SUBSET T \subseteq G
  <2>1. G \in SUBSET SUBSET T
    BY DEF G
  <2>. QED
    BY <1>1, <1>3, <1>4, <2>1, AllSubsets
<1>. QED
  BY <1>5 DEF G

LEMMA SumWitness ==
  ASSUME NEW f, NEW S, IsFiniteSet(S)
  PROVE  \E g : SumsAll(g, f, S) /\ SumFunctionOnSet(f, S) = g[S]
<1>. DEFINE g == CHOOSE g : SumsAll(g, f, S)
<1>1. SumsAll(g, f, S)
  BY SumsExist DEF SumsAll
<1>. QED
  BY <1>1, SumIsChosen DEF SumsAll

LEMMA SumEquation ==
  ASSUME NEW f, NEW S, IsFiniteSet(S)
  PROVE  SumFunctionOnSet(f, S)
           = IF S = {} THEN 0 ELSE f[Pick(S)] + SumFunctionOnSet(f, S \ {Pick(S)})
<1>. DEFINE T == S \ {Pick(S)}
<1>1. PICK g : SumsAll(g, f, S) /\ SumFunctionOnSet(f, S) = g[S]
  BY SumWitness
<1>2. IsFiniteSet(T) /\ T \subseteq S
  BY FS_RemoveElement
<1>. HIDE DEF T
<1>3. PICK h : SumsAll(h, f, T) /\ SumFunctionOnSet(f, T) = h[T]
  BY <1>2, SumWitness
<1>4. g[T] = h[T]
  BY <1>1, <1>2, <1>3, SumsAgree
<1>5. g[S] = IF S = {} THEN 0 ELSE f[Pick(S)] + g[S \ {Pick(S)}]
  BY <1>1 DEF SumsAll, Sums
<1>. QED
  BY <1>1, <1>3, <1>4, <1>5 DEF T

LEMMA SumEmpty == \A f : SumFunctionOnSet(f, {}) = 0
  BY SumEquation, FS_EmptySet

LEMMA SumInt ==
  ASSUME NEW S, IsFiniteSet(S), NEW f, \A x \in S : f[x] \in Int
  PROVE  SumFunctionOnSet(f, S) \in Int
<1>. DEFINE G == {T \in SUBSET S : SumFunctionOnSet(f, T) \in Int}
<1>1. \A T \in SUBSET S : IsFiniteSet(T)
  BY FS_Subset
<1>2. \A T \in SUBSET S :
        SumFunctionOnSet(f, T) = IF T = {} THEN 0
                                 ELSE f[Pick(T)] + SumFunctionOnSet(f, T \ {Pick(T)})
  BY <1>1, SumEquation
<1>3. {} \in G
  BY SumEmpty
<1>4. ASSUME NEW T \in SUBSET S, T # {}, \A x \in T : T \ {x} \in G PROVE T \in G
  <2>1. Pick(T) \in T /\ f[Pick(T)] \in Int /\ SumFunctionOnSet(f, T \ {Pick(T)}) \in Int
    BY <1>4, PickIn
  <2>. QED
    BY <2>1, <1>2
<1>. HIDE DEF G
<1>5. SUBSET S \subseteq G
  <2>1. G \in SUBSET SUBSET S
    BY DEF G
  <2>. QED
    BY <1>3, <1>4, <2>1, AllSubsets
<1>. QED
  BY <1>5 DEF G

\* Any one element may be taken out first.
LEMMA SumTakeOut ==
  ASSUME NEW S, IsFiniteSet(S), NEW f, \A x \in S : f[x] \in Int, NEW a \in S
  PROVE  SumFunctionOnSet(f, S) = f[a] + SumFunctionOnSet(f, S \ {a})
<1>. DEFINE Sum(T) == SumFunctionOnSet(f, T)
            G == {T \in SUBSET S : \A x \in T : Sum(T) = f[x] + Sum(T \ {x})}
<1>1. \A T \in SUBSET S : IsFiniteSet(T)
  BY FS_Subset
<1>2. \A T \in SUBSET S : Sum(T) \in Int
  BY <1>1, SumInt
<1>3. \A T \in SUBSET S : Sum(T) = IF T = {} THEN 0 ELSE f[Pick(T)] + Sum(T \ {Pick(T)})
  BY <1>1, SumEquation
<1>. HIDE DEF Sum
<1>4. {} \in G
  OBVIOUS
<1>5. ASSUME NEW T \in SUBSET S, T # {}, \A x \in T : T \ {x} \in G PROVE T \in G
  <2>1. ASSUME NEW x \in T PROVE Sum(T) = f[x] + Sum(T \ {x})
    <3>. DEFINE y == Pick(T)
    <3>1. y \in T /\ Sum(T) = f[y] + Sum(T \ {y})
      BY <1>3, <1>5, PickIn
    <3>. HIDE DEF y
    <3>2. CASE x = y
      BY <3>1, <3>2
    <3>3. CASE x # y
      <4>1. Sum(T \ {y}) = f[x] + Sum((T \ {y}) \ {x})
        BY <3>1, <3>3, <1>5
      <4>2. Sum(T \ {x}) = f[y] + Sum((T \ {x}) \ {y})
        BY <3>1, <3>3, <1>5
      <4>3. (T \ {y}) \ {x} = (T \ {x}) \ {y}
        OBVIOUS
      <4>. DEFINE rest == Sum((T \ {x}) \ {y})
      <4>4. /\ Sum(T) = f[y] + Sum(T \ {y}) /\ Sum(T \ {y}) = f[x] + rest
            /\ Sum(T \ {x}) = f[y] + rest
        BY <3>1, <4>1, <4>2, <4>3
      <4>5. f[x] \in Int /\ f[y] \in Int /\ rest \in Int
        BY <3>1, <1>2
      <4>. HIDE DEF rest
      <4>6. f[y] + (f[x] + rest) = f[x] + (f[y] + rest)
        BY <4>5
      <4>. QED
        BY <4>4, <4>6
    <3>. QED
      BY <3>2, <3>3
  <2>. QED
    BY <2>1
<1>. HIDE DEF G
<1>6. SUBSET S \subseteq G
  <2>1. G \in SUBSET SUBSET S
    BY DEF G
  <2>. QED
    BY <1>4, <1>5, <2>1, AllSubsets
<1>. QED
  BY <1>6 DEF G, Sum

LEMMA SumSame ==
  ASSUME NEW S, IsFiniteSet(S), NEW f, NEW g, \A x \in S : f[x] = g[x]
  PROVE  SumFunctionOnSet(f, S) = SumFunctionOnSet(g, S)
<1>. DEFINE G == {T \in SUBSET S : SumFunctionOnSet(f, T) = SumFunctionOnSet(g, T)}
<1>1. \A T \in SUBSET S : IsFiniteSet(T)
  BY FS_Subset
<1>2. \A T \in SUBSET S :
        SumFunctionOnSet(f, T) = IF T = {} THEN 0
                                 ELSE f[Pick(T)] + SumFunctionOnSet(f, T \ {Pick(T)})
  BY <1>1, SumEquation
<1>3. \A T \in SUBSET S :
        SumFunctionOnSet(g, T) = IF T = {} THEN 0
                                 ELSE g[Pick(T)] + SumFunctionOnSet(g, T \ {Pick(T)})
  BY <1>1, SumEquation
<1>4. {} \in G
  BY <1>2, <1>3
<1>5. ASSUME NEW T \in SUBSET S, T # {}, \A x \in T : T \ {x} \in G PROVE T \in G
  <2>1. Pick(T) \in T /\ f[Pick(T)] = g[Pick(T)]
    BY <1>5, PickIn
  <2>. QED
    BY <2>1, <1>2, <1>3, <1>5
<1>. HIDE DEF G
<1>6. SUBSET S \subseteq G
  <2>1. G \in SUBSET SUBSET S
    BY DEF G
  <2>. QED
    BY <1>4, <1>5, <2>1, AllSubsets
<1>. QED
  BY <1>6 DEF G

LEMMA SumFunctionIs ==
  ASSUME NEW S, NEW f \in [S -> Int]
  PROVE  SumFunction(f) = SumFunctionOnSet(f, S)
  BY DEF SumFunction

LEMMA SumFunctionInt ==
  ASSUME NEW S, IsFiniteSet(S), NEW f \in [S -> Int]
  PROVE  SumFunction(f) \in Int
<1>1. \A x \in S : f[x] \in Int
  OBVIOUS
<1>2. SumFunctionOnSet(f, S) \in Int
  BY <1>1, SumInt
<1>. QED
  BY <1>2, SumFunctionIs

\* One value moves: the sum moves by the difference.
LEMMA SumMoves ==
  ASSUME NEW S, IsFiniteSet(S), NEW f \in [S -> Int], NEW g \in [S -> Int],
         NEW a \in S, \A x \in S \ {a} : g[x] = f[x]
  PROVE  SumFunction(g) = SumFunction(f) - f[a] + g[a]
<1>. DEFINE rest == SumFunctionOnSet(f, S \ {a})
<1>1. \A x \in S : f[x] \in Int /\ g[x] \in Int
  OBVIOUS
<1>2. SumFunctionOnSet(f, S) = f[a] + rest
  BY <1>1, SumTakeOut
<1>3. SumFunctionOnSet(g, S) = g[a] + SumFunctionOnSet(g, S \ {a})
  BY <1>1, SumTakeOut
<1>4. IsFiniteSet(S \ {a})
  BY FS_RemoveElement
<1>5. SumFunctionOnSet(g, S \ {a}) = rest
  BY <1>4, SumSame
<1>6. rest \in Int
  BY <1>1, <1>4, SumInt
<1>. HIDE DEF rest
<1>7. f[a] \in Int /\ g[a] \in Int
  BY <1>1
<1>8. SumFunction(f) = f[a] + rest /\ SumFunction(g) = g[a] + rest
  BY <1>2, <1>3, <1>5, SumFunctionIs
<1>. QED
  BY <1>6, <1>7, <1>8

\* Elements whose value is zero do not count.
LEMMA SumWithin ==
  ASSUME NEW S, IsFiniteSet(S), NEW T, T \subseteq S, NEW f,
         \A x \in S : f[x] \in Int, \A x \in S \ T : f[x] = 0
  PROVE  SumFunctionOnSet(f, S) = SumFunctionOnSet(f, T)
<1>. DEFINE G == {U \in SUBSET S : SumFunctionOnSet(f, U) = SumFunctionOnSet(f, U \cap T)}
<1>1. \A U \in SUBSET S : IsFiniteSet(U) /\ IsFiniteSet(U \cap T)
  BY FS_Subset
<1>2. {} \in G
  <2>1. {} \cap T = {}
    OBVIOUS
  <2>. QED
    BY <2>1
<1>3. ASSUME NEW U \in SUBSET S, U # {}, \A x \in U : U \ {x} \in G PROVE U \in G
  <2>1. PICK x \in U : TRUE
    BY <1>3
  <2>2. \A y \in U : f[y] \in Int
    OBVIOUS
  <2>3. SumFunctionOnSet(f, U) = f[x] + SumFunctionOnSet(f, U \ {x})
    BY <2>2, <1>1, SumTakeOut
  <2>4. SumFunctionOnSet(f, U \ {x}) = SumFunctionOnSet(f, (U \ {x}) \cap T)
    BY <1>3
  <2>5. CASE x \in T
    <3>1. (U \ {x}) \cap T = (U \cap T) \ {x} /\ x \in U \cap T
      BY <2>5
    <3>2. \A y \in U \cap T : f[y] \in Int
      OBVIOUS
    <3>3. SumFunctionOnSet(f, U \cap T) = f[x] + SumFunctionOnSet(f, (U \cap T) \ {x})
      BY <3>1, <3>2, <1>1, SumTakeOut
    <3>. QED
      BY <2>3, <2>4, <3>1, <3>3
  <2>6. CASE x \notin T
    <3>1. (U \ {x}) \cap T = U \cap T /\ f[x] = 0
      BY <2>6
    <3>2. SumFunctionOnSet(f, U \ {x}) \in Int
      <4>1. IsFiniteSet(U \ {x}) /\ \A y \in U \ {x} : f[y] \in Int
        BY <1>1
      <4>. QED
        BY <4>1, SumInt
    <3>3. SumFunctionOnSet(f, U) = SumFunctionOnSet(f, U \ {x})
      BY <2>3, <3>1, <3>2
    <3>. QED
      BY <2>4, <3>1, <3>3
  <2>. QED
    BY <2>5, <2>6
<1>. HIDE DEF G
<1>4. SUBSET S \subseteq G
  <2>1. G \in SUBSET SUBSET S
    BY DEF G
  <2>. QED
    BY <1>2, <1>3, <2>1, AllSubsets
<1>5. S \cap T = T
  OBVIOUS
<1>. QED
  BY <1>4, <1>5 DEF G

LEMMA SumOfZeros ==
  ASSUME NEW S, IsFiniteSet(S), NEW f \in [S -> Int], \A x \in S : f[x] = 0
  PROVE  SumFunction(f) = 0
<1>1. SumFunctionOnSet(f, S) = SumFunctionOnSet(f, {})
  BY SumWithin
<1>. QED
  BY <1>1, SumEmpty, SumFunctionIs

LEMMA SumPlus ==
  ASSUME NEW S, IsFiniteSet(S), NEW k \in Int,
         NEW f \in [S -> Int], NEW g \in [S -> Int], NEW h \in [S -> Int],
         \A x \in S : h[x] = f[x] + k * g[x]
  PROVE  SumFunction(h) = SumFunction(f) + k * SumFunction(g)
<1>. DEFINE F(U) == SumFunctionOnSet(f, U)
            K(U) == SumFunctionOnSet(g, U)
            H(U) == SumFunctionOnSet(h, U)
            G == {U \in SUBSET S : H(U) = F(U) + k * K(U)}
<1>1. \A U \in SUBSET S : IsFiniteSet(U)
  BY FS_Subset
<1>2. \A U \in SUBSET S : F(U) \in Int /\ K(U) \in Int
  BY <1>1, SumInt
<1>3. ASSUME NEW U \in SUBSET S, NEW x \in U
      PROVE  /\ F(U) = f[x] + F(U \ {x}) /\ K(U) = g[x] + K(U \ {x})
             /\ H(U) = h[x] + H(U \ {x})
  BY <1>1, SumTakeOut
<1>4. F({}) = 0 /\ K({}) = 0 /\ H({}) = 0
  BY SumEmpty
<1>. HIDE DEF F, K, H
<1>5. {} \in G
  BY <1>4
<1>6. ASSUME NEW U \in SUBSET S, U # {}, \A x \in U : U \ {x} \in G PROVE U \in G
  <2>1. PICK x \in U : TRUE
    BY <1>6
  <2>. DEFINE a == F(U \ {x})
              b == K(U \ {x})
  <2>2. a \in Int /\ b \in Int /\ f[x] \in Int /\ g[x] \in Int
    BY <1>2
  <2>3. H(U \ {x}) = a + k * b
    BY <1>6
  <2>4. H(U) = (f[x] + k * g[x]) + (a + k * b) /\ F(U) = f[x] + a /\ K(U) = g[x] + b
    BY <1>3, <2>3
  <2>. HIDE DEF a, b
  <2>5. \A p, q, r, s \in Int : (p + k * q) + (r + k * s) = (p + r) + k * (q + s)
    OBVIOUS
  <2>. QED
    BY <2>2, <2>4, <2>5
<1>. HIDE DEF G
<1>7. SUBSET S \subseteq G
  <2>1. G \in SUBSET SUBSET S
    BY DEF G
  <2>. QED
    BY <1>5, <1>6, <2>1, AllSubsets
<1>. QED
  BY <1>7, SumFunctionIs DEF G, F, K, H

\* A sum of terms of at most r is at most r for every element.
LEMMA SumBounded ==
  ASSUME NEW S, IsFiniteSet(S), NEW r \in Nat, NEW f \in [S -> Int],
         \A x \in S : -r <= f[x] /\ f[x] <= r
  PROVE  /\ SumFunction(f) \in Int /\ Cardinality(S) * r \in Nat
         /\ -(Cardinality(S) * r) <= SumFunction(f) /\ SumFunction(f) <= Cardinality(S) * r
<1>. DEFINE F(U) == SumFunctionOnSet(f, U)
            B(U) == Cardinality(U) * r
            G == {U \in SUBSET S : -B(U) <= F(U) /\ F(U) <= B(U)}
<1>1. \A U \in SUBSET S : IsFiniteSet(U) /\ Cardinality(U) \in Nat
  BY FS_Subset, FS_CardinalityType
<1>2. \A U \in SUBSET S : F(U) \in Int /\ B(U) \in Nat
  BY <1>1, SumInt
<1>3. ASSUME NEW U \in SUBSET S, NEW x \in U
      PROVE  F(U) = f[x] + F(U \ {x}) /\ B(U) = r + B(U \ {x})
  <2>1. F(U) = f[x] + F(U \ {x})
    BY <1>1, SumTakeOut
  <2>2. Cardinality(U) = Cardinality(U \ {x}) + 1 /\ Cardinality(U \ {x}) \in Nat
    <3>1. IsFiniteSet(U) /\ Cardinality(U) \in Nat /\ Cardinality(U \ {x}) \in Nat
      BY <1>1
    <3>2. Cardinality(U \ {x}) = Cardinality(U) - 1
      BY <3>1, FS_RemoveElement
    <3>. QED
      BY <3>1, <3>2
  <2>3. \A n \in Nat : (n + 1) * r = r + n * r
    OBVIOUS
  <2>. QED
    BY <2>1, <2>2, <2>3
<1>4. F({}) = 0 /\ B({}) = 0
  <2>1. Cardinality({}) = 0
    BY FS_EmptySet
  <2>. QED
    BY <2>1, SumEmpty
<1>. HIDE DEF F, B
<1>5. {} \in G
  BY <1>4
<1>6. ASSUME NEW U \in SUBSET S, U # {}, \A x \in U : U \ {x} \in G PROVE U \in G
  <2>1. PICK x \in U : TRUE
    BY <1>6
  <2>. DEFINE a == F(U \ {x})
              b == B(U \ {x})
  <2>2. a \in Int /\ b \in Int /\ f[x] \in Int /\ -r <= f[x] /\ f[x] <= r
    BY <1>2
  <2>3. -b <= a /\ a <= b
    BY <1>6
  <2>4. F(U) = f[x] + a /\ B(U) = r + b
    BY <1>3
  <2>. HIDE DEF a, b
  <2>5. -B(U) <= F(U) /\ F(U) <= B(U)
    BY <2>2, <2>3, <2>4
  <2>. QED
    BY <2>5
<1>. HIDE DEF G
<1>7. SUBSET S \subseteq G
  <2>1. G \in SUBSET SUBSET S
    BY DEF G
  <2>. QED
    BY <1>5, <1>6, <2>1, AllSubsets
<1>8. SumFunction(f) = F(S)
  BY SumFunctionIs DEF F
<1>9. F(S) \in Int /\ B(S) \in Nat /\ -B(S) <= F(S) /\ F(S) <= B(S)
  BY <1>2, <1>7 DEF G
<1>. QED
  BY <1>8, <1>9 DEF B

LEMMA SumsPlus ==
  ASSUME NEW S, IsFiniteSet(S)
  PROVE  \A k \in Int, f, g, h \in [S -> Int] :
           (\A x \in S : h[x] = f[x] + k * g[x]) => SumFunction(h) = SumFunction(f) + k * SumFunction(g)
  BY SumPlus

\* Terms that nearly follow one another, in units of D, have sums that nearly do.
LEMMA SumNearly ==
  ASSUME NEW S, IsFiniteSet(S), NEW r \in Nat, NEW D \in Nat, NEW k \in Int,
         NEW f \in [S -> Int], NEW g \in [S -> Int], NEW h \in [S -> Int],
         \A x \in S : -r <= (D * h[x] - D * f[x]) - k * g[x] /\ (D * h[x] - D * f[x]) - k * g[x] <= r
  PROVE  /\ Cardinality(S) * r \in Nat
         /\ -(Cardinality(S) * r) <= (D * SumFunction(h) - D * SumFunction(f)) - k * SumFunction(g)
         /\ (D * SumFunction(h) - D * SumFunction(f)) - k * SumFunction(g) <= Cardinality(S) * r
<1>. DEFINE e  == [x \in S |-> (D * h[x] - D * f[x]) - k * g[x]]
            h1 == [x \in S |-> D * h[x] - D * f[x]]
            h2 == [x \in S |-> D * h[x]]
            z  == [x \in S |-> 0]
            b  == Cardinality(S) * r
<1>1. \A x \in S : D * h[x] \in Int /\ D * f[x] \in Int /\ k * g[x] \in Int
  OBVIOUS
<1>2. /\ e \in [S -> Int] /\ h1 \in [S -> Int] /\ h2 \in [S -> Int] /\ z \in [S -> Int]
      /\ \A x \in S : h1[x] = e[x] + k * g[x]
      /\ \A x \in S : h2[x] = h1[x] + D * f[x]
      /\ \A x \in S : h2[x] = z[x] + D * h[x]
      /\ \A x \in S : z[x] = 0
      /\ \A x \in S : -r <= e[x] /\ e[x] <= r
      /\ D \in Int
  BY <1>1
<1>. HIDE DEF e, h1, h2, z
<1>3. b \in Nat /\ -b <= SumFunction(e) /\ SumFunction(e) <= b /\ SumFunction(e) \in Int
  <2>1. /\ SumFunction(e) \in Int /\ Cardinality(S) * r \in Nat
        /\ -(Cardinality(S) * r) <= SumFunction(e) /\ SumFunction(e) <= Cardinality(S) * r
    BY <1>2, SumBounded
  <2>. QED
    BY <2>1
<1>. HIDE DEF b
<1>t. e \in [S -> Int] /\ h1 \in [S -> Int] /\ h2 \in [S -> Int] /\ z \in [S -> Int] /\ D \in Int
  BY <1>2
<1>4. SumFunction(h1) = SumFunction(e) + k * SumFunction(g)
  <2>1. \A x \in S : h1[x] = e[x] + k * g[x]
    BY <1>2, Zenon
  <2>. QED
    BY SMTT(30), <1>t, <2>1, SumsPlus
<1>5. SumFunction(h2) = SumFunction(h1) + D * SumFunction(f)
  <2>1. \A x \in S : h2[x] = h1[x] + D * f[x]
    BY <1>2, Zenon
  <2>. QED
    BY SMTT(30), <1>t, <2>1, SumsPlus
<1>6. SumFunction(h2) = SumFunction(z) + D * SumFunction(h)
  <2>1. \A x \in S : h2[x] = z[x] + D * h[x]
    BY <1>2, Zenon
  <2>. QED
    BY SMTT(30), <1>t, <2>1, SumsPlus
<1>7. SumFunction(z) = 0
  BY <1>2, SumOfZeros
<1>8. SumFunction(f) \in Int /\ SumFunction(h) \in Int /\ SumFunction(g) \in Int
  BY SumFunctionInt
<1>. DEFINE p == D * SumFunction(f)
            q == D * SumFunction(h)
            s == k * SumFunction(g)
<1>9. p \in Int /\ q \in Int /\ s \in Int
  BY <1>8
<1>10. q = (SumFunction(e) + s) + p
  BY <1>3, <1>4, <1>5, <1>6, <1>7, <1>9
<1>. HIDE DEF p, q, s
<1>11. -b <= (q - p) - s /\ (q - p) - s <= b
  BY <1>3, <1>9, <1>10
<1>. QED
  BY <1>3, <1>11 DEF b, p, q, s

(***************************************************************************)
(* Rounding: how far a division is from the value it divides, what a fill  *)
(* leaves of the value it moves, and what follows for closing a position   *)
(* and for the reported liquidation price.                                 *)
(***************************************************************************)
LEMMA DivNear ==
    ASSUME NEW a \in Int, NEW b \in Nat \ {0}
    PROVE  /\ a \div b \in Int /\ b * (a \div b) \in Int
           /\ b * (a \div b) <= a /\ a < b * (a \div b) + b
<1> DEFINE q == a \div b
           r == a % b
<1>1. q \in Int /\ r \in Int /\ 0 <= r /\ r < b /\ a = b * q + r
    BY IntDiv
<1> HIDE DEF q, r
<1>2. b * q \in Int
    BY <1>1
<1> DEFINE p == b * q
<1>3. p \in Int /\ a = p + r
    BY <1>1, <1>2
<1> HIDE DEF p
<1>4. p <= a /\ a < p + b
    BY <1>1, <1>3
<1> QED BY <1>1, <1>2, <1>4 DEF p, q

LEMMA TruncNear ==
    ASSUME NEW a \in Int, NEW b \in Nat \ {0}
    PROVE  /\ b * TruncDiv(a, b) \in Int
           /\ -(b - 1) <= b * TruncDiv(a, b) - a /\ b * TruncDiv(a, b) - a <= b - 1
<1>1. CASE a >= 0
    <2>1. TruncDiv(a, b) = a \div b
        BY <1>1 DEF TruncDiv
    <2> DEFINE p == b * (a \div b)
    <2>2. p \in Int /\ p <= a /\ a < p + b
        BY DivNear
    <2> HIDE DEF p
    <2>3. -(b - 1) <= p - a /\ p - a <= b - 1
        BY <2>2
    <2> QED BY <2>1, <2>2, <2>3 DEF p
<1>2. CASE a < 0
    <2> DEFINE q == (-a) \div b
               p == b * q
    <2>1. TruncDiv(a, b) = -q
        BY <1>2 DEF TruncDiv
    <2>2. q \in Int /\ p \in Int /\ p <= -a /\ -a < p + b
        BY DivNear
    <2> HIDE DEF q
    <2>3. b * (-q) = -p
        BY <2>2
    <2> HIDE DEF p
    <2>4. -(b - 1) <= -p - a /\ -p - a <= b - 1
        BY <2>2
    <2> QED BY <2>1, <2>2, <2>3, <2>4
<1> QED BY <1>1, <1>2

LEMMA BlendNear ==
    ASSUME NEW s \in Nat, NEW e \in Nat, NEW q \in Nat \ {0}, NEW p \in Nat
    PROVE  LET v == s * e + q * p
               w == (s + q) * BlendedEntry(s, e, q, p)
           IN  w \in Int /\ w <= v /\ v - w <= (s + q) - 1 /\ (s = 0 => w = q * p)
<1> DEFINE n == s + q
           v == s * e + q * p
           w == (s + q) * BlendedEntry(s, e, q, p)
<1>1. s * e \in Nat /\ q * p \in Nat /\ v \in Int /\ n \in Nat \ {0}
    OBVIOUS
<1>2. w = n * (v \div n)
    BY DEF BlendedEntry
<1>3. n * (v \div n) \in Int /\ n * (v \div n) <= v /\ v < n * (v \div n) + n
    <2> HIDE DEF n, v
    <2> QED BY <1>1, DivNear
<1>4. s = 0 => w = q * p
    <2> SUFFICES ASSUME s = 0 PROVE w = q * p
        OBVIOUS
    <2>1. n = q /\ v = p * q
        OBVIOUS
    <2>2. (p * q) \div q = p
        <3>1. q * ((p * q) \div q) <= p * q /\ p * q < q * ((p * q) \div q) + q /\ (p * q) \div q \in Int
            BY DivNear
        <3> DEFINE r == (p * q) \div q
        <3> HIDE DEF r
        <3>2. CASE r <= p - 1
            <4>1. q * r <= q * (p - 1)
                BY <3>1, <3>2 DEF r
            <4> QED BY <3>1, <4>1 DEF r
        <3>3. CASE r >= p + 1
            <4>1. q * r >= q * (p + 1)
                BY <3>1, <3>3 DEF r
            <4> QED BY <3>1, <4>1 DEF r
        <3> QED BY <3>1, <3>2, <3>3 DEF r
    <2> HIDE DEF n, v, w
    <2>3. v \div n = p
        BY <2>1, <2>2
    <2> QED BY <1>2, <2>1, <2>3
<1>5. w \in Int /\ w <= v /\ v - w <= n - 1
    <2> HIDE DEF w, v, n
    <2> QED BY <1>1, <1>2, <1>3
<1> QED BY Zenon, <1>4, <1>5

\* What one fill's worth is off by once it is in the position or paid out.
Rounding(size, entry, delta, price) ==
    LET moved == MovePosition(size, entry, delta, price)
    IN  NOTIONAL_DIVISOR * moved.realized + delta * price + size * entry - moved.size * moved.entry

\* A fill's worth stays in the position or was paid out, up to the dust of one rounding.
LEMMA GrowthKeepsValue ==
    ASSUME NEW size \in Int, NEW entry \in Nat, NEW delta \in Int \ {0}, NEW price \in Nat,
           size = 0 \/ (size > 0) = (delta > 0)
    PROVE  LET off == Rounding(size, entry, delta, price)
           IN  off \in Int /\ Abs(off) <= Abs(size + delta) - 1 /\ (size = 0 => off = 0)
<1> DEFINE s == Abs(size)
           q == Abs(delta)
           e == BlendedEntry(s, entry, q, price)
           moved == MovePosition(size, entry, delta, price)
<1>1. s \in Nat /\ q \in Nat \ {0}
    BY AbsNat
<1>2. moved = [size |-> size + delta, entry |-> e, realized |-> 0]
    BY DEF MovePosition
<1>3. e \in Nat
    BY <1>1, BlendNat
<1> DEFINE a == s * entry
           b == q * price
           c == (s + q) * e
<1>4. a \in Int /\ b \in Int /\ c \in Int /\ c <= a + b /\ a + b - c <= s + q - 1 /\ (s = 0 => c = b)
    <2>1. a \in Int /\ b \in Int /\ s + q \in Int
        BY <1>1
    <2>2. c \in Int /\ c <= (s * entry) + (q * price) /\ (s * entry + q * price) - c <= (s + q) - 1 /\ (s = 0 => c = b)
        BY <1>1, BlendNear, ZenonT(60)
    <2>3. c \in Int /\ c <= a + b /\ (a + b) - c <= (s + q) - 1 /\ (s = 0 => c = b)
        BY <2>2, Zenon
    <2> HIDE DEF s, q, a, b, c
    <2> QED BY <1>1, <2>1, <2>3
<1>5. CASE size >= 0 /\ delta > 0
    <2>1. s = size /\ q = delta
        BY <1>5 DEF Abs
    <2>2. delta * price = b /\ size * entry = a /\ (size + delta) * e = c
        BY <2>1
    <2>3. Abs(size + delta) = s + q /\ (size = 0 => a = 0)
        BY <1>5, <2>1 DEF Abs
    <2> DEFINE off == b + a - c
    <2>4. off \in Int /\ Abs(off) <= s + q - 1 /\ (size = 0 => off = 0)
        <3> HIDE DEF a, b, c, e
        <3> QED BY <1>4, <1>1, <2>1, <2>3 DEF Abs
    <2>5. moved.size = size + delta /\ moved.entry = e /\ moved.realized = 0
        BY <1>2
    <2> HIDE DEF e, s, q, moved
    <2>6. off = Rounding(size, entry, delta, price)
        <3>1. NOTIONAL_DIVISOR * 0 + delta * price = delta * price /\ delta * price \in Int
            BY ScaleAssumption
        <3> QED BY <2>2, <2>5, <3>1 DEF Rounding, moved
    <2>7. Abs(off) <= Abs(size + delta) - 1
        <3> HIDE DEF off, a, b, c
        <3> QED BY <1>1, <2>3, <2>4
    <2> HIDE DEF off
    <2> QED BY <2>4, <2>6, <2>7
<1>6. CASE size <= 0 /\ delta < 0
    <2>1. s = -size /\ q = -delta
        BY <1>6 DEF Abs
    <2>2. delta * price = -b /\ size * entry = -a /\ (size + delta) * e = -c
        <3> HIDE DEF e
        <3> QED BY <2>1, <1>3
    <2>3. Abs(size + delta) = s + q /\ (size = 0 => a = 0)
        BY <1>6, <2>1 DEF Abs
    <2> DEFINE off == (-b) + (-a) - (-c)
    <2>4. off \in Int /\ Abs(off) <= s + q - 1 /\ (size = 0 => off = 0)
        <3> HIDE DEF a, b, c, e
        <3> QED BY <1>4, <1>1, <2>1, <2>3 DEF Abs
    <2>5. moved.size = size + delta /\ moved.entry = e /\ moved.realized = 0
        BY <1>2
    <2> HIDE DEF e, s, q, moved
    <2>6. off = Rounding(size, entry, delta, price)
        <3>1. NOTIONAL_DIVISOR * 0 + delta * price = delta * price /\ delta * price \in Int
            BY ScaleAssumption
        <3> QED BY <2>2, <2>5, <3>1 DEF Rounding, moved
    <2>7. Abs(off) <= Abs(size + delta) - 1
        <3> HIDE DEF off, a, b, c
        <3> QED BY <1>1, <2>3, <2>4
    <2> HIDE DEF off
    <2> QED BY <2>4, <2>6, <2>7
<1>7. (size >= 0 /\ delta > 0) \/ (size <= 0 /\ delta < 0)
    OBVIOUS
<1> QED BY <1>5, <1>6, <1>7

LEMMA CloseKeepsValue ==
    ASSUME NEW size \in Int, NEW entry \in Nat, NEW delta \in Int \ {0}, NEW price \in Nat,
           size # 0, (size > 0) # (delta > 0)
    PROVE  LET off == Rounding(size, entry, delta, price)
           IN  off \in Int /\ Abs(off) <= NOTIONAL_DIVISOR - 1
<1> DEFINE closing == IF Abs(delta) < Abs(size) THEN Abs(delta) ELSE Abs(size)
           gain    == IF size > 0 THEN price - entry ELSE entry - price
           worth   == closing * gain
           e       == IF size + delta = 0 THEN 0 ELSE IF Abs(delta) <= Abs(size) THEN entry ELSE price
           moved   == MovePosition(size, entry, delta, price)
           paid    == NOTIONAL_DIVISOR * TruncDiv(worth, NOTIONAL_DIVISOR)
<1>1. moved = [size |-> size + delta, entry |-> e, realized |-> TruncDiv(worth, NOTIONAL_DIVISOR)]
    BY DEF MovePosition
<1>2. closing \in Int /\ gain \in Int /\ worth \in Int /\ e \in Nat
    BY AbsNat
<1>3. TruncDiv(worth, NOTIONAL_DIVISOR) \in Int /\ paid \in Int
      /\ -(NOTIONAL_DIVISOR - 1) <= paid - worth /\ paid - worth <= NOTIONAL_DIVISOR - 1
    <2> HIDE DEF worth
    <2> QED BY <1>2, TruncNear, TruncDivInt, ScaleAssumption
<1> DEFINE before == size * entry
           traded == delta * price
           after == (size + delta) * e
<1>4. before \in Int /\ traded \in Int /\ after \in Int /\ traded + before - after = -worth
    <2> HIDE DEF e, closing, gain
    <2>1. before \in Int /\ traded \in Int /\ after \in Int
        BY <1>2
    <2>2. CASE Abs(delta) < Abs(size)
        <3>1. e = entry /\ closing = Abs(delta)
            BY <2>2 DEF e, closing, Abs
        <3>2. CASE size > 0
            <4>1. closing = -delta /\ gain = price - entry
                BY <3>1, <3>2 DEF Abs, gain
            <4> QED BY <3>1, <4>1
        <3>3. CASE size < 0
            <4>1. closing = delta /\ gain = entry - price
                BY <3>1, <3>3 DEF Abs, gain
            <4> QED BY <3>1, <4>1
        <3> QED BY <3>2, <3>3
    <2>3. CASE Abs(delta) >= Abs(size)
        <3>1. closing = Abs(size) /\ (size + delta = 0 \/ e = price)
            BY <2>3 DEF e, closing, Abs
        <3>2. after = (size + delta) * price
            BY <3>1, <1>2
        <3>3. CASE size > 0
            <4>1. closing = size /\ gain = price - entry
                BY <3>1, <3>3 DEF Abs, gain
            <4> QED BY <3>2, <4>1
        <3>4. CASE size < 0
            <4>1. closing = -size /\ gain = entry - price
                BY <3>1, <3>4 DEF Abs, gain
            <4> QED BY <3>2, <4>1
        <3> QED BY <3>3, <3>4
    <2> QED BY <2>1, <2>2, <2>3, AbsNat
<1> DEFINE off == paid + traded + before - after
<1>5. off \in Int /\ Abs(off) <= NOTIONAL_DIVISOR - 1
    <2> HIDE DEF paid, worth, traded, before, after
    <2> QED BY <1>2, <1>3, <1>4, ScaleAssumption DEF Abs
<1> HIDE DEF worth, e
<1>6. off = Rounding(size, entry, delta, price)
    <2>1. moved.realized = TruncDiv(worth, NOTIONAL_DIVISOR) /\ moved.size = size + delta /\ moved.entry = e
        BY <1>1
    <2> HIDE DEF moved
    <2> QED BY <2>1 DEF Rounding, moved
<1> HIDE DEF off
<1> QED BY <1>5, <1>6

\* The mark-to-market of a position and the realised PnL of closing it there are one value.
LEMMA MarkCloses ==
    ASSUME NEW size \in Int \ {0}, NEW entry \in Nat, NEW mark \in Nat
    PROVE  MovePosition(size, entry, -size, mark).realized = UnrealizedPnl(size, entry, mark)
<1> DEFINE closing == IF Abs(-size) < Abs(size) THEN Abs(-size) ELSE Abs(size)
           gain    == IF size > 0 THEN mark - entry ELSE entry - mark
<1>1. ~(size = 0 \/ (size > 0) = (-size > 0))
    OBVIOUS
<1>2. MovePosition(size, entry, -size, mark).realized = TruncDiv(closing * gain, NOTIONAL_DIVISOR)
    BY <1>1 DEF MovePosition
<1>3. closing = Abs(size)
    BY DEF Abs
<1>4. Abs(size) * gain = size * (mark - entry)
    <2>1. CASE size > 0
        BY <2>1 DEF Abs
    <2>2. CASE size < 0
        <3>1. Abs(size) = -size /\ gain = entry - mark
            BY <2>2 DEF Abs
        <3> QED BY <3>1
    <2> QED BY <2>1, <2>2
<1> HIDE DEF closing, gain
<1> QED BY <1>2, <1>3, <1>4 DEF UnrealizedPnl

LEMMA CancelFactor ==
    ASSUME NEW n \in Nat \ {0}, NEW a \in Int, NEW b \in Int, n * a < n * b
    PROVE  a < b
<1> SUFFICES ASSUME a >= b PROVE FALSE
    OBVIOUS
<1>1. PICK d \in Nat : a = b + d
    <2>1. a - b \in Nat /\ a = b + (a - b)
        OBVIOUS
    <2> QED BY <2>1
<1>2. n * a = n * b + n * d /\ n * d \in Nat /\ n * a \in Int /\ n * b \in Int
    BY <1>1
<1> QED BY <1>2

\* Truncation shaves: two parts of one sign lose at most one unit, and never gain.
LEMMA SplitDiv ==
    ASSUME NEW a \in Nat, NEW b \in Nat, NEW n \in Nat \ {0}
    PROVE  a \div n + b \div n <= (a + b) \div n /\ (a + b) \div n <= a \div n + b \div n + 1
<1> DEFINE u == a \div n
           v == b \div n
           w == (a + b) \div n
<1>1. /\ u \in Int /\ n * u \in Int /\ n * u <= a /\ a < n * u + n
      /\ v \in Int /\ n * v \in Int /\ n * v <= b /\ b < n * v + n
    BY DivNear
<1>2. w \in Int /\ n * w \in Int /\ n * w <= a + b /\ a + b < n * w + n
    BY DivNear
<1> HIDE DEF u, v, w
<1>3. n * (u + v) = n * u + n * v /\ n * (w + 1) = n * w + n /\ n * (u + v + 2) = n * u + n * v + n + n
    BY <1>1, <1>2
<1>4. u + v < w + 1
    <2>1. n * (u + v) < n * (w + 1)
        BY <1>1, <1>2, <1>3
    <2> QED BY <1>1, <1>2, <2>1, CancelFactor
<1>5. w < u + v + 2
    <2>1. n * w < n * (u + v + 2)
        BY <1>1, <1>2, <1>3
    <2> QED BY <1>1, <1>2, <2>1, CancelFactor
<1>6. u + v <= w /\ w <= u + v + 1
    BY <1>1, <1>2, <1>4, <1>5
<1> QED BY <1>6 DEF u, v, w

LEMMA TruncOdd ==
    ASSUME NEW a \in Nat, NEW n \in Nat \ {0}
    PROVE  TruncDiv(a, n) = a \div n /\ TruncDiv(-a, n) = -(a \div n) /\ a \div n \in Nat
<1>1. a \div n \in Nat
    BY NatDiv
<1>2. TruncDiv(a, n) = a \div n
    BY DEF TruncDiv
<1>3. CASE a = 0
    <2>1. 0 \div n = 0
        OBVIOUS
    <2> QED BY <1>3, <2>1, <1>2
<1>4. CASE a # 0
    <2>1. -a < 0 /\ -(-a) = a
        BY <1>4
    <2> QED BY <1>1, <1>2, <2>1 DEF TruncDiv
<1> QED BY <1>3, <1>4

LEMMA SplitTrunc ==
    ASSUME NEW x \in Int, NEW y \in Int, NEW n \in Nat \ {0},
           (x >= 0 /\ y >= 0) \/ (x <= 0 /\ y <= 0)
    PROVE  LET parts == TruncDiv(x, n) + TruncDiv(y, n)
               whole == TruncDiv(x + y, n)
           IN  Abs(parts) <= Abs(whole) /\ Abs(whole) <= Abs(parts) + 1
<1>1. CASE x >= 0 /\ y >= 0
    <2>1. x \in Nat /\ y \in Nat /\ x + y \in Nat
        BY <1>1
    <2> DEFINE u == x \div n
               v == y \div n
               w == (x + y) \div n
    <2>2. TruncDiv(x, n) = u /\ TruncDiv(y, n) = v /\ TruncDiv(x + y, n) = w
          /\ u \in Nat /\ v \in Nat /\ w \in Nat
        BY <2>1, TruncOdd
    <2>3. u + v <= w /\ w <= u + v + 1
        BY <2>1, SplitDiv
    <2> HIDE DEF u, v, w
    <2> QED BY <2>2, <2>3 DEF Abs
<1>2. CASE x <= 0 /\ y <= 0
    <2>1. PICK a \in Nat, b \in Nat : x = -a /\ y = -b
        <3>1. -x \in Nat /\ -y \in Nat /\ x = -(-x) /\ y = -(-y)
            BY <1>2
        <3> QED BY <3>1
    <2> DEFINE u == a \div n
               v == b \div n
               w == (a + b) \div n
    <2>2. x + y = -(a + b) /\ a + b \in Nat
        BY <2>1
    <2>3. TruncDiv(x, n) = -u /\ TruncDiv(y, n) = -v /\ TruncDiv(x + y, n) = -w
          /\ u \in Nat /\ v \in Nat /\ w \in Nat
        BY <2>1, <2>2, TruncOdd
    <2>4. u + v <= w /\ w <= u + v + 1
        BY SplitDiv
    <2> HIDE DEF u, v, w
    <2> QED BY <2>3, <2>4 DEF Abs
<1> QED BY <1>1, <1>2

\* Closing a position in two fills at one price.
LEMMA SplitClose ==
    ASSUME NEW size \in Int \ {0}, NEW entry \in Nat, NEW mark \in Nat,
           NEW q \in Nat \ {0}, q < Abs(size)
    PROVE  LET part  == IF size > 0 THEN -q ELSE q
               first == MovePosition(size, entry, part, mark)
               rest  == MovePosition(first.size, first.entry, -first.size, mark)
               whole == UnrealizedPnl(size, entry, mark)
           IN  /\ Abs(first.realized + rest.realized) <= Abs(whole)
               /\ Abs(whole) <= Abs(first.realized + rest.realized) + 1
<1> DEFINE part  == IF size > 0 THEN -q ELSE q
           first == MovePosition(size, entry, part, mark)
           rest  == MovePosition(first.size, first.entry, -first.size, mark)
           gap   == mark - entry
           x     == (-part) * gap
           left  == size + part
           y     == left * gap
           gain    == IF size > 0 THEN mark - entry ELSE entry - mark
<1>1. /\ part \in Int /\ left \in Int \ {0} /\ gap \in Int
      /\ Abs(part) = q /\ ~(size = 0 \/ (size > 0) = (part > 0))
      /\ (size > 0 /\ part < 0 /\ left > 0) \/ (size < 0 /\ part > 0 /\ left < 0)
    BY DEF Abs
<1>2. first.size = left /\ first.entry = entry /\ first.realized = TruncDiv(q * gain, NOTIONAL_DIVISOR)
    <2> HIDE DEF part, gain
    <2>1. Abs(part) < Abs(size) /\ Abs(part) <= Abs(size) /\ size + part # 0
        BY <1>1, AbsNat
    <2> QED BY <1>1, <2>1 DEF MovePosition, gain
<1>3. q * gain = x
    <2>1. CASE size > 0
        <3>1. part = -q /\ -part = q /\ gain = gap
            BY <2>1
        <3> QED BY <3>1
    <2>2. CASE size < 0
        <3>1. part = q /\ gain = -gap
            BY <2>2
        <3>2. q * (-gap) = (-q) * gap
            BY <1>1
        <3> QED BY <3>1, <3>2
    <2> QED BY <2>1, <2>2
<1>4. rest.realized = TruncDiv(y, NOTIONAL_DIVISOR)
    <2> HIDE DEF first, part
    <2>1. rest = MovePosition(left, entry, -left, mark)
        BY <1>2
    <2> HIDE DEF left, rest
    <2>2. rest.realized = UnrealizedPnl(left, entry, mark)
        BY <1>1, <2>1, MarkCloses
    <2> QED BY <2>2 DEF UnrealizedPnl
<1>5. x \in Int /\ y \in Int /\ x + y = size * gap
    <2> HIDE DEF gap, part
    <2> QED BY <1>1
<1>6. (x >= 0 /\ y >= 0) \/ (x <= 0 /\ y <= 0)
    <2> HIDE DEF gap, part, left
    <2>1. CASE gap >= 0 /\ part < 0 /\ left > 0
        BY <1>1, <2>1
    <2>2. CASE gap < 0 /\ part < 0 /\ left > 0
        BY <1>1, <2>2
    <2>3. CASE gap >= 0 /\ part > 0 /\ left < 0
        BY <1>1, <2>3
    <2>4. CASE gap < 0 /\ part > 0 /\ left < 0
        BY <1>1, <2>4
    <2> QED BY <1>1, <2>1, <2>2, <2>3, <2>4
<1> DEFINE u == TruncDiv(x, NOTIONAL_DIVISOR)
           v == TruncDiv(y, NOTIONAL_DIVISOR)
           w == TruncDiv(x + y, NOTIONAL_DIVISOR)
<1>7. Abs(u + v) <= Abs(w) /\ Abs(w) <= Abs(u + v) + 1
    <2> HIDE DEF x, y
    <2> QED BY <1>5, <1>6, SplitTrunc, ScaleAssumption
<1>8. w = UnrealizedPnl(size, entry, mark)
    <2> HIDE DEF x, y
    <2> QED BY <1>5 DEF UnrealizedPnl
<1>9. first.realized = u /\ rest.realized = v
    <2> HIDE DEF x, y, gain, first, rest
    <2> QED BY <1>2, <1>3, <1>4
<1> HIDE DEF u, v, w
<1>10. Abs(first.realized + rest.realized) <= Abs(UnrealizedPnl(size, entry, mark))
       /\ Abs(UnrealizedPnl(size, entry, mark)) <= Abs(first.realized + rest.realized) + 1
    <2> HIDE DEF first, rest
    <2> QED BY <1>7, <1>8, <1>9
<1> QED BY Zenon, <1>10

LEMMA TimesMonotone ==
    ASSUME NEW a \in Int, NEW b \in Int, NEW n \in Nat, a <= b
    PROVE  n * a \in Int /\ n * b \in Int /\ n * a <= n * b /\ a * n = n * a /\ b * n = n * b
<1>1. PICK d \in Nat : b = a + d
    <2>1. b - a \in Nat /\ b = a + (b - a)
        OBVIOUS
    <2> QED BY <2>1
<1>2. n * b = n * a + n * d /\ n * d \in Nat /\ n * a \in Int
    BY <1>1
<1> QED BY <1>2

\* What the estimate leaves: the fall to the mark is less than the cushion's move.
LEMMA EstimateGap ==
    ASSUME NEW size \in Nat \ {0}, NEW entry \in Nat, NEW c \in Nat, NEW mm \in Nat,
           NEW mark \in 1 .. entry,
           Notional(size, entry) > 0,
           (c * BPS) \div Notional(size, entry) >= mm,
           mark > EstimatedLiquidationPrice(size, entry, c, mm)
    PROVE  BPS * ((entry - mark) + 1) <= entry * ((c * BPS) \div Notional(size, entry) - mm)
<1> DEFINE n    == Notional(size, entry)
           cu   == (c * BPS) \div n - mm
           move == TruncDiv(entry * cu, BPS)
           liq  == entry - move
<1>1. size # 0 /\ Abs(size) = size /\ size > 0
    BY DEF Abs
<1>2. n \in Nat \ {0}
    BY NotionalInt DEF Notional
<1>3. cu \in Nat /\ entry * cu \in Nat
    <2>1. (c * BPS) \div n \in Int
        <3>1. c * BPS \in Nat
            BY ScaleAssumption
        <3> HIDE DEF n
        <3> QED BY <3>1, <1>2, NatDiv
    <2>2. cu \in Nat
        <3> HIDE DEF n
        <3> DEFINE k == (c * BPS) \div n
        <3>1. k \in Int /\ k >= mm
            BY <2>1 DEF n
        <3> HIDE DEF k
        <3>2. k - mm \in Nat
            BY <3>1
        <3> QED BY <3>2 DEF k
    <2> HIDE DEF cu
    <2> QED BY <2>2
<1>4. move \in Nat /\ BPS * move \in Int /\ BPS * move <= entry * cu
    <2> HIDE DEF cu
    <2> DEFINE z == entry * cu
    <2>1. z \in Nat
        BY <1>3
    <2> HIDE DEF z
    <2>2. TruncDiv(z, BPS) = z \div BPS /\ z \div BPS \in Nat /\ BPS * (z \div BPS) \in Int /\ BPS * (z \div BPS) <= z
        <3>1. TruncDiv(z, BPS) = z \div BPS /\ z \div BPS \in Nat
            BY <2>1, TruncOdd, ScaleAssumption
        <3>2. BPS * (z \div BPS) \in Int /\ BPS * (z \div BPS) <= z
            BY <2>1, DivNear, ScaleAssumption
        <3> QED BY <3>1, <3>2, Zenon
    <2> DEFINE y == TruncDiv(z, BPS)
    <2>3. y \in Nat /\ BPS * y \in Int /\ BPS * y <= z
        BY <2>2
    <2> QED BY <2>3, Zenon DEF z
<1>5. EstimatedLiquidationPrice(size, entry, c, mm) = IF liq < 0 THEN 0 ELSE liq
    <2>1. Notional(Abs(size), entry) = n /\ ~(size = 0 \/ n = 0)
        BY <1>1, <1>2
    <2> QED BY <1>1, <2>1, Zenon DEF EstimatedLiquidationPrice
<1>6. (entry - mark) + 1 <= move /\ (entry - mark) + 1 \in Int
    <2> HIDE DEF move, n
    <2>1. liq \in Int
        BY <1>4
    <2> QED BY <1>4, <1>5
<1> HIDE DEF move, cu, n
<1> DEFINE g == (entry - mark) + 1
<1>7. BPS * g <= entry * cu
    <2>1. g \in Int /\ g <= move
        BY <1>6
    <2> HIDE DEF g
    <2>2. BPS * g \in Int /\ BPS * g <= BPS * move
        BY <2>1, <1>4, TimesMonotone, ScaleAssumption
    <2> QED BY <2>2, <1>3, <1>4
<1> QED BY <1>7, Zenon DEF cu, n

\* The same in numbers that stand for the divisions: what equity keeps covers maintenance.
LEMMA CushionCovers ==
    ASSUME NEW s \in Nat, NEW e \in Nat, NEW m \in Nat, NEW c \in Nat, NEW mm \in Nat,
           NEW n \in Nat, NEW cu \in Nat, NEW l \in Nat, NEW k \in Nat,
           NEW D \in Nat \ {0}, NEW B \in Nat \ {0},
           m <= e,
           D * n <= s * e, s * e < D * n + D,
           n * (mm + cu) <= c * B,
           D * l <= s * (e - m), D * k <= s * m,
           B * ((e - m) + 1) <= e * cu
    PROVE  k * mm < B * ((c - l) + 1)
<1> DEFINE d == e - m
<1>1. d \in Nat /\ e = m + d
    OBVIOUS
<1>2. k + l <= n
    <2>1. s * e = s * m + s * d /\ s * m \in Int /\ s * d \in Int /\ s * e \in Int
        BY <1>1
    <2>2. D * (k + l) = D * k + D * l /\ D * k \in Int /\ D * l \in Int
          /\ D * (n + 1) = D * n + D /\ D * n \in Int
        OBVIOUS
    <2>3. D * (k + l) < D * (n + 1)
        <3> DEFINE p1 == s * e
                   p2 == s * m
                   p3 == s * d
                   p4 == D * k
                   p5 == D * l
                   p6 == D * n
                   p7 == D * (k + l)
                   p8 == D * (n + 1)
        <3>1. /\ p1 \in Int /\ p2 \in Int /\ p3 \in Int /\ p4 \in Int /\ p5 \in Int /\ p6 \in Int
              /\ p1 = p2 + p3 /\ p7 = p4 + p5 /\ p8 = p6 + D
              /\ p1 < p6 + D /\ p5 <= p3 /\ p4 <= p2
            BY <2>1, <2>2, Zenon
        <3> HIDE DEF p1, p2, p3, p4, p5, p6, p7, p8
        <3>2. p7 < p8
            BY <3>1
        <3> QED BY <3>2 DEF p7, p8
    <2>4. k + l < n + 1
        BY <2>3, CancelFactor
    <2> QED BY <2>4
<1>3. n * mm \in Int /\ n * cu \in Int /\ n * (mm + cu) = n * mm + n * cu /\ k * mm \in Int /\ k * mm <= n * mm
    <2>1. k <= n
        BY <1>2
    <2> QED BY <2>1, TimesMonotone
<1>4. c * B \in Int /\ B * l \in Int /\ B * ((c - l) + 1) = c * B - B * l + B /\ B * ((c - l) + 1) \in Int
    OBVIOUS
<1>5. CASE cu >= B
    <2>1. B * l <= n * cu
        <3>1. l <= n
            BY <1>2
        <3>2. B * l <= B * n /\ n * B <= n * cu /\ n * B = B * n
            BY <3>1, <1>5, TimesMonotone
        <3> QED BY <3>2, <1>3, <1>4
    <2> DEFINE p1 == n * mm
               p2 == n * cu
               p3 == c * B
               p4 == B * l
               p5 == k * mm
               p6 == B * ((c - l) + 1)
    <2>2. /\ p1 \in Int /\ p2 \in Int /\ p3 \in Int /\ p4 \in Int /\ p5 \in Int /\ p6 = p3 - p4 + B
          /\ p1 + p2 <= p3 /\ p4 <= p2 /\ p5 <= p1
        BY <1>3, <1>4, <2>1
    <2> HIDE DEF p1, p2, p3, p4, p5, p6
    <2>3. p5 < p6
        BY <2>2
    <2> QED BY <2>3 DEF p5, p6
<1>6. CASE cu < B
    <2>1. B * l <= n * cu + cu
        <3>1. D * (B * l) <= s * (e * cu) - s * B
            <4>1. D * (B * l) = B * (D * l) /\ B * (s * d) = s * (B * d) /\ B * (d + 1) = B * d + B
                  /\ s * (B * d + B) = s * (B * d) + s * B
                BY <1>1
            <4>2. B * (D * l) <= B * (s * d) /\ B * (D * l) \in Int /\ B * (s * d) \in Int
                <5>1. D * l \in Int /\ s * d \in Int /\ D * l <= s * d
                    BY <1>1
                <5> QED BY <5>1, TimesMonotone
            <4>3. s * (B * d + B) <= s * (e * cu) /\ s * (B * d + B) \in Int /\ s * (e * cu) \in Int
                <5>1. B * d + B \in Int /\ e * cu \in Int /\ B * d + B <= e * cu
                    BY <4>1, <1>1
                <5> QED BY <5>1, TimesMonotone
            <4>4. s * B \in Int /\ s * (B * d) \in Int
                BY <1>1
            <4> DEFINE p1 == D * (B * l)
                       p2 == B * (D * l)
                       p3 == B * (s * d)
                       p4 == s * (B * d)
                       p5 == s * (B * d + B)
                       p6 == s * B
                       p7 == s * (e * cu)
            <4>5. /\ p1 = p2 /\ p2 <= p3 /\ p3 = p4 /\ p5 = p4 + p6 /\ p5 <= p7
                  /\ p2 \in Int /\ p4 \in Int /\ p6 \in Int /\ p7 \in Int
                BY <4>1, <4>2, <4>3, <4>4, Zenon
            <4> HIDE DEF p1, p2, p3, p4, p5, p6, p7
            <4>6. p1 <= p7 - p6
                BY <4>5
            <4> QED BY <4>6 DEF p1, p6, p7
        <3>2. s * (e * cu) <= D * (n * cu + cu)
            <4>1. s * (e * cu) = cu * (s * e) /\ D * (n * cu + cu) = cu * (D * n + D)
                OBVIOUS
            <4>2. s * e \in Int /\ D * n + D \in Int /\ s * e <= D * n + D
                OBVIOUS
            <4>3. cu * (s * e) <= cu * (D * n + D)
                BY <4>2, TimesMonotone
            <4> QED BY <4>1, <4>3
        <3>4. D * (B * l) < D * (n * cu + cu + 1)
            <4> DEFINE p1 == D * (B * l)
                       p2 == s * (e * cu)
                       p3 == s * B
                       p4 == D * (n * cu + cu)
                       p5 == D * (n * cu + cu + 1)
            <4>1. p1 \in Int /\ p2 \in Int /\ p3 \in Nat /\ p4 \in Int /\ p5 = p4 + D
                OBVIOUS
            <4>2. p1 <= p2 - p3 /\ p2 <= p4
                BY <3>1, <3>2
            <4> HIDE DEF p1, p2, p3, p4, p5
            <4>3. p1 < p5
                BY <4>1, <4>2
            <4> QED BY <4>3 DEF p1, p5
        <3>5. B * l \in Int /\ n * cu + cu + 1 \in Int
            OBVIOUS
        <3>6. B * l < n * cu + cu + 1
            BY <3>4, <3>5, CancelFactor
        <3> QED BY <3>6, <3>5
    <2> DEFINE p1 == n * mm
               p2 == n * cu
               p3 == c * B
               p4 == B * l
               p5 == k * mm
               p6 == B * ((c - l) + 1)
    <2>2. /\ p1 \in Int /\ p2 \in Int /\ p3 \in Int /\ p4 \in Int /\ p5 \in Int /\ p6 = p3 - p4 + B
          /\ p1 + p2 <= p3 /\ p4 <= p2 + cu /\ p5 <= p1
        BY <1>3, <1>4, <2>1
    <2> HIDE DEF p1, p2, p3, p4, p5, p6
    <2>3. p5 < p6
        BY <2>2, <1>6
    <2> QED BY <2>3 DEF p5, p6
<1> QED BY <1>5, <1>6

\* Above the estimate the equity still covers maintenance.
LEMMA EstimateCovers ==
    ASSUME NEW size \in Nat \ {0}, NEW entry \in Nat, NEW c \in Nat, NEW mm \in Nat,
           NEW mark \in 1 .. entry,
           Notional(size, entry) > 0,
           (c * BPS) \div Notional(size, entry) >= mm,
           mark > EstimatedLiquidationPrice(size, entry, c, mm)
    PROVE  c + UnrealizedPnl(size, entry, mark) >= MarginOf(Notional(size, mark), mm)
<1> DEFINE D  == NOTIONAL_DIVISOR
           n  == Notional(size, entry)
           kk == (c * BPS) \div n
           cu == kk - mm
           d  == entry - mark
           z  == size * d
           l  == z \div D
           v  == size * mark
           k  == v \div D
           t  == size * entry
<1>1. D \in Nat \ {0} /\ BPS \in Nat \ {0} /\ d \in Nat /\ mark \in Nat /\ z \in Nat /\ v \in Nat /\ t \in Nat
    BY ScaleAssumption
<1>2. n \in Nat \ {0} /\ D * n <= t /\ t < D * n + D
    <2>1. n = t \div D
        BY DEF Notional
    <2> HIDE DEF t, D
    <2>2. D * (t \div D) <= t /\ t < D * (t \div D) + D /\ t \div D \in Int
        BY <1>1, DivNear
    <2>3. n \in Int /\ n > 0
        BY <2>1, <2>2, Zenon
    <2> HIDE DEF n
    <2> QED BY <2>1, <2>2, <2>3
<1>3. kk \in Int /\ n * kk <= c * BPS /\ kk >= mm
    <2>1. c * BPS \in Int
        BY <1>1
    <2> HIDE DEF n
    <2> QED BY <1>2, <2>1, DivNear DEF n
<1>4. cu \in Nat /\ mm + cu = kk
    <2> HIDE DEF kk
    <2> QED BY <1>3
<1>5. l \in Nat /\ D * l <= z
    <2> HIDE DEF z, D
    <2> QED BY <1>1, NatDiv, DivNear
<1>6. k \in Nat /\ D * k <= v
    <2> HIDE DEF v, D
    <2> QED BY <1>1, NatDiv, DivNear
<1>7. BPS * (d + 1) <= entry * cu
    BY EstimateGap
<1>8. k * mm < BPS * ((c - l) + 1)
    <2> HIDE DEF D, n, kk, cu, l, k
    <2>1. n * (mm + cu) <= c * BPS
        BY <1>3, <1>4
    <2>2. D * l <= size * (entry - mark) /\ D * k <= size * mark /\ D * n <= size * entry /\ size * entry < D * n + D
        BY <1>2, <1>5, <1>6
    <2>3. mark <= entry /\ BPS * ((entry - mark) + 1) <= entry * cu
        BY <1>7
    <2> HIDE DEF z, v, t, d
    <2> QED BY <1>1, <1>2, <1>4, <1>5, <1>6, <2>1, <2>2, <2>3, CushionCovers
<1>9. (k * mm) \div BPS <= c - l
    <2> DEFINE a == k * mm
               r == a \div BPS
    <2>1. a \in Nat
        BY <1>6
    <2> HIDE DEF a, l
    <2>2. r \in Int /\ BPS * r \in Int /\ BPS * r <= a
        BY <2>1, <1>1, DivNear
    <2> HIDE DEF r
    <2>3. BPS * r < BPS * ((c - l) + 1)
        <3> DEFINE w == BPS * ((c - l) + 1)
        <3>1. w \in Int /\ a < w
            BY <1>1, <1>5, <1>8 DEF a
        <3> HIDE DEF w
        <3>2. BPS * r < w
            BY <3>1, <2>1, <2>2
        <3> QED BY <3>2 DEF w
    <2>4. r < (c - l) + 1
        BY <2>2, <2>3, <1>1, <1>5, CancelFactor
    <2>5. r <= c - l
        BY <2>2, <2>4, <1>5
    <2> QED BY <2>5 DEF a, r
<1>10. UnrealizedPnl(size, entry, mark) = -l
    <2>1. size * (mark - entry) = -z
        OBVIOUS
    <2> HIDE DEF z
    <2> QED BY <2>1, <1>1, TruncOdd DEF UnrealizedPnl
<1>11. MarginOf(Notional(size, mark), mm) = (k * mm) \div BPS
    BY DEF MarginOf, Notional
<1>12. (k * mm) \div BPS \in Int
    <2> HIDE DEF k
    <2>1. k * mm \in Nat
        BY <1>6
    <2> QED BY <2>1, <1>1, NatDiv
<1> HIDE DEF l, k
<1> DEFINE w == (k * mm) \div BPS
<1>13. w \in Int /\ w <= c - l
    BY <1>9, <1>12
<1> HIDE DEF w
<1>14. c + (-l) >= w
    BY <1>5, <1>13
<1> QED BY <1>10, <1>11, <1>14 DEF w

\* Without a cushion the estimate is at the entry or above.
LEMMA NoCushionNoMove ==
    ASSUME NEW size \in Nat \ {0}, NEW entry \in Nat, NEW c \in Nat, NEW mm \in Nat,
           Notional(size, entry) > 0,
           (c * BPS) \div Notional(size, entry) <= mm
    PROVE  EstimatedLiquidationPrice(size, entry, c, mm) \in Int
           /\ EstimatedLiquidationPrice(size, entry, c, mm) >= entry
<1> DEFINE n    == Notional(size, entry)
           kk   == (c * BPS) \div n
           cu   == kk - mm
           move == TruncDiv(entry * cu, BPS)
           liq  == entry - move
<1>1. size # 0 /\ Abs(size) = size /\ size > 0 /\ BPS \in Nat \ {0}
    BY ScaleAssumption DEF Abs
<1>2. n \in Nat \ {0}
    BY NotionalInt DEF Notional
<1>3. kk \in Int /\ kk <= mm
    <2>1. c * BPS \in Nat
        BY <1>1
    <2> HIDE DEF n
    <2> QED BY <2>1, <1>2, NatDiv DEF n
<1>4. PICK k \in Nat : k = mm - kk
    <2> HIDE DEF kk
    <2>1. mm - kk \in Nat
        BY <1>3
    <2> QED BY <2>1
<1>5. cu = -k
    <2> HIDE DEF kk
    <2> QED BY <1>3, <1>4
<1>6. move \in Int /\ move <= 0
    <2>1. entry * cu = -(entry * k) /\ entry * k \in Nat
        <3> HIDE DEF cu
        <3> QED BY <1>5
    <2> HIDE DEF cu
    <2> DEFINE z == entry * k
    <2>2. z \in Nat /\ entry * cu = -z
        BY <2>1
    <2> HIDE DEF z
    <2>3. TruncDiv(-z, BPS) = -(z \div BPS) /\ z \div BPS \in Nat
        BY <2>2, <1>1, TruncOdd
    <2> QED BY <2>2, <2>3
<1>7. EstimatedLiquidationPrice(size, entry, c, mm) = IF liq < 0 THEN 0 ELSE liq
    <2>1. Notional(Abs(size), entry) = n /\ ~(size = 0 \/ n = 0)
        BY <1>1, <1>2
    <2> QED BY <1>1, <2>1, Zenon DEF EstimatedLiquidationPrice
<1> HIDE DEF move
<1> QED BY <1>6, <1>7

\* A long whose mark has not passed its entry has gained nothing.
LEMMA NoGainBelowEntry ==
    ASSUME NEW size \in Nat, NEW entry \in Nat, NEW mark \in Nat, mark <= entry
    PROVE  UnrealizedPnl(size, entry, mark) \in Int /\ UnrealizedPnl(size, entry, mark) <= 0
<1> DEFINE z == size * (entry - mark)
<1>1. z \in Nat /\ size * (mark - entry) = -z
    BY entry - mark \in Nat
<1> HIDE DEF z
<1>2. TruncDiv(-z, NOTIONAL_DIVISOR) = -(z \div NOTIONAL_DIVISOR) /\ z \div NOTIONAL_DIVISOR \in Nat
    BY <1>1, TruncOdd, ScaleAssumption
<1> QED BY <1>1, <1>2 DEF UnrealizedPnl

\* The equity read at one mark warns of every later mark up to the entry.
LEMMA ReportCovers ==
    ASSUME NEW size \in Nat \ {0}, NEW entry \in Nat, NEW balance \in Int, NEW mm \in Nat,
           NEW mark \in 1 .. entry, NEW later \in 1 .. entry,
           Notional(size, entry) > 0,
           later > ReportedLiquidationPrice(size, entry, balance, mark, mm)
    PROVE  balance + UnrealizedPnl(size, entry, later) >= MarginOf(Notional(size, later), mm)
<1> DEFINE u  == UnrealizedPnl(size, entry, mark)
           eq == balance + u
           c  == IF eq > 0 THEN eq ELSE 0
<1>1. u \in Int /\ u <= 0
    BY NoGainBelowEntry
<1>2. c \in Nat /\ (c > 0 => balance >= c)
    <2> HIDE DEF u
    <2> QED BY <1>1
<1>3. later > EstimatedLiquidationPrice(size, entry, c, mm)
    <2>1. ReportedLiquidationPrice(size, entry, balance, mark, mm) = EstimatedLiquidationPrice(size, entry, c, mm)
        BY Zenon DEF ReportedLiquidationPrice
    <2> HIDE DEF c
    <2> QED BY <2>1
<1> HIDE DEF c
<1> DEFINE n  == Notional(size, entry)
           kk == (c * BPS) \div n
<1>4. n \in Nat \ {0}
    BY NotionalInt DEF Notional
<1>5. kk \in Int
    <2>1. c * BPS \in Nat
        BY <1>2, ScaleAssumption
    <2> HIDE DEF n
    <2> QED BY <1>4, <2>1, NatDiv
<1>6. CASE kk <= mm
    <2>1. EstimatedLiquidationPrice(size, entry, c, mm) \in Int
          /\ EstimatedLiquidationPrice(size, entry, c, mm) >= entry
        BY <1>2, <1>6, NoCushionNoMove
    <2> QED BY <1>3, <2>1
<1>7. CASE kk > mm
    <2>1. c > 0
        <3>1. c = 0 => kk = 0
            <4>1. c = 0 => c * BPS = 0
                BY ScaleAssumption
            <4>2. 0 \div n = 0
                <5> HIDE DEF n
                <5> QED BY <1>4
            <4> HIDE DEF n
            <4> QED BY <4>1, <4>2
        <3> HIDE DEF kk
        <3> QED BY <1>2, <1>7, <3>1
    <2> DEFINE v == UnrealizedPnl(size, entry, later)
               w == MarginOf(Notional(size, later), mm)
    <2>2. c + v >= w
        <3>1. kk >= mm
            <4> HIDE DEF kk
            <4> QED BY <1>5, <1>7
        <3> QED BY <1>2, <1>3, <3>1, EstimateCovers
    <2>3. v \in Int
        BY NoGainBelowEntry
    <2>4. w \in Int
        BY NotionalInt, FeesInt
    <2> HIDE DEF v, w
    <2>5. balance + v >= w
        BY <1>2, <2>1, <2>2, <2>3, <2>4
    <2> QED BY <2>5 DEF v, w
<1> QED
    <2> HIDE DEF kk
    <2> QED BY <1>5, <1>6, <1>7
=============================================================================
