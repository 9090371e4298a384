--------------------------- MODULE Clearing_proofs ---------------------------
(***************************************************************************)
(* Proofs about Clearing for every set of traders, markets, prices and     *)
(* parameters.  First what each operator a handler is made of does to the  *)
(* clearing record, then one lemma per handler, then the invariants.       *)
(***************************************************************************)
EXTENDS Clearing, PositionAccounting, PerpMath_proofs, SequenceTheorems

\* The two accounts the exchange is wired to, and the entries that are not accounts.
LEMMA WiredDistinct ==
  /\ Traders \subseteq Accounts /\ Accounts \subseteq Holders
  /\ Backstop \in Accounts /\ InsuranceFund \in Accounts
  /\ Exchange \in Holders /\ Treasury \in Holders /\ Keeper \in Holders
  /\ Backstop # InsuranceFund /\ Backstop \notin Traders /\ InsuranceFund \notin Traders
  /\ Exchange \notin Accounts /\ Treasury \notin Accounts /\ Keeper \notin Accounts
  /\ Exchange # Treasury /\ Exchange # Keeper
  BY ClearingAssumption DEF Accounts, Holders

LEMMA FiniteAccounts == IsFiniteSet(Accounts) /\ IsFiniteSet(Holders) /\ IsFiniteSet(Markets)
<1>1. IsFiniteSet(Accounts) /\ IsFiniteSet(Markets)
  BY ClearingAssumption
<1>2. IsFiniteSet(((Accounts \cup {Exchange}) \cup {Treasury}) \cup {Keeper})
  BY <1>1, FS_AddElement
<1>3. Holders = ((Accounts \cup {Exchange}) \cup {Treasury}) \cup {Keeper}
  BY DEF Holders
<1>. QED
  BY <1>1, <1>2, <1>3

(***************************************************************************)
(* What the operators do to the clearing record.                           *)
(***************************************************************************)

\* Everything that is on the ledger.
Total(c) == SumFunction(c.balance)

LEMMA TotalInt == ASSUME NEW c \in Clearing PROVE Total(c) \in Int
<1>1. c.balance \in [Holders -> Int]
  BY DEF Clearing
<1>. QED
  BY <1>1, FiniteAccounts, SumFunctionInt DEF Total

\* Everything of the record but its balances and the funding total.
SameBooks(c, d) ==
  /\ d.position = c.position /\ d.holders = c.holders /\ d.holderIndex = c.holderIndex
  /\ d.oiLong = c.oiLong /\ d.oiShort = c.oiShort /\ d.dust = c.dust

LEMMA WithBalance ==
  ASSUME NEW c \in Clearing, NEW f \in [Holders -> Int]
  PROVE  LET d == [c EXCEPT !.balance = f]
         IN  d \in Clearing /\ SameBooks(c, d) /\ d.balance = f /\ d.funding = c.funding
  BY DEF Clearing, SameBooks

LEMMA WithFunding ==
  ASSUME NEW c \in Clearing, NEW n \in Int
  PROVE  LET d == [c EXCEPT !.funding = n]
         IN  d \in Clearing /\ SameBooks(c, d) /\ d.balance = c.balance /\ d.funding = n
  BY DEF Clearing, SameBooks

LEMMA WithDust ==
  ASSUME NEW c \in Clearing, NEW n \in Nat
  PROVE  LET d == [c EXCEPT !.dust = n]
         IN  /\ d \in Clearing /\ d.dust = n
             /\ d.balance = c.balance /\ d.position = c.position /\ d.funding = c.funding
             /\ d.holders = c.holders /\ d.holderIndex = c.holderIndex
             /\ d.oiLong = c.oiLong /\ d.oiShort = c.oiShort
  BY DEF Clearing

LEMMA DustNat ==
  ASSUME NEW size \in Int, NEW delta \in Int \ {0}
  PROVE  DustOf(size, delta) \in Nat
<1>1. size # 0 /\ (size > 0) = (delta > 0) => size + delta # 0
  OBVIOUS
<1>. QED
  BY <1>1, AbsNat, ScaleAssumption DEF DustOf

LEMMA CreditType ==
  ASSUME NEW c \in Clearing, NEW h \in Holders, NEW amount \in Int
  PROVE  LET d == Credit(c, h, amount)
         IN  /\ d \in Clearing
             /\ SameBooks(c, d)
             /\ d.balance[h] = c.balance[h] + amount
             /\ \A g \in Holders \ {h} : d.balance[g] = c.balance[g]
             /\ d.funding = c.funding
             /\ Total(d) = Total(c) + amount
<1>. DEFINE f == [c.balance EXCEPT ![h] = c.balance[h] + amount]
<1>1. c.balance \in [Holders -> Int] /\ c.balance[h] + amount \in Int
  BY DEF Clearing
<1>2. /\ f \in [Holders -> Int] /\ f[h] = c.balance[h] + amount
      /\ \A g \in Holders \ {h} : f[g] = c.balance[g]
  BY <1>1
<1>3. Credit(c, h, amount) = [c EXCEPT !.balance = f]
  BY DEF Credit
<1>. HIDE DEF f
<1>4. SumFunction(f) = SumFunction(c.balance) - c.balance[h] + f[h]
  BY <1>1, <1>2, FiniteAccounts, SumMoves
<1>5. SumFunction(f) = SumFunction(c.balance) + amount
  <2>1. SumFunction(c.balance) \in Int /\ c.balance[h] \in Int
    BY <1>1, FiniteAccounts, SumFunctionInt
  <2>. QED
    BY <2>1, <1>2, <1>4
<1>6. LET d == Credit(c, h, amount)
      IN  d \in Clearing /\ SameBooks(c, d) /\ d.balance = f /\ d.funding = c.funding
  BY <1>2, <1>3, WithBalance
<1>. QED
  BY <1>2, <1>5, <1>6 DEF Total

\* Value was moved between two entries, and nothing else.
Paid(c, d) ==
  d \in Clearing /\ SameBooks(c, d) /\ d.funding = c.funding /\ Total(d) = Total(c)

LEMMA PaidTransitive ==
  ASSUME NEW c, NEW d, NEW e, Paid(c, d), Paid(d, e)
  PROVE  Paid(c, e)
  BY DEF Paid, SameBooks

LEMMA TransferType ==
  ASSUME NEW c \in Clearing, NEW from \in Holders, NEW to \in Holders, NEW amount \in Int
  PROVE  LET d == Transfer(c, from, to, amount)
         IN  /\ Paid(c, d)
             /\ \A h \in Holders \ {from, to} : d.balance[h] = c.balance[h]
             /\ from # to => /\ d.balance[from] = c.balance[from] - amount
                             /\ d.balance[to] = c.balance[to] + amount
<1>. DEFINE debited == Credit(c, from, -amount)
            d       == Credit(debited, to, amount)
<1>1. /\ debited \in Clearing /\ SameBooks(c, debited)
      /\ debited.funding = c.funding /\ Total(debited) = Total(c) + (-amount)
      /\ debited.balance[from] = c.balance[from] + (-amount)
      /\ \A g \in Holders \ {from} : debited.balance[g] = c.balance[g]
  BY CreditType
<1>. HIDE DEF debited
<1>2. /\ d \in Clearing /\ SameBooks(debited, d)
      /\ d.funding = debited.funding /\ Total(d) = Total(debited) + amount
      /\ d.balance[to] = debited.balance[to] + amount
      /\ \A g \in Holders \ {to} : d.balance[g] = debited.balance[g]
  BY <1>1, CreditType
<1>3. Transfer(c, from, to, amount) = d
  BY DEF Transfer, debited
<1>. HIDE DEF d
<1>4. SameBooks(c, d)
  BY <1>1, <1>2 DEF SameBooks
<1>5. c.balance[from] \in Int
  BY DEF Clearing
<1>6. Total(d) = Total(c)
  BY <1>1, <1>2, TotalInt
<1>7. Paid(c, d)
  BY <1>1, <1>2, <1>4, <1>6 DEF Paid
<1>8. /\ \A h \in Holders \ {from, to} : d.balance[h] = c.balance[h]
      /\ from # to => /\ d.balance[from] = c.balance[from] - amount
                      /\ d.balance[to] = c.balance[to] + amount
  BY <1>1, <1>2, <1>5
<1>. QED
  BY <1>3, <1>7, <1>8

LEMMA TransferPaid ==
  ASSUME NEW c \in Clearing, NEW from \in Holders, NEW to \in Holders, NEW amount \in Int
  PROVE  /\ Transfer(c, from, to, amount) \in Clearing
         /\ Paid(c, Transfer(c, from, to, amount))
<1>1. Paid(c, Transfer(c, from, to, amount))
  BY TransferType
<1>. QED
  BY <1>1 DEF Paid

\* The funding a position has run up since its snapshot.
Owed(c, a, m) ==
  FundingOwed(c.position[a][m].size, c.position[a][m].snapshot, market[m].fundingIndex)

LEMMA SettleFundingType ==
  ASSUME market \in [Markets -> Market],
         NEW c \in Clearing, NEW a \in Accounts, NEW m \in Markets
  PROVE  LET d == SettleFunding(c, a, m)
         IN  /\ d \in Clearing /\ SameBooks(c, d) /\ Total(d) = Total(c)
             /\ Owed(c, a, m) \in Int /\ d.funding = c.funding + Owed(c, a, m)
             /\ \A h \in Holders \ {a, InsuranceFund} : d.balance[h] = c.balance[h]
             /\ a # InsuranceFund => d.balance[a] = c.balance[a] - Owed(c, a, m)
<1>. DEFINE p    == c.position[a][m]
            owed == Owed(c, a, m)
            d    == Transfer(c, a, InsuranceFund, owed)
<1>1. p \in Position /\ market[m].fundingIndex \in Int
  BY DEF Clearing, Market
<1>2. owed \in Int
  BY <1>1, FundingOwedInt DEF Position, Owed
<1>3. SettleFunding(c, a, m) = [d EXCEPT !.funding = @ + owed]
  BY DEF SettleFunding, Owed
<1>. HIDE DEF owed
<1>4. /\ Paid(c, d)
      /\ \A h \in Holders \ {a, InsuranceFund} : d.balance[h] = c.balance[h]
      /\ a # InsuranceFund => d.balance[a] = c.balance[a] - owed
  BY <1>2, TransferType, WiredDistinct
<1>. HIDE DEF d
<1>5. d \in Clearing /\ d.funding + owed \in Int
  BY <1>2, <1>4 DEF Paid, Clearing
<1>6. LET e == [d EXCEPT !.funding = d.funding + owed]
      IN  e \in Clearing /\ SameBooks(d, e) /\ e.balance = d.balance /\ e.funding = d.funding + owed
  BY <1>5, WithFunding
<1>. QED
  BY <1>2, <1>3, <1>4, <1>6 DEF SameBooks, Paid, Total, owed

LEMMA StorePositionType ==
  ASSUME market \in [Markets -> Market],
         NEW c \in Clearing, NEW a \in Accounts, NEW m \in Markets,
         NEW moved, moved.size \in Int, moved.entry \in Nat
  PROVE  LET d == StorePosition(c, a, m, moved)
         IN  /\ d \in Clearing
             /\ d.position[a][m].size = moved.size /\ d.position[a][m].entry = moved.entry
             /\ d.position[a][m].snapshot = market[m].fundingIndex
             /\ \A b \in Accounts, n \in Markets :
                   <<b, n>> # <<a, m>> => d.position[b][n] = c.position[b][n]
             /\ d.balance = c.balance /\ d.funding = c.funding
             /\ d.holders = c.holders /\ d.holderIndex = c.holderIndex
             /\ d.oiLong = c.oiLong /\ d.oiShort = c.oiShort /\ d.dust = c.dust
<1>1. market[m].fundingIndex \in Int
  BY DEF Market
<1>2. [size |-> moved.size, entry |-> moved.entry, snapshot |-> market[m].fundingIndex]
        \in Position
  BY <1>1 DEF Position
<1>. QED
  BY <1>2 DEF StorePosition, Clearing

\* The difference of the two sides moves by exactly the change of the position.
LEMMA AdjustOIType ==
  ASSUME NEW c \in Clearing, NEW m \in Markets, NEW before \in Int, NEW after \in Int
  PROVE  LET d == AdjustOI(c, m, before, after)
         IN  /\ d \in Clearing
             /\ d.oiLong[m] - d.oiShort[m] = c.oiLong[m] - c.oiShort[m] + after - before
             /\ d.oiLong[m] = c.oiLong[m] - Longs(before) + Longs(after)
             /\ d.oiShort[m] = c.oiShort[m] - Shorts(before) + Shorts(after)
             /\ \A n \in Markets \ {m} :
                   d.oiLong[n] = c.oiLong[n] /\ d.oiShort[n] = c.oiShort[n]
             /\ d.balance = c.balance /\ d.position = c.position /\ d.funding = c.funding
             /\ d.holders = c.holders /\ d.holderIndex = c.holderIndex /\ d.dust = c.dust
<1>. DEFINE long  == [c.oiLong  EXCEPT ![m] = @ - Longs(before) + Longs(after)]
            short == [c.oiShort EXCEPT ![m] = @ - Shorts(before) + Shorts(after)]
            d     == [c EXCEPT !.oiLong = long, !.oiShort = short]
<1>1. /\ Longs(before) \in Int /\ Longs(after) \in Int
      /\ Shorts(before) \in Int /\ Shorts(after) \in Int
      /\ Longs(before) - Shorts(before) = before /\ Longs(after) - Shorts(after) = after
  BY DEF Longs, Shorts
<1>2. c.oiLong \in [Markets -> Int] /\ c.oiShort \in [Markets -> Int]
  BY DEF Clearing
<1>3. AdjustOI(c, m, before, after) = d
  BY DEF AdjustOI, Clearing
<1>4. /\ long \in [Markets -> Int] /\ short \in [Markets -> Int]
      /\ long[m] - short[m] = c.oiLong[m] - c.oiShort[m] + after - before
      /\ long[m] = c.oiLong[m] - Longs(before) + Longs(after)
      /\ short[m] = c.oiShort[m] - Shorts(before) + Shorts(after)
      /\ \A n \in Markets \ {m} : long[n] = c.oiLong[n] /\ short[n] = c.oiShort[n]
  BY <1>1, <1>2
<1>. HIDE DEF long, short
<1>5. /\ d \in Clearing /\ d.oiLong = long /\ d.oiShort = short
      /\ d.balance = c.balance /\ d.position = c.position /\ d.funding = c.funding
      /\ d.holders = c.holders /\ d.holderIndex = c.holderIndex /\ d.dust = c.dust
  BY <1>4 DEF Clearing
<1>. QED
  BY <1>3, <1>4, <1>5

(***************************************************************************)
(* The holder list: a push and a swap-pop keep it the list of its set.     *)
(***************************************************************************)
LEMMA PushLists ==
  ASSUME NEW list \in Seq(Accounts), NEW place \in [Accounts -> Nat], NEW S \in SUBSET Accounts,
         ListsExactly(list, place, S),
         NEW a \in Accounts \ S
  PROVE  /\ Append(list, a) \in Seq(Accounts)
         /\ [place EXCEPT ![a] = Len(list) + 1] \in [Accounts -> Nat]
         /\ ListsExactly(Append(list, a), [place EXCEPT ![a] = Len(list) + 1], S \cup {a})
<1>. DEFINE longer == Append(list, a)
            moved  == [place EXCEPT ![a] = Len(list) + 1]
<1>1. /\ Len(list) \in Nat
      /\ longer \in Seq(Accounts) /\ Len(longer) = Len(list) + 1
      /\ \A i \in 1 .. Len(list) : longer[i] = list[i]
      /\ longer[Len(list) + 1] = a
  BY AppendProperties, LenProperties
<1>2. moved \in [Accounts -> Nat] /\ moved[a] = Len(list) + 1
        /\ \A b \in Accounts \ {a} : moved[b] = place[b]
  BY <1>1
<1>3. \A i \in 1 .. Len(list) : list[i] \in Accounts /\ list[i] # a
  BY LenProperties DEF ListsExactly
<1>. HIDE DEF longer, moved
<1>4. ASSUME NEW b \in Accounts
      PROVE  /\ moved[b] <= Len(longer)
             /\ b \in S \cup {a} <=> moved[b] # 0
             /\ moved[b] # 0 => longer[moved[b]] = b
  <2>1. CASE b = a
    BY <2>1, <1>1, <1>2
  <2>2. CASE b # a
    <3>1. /\ moved[b] = place[b] /\ place[b] \in Nat /\ place[b] <= Len(list)
          /\ b \in S <=> place[b] # 0
          /\ place[b] # 0 => list[place[b]] = b
      BY <2>2, <1>2 DEF ListsExactly
    <3>2. place[b] # 0 => longer[place[b]] = b
      BY <3>1, <1>1
    <3>. QED
      BY <2>2, <3>1, <3>2, <1>1
  <2>. QED
    BY <2>1, <2>2
<1>5. ASSUME NEW i \in 1 .. Len(longer)
      PROVE  moved[longer[i]] = i
  <2>1. CASE i = Len(list) + 1
    BY <2>1, <1>1, <1>2
  <2>2. CASE i \in 1 .. Len(list)
    BY ZenonT(60), <2>2, <1>1, <1>2, <1>3 DEF ListsExactly
  <2>. QED
    BY <2>1, <2>2, <1>1
<1>6. ListsExactly(longer, moved, S \cup {a})
  BY <1>4, <1>5 DEF ListsExactly
<1>. QED
  BY <1>1, <1>2, <1>6 DEF longer, moved

LEMMA PopLists ==
  ASSUME NEW list \in Seq(Accounts), NEW place \in [Accounts -> Nat], NEW S \in SUBSET Accounts,
         ListsExactly(list, place, S),
         NEW a \in S
  PROVE  LET last  == list[Len(list)]
             moved == [place EXCEPT ![last] = place[a], ![a] = 0]
         IN  /\ SwapPop(list, place[a]) \in Seq(Accounts)
             /\ last \in Accounts
             /\ moved \in [Accounts -> Nat]
             /\ ListsExactly(SwapPop(list, place[a]), moved, S \ {a})
<1>. DEFINE n       == Len(list)
            k       == place[a]
            last    == list[n]
            shorter == SwapPop(list, k)
            moved   == [place EXCEPT ![last] = k, ![a] = 0]
<1>1. /\ n \in Nat /\ k \in 1 .. n /\ list[k] = a
      /\ \A i \in 1 .. n : list[i] \in Accounts
  BY LenProperties DEF ListsExactly
<1>2. n \in 1 .. n /\ last \in Accounts /\ place[last] = n
  BY <1>1 DEF ListsExactly
<1>. HIDE DEF n, k, last
<1>3. /\ shorter \in [1 .. n - 1 -> Accounts]
      /\ \A j \in 1 .. n - 1 : shorter[j] = IF j = k THEN last ELSE list[j]
  BY <1>1, <1>2 DEF SwapPop, n, last
<1>4. shorter \in Seq(Accounts) /\ Len(shorter) = n - 1
  BY <1>1, <1>2, <1>3, LenProperties, IsASeq
<1>5. /\ moved \in [Accounts -> Nat] /\ moved[a] = 0
      /\ last # a => moved[last] = k
      /\ \A b \in Accounts \ {a, last} : moved[b] = place[b]
  BY <1>1, <1>2
<1>. HIDE DEF shorter, moved
<1>6. ASSUME NEW b \in Accounts
      PROVE  /\ moved[b] <= Len(shorter)
             /\ b \in S \ {a} <=> moved[b] # 0
             /\ moved[b] # 0 => shorter[moved[b]] = b
  <2>1. CASE b = a
    BY <2>1, <1>1, <1>4, <1>5
  <2>2. CASE b # a /\ b = last
    <3>1. k # n
      BY <2>2, <1>1 DEF last
    <3>2. last \in S
      BY <1>2 DEF ListsExactly
    <3>. QED
      BY <3>1, <3>2, <2>2, <1>1, <1>3, <1>4, <1>5
  <2>3. CASE b # a /\ b # last
    <3>1. /\ place[b] \in Nat /\ place[b] <= n /\ (b \in S <=> place[b] # 0)
          /\ place[b] # 0 => list[place[b]] = b
      BY DEF ListsExactly, n
    <3>2. place[b] # n /\ place[b] # k
      BY <2>3, <3>1, <1>1, <1>2 DEF last
    <3>. QED
      BY SMTT(60), <2>3, <3>1, <3>2, <1>1, <1>3, <1>4, <1>5
  <2>. QED
    BY <2>1, <2>2, <2>3
<1>7. ASSUME NEW i \in 1 .. Len(shorter)
      PROVE  moved[shorter[i]] = i
  <2>1. i \in 1 .. n - 1 /\ i \in 1 .. n
    BY <1>1, <1>4
  <2>2. CASE i = k
    <3>1. shorter[i] = last /\ last # a
      BY <2>1, <2>2, <1>2, <1>3 DEF k
    <3>. QED
      BY <3>1, <2>2, <1>5
  <2>3. CASE i # k
    <3>1. shorter[i] = list[i] /\ list[i] \in Accounts /\ place[list[i]] = i
      BY <2>1, <2>3, <1>1, <1>3 DEF ListsExactly, n
    <3>2. list[i] # a /\ list[i] # last
      BY <2>1, <2>3, <3>1, <1>1, <1>2 DEF k
    <3>. QED
      BY <3>1, <3>2, <1>5
  <2>. QED
    BY <2>2, <2>3
<1>8. ListsExactly(shorter, moved, S \ {a})
  BY <1>6, <1>7 DEF ListsExactly
<1>. QED
  BY <1>2, <1>4, <1>5, <1>8 DEF shorter, moved, n, k, last

Relisted(c, m, list, place) ==
  [c EXCEPT !.holders     = [c.holders EXCEPT ![m] = list],
            !.holderIndex = [c.holderIndex EXCEPT ![m] = place]]

LEMMA WithHolders ==
  ASSUME NEW c \in Clearing, NEW m \in Markets,
         NEW list \in Seq(Accounts), NEW place \in [Accounts -> Nat]
  PROVE  LET d == Relisted(c, m, list, place)
         IN  /\ d \in Clearing
             /\ d.holders[m] = list /\ d.holderIndex[m] = place
             /\ \A n \in Markets \ {m} : /\ d.holders[n] = c.holders[n]
                                         /\ d.holderIndex[n] = c.holderIndex[n]
             /\ d.position = c.position /\ d.balance = c.balance /\ d.funding = c.funding
             /\ d.oiLong = c.oiLong /\ d.oiShort = c.oiShort /\ d.dust = c.dust
<1>. DEFINE f == [c.holders EXCEPT ![m] = list]
            g == [c.holderIndex EXCEPT ![m] = place]
<1>1. /\ f \in [Markets -> Seq(Accounts)] /\ g \in [Markets -> [Accounts -> Nat]]
      /\ f[m] = list /\ g[m] = place
      /\ \A n \in Markets \ {m} : f[n] = c.holders[n] /\ g[n] = c.holderIndex[n]
  BY DEF Clearing
<1>. HIDE DEF f, g
<1>2. LET d == [c EXCEPT !.holders = f, !.holderIndex = g]
      IN  /\ d \in Clearing /\ d.holders = f /\ d.holderIndex = g
          /\ d.position = c.position /\ d.balance = c.balance /\ d.funding = c.funding
          /\ d.oiLong = c.oiLong /\ d.oiShort = c.oiShort /\ d.dust = c.dust
  BY <1>1 DEF Clearing
<1>3. Relisted(c, m, list, place) = [c EXCEPT !.holders = f, !.holderIndex = g]
  BY DEF Relisted, f, g
<1>. QED
  BY <1>1, <1>2, <1>3

\* The push or pop brings the list back to the accounts with a position.
LEMMA TrackHolderType ==
  ASSUME NEW c \in Clearing, NEW a \in Accounts, NEW m \in Markets, NEW S \in SUBSET Accounts,
         S \ {a} = Open(c, m) \ {a},
         ListsExactly(c.holders[m], c.holderIndex[m], S),
         \A n \in Markets \ {m} : ListsExactly(c.holders[n], c.holderIndex[n], Open(c, n))
  PROVE  LET d == TrackHolder(c, m, a, c.position[a][m].size)
         IN  /\ d \in Clearing /\ HoldersMatch(d)
             /\ d.position = c.position /\ d.balance = c.balance /\ d.funding = c.funding
             /\ d.oiLong = c.oiLong /\ d.oiShort = c.oiShort /\ d.dust = c.dust
<1>. DEFINE size  == c.position[a][m].size
            list  == c.holders[m]
            place == c.holderIndex[m]
            d     == TrackHolder(c, m, a, size)
<1>1. list \in Seq(Accounts) /\ place \in [Accounts -> Nat]
  BY DEF Clearing
<1>2. a \in S <=> place[a] # 0
  BY DEF ListsExactly
<1>3. a \in Open(c, m) <=> size # 0
  BY DEF Open
<1>4. CASE size # 0 /\ place[a] = 0
  <2>. DEFINE l == Append(list, a)
              i == [place EXCEPT ![a] = Len(list) + 1]
  <2>1. /\ l \in Seq(Accounts) /\ i \in [Accounts -> Nat]
        /\ ListsExactly(l, i, S \cup {a})
    BY <1>1, <1>2, <1>4, PushLists
  <2>2. d = Relisted(c, m, l, i)
    BY <1>4 DEF TrackHolder, PushHolder, Relisted
  <2>3. S \cup {a} = Open(c, m)
    BY <1>3, <1>4
  <2>. HIDE DEF l, i, d
  <2>4. /\ d \in Clearing
        /\ d.holders[m] = l /\ d.holderIndex[m] = i
        /\ \A n \in Markets \ {m} : /\ d.holders[n] = c.holders[n]
                                    /\ d.holderIndex[n] = c.holderIndex[n]
        /\ d.position = c.position /\ d.balance = c.balance /\ d.funding = c.funding
        /\ d.oiLong = c.oiLong /\ d.oiShort = c.oiShort /\ d.dust = c.dust
    BY <2>1, <2>2, WithHolders
  <2>5. \A n \in Markets : Open(d, n) = Open(c, n)
    BY <2>4 DEF Open
  <2>6. HoldersMatch(d)
    BY <2>1, <2>3, <2>4, <2>5 DEF HoldersMatch
  <2>. QED
    BY <2>4, <2>6 DEF d
<1>5. CASE size = 0 /\ place[a] # 0
  <2>. DEFINE last == list[Len(list)]
              l    == SwapPop(list, place[a])
              i    == [place EXCEPT ![last] = place[a], ![a] = 0]
  <2>1. /\ l \in Seq(Accounts) /\ i \in [Accounts -> Nat] /\ last \in Accounts
        /\ ListsExactly(l, i, S \ {a})
    BY <1>1, <1>2, <1>5, PopLists
  <2>2. d = Relisted(c, m, l, i)
    BY <1>5, <2>1 DEF TrackHolder, PopHolder, Relisted, Clearing
  <2>3. S \ {a} = Open(c, m)
    BY <1>3, <1>5
  <2>. HIDE DEF l, i, d
  <2>4. /\ d \in Clearing
        /\ d.holders[m] = l /\ d.holderIndex[m] = i
        /\ \A n \in Markets \ {m} : /\ d.holders[n] = c.holders[n]
                                    /\ d.holderIndex[n] = c.holderIndex[n]
        /\ d.position = c.position /\ d.balance = c.balance /\ d.funding = c.funding
        /\ d.oiLong = c.oiLong /\ d.oiShort = c.oiShort /\ d.dust = c.dust
    BY <2>1, <2>2, WithHolders
  <2>5. \A n \in Markets : Open(d, n) = Open(c, n)
    BY <2>4 DEF Open
  <2>6. HoldersMatch(d)
    BY <2>1, <2>3, <2>4, <2>5 DEF HoldersMatch
  <2>. QED
    BY <2>4, <2>6 DEF d
<1>6. CASE (size # 0 /\ place[a] # 0) \/ (size = 0 /\ place[a] = 0)
  <2>1. d = c
    BY <1>6 DEF TrackHolder
  <2>2. S = Open(c, m)
    BY SMTT(60), <1>2, <1>3, <1>6
  <2>. QED
    BY <2>1, <2>2 DEF HoldersMatch
<1>. QED
  BY <1>4, <1>5, <1>6

(***************************************************************************)
(* One account's side of a fill, and both sides of it.                     *)
(***************************************************************************)

\* Open interest is the sum of the positions on each side.
LongSizes(c, m)  == [a \in Accounts |-> Longs(c.position[a][m].size)]
ShortSizes(c, m) == [a \in Accounts |-> Shorts(c.position[a][m].size)]

InterestMatches(c) ==
  \A m \in Markets : /\ c.oiLong[m]  = SumFunction(LongSizes(c, m))
                     /\ c.oiShort[m] = SumFunction(ShortSizes(c, m))

BooksMatch(c) == HoldersMatch(c) /\ InterestMatches(c)

LEMMA SizeInt ==
  ASSUME NEW c \in Clearing, NEW a \in Accounts, NEW m \in Markets
  PROVE  c.position[a][m].size \in Int
  BY DEF Clearing, Position

LEMMA SidesInt ==
  ASSUME NEW c \in Clearing, NEW m \in Markets
  PROVE  LongSizes(c, m) \in [Accounts -> Int] /\ ShortSizes(c, m) \in [Accounts -> Int]
<1>1. \A n \in Int : Longs(n) \in Int /\ Shorts(n) \in Int
  BY DEF Longs, Shorts
<1>2. \A a \in Accounts : c.position[a][m].size \in Int
  BY SizeInt
<1>. QED
  BY <1>1, <1>2 DEF LongSizes, ShortSizes

\* One position moved, and the two totals by what it counts for.
LEMMA InterestKept ==
  ASSUME NEW c \in Clearing, NEW d \in Clearing, InterestMatches(c),
         NEW a \in Accounts, NEW m \in Markets,
         \A b \in Accounts, n \in Markets :
            <<b, n>> # <<a, m>> => d.position[b][n] = c.position[b][n],
         d.oiLong[m] = c.oiLong[m] - Longs(c.position[a][m].size) + Longs(d.position[a][m].size),
         d.oiShort[m] = c.oiShort[m] - Shorts(c.position[a][m].size)
                                     + Shorts(d.position[a][m].size),
         \A n \in Markets \ {m} : d.oiLong[n] = c.oiLong[n] /\ d.oiShort[n] = c.oiShort[n]
  PROVE  InterestMatches(d)
<1>1. ASSUME NEW n \in Markets \ {m}
      PROVE  LongSizes(d, n) = LongSizes(c, n) /\ ShortSizes(d, n) = ShortSizes(c, n)
  <2>1. \A b \in Accounts : d.position[b][n] = c.position[b][n]
    OBVIOUS
  <2>. QED
    BY <2>1 DEF LongSizes, ShortSizes
<1>2. /\ LongSizes(c, m) \in [Accounts -> Int] /\ ShortSizes(c, m) \in [Accounts -> Int]
      /\ LongSizes(d, m) \in [Accounts -> Int] /\ ShortSizes(d, m) \in [Accounts -> Int]
  BY SidesInt
<1>3. \A b \in Accounts \ {a} : d.position[b][m] = c.position[b][m]
  OBVIOUS
<1>4. \A b \in Accounts \ {a} : /\ LongSizes(d, m)[b] = LongSizes(c, m)[b]
                              /\ ShortSizes(d, m)[b] = ShortSizes(c, m)[b]
  BY <1>3 DEF LongSizes, ShortSizes
<1>5. /\ SumFunction(LongSizes(d, m))
           = SumFunction(LongSizes(c, m)) - LongSizes(c, m)[a] + LongSizes(d, m)[a]
      /\ SumFunction(ShortSizes(d, m))
           = SumFunction(ShortSizes(c, m)) - ShortSizes(c, m)[a] + ShortSizes(d, m)[a]
  BY <1>2, <1>4, FiniteAccounts, SumMoves
<1>6. /\ LongSizes(c, m)[a] = Longs(c.position[a][m].size)
      /\ LongSizes(d, m)[a] = Longs(d.position[a][m].size)
      /\ ShortSizes(c, m)[a] = Shorts(c.position[a][m].size)
      /\ ShortSizes(d, m)[a] = Shorts(d.position[a][m].size)
  BY DEF LongSizes, ShortSizes
<1>7. d.oiLong[m] = SumFunction(LongSizes(d, m)) /\ d.oiShort[m] = SumFunction(ShortSizes(d, m))
  <2>1. c.oiLong[m] = SumFunction(LongSizes(c, m)) /\ c.oiShort[m] = SumFunction(ShortSizes(c, m))
    BY DEF InterestMatches
  <2>. QED
    BY <2>1, <1>5, <1>6
<1>8. ASSUME NEW n \in Markets \ {m}
      PROVE  /\ d.oiLong[n]  = SumFunction(LongSizes(d, n))
             /\ d.oiShort[n] = SumFunction(ShortSizes(d, n))
  BY <1>1, <1>8 DEF InterestMatches
<1>. QED
  BY <1>7, <1>8 DEF InterestMatches

\* d is c after delta was added to a's position in m.
Moved(c, d, a, m, delta) ==
  /\ d \in Clearing /\ BooksMatch(d)
  /\ d.position[a][m].size = c.position[a][m].size + delta
  /\ d.position[a][m].snapshot = market[m].fundingIndex
  /\ Total(d) = Total(c)
  /\ d.funding = c.funding + Owed(c, a, m)
  /\ \A b \in Accounts, n \in Markets :
        <<b, n>> # <<a, m>> => d.position[b][n] = c.position[b][n]
  /\ d.oiLong[m] - d.oiShort[m] = c.oiLong[m] - c.oiShort[m] + delta
  /\ \A n \in Markets \ {m} : d.oiLong[n] = c.oiLong[n] /\ d.oiShort[n] = c.oiShort[n]
  /\ \A h \in Holders \ {a, InsuranceFund, Exchange} : d.balance[h] = c.balance[h]

LEMMA ApplyPositionDeltaMoves ==
  ASSUME market \in [Markets -> Market],
         NEW c \in Clearing, BooksMatch(c), NEW a \in Accounts, NEW m \in Markets,
         NEW delta \in Int \ {0}, NEW price \in Nat
  PROVE  LET d == ApplyPositionDelta(c, a, m, delta, price)
             p == c.position[a][m]
         IN  /\ Moved(c, d, a, m, delta)
             /\ a # InsuranceFund =>
                   d.balance[a] = c.balance[a] - Owed(c, a, m)
                                    + MovePosition(p.size, p.entry, delta, price).realized
             /\ d.balance[Exchange] = c.balance[Exchange]
                                        - MovePosition(p.size, p.entry, delta, price).realized
             /\ d.position[a][m].entry = MovePosition(p.size, p.entry, delta, price).entry
             /\ d.dust = c.dust + DustOf(p.size, delta)
<1>. DEFINE p        == c.position[a][m]
            moved    == MovePosition(p.size, p.entry, delta, price)
            funded   == SettleFunding(c, a, m)
            paid     == Transfer(funded, Exchange, a, moved.realized)
            kept     == StorePosition(paid, a, m, moved)
            adjusted == AdjustOI(kept, m, p.size, moved.size)
            booked   == TrackHolder(adjusted, m, a, moved.size)
            off      == DustOf(p.size, delta)
            d        == [booked EXCEPT !.dust = booked.dust + off]
<1>1. p.size \in Int /\ p.entry \in Nat
  BY DEF Clearing, Position
<1>2. /\ moved.size = p.size + delta /\ moved.size \in Int
      /\ moved.entry \in Nat /\ moved.realized \in Int
  <2>1. ASSUME NEW s \in Int, NEW e \in Nat
        PROVE  LET v == MovePosition(s, e, delta, price)
               IN  /\ v.size = s + delta /\ v.size \in Int
                   /\ v.entry \in Nat /\ v.realized \in Int
    BY SMTT(60), MovePositionType
  <2>. QED
    BY <1>1, <2>1
<1>3. ApplyPositionDelta(c, a, m, delta, price) = d
  BY DEF ApplyPositionDelta
<1>21. off \in Nat
  BY <1>1, DustNat
<1>. HIDE DEF moved, off
<1>4. /\ funded \in Clearing /\ SameBooks(c, funded) /\ Total(funded) = Total(c)
      /\ Owed(c, a, m) \in Int /\ funded.funding = c.funding + Owed(c, a, m)
      /\ \A h \in Holders \ {a, InsuranceFund} : funded.balance[h] = c.balance[h]
      /\ a # InsuranceFund => funded.balance[a] = c.balance[a] - Owed(c, a, m)
  BY SettleFundingType
<1>. HIDE DEF funded
<1>5. /\ paid \in Clearing /\ SameBooks(funded, paid)
      /\ Total(paid) = Total(funded) /\ paid.funding = funded.funding
      /\ \A h \in Holders \ {Exchange, a} : paid.balance[h] = funded.balance[h]
      /\ paid.balance[a] = funded.balance[a] + moved.realized
      /\ paid.balance[Exchange] = funded.balance[Exchange] - moved.realized
  <2>1. Exchange \in Holders /\ a \in Holders /\ moved.realized \in Int /\ Exchange # a
    BY <1>2, WiredDistinct
  <2>2. /\ Paid(funded, paid)
        /\ \A h \in Holders \ {Exchange, a} : paid.balance[h] = funded.balance[h]
        /\ paid.balance[a] = funded.balance[a] + moved.realized
        /\ paid.balance[Exchange] = funded.balance[Exchange] - moved.realized
    <3>. DEFINE n == moved.realized
    <3>1. n \in Int
      BY <2>1
    <3>. HIDE DEF n
    <3>2. LET e == Transfer(funded, Exchange, a, n)
          IN  /\ Paid(funded, e)
              /\ \A h \in Holders \ {Exchange, a} : e.balance[h] = funded.balance[h]
              /\ e.balance[a] = funded.balance[a] + n
              /\ e.balance[Exchange] = funded.balance[Exchange] - n
      BY <2>1, <3>1, <1>4, TransferType
    <3>. QED
      BY <3>2 DEF n
  <2>. QED
    BY <2>2 DEF Paid
<1>. HIDE DEF paid
<1>6. /\ kept \in Clearing
      /\ kept.position[a][m].size = moved.size /\ kept.position[a][m].entry = moved.entry
      /\ kept.position[a][m].snapshot = market[m].fundingIndex
      /\ \A b \in Accounts, n \in Markets :
            <<b, n>> # <<a, m>> => kept.position[b][n] = paid.position[b][n]
      /\ kept.balance = paid.balance /\ kept.funding = paid.funding
      /\ kept.holders = paid.holders /\ kept.holderIndex = paid.holderIndex
      /\ kept.oiLong = paid.oiLong /\ kept.oiShort = paid.oiShort /\ kept.dust = paid.dust
  BY <1>2, <1>5, StorePositionType
<1>. HIDE DEF kept
<1>7. /\ adjusted \in Clearing
      /\ adjusted.oiLong[m] - adjusted.oiShort[m]
           = kept.oiLong[m] - kept.oiShort[m] + moved.size - p.size
      /\ adjusted.oiLong[m] = kept.oiLong[m] - Longs(p.size) + Longs(moved.size)
      /\ adjusted.oiShort[m] = kept.oiShort[m] - Shorts(p.size) + Shorts(moved.size)
      /\ adjusted.funding = kept.funding
      /\ \A n \in Markets \ {m} : /\ adjusted.oiLong[n] = kept.oiLong[n]
                                  /\ adjusted.oiShort[n] = kept.oiShort[n]
      /\ adjusted.balance = kept.balance /\ adjusted.position = kept.position
      /\ adjusted.holders = kept.holders /\ adjusted.holderIndex = kept.holderIndex
      /\ adjusted.dust = kept.dust
  <2>. DEFINE before == p.size
              after  == moved.size
  <2>1. before \in Int /\ after \in Int
    BY <1>1, <1>2
  <2>7. kept \in Clearing
    BY <1>6
  <2>. HIDE DEF before, after
  <2>2. LET e == AdjustOI(kept, m, before, after)
        IN  /\ e \in Clearing
            /\ e.oiLong[m] - e.oiShort[m] = kept.oiLong[m] - kept.oiShort[m] + after - before
            /\ e.oiLong[m] = kept.oiLong[m] - Longs(before) + Longs(after)
            /\ e.oiShort[m] = kept.oiShort[m] - Shorts(before) + Shorts(after)
            /\ e.funding = kept.funding
            /\ \A n \in Markets \ {m} : /\ e.oiLong[n] = kept.oiLong[n]
                                        /\ e.oiShort[n] = kept.oiShort[n]
            /\ e.balance = kept.balance /\ e.position = kept.position
            /\ e.holders = kept.holders /\ e.holderIndex = kept.holderIndex
            /\ e.dust = kept.dust
    BY <2>7, <2>1, AdjustOIType
  <2>. DEFINE e == AdjustOI(kept, m, before, after)
  <2>3. adjusted = e
    BY DEF before, after
  <2>4. before = p.size /\ after = moved.size
    BY DEF before, after
  <2>. HIDE DEF adjusted, e
  <2>5. /\ adjusted \in Clearing
        /\ adjusted.oiLong[m] - adjusted.oiShort[m]
             = kept.oiLong[m] - kept.oiShort[m] + moved.size - p.size
        /\ adjusted.oiLong[m] = kept.oiLong[m] - Longs(p.size) + Longs(moved.size)
        /\ adjusted.oiShort[m] = kept.oiShort[m] - Shorts(p.size) + Shorts(moved.size)
    BY <2>2, <2>3, <2>4 DEF e
  <2>6. /\ adjusted.funding = kept.funding
        /\ \A n \in Markets \ {m} : /\ adjusted.oiLong[n] = kept.oiLong[n]
                                    /\ adjusted.oiShort[n] = kept.oiShort[n]
        /\ adjusted.balance = kept.balance /\ adjusted.position = kept.position
        /\ adjusted.holders = kept.holders /\ adjusted.holderIndex = kept.holderIndex
        /\ adjusted.dust = kept.dust
    BY <2>2, <2>3 DEF e
  <2>. QED
    BY <2>5, <2>6
<1>. HIDE DEF adjusted
<1>8. /\ adjusted.holders = c.holders /\ adjusted.holderIndex = c.holderIndex
      /\ adjusted.position[a][m].size = moved.size
      /\ adjusted.position[a][m].snapshot = market[m].fundingIndex
      /\ \A b \in Accounts, n \in Markets :
            <<b, n>> # <<a, m>> => adjusted.position[b][n] = c.position[b][n]
  BY <1>4, <1>5, <1>6, <1>7 DEF SameBooks
<1>9. /\ Open(c, m) \in SUBSET Accounts
      /\ Open(c, m) \ {a} = Open(adjusted, m) \ {a}
      /\ \A n \in Markets \ {m} : Open(adjusted, n) = Open(c, n)
  BY <1>8 DEF Open
<1>10. /\ ListsExactly(adjusted.holders[m], adjusted.holderIndex[m], Open(c, m))
       /\ \A n \in Markets \ {m} :
             ListsExactly(adjusted.holders[n], adjusted.holderIndex[n], Open(adjusted, n))
  BY <1>8, <1>9 DEF HoldersMatch, BooksMatch
<1>11. /\ d \in Clearing /\ HoldersMatch(d)
       /\ d.position = adjusted.position /\ d.balance = adjusted.balance
       /\ d.funding = adjusted.funding /\ d.dust = adjusted.dust + off
       /\ d.oiLong = adjusted.oiLong /\ d.oiShort = adjusted.oiShort
  <2>1. booked = TrackHolder(adjusted, m, a, adjusted.position[a][m].size)
    BY <1>8
  <2>. HIDE DEF booked
  <2>2. /\ booked \in Clearing /\ HoldersMatch(booked)
        /\ booked.position = adjusted.position /\ booked.balance = adjusted.balance
        /\ booked.funding = adjusted.funding /\ booked.dust = adjusted.dust
        /\ booked.oiLong = adjusted.oiLong /\ booked.oiShort = adjusted.oiShort
    BY ZenonT(60), <2>1, <1>7, <1>9, <1>10, TrackHolderType
  <2>3. booked.dust + off \in Nat
    BY <1>21, <2>2 DEF Clearing
  <2>4. /\ d \in Clearing /\ d.dust = booked.dust + off
        /\ d.balance = booked.balance /\ d.position = booked.position
        /\ d.funding = booked.funding
        /\ d.holders = booked.holders /\ d.holderIndex = booked.holderIndex
        /\ d.oiLong = booked.oiLong /\ d.oiShort = booked.oiShort
    BY <2>2, <2>3, WithDust
  <2>. HIDE DEF d
  <2>5. HoldersMatch(d)
    BY <2>2, <2>4 DEF HoldersMatch, Open
  <2>. QED
    BY <2>2, <2>4, <2>5
<1>. HIDE DEF d
<1>12. d.oiLong[m] - d.oiShort[m] = c.oiLong[m] - c.oiShort[m] + delta
  <2>1. c.oiLong[m] \in Int /\ c.oiShort[m] \in Int
    BY DEF Clearing
  <2>. QED
    BY <2>1, <1>1, <1>2, <1>4, <1>5, <1>6, <1>7, <1>11 DEF SameBooks
<1>13. \A h \in Holders \ {a, InsuranceFund, Exchange} : d.balance[h] = c.balance[h]
  BY <1>4, <1>5, <1>6, <1>7, <1>11
<1>14. \A n \in Markets \ {m} : d.oiLong[n] = c.oiLong[n] /\ d.oiShort[n] = c.oiShort[n]
  BY <1>4, <1>5, <1>6, <1>7, <1>11 DEF SameBooks
<1>15. /\ d.position[a][m].size = p.size + delta
       /\ d.position[a][m].snapshot = market[m].fundingIndex
  BY <1>2, <1>8, <1>11
<1>16. \A b \in Accounts, n \in Markets :
         <<b, n>> # <<a, m>> => d.position[b][n] = c.position[b][n]
  BY <1>8, <1>11
<1>17. InterestMatches(d)
  <2>1. /\ d.oiLong[m] = c.oiLong[m] - Longs(p.size) + Longs(d.position[a][m].size)
        /\ d.oiShort[m] = c.oiShort[m] - Shorts(p.size) + Shorts(d.position[a][m].size)
    BY <1>4, <1>5, <1>6, <1>7, <1>8, <1>11 DEF SameBooks
  <2>. QED
    BY <2>1, <1>11, <1>14, <1>16, InterestKept DEF BooksMatch
<1>18. Total(d) = Total(c) /\ d.funding = c.funding + Owed(c, a, m)
  BY <1>4, <1>5, <1>6, <1>7, <1>11 DEF Total
<1>19. Moved(c, d, a, m, delta)
  BY <1>11, <1>12, <1>13, <1>14, <1>15, <1>16, <1>17, <1>18 DEF Moved, BooksMatch
<1>20. a # InsuranceFund => d.balance[a] = c.balance[a] - Owed(c, a, m) + moved.realized
  BY <1>4, <1>5, <1>6, <1>7, <1>11
<1>22. /\ d.balance[Exchange] = c.balance[Exchange] - moved.realized
       /\ d.position[a][m].entry = moved.entry /\ d.dust = c.dust + off
  <2>1. funded.balance[Exchange] = c.balance[Exchange]
    BY <1>4, WiredDistinct
  <2>. QED
    BY <2>1, <1>4, <1>5, <1>6, <1>7, <1>11 DEF SameBooks
<1>. QED
  BY <1>3, <1>19, <1>20, <1>22 DEF moved, off

\* d is c after a fill between two accounts: the two sides of every market
\* stay as far apart as they were.
Filled(c, d, a, other, m, delta) ==
  /\ d \in Clearing /\ BooksMatch(d) /\ Total(d) = Total(c)
  /\ a # other => /\ d.position[a][m].size = c.position[a][m].size + delta
                  /\ d.position[other][m].size = c.position[other][m].size - delta
  /\ \A b \in Accounts, n \in Markets :
        <<b, n>> \notin {<<a, m>>, <<other, m>>} => d.position[b][n] = c.position[b][n]
  /\ \A n \in Markets : d.oiLong[n] - d.oiShort[n] = c.oiLong[n] - c.oiShort[n]
  /\ \A h \in Holders \ {a, other, InsuranceFund, Exchange} : d.balance[h] = c.balance[h]

LEMMA ExchangedFills ==
  ASSUME market \in [Markets -> Market],
         NEW c \in Clearing, BooksMatch(c), NEW a \in Accounts, NEW other \in Accounts,
         NEW m \in Markets, NEW delta \in Int \ {0}, NEW price \in Nat
  PROVE  Filled(c, Exchanged(c, a, other, m, delta, price), a, other, m, delta)
<1>. DEFINE half == ApplyPositionDelta(c, a, m, delta, price)
            d    == ApplyPositionDelta(half, other, m, -delta, price)
<1>1. Moved(c, half, a, m, delta)
  BY ApplyPositionDeltaMoves
<1>2. Exchanged(c, a, other, m, delta, price) = d
  BY DEF Exchanged
<1>. HIDE DEF half
<1>3. half \in Clearing /\ BooksMatch(half)
  BY <1>1 DEF Moved
<1>4. Moved(half, d, other, m, -delta)
  <2>1. -delta \in Int \ {0}
    OBVIOUS
  <2>. QED
    BY <2>1, <1>3, ApplyPositionDeltaMoves
<1>. HIDE DEF d
<1>5. ASSUME NEW n \in Markets
      PROVE  d.oiLong[n] - d.oiShort[n] = c.oiLong[n] - c.oiShort[n]
  <2>1. /\ c.oiLong[n] \in Int /\ c.oiShort[n] \in Int
        /\ half.oiLong[n] \in Int /\ half.oiShort[n] \in Int
    BY <1>3 DEF Clearing
  <2>2. CASE n = m
    BY <2>1, <2>2, <1>1, <1>4 DEF Moved
  <2>3. CASE n # m
    BY <2>3, <1>1, <1>4 DEF Moved
  <2>. QED
    BY <2>2, <2>3
<1>6. a # other => /\ d.position[a][m].size = c.position[a][m].size + delta
                   /\ d.position[other][m].size = c.position[other][m].size - delta
  <2>1. c.position[a][m].size \in Int /\ c.position[other][m].size \in Int
    BY DEF Clearing, Position
  <2>. QED
    BY <2>1, <1>1, <1>4 DEF Moved
<1>7. \A b \in Accounts, n \in Markets :
        <<b, n>> \notin {<<a, m>>, <<other, m>>} => d.position[b][n] = c.position[b][n]
  BY <1>1, <1>4 DEF Moved
<1>8. \A h \in Holders \ {a, other, InsuranceFund, Exchange} : d.balance[h] = c.balance[h]
  BY <1>1, <1>4 DEF Moved
<1>9. Total(d) = Total(c)
  BY <1>1, <1>4 DEF Moved
<1>. QED
  BY <1>2, <1>4, <1>5, <1>6, <1>7, <1>8, <1>9 DEF Filled, Moved

\* Same books: no position, open interest or holder moves.
LEMMA SameBooksKeep ==
  ASSUME NEW c \in Clearing, NEW d \in Clearing, SameBooks(c, d), BooksMatch(c)
  PROVE  BooksMatch(d)
<1>1. \A m \in Markets : Open(d, m) = Open(c, m)
  BY DEF SameBooks, Open
<1>2. HoldersMatch(d)
  BY <1>1 DEF HoldersMatch, SameBooks, BooksMatch
<1>3. \A m \in Markets : LongSizes(d, m) = LongSizes(c, m) /\ ShortSizes(d, m) = ShortSizes(c, m)
  BY DEF SameBooks, LongSizes, ShortSizes
<1>4. InterestMatches(d)
  BY <1>3 DEF InterestMatches, SameBooks, BooksMatch
<1>. QED
  BY <1>2, <1>4 DEF BooksMatch

LEMMA PayFeesType ==
  ASSUME market \in [Markets -> Market],
         NEW c \in Clearing, NEW taker \in Accounts, NEW maker \in Accounts,
         NEW m \in Markets, NEW n \in Int
  PROVE  Paid(c, PayFees(c, taker, maker, m, n))
<1>. DEFINE takerFee == TakerFee(n, market[m].params.takerBps)
            makerFee == IF maker = Backstop THEN 0 ELSE MakerFee(n, market[m].params.makerBps)
            net      == IF takerFee + makerFee > 0 THEN takerFee + makerFee ELSE 0
            toFund   == (net * FeeToInsuranceBps) \div BPS
            toHouse  == net - toFund
            first    == Transfer(c, taker, Exchange, takerFee)
            charged  == Transfer(first, maker, Exchange, makerFee)
            third    == Transfer(charged, Exchange, InsuranceFund, toFund)
            d        == Transfer(third, Exchange, Treasury, toHouse)
<1>1. market[m].params.takerBps \in Int /\ market[m].params.makerBps \in Int
  BY ClearingAssumption DEF Market, Params
<1>2. takerFee \in Int /\ makerFee \in Int
  <2>1. takerFee \in Int /\ MakerFee(n, market[m].params.makerBps) \in Int
    BY <1>1, FeesInt
  <2>. QED
    BY <2>1
<1>. HIDE DEF takerFee, makerFee
<1>3. net \in Int
  BY <1>2
<1>. HIDE DEF net
<1>4. toFund \in Int
  <2>1. FeeToInsuranceBps \in Int
    BY ClearingAssumption
  <2>2. net * FeeToInsuranceBps \in Int
    BY <1>3, <2>1
  <2>. QED
    BY <2>2, IntDiv, ScaleAssumption
<1>. HIDE DEF toFund
<1>5. toHouse \in Int
  BY <1>3, <1>4
<1>. HIDE DEF toHouse
<1>6. /\ taker \in Holders /\ maker \in Holders /\ Exchange \in Holders
      /\ InsuranceFund \in Holders /\ Treasury \in Holders
  BY WiredDistinct
<1>7. first \in Clearing /\ Paid(c, first)
  BY <1>2, <1>6, TransferPaid
<1>. HIDE DEF first
<1>8. charged \in Clearing /\ Paid(first, charged)
  BY <1>2, <1>6, <1>7, TransferPaid
<1>. HIDE DEF charged
<1>9. third \in Clearing /\ Paid(charged, third)
  BY <1>4, <1>6, <1>8, TransferPaid
<1>. HIDE DEF third
<1>10. d \in Clearing /\ Paid(third, d)
  BY <1>5, <1>6, <1>9, TransferPaid
<1>11. PayFees(c, taker, maker, m, n) = d
  BY DEF PayFees, d, third, charged, first, toHouse, toFund, net, takerFee, makerFee
<1>. HIDE DEF d
<1>. QED
  BY <1>7, <1>8, <1>9, <1>10, <1>11, PaidTransitive

(***************************************************************************)
(* The invariant of the proofs: every state is well typed; the two sides   *)
(* of open interest differ by what was settled and are the positions they  *)
(* count; the holder lists match; the ledger sums to what the vault holds. *)
(***************************************************************************)
BooksHold == OITwoSided /\ HolderListExact /\ OpenInterestExact /\ LedgerConserved

IInv == TypeOK /\ BooksHold

\* d has the open interest differences of c, and as much on its ledger.
SameTotals(c, d) ==
  /\ \A n \in Markets : d.oiLong[n] - d.oiShort[n] = c.oiLong[n] - c.oiShort[n]
  /\ Total(d) = Total(c)

LEMMA BooksMatchNow == HolderListExact /\ OpenInterestExact <=> BooksMatch(clearing)
  BY DEF HolderListExact, OpenInterestExact, BooksMatch, InterestMatches, LongSizes, ShortSizes

LEMMA BooksMatchNext == HolderListExact' /\ OpenInterestExact' <=> BooksMatch(clearing')
  BY DEF HolderListExact, OpenInterestExact, BooksMatch, InterestMatches, LongSizes, ShortSizes,
         BooksMatch, ListsExactly, Open

\* The whole of the invariant that a change of `clearing` alone can disturb.
LEMMA BooksKept ==
  ASSUME BooksHold, UNCHANGED <<settled, vault>>,
         SameTotals(clearing, clearing'), BooksMatch(clearing')
  PROVE  BooksHold'
<1>1. HolderListExact' /\ OpenInterestExact'
  BY BooksMatchNext
<1>2. OITwoSided'
  BY DEF OITwoSided, SameTotals, BooksHold
<1>3. LedgerConserved'
  BY DEF LedgerConserved, SameTotals, BooksHold, Total
<1>. QED
  BY <1>1, <1>2, <1>3 DEF BooksHold

\* The numbers a change of `clearing` leaves in the same relation.
LEMMA PaidTotals ==
  ASSUME NEW c, NEW d, Paid(c, d)
  PROVE  SameTotals(c, d)
  BY DEF Paid, SameBooks, SameTotals

LEMMA PaidMatch ==
  ASSUME NEW c \in Clearing, NEW d, Paid(c, d), BooksMatch(c)
  PROVE  BooksMatch(d)
  BY SameBooksKeep DEF Paid

LEMMA FilledTotals ==
  ASSUME NEW c, NEW d, NEW a, NEW other, NEW m, NEW delta, Filled(c, d, a, other, m, delta)
  PROVE  d \in Clearing /\ BooksMatch(d) /\ SameTotals(c, d)
  BY DEF Filled, SameTotals

LEMMA SameTotalsTransitive ==
  ASSUME NEW c, NEW d, NEW e, SameTotals(c, d), SameTotals(d, e)
  PROVE  SameTotals(c, e)
  BY DEF SameTotals

\* A market's numbers, and the prices made of them.
LEMMA MarketTypes ==
  ASSUME TypeOK, NEW m \in Markets
  PROVE  /\ market[m].params \in Params /\ ValidParams(market[m].params)
         /\ index[m] \in Nat /\ market[m].lastFill \in Nat
         /\ market[m].fundingIndex \in Int /\ market[m].settlementPrice \in Nat
         /\ Mark(m) \in Nat
<1>1. market[m] \in Market /\ index[m] \in Nat
  BY DEF TypeOK
<1>2. market[m].params \in Params /\ ValidParams(market[m].params)
  BY <1>1, ClearingAssumption DEF Market
<1>3. market[m].params.basisBps \in 0 .. BPS
  BY <1>2, ScaleAssumption DEF Params, ValidParams
<1>. QED
  BY <1>1, <1>2, <1>3, MarkPriceNat DEF Market, Mark

(***************************************************************************)
(* One lemma per handler: it preserves the invariant.                      *)
(***************************************************************************)
LEMMA BooksUntouched ==
  ASSUME IInv, UNCHANGED <<clearing, settled, vault>>
  PROVE  BooksHold'
<1>1. BooksMatch(clearing')
  BY BooksMatchNow DEF IInv, BooksHold
<1>2. SameTotals(clearing, clearing')
  BY DEF SameTotals
<1>. QED
  BY <1>1, <1>2, BooksKept DEF IInv

LEMMA SpendType ==
  ASSUME TypeOK, NEW kind \in Kinds, Spend(kind)
  PROVE  budget' \in [Kinds -> Nat]
<1>1. budget[kind] \in Nat /\ budget[kind] > 0 /\ budget \in [Kinds -> Nat]
  BY DEF TypeOK, Spend
<1>2. budget[kind] - 1 \in Nat
  BY <1>1
<1>. QED
  BY <1>1, <1>2 DEF Spend

LEMMA InitIInv == Init => IInv
<1>. SUFFICES ASSUME Init PROVE IInv
  OBVIOUS
<1>. USE DEF Init
<1>1. clearing \in Clearing
  <2>1. \A h \in Holders : (IF h \in Accounts THEN InitialDeposits[h] ELSE 0) \in Int
    BY ClearingAssumption
  <2>2. Flat \in Position
    BY DEF Flat, Position
  <2>3. <<>> \in Seq(Accounts)
    BY EmptySeq
  <2>. QED
    BY <2>1, <2>2, <2>3 DEF Clearing
<1>2. market \in [Markets -> Market]
  BY ClearingAssumption DEF Market
<1>3. vault \in [total: Int, held: Int] /\ index \in [Markets -> Nat]
  <2>1. vault \in [total: Int, held: Int]
    BY ClearingAssumption
  <2>2. index \in [Markets -> Prices] /\ Prices \subseteq Nat
    BY ClearingAssumption
  <2>. QED
    BY <2>1, <2>2
<1>4. settled \in [Markets -> [closes: Nat, size: Int, value: Int]]
  BY DEF NothingSettled
<1>5. TypeOK
  BY <1>1, <1>2, <1>3, <1>4, ClearingAssumption DEF TypeOK
<1>6. OITwoSided
  BY DEF OITwoSided, NothingSettled
<1>7. HolderListExact
  <2>1. Len(<<>>) = 0
    BY EmptySeq
  <2>2. \A m \in Markets : Open(clearing, m) = {}
    BY DEF Open, Flat
  <2>3. \A m \in Markets :
           clearing.holders[m] = <<>> /\ \A a \in Accounts : clearing.holderIndex[m][a] = 0
    OBVIOUS
  <2>. HIDE DEF Init
  <2>. QED
    BY <2>1, <2>2, <2>3 DEF HolderListExact, HoldersMatch, ListsExactly
<1>8. OpenInterestExact
  <2>1. ASSUME NEW m \in Markets
        PROVE  SumFunction(LongSizes(clearing, m)) = 0 /\ SumFunction(ShortSizes(clearing, m)) = 0
    <3>1. /\ LongSizes(clearing, m) \in [Accounts -> Int]
          /\ ShortSizes(clearing, m) \in [Accounts -> Int]
          /\ \A a \in Accounts : LongSizes(clearing, m)[a] = 0 /\ ShortSizes(clearing, m)[a] = 0
      BY DEF LongSizes, ShortSizes, Longs, Shorts, Flat
    <3>. QED
      BY <3>1, FiniteAccounts, SumOfZeros
  <2>2. \A m \in Markets : clearing.oiLong[m] = 0 /\ clearing.oiShort[m] = 0
    OBVIOUS
  <2>. HIDE DEF Init
  <2>. QED
    BY <2>1, <2>2 DEF OpenInterestExact, LongSizes, ShortSizes
<1>9. LedgerConserved
  <2>. DEFINE f == [h \in Holders |-> IF h \in Accounts THEN InitialDeposits[h] ELSE 0]
  <2>1. clearing.balance = f
    OBVIOUS
  <2>2. /\ f \in [Holders -> Int] /\ InitialDeposits \in [Accounts -> Int]
        /\ \A h \in Accounts : f[h] = InitialDeposits[h]
        /\ \A h \in Holders : f[h] \in Int
        /\ \A h \in Holders \ Accounts : f[h] = 0
    BY WiredDistinct, ClearingAssumption
  <2>. HIDE DEF f, Init
  <2>3. SumFunctionOnSet(f, Holders) = SumFunctionOnSet(f, Accounts)
    BY <2>2, FiniteAccounts, WiredDistinct, SumWithin
  <2>4. SumFunctionOnSet(f, Accounts) = SumFunctionOnSet(InitialDeposits, Accounts)
    BY <2>2, FiniteAccounts, SumSame
  <2>5. /\ SumFunction(f) = SumFunctionOnSet(f, Holders)
        /\ SumFunction(InitialDeposits) = SumFunctionOnSet(InitialDeposits, Accounts)
    BY <2>2, SumFunctionIs
  <2>6. SumFunction(clearing.balance) = SumFunction(InitialDeposits)
    BY <2>1, <2>3, <2>4, <2>5
  <2>. QED
    BY <2>6 DEF Init, LedgerConserved
<1>. QED
  BY <1>5, <1>6, <1>7, <1>8, <1>9 DEF IInv, BooksHold

LEMMA InitializeAccountKeeps ==
  ASSUME IInv, NEW a \in Accounts, InitializeAccount(a)
  PROVE  IInv'
<1>1. TypeOK'
  BY DEF IInv, TypeOK, InitializeAccount
<1>. QED
  BY <1>1, BooksUntouched DEF IInv, InitializeAccount

\* What comes in or goes out of the vault is credited or debited in full.
LEMMA LedgerMoves ==
  ASSUME IInv, UNCHANGED settled, clearing' \in Clearing, SameBooks(clearing, clearing'),
         NEW n \in Int, Total(clearing') = Total(clearing) + n,
         vault' = [total |-> vault.total + n, held |-> vault.held + n]
  PROVE  BooksHold'
<1>1. clearing \in Clearing /\ BooksMatch(clearing) /\ OITwoSided /\ LedgerConserved
  BY BooksMatchNow DEF IInv, TypeOK, BooksHold
<1>2. HolderListExact' /\ OpenInterestExact'
  BY <1>1, SameBooksKeep, BooksMatchNext
<1>3. OITwoSided'
  BY <1>1 DEF OITwoSided, SameBooks
<1>4. LedgerConserved'
  BY <1>1 DEF LedgerConserved, Total
<1>. QED
  BY <1>2, <1>3, <1>4 DEF BooksHold

LEMMA DepositKeeps ==
  ASSUME IInv, NEW a \in Accounts, NEW amount \in Amounts, Deposit(a, amount)
  PROVE  IInv'
<1>1. amount \in Nat /\ a \in Holders
  BY ClearingAssumption, WiredDistinct
<1>2. /\ clearing' \in Clearing /\ SameBooks(clearing, clearing')
      /\ Total(clearing') = Total(clearing) + (amount)
  BY <1>1, CreditType DEF IInv, TypeOK, Deposit
<1>3. BooksHold'
  BY <1>1, <1>2, LedgerMoves DEF Deposit, VaultIn
<1>4. budget' \in [Kinds -> Nat]
  BY SpendType DEF IInv, Deposit, Kinds
<1>5. vault' \in [total: Int, held: Int]
  BY <1>1 DEF IInv, TypeOK, Deposit, VaultIn
<1>6. TypeOK'
  BY <1>2, <1>4, <1>5 DEF IInv, TypeOK, Deposit
<1>. QED
  BY <1>3, <1>6 DEF IInv

LEMMA WithdrawKeeps ==
  ASSUME IInv, NEW a \in Accounts, NEW amount \in Amounts, Withdraw(a, amount)
  PROVE  IInv'
<1>1. amount \in Nat /\ -amount \in Int /\ a \in Holders
  BY ClearingAssumption, WiredDistinct
<1>2. /\ clearing' \in Clearing /\ SameBooks(clearing, clearing')
      /\ Total(clearing') = Total(clearing) + (-amount)
  BY <1>1, CreditType DEF IInv, TypeOK, Withdraw
<1>3. BooksHold'
  <2>1. vault' = [total |-> vault.total + (-amount), held |-> vault.held + (-amount)]
    <3>1. vault.total \in Int /\ vault.held \in Int
      BY DEF IInv, TypeOK
    <3>2. vault.total - amount = vault.total + (-amount) /\ vault.held - amount = vault.held + (-amount)
      BY <1>1, <3>1
    <3>. QED
      BY <3>2 DEF Withdraw, VaultOut
  <2>. DEFINE n == -amount
  <2>2. /\ n \in Int /\ Total(clearing') = Total(clearing) + n
        /\ vault' = [total |-> vault.total + n, held |-> vault.held + n]
    BY <1>1, <1>2, <2>1
  <2>. HIDE DEF n
  <2>. QED
    BY <1>2, <2>2, LedgerMoves DEF Withdraw
<1>4. budget' \in [Kinds -> Nat]
  BY SpendType DEF IInv, Withdraw, Kinds
<1>5. vault' \in [total: Int, held: Int]
  BY <1>1 DEF IInv, TypeOK, Withdraw, VaultOut
<1>6. TypeOK'
  BY <1>2, <1>4, <1>5 DEF IInv, TypeOK, Withdraw
<1>. QED
  BY <1>3, <1>6 DEF IInv

LEMMA ExecuteKeeps ==
  ASSUME IInv, NEW taker \in Traders, NEW m \in Markets, NEW side \in {1, -1},
         NEW qty \in Quantities, NEW limit \in Prices \cup {0},
         Execute(taker, m, side, qty, limit)
  PROVE  IInv'
<1>1. TypeOK
  BY DEF IInv
<1>2. qty \in Nat /\ limit \in Nat
  BY ClearingAssumption
<1>3. BackstopOffer(m) \in Nat
  BY <1>1, MarketTypes DEF BackstopOffer, Params
<1>4. call' \in Sweep
  BY <1>2, <1>3 DEF Execute, Sweep
<1>5. budget' \in [Kinds -> Nat]
  BY <1>1, SpendType DEF Execute, Kinds
<1>6. TypeOK'
  BY <1>1, <1>4, <1>5 DEF TypeOK, Execute
<1>. QED
  BY <1>6, BooksUntouched DEF IInv, Execute

\* The clearing half of both kinds of fill.
LEMMA FillKeeps ==
  ASSUME IInv, call \in Sweep, NEW maker \in Accounts, NEW qty \in Nat \ {0}, NEW price \in Nat,
         Fill(maker, qty, price), UNCHANGED <<settled, vault>>
  PROVE  /\ clearing' \in Clearing /\ BooksHold'
         /\ market' \in [Markets -> Market]
<1>. DEFINE m     == call.market
            taker == call.taker
            delta == call.side * qty
            both  == Exchanged(clearing, taker, maker, m, delta, price)
            paid  == PayFees(both, taker, maker, m, Notional(qty, price))
<1>1. /\ clearing \in Clearing /\ BooksMatch(clearing) /\ BooksHold
      /\ market \in [Markets -> Market]
  BY BooksMatchNow DEF IInv, TypeOK, BooksHold
<1>2. m \in Markets /\ taker \in Accounts /\ delta \in Int \ {0}
  BY WiredDistinct DEF Sweep
<1>3. clearing' = paid /\ market' = [market EXCEPT ![m].lastFill = price]
  BY DEF Fill
<1>. HIDE DEF m, taker, delta
<1>4. Filled(clearing, both, taker, maker, m, delta)
  BY <1>1, <1>2, ExchangedFills
<1>. HIDE DEF both
<1>5. both \in Clearing /\ BooksMatch(both) /\ SameTotals(clearing, both)
  BY <1>4, FilledTotals
<1>6. Paid(both, paid)
  <2>1. Notional(qty, price) \in Int
    BY NotionalInt
  <2>. QED
    BY <2>1, <1>1, <1>2, <1>5, PayFeesType
<1>. HIDE DEF paid
<1>7. BooksMatch(paid) /\ SameTotals(clearing, paid)
  BY <1>5, <1>6, PaidMatch, PaidTotals, SameTotalsTransitive
<1>8. BooksHold'
  BY <1>1, <1>3, <1>6, <1>7, BooksKept
<1>9. market' \in [Markets -> Market]
  BY <1>1, <1>2, <1>3 DEF Market
<1>. QED
  BY <1>3, <1>6, <1>8, <1>9 DEF Paid

LEMMA FillFromBookKeeps ==
  ASSUME IInv, NEW maker \in Traders, NEW qty \in Quantities, NEW price \in Prices,
         FillFromBook(maker, qty, price)
  PROVE  IInv'
<1>1. TypeOK /\ maker \in Accounts /\ qty \in Nat \ {0} /\ price \in Nat
  BY ClearingAssumption, WiredDistinct DEF IInv
<1>2. call \in Sweep
  BY <1>1 DEF TypeOK, FillFromBook, Idle, Adl
<1>3. /\ clearing' \in Clearing /\ BooksHold'
      /\ market' \in [Markets -> Market]
  BY <1>1, <1>2, FillKeeps DEF FillFromBook
<1>4. call.left - qty \in Nat
  BY <1>1, <1>2 DEF FillFromBook, Sweep
<1>5. call' \in Sweep
  BY <1>2, <1>4 DEF FillFromBook, Sweep
<1>6. budget' \in [Kinds -> Nat]
  BY <1>1, SpendType DEF FillFromBook, Kinds
<1>7. TypeOK'
  BY <1>1, <1>3, <1>5, <1>6 DEF TypeOK, FillFromBook
<1>. QED
  BY <1>3, <1>7 DEF IInv

\* What the backstop asks or bids, which may be no price at all.
LEMMA BackstopQuoteInt ==
  ASSUME TypeOK, call \in Sweep
  PROVE  BackstopQuote(call.market, call.side) \in Int
<1>1. call.market \in Markets
  BY DEF Sweep
<1>2. index[call.market] \in Nat /\ market[call.market].params.spreadBps \in Nat
  BY <1>1, MarketTypes DEF Params
<1>3. \A x \in Nat, b \in Nat : Above(x, b) \in Int /\ Below(x, b) \in Int
  <2>1. ASSUME NEW x \in Nat, NEW b \in Nat
        PROVE  x * (BPS + b) \in Int /\ x * (BPS - b) \in Int
    BY ScaleAssumption
  <2>. QED
    BY <2>1, IntDiv, ScaleAssumption DEF Above, Below
<1>. QED
  BY <1>2, <1>3 DEF BackstopQuote

LEMMA FillFromBackstopKeeps ==
  ASSUME IInv, FillFromBackstop
  PROVE  IInv'
<1>. DEFINE price == BackstopQuote(call.market, call.side)
            qty   == IF call.left < call.backstopLeft THEN call.left ELSE call.backstopLeft
<1>1. TypeOK /\ Backstop \in Accounts
  BY WiredDistinct DEF IInv
<1>2. call \in Sweep
  BY <1>1 DEF TypeOK, FillFromBackstop, Idle, Adl
<1>3. /\ qty \in Nat \ {0} /\ price > 0
      /\ call.left - qty \in Nat /\ call.backstopLeft - qty \in Nat
  BY <1>2 DEF FillFromBackstop, Sweep
<1>4. price \in Nat
  <2>1. price \in Int
    BY <1>1, <1>2, BackstopQuoteInt
  <2>. HIDE DEF price
  <2>. QED
    BY <2>1, <1>3
<1>5. Fill(Backstop, qty, price) /\ UNCHANGED <<settled, vault>>
  BY DEF FillFromBackstop
<1>6. call' = [call EXCEPT !.left = call.left - qty, !.backstopLeft = call.backstopLeft - qty]
  BY DEF FillFromBackstop
<1>. HIDE DEF price, qty
<1>7. /\ clearing' \in Clearing /\ BooksHold'
      /\ market' \in [Markets -> Market]
  BY <1>1, <1>2, <1>3, <1>4, <1>5, FillKeeps
<1>8. call' \in Sweep
  BY <1>2, <1>3, <1>6 DEF Sweep
<1>9. budget' \in [Kinds -> Nat]
  BY <1>1, SpendType DEF FillFromBackstop, Kinds
<1>10. TypeOK'
  BY <1>1, <1>7, <1>8, <1>9 DEF TypeOK, FillFromBackstop
<1>. QED
  BY <1>7, <1>10 DEF IInv

LEMMA EndSweepKeeps ==
  ASSUME IInv, EndSweep
  PROVE  IInv'
<1>1. TypeOK'
  BY DEF IInv, TypeOK, EndSweep
<1>. QED
  BY <1>1, BooksUntouched DEF IInv, EndSweep

\* The backstop takes the other side of every forced close.
LEMMA CloseAgainstBackstopType ==
  ASSUME market \in [Markets -> Market],
         NEW c \in Clearing, BooksMatch(c), NEW a \in Accounts, NEW m \in Markets,
         NEW qty \in Int \ {0}, NEW mark \in Nat
  PROVE  LET d == CloseAgainstBackstop(c, a, m, qty, mark)
             delta == IF c.position[a][m].size > 0 THEN -qty ELSE qty
         IN  Filled(c, d, a, Backstop, m, delta)
<1>. DEFINE delta == IF c.position[a][m].size > 0 THEN -qty ELSE qty
<1>1. delta \in Int \ {0}
  OBVIOUS
<1>2. CloseAgainstBackstop(c, a, m, qty, mark) = Exchanged(c, a, Backstop, m, delta, mark)
  BY DEF CloseAgainstBackstop
<1>. HIDE DEF delta
<1>3. Filled(c, Exchanged(c, a, Backstop, m, delta, mark), a, Backstop, m, delta)
  BY <1>1, ExchangedFills, WiredDistinct
<1>. QED
  BY <1>2, <1>3 DEF delta

LEMMA CloseOutType ==
  ASSUME market \in [Markets -> Market],
         NEW c \in Clearing, BooksMatch(c), NEW a \in Accounts, NEW m \in Markets,
         NEW qty \in Int \ {0}, NEW mark \in Nat
  PROVE  LET out == CloseOut(c, a, m, qty, mark)
         IN  /\ out.after \in Clearing /\ BooksMatch(out.after) /\ SameTotals(c, out.after)
             /\ out.closed \in Int
<1>. DEFINE part  == CloseAgainstBackstop(c, a, m, qty, mark)
            rest  == Abs(part.position[a][m].size)
            whole == CloseAgainstBackstop(part, a, m, rest, mark)
            out   == CloseOut(c, a, m, qty, mark)
<1>1. part \in Clearing /\ BooksMatch(part) /\ SameTotals(c, part)
  BY CloseAgainstBackstopType, FilledTotals
<1>2. out = IF part.balance[a] < 0 /\ rest # 0
            THEN [after |-> whole, closed |-> qty + rest]
            ELSE [after |-> part, closed |-> qty]
  BY DEF CloseOut
<1>. HIDE DEF part, out
<1>3. rest \in Int
  BY <1>1, SizeInt, AbsNat
<1>. HIDE DEF rest
<1>4. CASE part.balance[a] < 0 /\ rest # 0
  <2>1. whole \in Clearing /\ BooksMatch(whole) /\ SameTotals(part, whole)
    BY <1>1, <1>3, <1>4, CloseAgainstBackstopType, FilledTotals
  <2>. HIDE DEF whole
  <2>2. out.after = whole /\ out.closed = qty + rest
    BY <1>2, <1>4
  <2>3. SameTotals(c, whole)
    BY <1>1, <2>1, SameTotalsTransitive
  <2>. QED
    BY <1>3, <2>1, <2>2, <2>3 DEF out
<1>5. CASE ~(part.balance[a] < 0 /\ rest # 0)
  <2>1. out.after = part /\ out.closed = qty
    BY <1>2, <1>5
  <2>. QED
    BY <1>1, <2>1 DEF out
<1>. QED
  BY <1>4, <1>5

LEMMA LiquidationQtyType ==
  ASSUME NEW p \in Params, ValidParams(p), NEW have \in Nat \ {0}, NEW mark \in Nat
  PROVE  LiquidationQty(have, p, mark) \in Int \ {0}
<1>. DEFINE part    == (have * p.partialBps) \div BPS
            stepped == part - (part % p.step)
<1>1. p.partialBps \in Nat /\ p.step \in Nat \ {0}
  BY DEF Params, ValidParams
<1>2. part \in Int
  <2>1. have * p.partialBps \in Int
    BY <1>1
  <2>. QED
    BY <2>1, IntDiv, ScaleAssumption
<1>. HIDE DEF part
<1>3. stepped \in Int
  BY <1>1, <1>2, IntDiv
<1>4. LiquidationQty(have, p, mark)
        = IF stepped = 0 \/ Notional(have - stepped, mark) < p.minNotional THEN have ELSE stepped
  BY DEF LiquidationQty, part
<1>. HIDE DEF stepped
<1>. QED
  BY <1>3, <1>4

LEMMA LiquidateKeeps ==
  ASSUME IInv, NEW liquidator \in Traders \cup {Keeper}, NEW a \in Accounts, NEW m \in Markets,
         Liquidate(liquidator, a, m)
  PROVE  IInv'
<1>. DEFINE mark    == Mark(m)
            p       == market[m].params
            size    == clearing.position[a][m].size
            qty     == LiquidationQty(Abs(size), p, mark)
            out     == CloseOut(clearing, a, m, qty, mark)
            fee     == MarginOf(Notional(out.closed, mark), p.liquidationFeeBps)
            charged == Transfer(out.after, a, liquidator, fee)
            debt    == Shorts(charged.balance[a])
            fund    == Longs(charged.balance[InsuranceFund])
            used    == IF fund < debt THEN fund ELSE debt
            covered == Transfer(charged, InsuranceFund, a, used)
<1>1. /\ TypeOK /\ BooksHold /\ clearing \in Clearing /\ BooksMatch(clearing)
      /\ market \in [Markets -> Market]
  BY BooksMatchNow DEF IInv, TypeOK, BooksHold
<1>2. p \in Params /\ ValidParams(p) /\ mark \in Nat
  BY <1>1, MarketTypes
<1>3. size \in Int /\ size # 0
  BY <1>1, SizeInt DEF Liquidate
<1>4. /\ clearing' = covered
      /\ market' = [market EXCEPT ![m].lastFill = mark]
      /\ call' = [op |-> "adl", bankrupt |-> a, market |-> m,
                  targetShorts |-> size > 0, mark |-> mark, needed |-> debt - used]
  BY DEF Liquidate
<1>5. qty \in Int \ {0}
  <2>1. Abs(size) \in Nat \ {0}
    BY <1>3, AbsNat
  <2>. QED
    BY <2>1, <1>2, LiquidationQtyType
<1>. HIDE DEF qty, mark, p
<1>6. /\ out.after \in Clearing /\ BooksMatch(out.after) /\ SameTotals(clearing, out.after)
      /\ out.closed \in Int
  BY <1>1, <1>2, <1>5, CloseOutType
<1>. HIDE DEF out
<1>7. fee \in Int
  <2>. DEFINE closed == out.closed
  <2>1. Notional(closed, mark) \in Int
    <3>1. mark \in Int /\ closed \in Int
      BY <1>2, <1>6
    <3>. HIDE DEF closed
    <3>. QED
      BY <3>1, NotionalInt
  <2>2. p.liquidationFeeBps \in Int
    BY <1>2 DEF Params
  <2>. QED
    BY <2>1, <2>2, FeesInt
<1>. HIDE DEF fee
<1>8. a \in Holders /\ liquidator \in Holders /\ InsuranceFund \in Holders
  BY WiredDistinct
<1>9. charged \in Clearing /\ Paid(out.after, charged)
  <2>. DEFINE after == out.after
  <2>1. after \in Clearing /\ fee \in Int
    BY <1>6, <1>7
  <2>. HIDE DEF after
  <2>2. Paid(after, Transfer(after, a, liquidator, fee))
    BY <2>1, <1>8, TransferType
  <2>. QED
    BY <2>2 DEF Paid, after
<1>. HIDE DEF charged
<1>10. debt \in Nat /\ fund \in Nat
  <2>1. charged.balance[a] \in Int /\ charged.balance[InsuranceFund] \in Int
    BY <1>8, <1>9 DEF Clearing
  <2>. QED
    BY <2>1 DEF Longs, Shorts
<1>. HIDE DEF debt, fund
<1>11. used \in Int /\ debt - used \in Nat
  BY <1>10
<1>. HIDE DEF used
<1>12. covered \in Clearing /\ Paid(charged, covered)
  BY <1>8, <1>9, <1>11, TransferPaid
<1>. HIDE DEF covered
<1>13. BooksMatch(covered) /\ SameTotals(clearing, covered)
  <2>1. Paid(out.after, covered)
    BY <1>9, <1>12, PaidTransitive
  <2>2. BooksMatch(covered) /\ SameTotals(out.after, covered)
    BY <2>1, <1>6, PaidMatch, PaidTotals
  <2>. QED
    BY <2>2, <1>6, SameTotalsTransitive
<1>14. BooksHold'
  BY <1>1, <1>4, <1>12, <1>13, BooksKept DEF Liquidate
<1>15. call' \in Adl
  BY <1>2, <1>3, <1>4, <1>11 DEF Adl
<1>16. market' \in [Markets -> Market]
  BY <1>1, <1>2, <1>4 DEF Market
<1>17. budget' \in [Kinds -> Nat]
  BY <1>1, SpendType DEF Liquidate, Kinds
<1>18. TypeOK'
  BY <1>1, <1>4, <1>12, <1>15, <1>16, <1>17 DEF TypeOK, Liquidate
<1>. QED
  BY <1>14, <1>18 DEF IInv

\* What is known of the deleveraging step: who it closes, and what it takes.
LEMMA DeleverageStep ==
  ASSUME IInv, AutoDeleverage
  PROVE  /\ call \in Adl /\ call.needed > 0
         /\ \E best \in Accounts :
              /\ best \in Ranked(clearing)
              /\ best \notin {call.bankrupt, Backstop, InsuranceFund}
              /\ clearing.position[best][call.market].size # 0
              /\ UnrealizedPnl(clearing.position[best][call.market].size,
                               clearing.position[best][call.market].entry, call.mark) > 0
              /\ Deleverage(best)
<1>1. TypeOK /\ clearing \in Clearing
  BY DEF IInv, TypeOK
<1>2. call \in Adl /\ call.needed > 0
  BY <1>1 DEF TypeOK, AutoDeleverage, Idle, Sweep
<1>3. PICK i \in AdlCandidates(clearing) : Deleverage(clearing.holders[call.market][i])
  BY DEF AutoDeleverage
<1>. DEFINE best == clearing.holders[call.market][i]
<1>4. call.market \in Markets
  BY <1>2 DEF Adl
<1>5. best \in Accounts
  <2>1. clearing.holders[call.market] \in Seq(Accounts)
    BY <1>1, <1>4 DEF Clearing
  <2>2. i \in 1 .. Len(clearing.holders[call.market])
    BY DEF AdlCandidates
  <2>. QED
    BY <2>1, <2>2, ElementOfSeq
<1>6. /\ best \notin {call.bankrupt, Backstop, InsuranceFund}
      /\ UnrealizedPnl(clearing.position[best][call.market].size,
                       clearing.position[best][call.market].entry, call.mark) > 0
  BY DEF AdlCandidates
<1>7. clearing.position[best][call.market].size # 0
  <2>1. clearing.position[best][call.market] \in Position
    BY <1>1, <1>4, <1>5 DEF Clearing
  <2>. DEFINE entry == clearing.position[best][call.market].entry
              none == UnrealizedPnl(0, entry, call.mark)
  <2>3. none = 0
    BY <2>1, <1>2, FlatGainsNothing DEF Position, Adl
  <2>4. clearing.position[best][call.market].size = 0 => none > 0
    BY Zenon, <1>6
  <2>. HIDE DEF none
  <2>5. ~(none > 0)
    BY <2>3
  <2>. QED
    BY Zenon, <2>4, <2>5
<1>8. best \in Ranked(clearing)
  BY DEF Ranked
<1>. QED
  BY <1>2, <1>3, <1>5, <1>6, <1>7, <1>8

LEMMA AutoDeleverageKeeps ==
  ASSUME IInv, AutoDeleverage
  PROVE  IInv'
<1>1. call \in Adl /\ call.needed > 0
  BY DeleverageStep
<1>2. PICK best \in Accounts :
        /\ clearing.position[best][call.market].size # 0
        /\ Deleverage(best)
  BY DeleverageStep
<1>. DEFINE m      == call.market
            qty    == Abs(clearing.position[best][m].size)
            closed == CloseAgainstBackstop(clearing, best, m, qty, call.mark)
            gained == Longs(closed.balance[best] - clearing.balance[best])
            take   == AdlTake(gained, call.needed)
            d      == Transfer(closed, best, call.bankrupt, take)
<1>3. /\ TypeOK /\ BooksHold /\ clearing \in Clearing /\ BooksMatch(clearing)
      /\ market \in [Markets -> Market]
  BY BooksMatchNow DEF IInv, TypeOK, BooksHold
<1>4. clearing' = d /\ call' = [call EXCEPT !.needed = call.needed - take]
  BY <1>2 DEF Deleverage
<1>5. m \in Markets /\ call.mark \in Nat /\ call.bankrupt \in Accounts /\ call.needed \in Nat
  BY <1>1 DEF Adl
<1>6. qty \in Int \ {0}
  BY <1>2, <1>3, <1>5, SizeInt, AbsNat
<1>. HIDE DEF qty
<1>7. closed \in Clearing /\ BooksMatch(closed) /\ SameTotals(clearing, closed)
  BY <1>3, <1>5, <1>6, CloseAgainstBackstopType, FilledTotals
<1>. HIDE DEF closed
<1>8. gained \in Nat
  <2>1. closed.balance[best] \in Int /\ clearing.balance[best] \in Int
    BY <1>3, <1>7, WiredDistinct DEF Clearing
  <2>. QED
    BY <2>1 DEF Longs
<1>. HIDE DEF gained
<1>9. take \in Nat /\ call.needed - take \in Nat
  BY <1>5, <1>8 DEF AdlTake
<1>. HIDE DEF take
<1>10. d \in Clearing /\ Paid(closed, d)
  <2>. DEFINE bankrupt == call.bankrupt
  <2>1. best \in Holders /\ bankrupt \in Holders /\ take \in Int
    BY <1>5, <1>9, WiredDistinct
  <2>. HIDE DEF bankrupt
  <2>2. LET x == Transfer(closed, best, bankrupt, take)
        IN  x \in Clearing /\ Paid(closed, x)
    BY <2>1, <1>7, TransferType DEF Paid
  <2>. QED
    BY <2>2 DEF bankrupt
<1>. HIDE DEF d
<1>11. BooksMatch(d) /\ SameTotals(clearing, d)
  BY <1>7, <1>10, PaidMatch, PaidTotals, SameTotalsTransitive
<1>12. BooksHold'
  BY <1>3, <1>4, <1>10, <1>11, BooksKept DEF AutoDeleverage
<1>13. call' \in Adl
  BY <1>1, <1>4, <1>9 DEF Adl
<1>14. TypeOK'
  BY <1>3, <1>4, <1>10, <1>13 DEF TypeOK, AutoDeleverage
<1>. QED
  BY <1>12, <1>14 DEF IInv

LEMMA EndLiquidationKeeps ==
  ASSUME IInv, EndLiquidation
  PROVE  IInv'
<1>1. TypeOK'
  BY DEF IInv, TypeOK, EndLiquidation
<1>. QED
  BY <1>1, BooksUntouched DEF IInv, EndLiquidation

\* Settlement takes one side out of the market, and is remembered as doing so.
LEMMA SettlePositionKeeps ==
  ASSUME IInv, NEW a \in Accounts, NEW m \in Markets, SettlePosition(a, m)
  PROVE  IInv'
<1>. DEFINE size  == clearing.position[a][m].size
            price == market[m].settlementPrice
            d     == ApplyPositionDelta(clearing, a, m, -size, price)
<1>1. /\ TypeOK /\ OITwoSided /\ LedgerConserved /\ clearing \in Clearing /\ BooksMatch(clearing)
      /\ market \in [Markets -> Market]
      /\ settled \in [Markets -> [closes: Nat, size: Int, value: Int]]
  BY BooksMatchNow DEF IInv, TypeOK, BooksHold
<1>2. size \in Int /\ size # 0 /\ -size \in Int \ {0} /\ price \in Nat
  <2>1. size \in Int /\ size # 0
    BY <1>1, SizeInt DEF SettlePosition
  <2>2. price \in Nat
    BY <1>1, MarketTypes
  <2>. HIDE DEF size
  <2>3. -size \in Int \ {0}
    BY <2>1
  <2>. QED
    BY <2>1, <2>2, <2>3
<1>3. clearing' = d
  BY DEF SettlePosition
<1>4. settled' = [settled EXCEPT ![m] = [closes |-> settled[m].closes + 1,
                                         size   |-> settled[m].size + size,
                                         value  |-> settled[m].value + size * price]]
  BY DEF SettlePosition
<1>5. Moved(clearing, d, a, m, -size)
  <2>. DEFINE n == -size
  <2>1. n \in Int \ {0} /\ price \in Nat
    BY <1>2
  <2>. HIDE DEF n, price
  <2>2. Moved(clearing, ApplyPositionDelta(clearing, a, m, n, price), a, m, n)
    BY <2>1, <1>1, ApplyPositionDeltaMoves
  <2>. QED
    BY <2>2 DEF n
<1>6. size * price \in Int
  BY <1>2
<1>. HIDE DEF d, size, price
<1>7. /\ settled' \in [Markets -> [closes: Nat, size: Int, value: Int]]
      /\ settled'[m].size = settled[m].size + size
      /\ \A n \in Markets \ {m} : settled'[n] = settled[n]
  <2>. DEFINE next == [closes |-> settled[m].closes + 1, size |-> settled[m].size + size,
                       value |-> settled[m].value + size * price]
  <2>1. next \in [closes: Nat, size: Int, value: Int] /\ next.size = settled[m].size + size
    BY <1>1, <1>2, <1>6
  <2>2. settled' = [settled EXCEPT ![m] = next]
    BY <1>4
  <2>. HIDE DEF next
  <2>. QED
    BY <2>1, <2>2, <1>1
<1>8. ASSUME NEW n \in Markets
      PROVE  d.oiLong[n] - d.oiShort[n] + settled'[n].size = 0
  <2>1. /\ clearing.oiLong[n] \in Int /\ clearing.oiShort[n] \in Int
        /\ d.oiLong[n] \in Int /\ d.oiShort[n] \in Int /\ settled[n].size \in Int
        /\ clearing.oiLong[n] - clearing.oiShort[n] + settled[n].size = 0
    BY <1>1, <1>5 DEF Moved, Clearing, OITwoSided
  <2>2. CASE n = m
    BY <2>1, <2>2, <1>2, <1>5, <1>7 DEF Moved
  <2>3. CASE n # m
    BY <2>1, <2>3, <1>5, <1>7 DEF Moved
  <2>. QED
    BY <2>2, <2>3
<1>9. OITwoSided'
  BY <1>3, <1>8 DEF OITwoSided
<1>10. clearing' \in Clearing /\ BooksMatch(clearing') /\ Total(clearing') = Total(clearing)
  BY <1>3, <1>5 DEF Moved
<1>11. HolderListExact' /\ OpenInterestExact' /\ LedgerConserved'
  <2>1. LedgerConserved'
    BY <1>1, <1>10 DEF LedgerConserved, Total, SettlePosition
  <2>. QED
    BY <2>1, <1>10, BooksMatchNext
<1>12. TypeOK'
  BY <1>1, <1>7, <1>10 DEF TypeOK, SettlePosition
<1>. QED
  BY <1>9, <1>11, <1>12 DEF IInv, BooksHold

LEMMA UpdateFundingKeeps ==
  ASSUME IInv, NEW m \in Markets, NEW rate \in Rates, UpdateFunding(m, rate)
  PROVE  IInv'
<1>. DEFINE delta == IndexDelta(rate, index[m])
<1>1. TypeOK /\ market \in [Markets -> Market]
  BY DEF IInv, TypeOK
<1>2. delta \in Int
  <2>1. rate \in Int /\ index[m] \in Int
    BY <1>1, MarketTypes, ClearingAssumption
  <2>. QED
    BY <2>1, IndexDeltaInt
<1>3. market' = [market EXCEPT ![m].fundingIndex = market[m].fundingIndex + delta]
  BY DEF UpdateFunding
<1>. HIDE DEF delta
<1>4. market[m].fundingIndex + delta \in Int
  BY <1>1, <1>2 DEF Market
<1>5. market' \in [Markets -> Market]
  <2>. DEFINE next == market[m].fundingIndex + delta
  <2>1. market' = [market EXCEPT ![m].fundingIndex = next]
    BY <1>3
  <2>2. next \in Int
    BY <1>4
  <2>. HIDE DEF next
  <2>. QED
    BY <2>1, <2>2, <1>1 DEF Market
<1>6. budget' \in [Kinds -> Nat]
  BY <1>1, SpendType DEF UpdateFunding, Kinds
<1>7. TypeOK'
  BY <1>1, <1>5, <1>6 DEF TypeOK, UpdateFunding
<1>. QED
  BY <1>7, BooksUntouched DEF IInv, UpdateFunding

LEMMA MoveIndexKeeps ==
  ASSUME IInv, NEW m \in Markets, NEW price \in Prices \cup {0}, MoveIndex(m, price)
  PROVE  IInv'
<1>1. TypeOK /\ price \in Nat
  BY ClearingAssumption DEF IInv
<1>2. budget' \in [Kinds -> Nat]
  BY <1>1, SpendType DEF MoveIndex, Kinds
<1>3. TypeOK'
  BY <1>1, <1>2 DEF TypeOK, MoveIndex
<1>. QED
  BY <1>3, BooksUntouched DEF IInv, MoveIndex

LEMMA SetPausedKeeps ==
  ASSUME IInv, NEW flag \in BOOLEAN, SetPaused(flag)
  PROVE  IInv'
<1>1. budget' \in [Kinds -> Nat]
  BY SpendType DEF IInv, SetPaused, Kinds
<1>2. TypeOK'
  BY <1>1 DEF IInv, TypeOK, SetPaused
<1>. QED
  BY <1>2, BooksUntouched DEF IInv, SetPaused

LEMMA SetMarketStatusKeeps ==
  ASSUME IInv, NEW m \in Markets, NEW price \in Prices,
         NEW status \in {"Active", "Paused", "ReduceOnly", "Settling"},
         SetMarketStatus(m, status, price)
  PROVE  IInv'
<1>1. TypeOK /\ price \in Nat
  BY ClearingAssumption DEF IInv
<1>2. budget' \in [Kinds -> Nat]
  BY <1>1, SpendType DEF SetMarketStatus, Kinds
<1>3. market' \in [Markets -> Market]
  <2>. DEFINE next == IF status = "Settling" THEN price ELSE 0
  <2>1. next \in Nat
    BY <1>1
  <2>2. market' = [market EXCEPT ![m].status = status, ![m].settlementPrice = next]
    BY DEF SetMarketStatus
  <2>. HIDE DEF next
  <2>. DEFINE changed == [market[m] EXCEPT !.status = status, !.settlementPrice = next]
  <2>3. market[m] \in Market /\ changed \in Market
    BY <2>1, <1>1 DEF TypeOK, Market
  <2>4. market' = [market EXCEPT ![m] = changed]
    BY <2>2, <1>1 DEF TypeOK
  <2>. HIDE DEF changed
  <2>. QED
    BY <2>3, <2>4, <1>1 DEF TypeOK
<1>4. TypeOK'
  BY <1>1, <1>2, <1>3 DEF TypeOK, SetMarketStatus
<1>. QED
  BY <1>4, BooksUntouched DEF IInv, SetMarketStatus

LEMMA SetMarketParamsKeeps ==
  ASSUME IInv, NEW m \in Markets, NEW p \in ParamSets, SetMarketParams(m, p)
  PROVE  IInv'
<1>1. budget' \in [Kinds -> Nat]
  BY SpendType DEF IInv, SetMarketParams, Kinds
<1>2. market' \in [Markets -> Market]
  BY DEF IInv, TypeOK, Market, SetMarketParams
<1>3. TypeOK'
  BY <1>1, <1>2 DEF IInv, TypeOK, SetMarketParams
<1>. QED
  BY <1>3, BooksUntouched DEF IInv, SetMarketParams

(***************************************************************************)
(* The theorems.                                                           *)
(***************************************************************************)
LEMMA NextKeeps == IInv /\ [Next]_vars => IInv'
<1>. SUFFICES ASSUME IInv, [Next]_vars PROVE IInv'
  OBVIOUS
<1>1. CASE UserStep
  <2>1. ASSUME NEW a \in Accounts, InitializeAccount(a) PROVE IInv'
    BY <2>1, InitializeAccountKeeps
  <2>2. ASSUME NEW a \in Accounts, NEW amount \in Amounts, Deposit(a, amount) PROVE IInv'
    BY <2>2, DepositKeeps
  <2>3. ASSUME NEW a \in Accounts, NEW amount \in Amounts, Withdraw(a, amount) PROVE IInv'
    BY <2>3, WithdrawKeeps
  <2>4. ASSUME NEW a \in Traders, NEW m \in Markets, NEW side \in {1, -1},
               NEW qty \in Quantities, NEW limit \in Prices \cup {0},
               PlaceOrder(a, m, side, qty, limit) \/ TriggerOrder(a, m, side, qty, limit)
        PROVE  IInv'
    <3>1. Execute(a, m, side, qty, limit)
      BY <2>4 DEF PlaceOrder, TriggerOrder
    <3>. QED
      BY <3>1, ExecuteKeeps
  <2>5. ASSUME NEW a \in Accounts, NEW m \in Markets, NEW liquidator \in Traders \cup {Keeper},
               Liquidate(liquidator, a, m)
        PROVE  IInv'
    BY <2>5, LiquidateKeeps
  <2>6. ASSUME NEW a \in Accounts, NEW m \in Markets, SettlePosition(a, m) PROVE IInv'
    BY <2>6, SettlePositionKeeps
  <2>7. ASSUME NEW m \in Markets, NEW rate \in Rates, UpdateFunding(m, rate) PROVE IInv'
    BY <2>7, UpdateFundingKeeps
  <2>. QED
    BY <1>1, <2>1, <2>2, <2>3, <2>4, <2>5, <2>6, <2>7 DEF UserStep
<1>2. CASE CallStep
  BY <1>2, FillFromBookKeeps, FillFromBackstopKeeps, EndSweepKeeps, AutoDeleverageKeeps,
     EndLiquidationKeeps DEF CallStep
<1>3. CASE AdminStep
  BY <1>3, MoveIndexKeeps, SetPausedKeeps, SetMarketStatusKeeps, SetMarketParamsKeeps
     DEF AdminStep
<1>4. CASE UNCHANGED vars
  <2>1. TypeOK'
    BY <1>4 DEF IInv, TypeOK, vars
  <2>. QED
    BY <2>1, <1>4, BooksUntouched DEF IInv, vars
<1>. QED
  BY <1>1, <1>2, <1>3, <1>4 DEF Next

THEOREM IInvHolds == Spec => []IInv
  BY InitIInv, NextKeeps, PTL DEF Spec

\* Every balance, position, list and total stays in its type under every handler,
\* whatever the accounts, markets, prices, rates and (valid) parameters.
THEOREM TypesHold == Spec => []TypeOK
  BY IInvHolds, PTL DEF IInv

\* Long and short open interest differ by exactly what settlement has closed:
\* every fill, flip, liquidation and deleveraging moves the two sides in pairs
\* (PerpExchange._adjustOI, which sees one account at a time).
THEOREM TwoSidedHolds == Spec => []OITwoSided
  BY IInvHolds, PTL DEF IInv, BooksHold

\* The holder list deleveraging ranks is the set of accounts with a position,
\* through every push and swap-pop (PerpExchange._trackHolder).
THEOREM HolderListHolds == Spec => []HolderListExact
  BY IInvHolds, PTL DEF IInv, BooksHold

\* Every fill, fee, rebate, funding payment, liquidation fee, bad-debt cover and
\* deleveraging moves value between entries of the ledger: its entries sum to
\* deposits less withdrawals (CollateralVault.transferBetween).
THEOREM LedgerHolds == Spec => []LedgerConserved
  BY IInvHolds, PTL DEF IInv, BooksHold

\* The running totals of open interest are the positions they count, so that no
\* subtraction of PerpExchange._adjustOI can underflow.
THEOREM OpenInterestHolds == Spec => []OpenInterestExact
  BY IInvHolds, PTL DEF IInv, BooksHold
(***************************************************************************)
(* Liquidation and deleveraging, step by step: which handlers they are,    *)
(* and what a forced close does to the account it closes.                  *)
(***************************************************************************)

\* Only deleveraging runs after a liquidation.
LEMMA AdlStep ==
  ASSUME Next, call.op = "adl"
  PROVE  AutoDeleverage \/ EndLiquidation
<1>1. call # Idle
  BY DEF Idle
<1>2. ~UserStep
  <2>1. \A a : ~InitializeAccount(a)
    BY <1>1 DEF InitializeAccount
  <2>2. \A a, n : ~Deposit(a, n) /\ ~Withdraw(a, n)
    BY <1>1 DEF Deposit, Withdraw
  <2>3. \A a, m, side, qty, limit :
           ~PlaceOrder(a, m, side, qty, limit) /\ ~TriggerOrder(a, m, side, qty, limit)
    BY <1>1 DEF PlaceOrder, TriggerOrder, Execute
  <2>4. ASSUME NEW l, NEW a, NEW m, Liquidate(l, a, m)
        PROVE  FALSE
    BY <1>1, <2>4, Zenon DEF Liquidate
  <2>5. \A a, m : ~SettlePosition(a, m) /\ ~UpdateFunding(m, a)
    BY <1>1 DEF SettlePosition, UpdateFunding
  <2>. QED
    BY <2>1, <2>2, <2>3, <2>4, <2>5 DEF UserStep
<1>3. ~AdminStep
  BY <1>1 DEF AdminStep, MoveIndex, SetPaused, SetMarketStatus, SetMarketParams
<1>. QED
  BY <1>2, <1>3 DEF Next, CallStep, FillFromBook, FillFromBackstop, EndSweep

\* And only a liquidation leads to it.
LEMMA IntoAdl ==
  ASSUME TypeOK, Next, call'.op = "adl"
  PROVE  \/ AutoDeleverage
         \/ \E liquidator \in Traders \cup {Keeper}, a \in Accounts, m \in Markets :
               Liquidate(liquidator, a, m)
<1>1. call' # Idle
  BY DEF Idle
<1>2. ASSUME UserStep
      PROVE  \E liquidator \in Traders \cup {Keeper}, a \in Accounts, m \in Markets :
                Liquidate(liquidator, a, m)
  BY <1>1, <1>2 DEF UserStep, InitializeAccount, Deposit, Withdraw, PlaceOrder, TriggerOrder,
                    Execute, SettlePosition, UpdateFunding
<1>3. ~AdminStep
  BY <1>1 DEF AdminStep, MoveIndex, SetPaused, SetMarketStatus, SetMarketParams
<1>4. ~EndSweep /\ ~EndLiquidation
  BY <1>1 DEF EndSweep, EndLiquidation
<1>5. call.op = "sweep" => call \in Sweep
  BY DEF TypeOK, Idle, Adl
<1>6. ASSUME call \in Sweep, NEW l, NEW b
      PROVE  [call EXCEPT !.left = l].op = "sweep"
             /\ [call EXCEPT !.left = l, !.backstopLeft = b].op = "sweep"
  BY <1>6 DEF Sweep
<1>7. ASSUME NEW maker, NEW qty, NEW price, FillFromBook(maker, qty, price)
      PROVE  FALSE
  BY <1>5, <1>6, <1>7 DEF FillFromBook
<1>8. ~FillFromBackstop
  <2>. DEFINE qty == IF call.left < call.backstopLeft THEN call.left ELSE call.backstopLeft
              l   == call.left - qty
              b   == call.backstopLeft - qty
  <2>1. FillFromBackstop =>
          call.op = "sweep" /\ call' = [call EXCEPT !.left = l, !.backstopLeft = b]
    BY DEF FillFromBackstop
  <2>. HIDE DEF l, b
  <2>2. call \in Sweep => [call EXCEPT !.left = l, !.backstopLeft = b].op = "sweep"
    BY <1>6
  <2>. QED
    BY <1>5, <2>1, <2>2
<1>. QED
  BY <1>2, <1>3, <1>4, <1>7, <1>8 DEF Next, CallStep

\* A liquidation closes at least something and at most what there is.
LEMMA LiquidationQtyPart ==
  ASSUME NEW p \in Params, ValidParams(p), NEW have \in Nat \ {0}, NEW mark \in Nat
  PROVE  LiquidationQty(have, p, mark) \in 1 .. have
<1>. DEFINE part    == (have * p.partialBps) \div BPS
            stepped == part - (part % p.step)
<1>1. p.partialBps \in Nat /\ p.step \in Nat \ {0} /\ p.partialBps <= BPS /\ BPS \in Nat \ {0}
  BY ScaleAssumption DEF Params, ValidParams
<1>2. part \in 0 .. have
  <2>1. \A x, y \in Nat, h \in Nat : x <= y => h * x <= h * y
    OBVIOUS
  <2>2. have * p.partialBps \in Nat /\ have * p.partialBps <= have * BPS
    BY <1>1, <2>1
  <2>. DEFINE n == have * p.partialBps
  <2>. HIDE DEF n
  <2>3. \A x \in Nat, y \in Nat \ {0}, h \in Nat : x <= h * y => x \div y \in 0 .. h
    OBVIOUS
  <2>. QED
    BY <1>1, <2>2, <2>3
<1>. HIDE DEF part
<1>3. stepped \in 0 .. have
  <2>1. \A x \in Nat, y \in Nat \ {0} : x % y \in 0 .. x
    OBVIOUS
  <2>2. part \in Nat
    BY <1>2
  <2>. QED
    BY <1>1, <1>2, <2>1, <2>2
<1>4. LiquidationQty(have, p, mark)
        = IF stepped = 0 \/ Notional(have - stepped, mark) < p.minNotional THEN have ELSE stepped
  BY DEF LiquidationQty, part
<1>. HIDE DEF stepped
<1>. QED
  BY <1>3, <1>4

\* What a fill leaves on the ledger entry of a party that is not the fund.
LEMMA ExchangedPays ==
  ASSUME market \in [Markets -> Market],
         NEW c \in Clearing, BooksMatch(c), NEW a \in Accounts, NEW other \in Accounts,
         NEW m \in Markets, NEW delta \in Int \ {0}, NEW price \in Nat,
         a # other, a # InsuranceFund
  PROVE  LET p == c.position[a][m]
         IN  Exchanged(c, a, other, m, delta, price).balance[a]
               = c.balance[a] - Owed(c, a, m)
                   + MovePosition(p.size, p.entry, delta, price).realized
<1>. DEFINE half == ApplyPositionDelta(c, a, m, delta, price)
            d    == ApplyPositionDelta(half, other, m, -delta, price)
<1>1. /\ Moved(c, half, a, m, delta)
      /\ half.balance[a] = c.balance[a] - Owed(c, a, m)
           + MovePosition(c.position[a][m].size, c.position[a][m].entry, delta, price).realized
  BY ApplyPositionDeltaMoves
<1>2. Exchanged(c, a, other, m, delta, price) = d
  BY DEF Exchanged
<1>. HIDE DEF half
<1>3. half \in Clearing /\ BooksMatch(half)
  BY <1>1 DEF Moved
<1>4. Moved(half, d, other, m, -delta)
  <2>1. -delta \in Int \ {0}
    OBVIOUS
  <2>. QED
    BY <2>1, <1>3, ApplyPositionDeltaMoves
<1>. HIDE DEF d
<1>5. d.balance[a] = half.balance[a]
  BY <1>4, WiredDistinct DEF Moved
<1>. QED
  BY <1>1, <1>2, <1>5

\* Closed in full, the position realises its whole profit or loss at the price.
LEMMA CloseRealizes ==
  ASSUME NEW size \in Int \ {0}, NEW entry \in Nat, NEW mark \in Nat
  PROVE  MovePosition(size, entry, -size, mark).realized = UnrealizedPnl(size, entry, mark)
<1>1. -size \in Int /\ Abs(-size) = Abs(size) /\ (size > 0) # (-size > 0)
  BY DEF Abs
<1>2. CASE size > 0
  <2>1. Abs(size) = size
    BY <1>2 DEF Abs
  <2>. QED
    BY <1>1, <1>2, <2>1 DEF MovePosition, UnrealizedPnl
<1>3. CASE size < 0
  <2>1. Abs(size) = -size
    BY <1>3 DEF Abs
  <2>2. (-size) * (entry - mark) = size * (mark - entry)
    <3>1. \A x, y \in Int : (-x) * y = x * (-y)
      OBVIOUS
    <3>2. entry - mark \in Int /\ -(entry - mark) = mark - entry
      OBVIOUS
    <3>. QED
      BY <3>1, <3>2
  <2>. QED
    BY <1>1, <1>3, <2>1, <2>2 DEF MovePosition, UnrealizedPnl
<1>. QED
  BY <1>2, <1>3

\* The forced close of a whole position, against the backstop.
LEMMA ClosedInFull ==
  ASSUME market \in [Markets -> Market],
         NEW c \in Clearing, BooksMatch(c), NEW a \in Accounts \ {Backstop, InsuranceFund},
         NEW m \in Markets, c.position[a][m].size # 0, NEW mark \in Nat
  PROVE  LET p == c.position[a][m]
             d == CloseAgainstBackstop(c, a, m, Abs(p.size), mark)
         IN  /\ Filled(c, d, a, Backstop, m, -p.size)
             /\ d.position[a][m].size = 0
             /\ d.balance[a] = c.balance[a] - Owed(c, a, m)
                                 + UnrealizedPnl(p.size, p.entry, mark)
<1>. DEFINE size  == c.position[a][m].size
            entry == c.position[a][m].entry
            back  == -size
            d     == Exchanged(c, a, Backstop, m, back, mark)
<1>1. size \in Int \ {0} /\ entry \in Nat
  BY DEF Clearing, Position
<1>2. back \in Int \ {0} /\ size + back = 0
  <2>. HIDE DEF size
  <2>. QED
    BY <1>1
<1>3. CloseAgainstBackstop(c, a, m, Abs(size), mark) = d
  <2>1. (IF size > 0 THEN -Abs(size) ELSE Abs(size)) = back
    <3>. HIDE DEF size
    <3>. QED
      BY <1>1 DEF Abs
  <2>. QED
    BY <2>1 DEF CloseAgainstBackstop
<1>4. MovePosition(size, entry, back, mark).realized = UnrealizedPnl(size, entry, mark)
  <2>. HIDE DEF size, entry
  <2>. QED
    BY <1>1, CloseRealizes
<1>. HIDE DEF back
<1>5. /\ Filled(c, d, a, Backstop, m, back)
      /\ d.balance[a] = c.balance[a] - Owed(c, a, m) + MovePosition(size, entry, back, mark).realized
  BY <1>2, ExchangedFills, ExchangedPays, WiredDistinct
<1>. HIDE DEF d
<1>6. d.position[a][m].size = 0
  BY <1>2, <1>5 DEF Filled
<1>. QED
  BY <1>3, <1>4, <1>5, <1>6 DEF back
\* One round of deleveraging: who is closed, what it is paid, what is taken of it.
LEMMA DeleverageResult ==
  ASSUME IInv, AutoDeleverage
  PROVE  /\ call \in Adl /\ call.needed > 0
         /\ \E best \in Accounts \ {call.bankrupt, Backstop, InsuranceFund},
               take \in 0 .. call.needed :
              /\ best \in Ranked(clearing)
              /\ clearing'.position[best][call.market].size = 0
              /\ clearing.position[best][call.market].size # 0
              /\ \A b \in Accounts, n \in Markets :
                    <<b, n>> \notin {<<best, call.market>>, <<Backstop, call.market>>} =>
                       clearing'.position[b][n] = clearing.position[b][n]
              /\ call.bankrupt \notin {Backstop, InsuranceFund} =>
                    clearing'.balance[call.bankrupt] = clearing.balance[call.bankrupt] + take
              /\ clearing'.balance[best]
                    >= clearing.balance[best] - Longs(Owed(clearing, best, call.market))
              /\ \A a \in Traders \ {best, call.bankrupt} :
                    clearing'.balance[a] = clearing.balance[a]
              /\ call' = [call EXCEPT !.needed = call.needed - take]
<1>. DEFINE m        == call.market
            bankrupt == call.bankrupt
<1>1. call \in Adl /\ call.needed > 0
  BY DeleverageStep
<1>2. PICK best \in Accounts :
        /\ best \in Ranked(clearing)
        /\ best \notin {call.bankrupt, Backstop, InsuranceFund}
        /\ clearing.position[best][call.market].size # 0
        /\ UnrealizedPnl(clearing.position[best][call.market].size,
                         clearing.position[best][call.market].entry, call.mark) > 0
        /\ Deleverage(best)
  BY DeleverageStep
<1>. DEFINE size   == clearing.position[best][m].size
            entry  == clearing.position[best][m].entry
            pnl    == UnrealizedPnl(size, entry, call.mark)
            owed   == Owed(clearing, best, m)
            closed == CloseAgainstBackstop(clearing, best, m, Abs(size), call.mark)
            gained == Longs(closed.balance[best] - clearing.balance[best])
            take   == AdlTake(gained, call.needed)
            d      == Transfer(closed, best, bankrupt, take)
<1>3. /\ TypeOK /\ clearing \in Clearing /\ BooksMatch(clearing)
      /\ market \in [Markets -> Market]
  BY BooksMatchNow DEF IInv, TypeOK, BooksHold
<1>4. clearing' = d /\ call' = [call EXCEPT !.needed = call.needed - take]
  BY <1>2 DEF Deleverage
<1>5. m \in Markets /\ call.mark \in Nat /\ bankrupt \in Accounts /\ call.needed \in Nat
  BY <1>1 DEF Adl
<1>6. pnl \in Int /\ pnl > 0 /\ owed \in Int
  <2>1. size \in Int /\ entry \in Int
    BY <1>3, <1>5 DEF Clearing, Position
  <2>2. owed \in Int
    BY <1>3, <1>5, SettleFundingType
  <2>3. pnl \in Int
    <3>1. call.mark \in Int
      BY <1>5
    <3>. HIDE DEF size, entry
    <3>. QED
      BY <2>1, <3>1, UnrealizedPnlInt
  <2>. QED
    BY <1>2, <2>2, <2>3
<1>7. /\ Filled(clearing, closed, best, Backstop, m, -size)
      /\ closed.position[best][m].size = 0
      /\ closed.balance[best] = clearing.balance[best] - owed + pnl
  <2>. DEFINE mark == call.mark
  <2>1. /\ best \in Accounts \ {Backstop, InsuranceFund} /\ mark \in Nat
        /\ clearing.position[best][m].size # 0
    BY <1>2, <1>5
  <2>. HIDE DEF mark, m
  <2>2. LET p == clearing.position[best][m]
            e == CloseAgainstBackstop(clearing, best, m, Abs(p.size), mark)
        IN  /\ Filled(clearing, e, best, Backstop, m, -p.size)
            /\ e.position[best][m].size = 0
            /\ e.balance[best] = clearing.balance[best] - Owed(clearing, best, m)
                                   + UnrealizedPnl(p.size, p.entry, mark)
    BY <2>1, <1>3, <1>5, ClosedInFull
  <2>. QED
    BY <2>2 DEF mark
<1>. HIDE DEF pnl, owed
<1>8. closed \in Clearing
  BY <1>7 DEF Filled
<1>9. /\ \A b \in Accounts, n \in Markets :
            <<b, n>> \notin {<<best, m>>, <<Backstop, m>>} =>
               closed.position[b][n] = clearing.position[b][n]
      /\ \A h \in Holders \ {best, Backstop, InsuranceFund, Exchange} :
            closed.balance[h] = clearing.balance[h]
  BY <1>7 DEF Filled
<1>. HIDE DEF closed
<1>10. clearing.balance[best] \in Int /\ closed.balance[best] \in Int
  BY <1>3, <1>8, WiredDistinct DEF Clearing
<1>11. gained \in Nat /\ gained = Longs(pnl - owed)
  BY <1>6, <1>7, <1>10 DEF Longs
<1>. HIDE DEF gained
<1>12. take \in 0 .. call.needed /\ take <= gained
  BY <1>5, <1>11 DEF AdlTake
<1>. HIDE DEF take
<1>13. /\ d.position = closed.position
       /\ \A h \in Holders \ {best, bankrupt} : d.balance[h] = closed.balance[h]
       /\ d.balance[best] = closed.balance[best] - take
       /\ d.balance[bankrupt] = closed.balance[bankrupt] + take
  <2>1. best \in Holders /\ bankrupt \in Holders /\ best # bankrupt /\ take \in Int
    BY <1>2, <1>5, <1>12, WiredDistinct
  <2>. HIDE DEF bankrupt
  <2>2. /\ Paid(closed, d)
        /\ \A h \in Holders \ {best, bankrupt} : d.balance[h] = closed.balance[h]
        /\ d.balance[best] = closed.balance[best] - take
        /\ d.balance[bankrupt] = closed.balance[bankrupt] + take
    BY <2>1, <1>8, TransferType
  <2>. QED
    BY <2>2 DEF Paid, SameBooks
<1>. HIDE DEF d
<1>14. d.balance[best] >= clearing.balance[best] - Longs(owed)
  BY <1>6, <1>7, <1>10, <1>11, <1>12, <1>13 DEF Longs
<1>15. bankrupt \notin {Backstop, InsuranceFund} =>
         d.balance[bankrupt] = clearing.balance[bankrupt] + take
  BY <1>2, <1>5, <1>9, <1>13, WiredDistinct
<1>16. \A a \in Traders \ {best, bankrupt} : d.balance[a] = clearing.balance[a]
  BY <1>9, <1>13, WiredDistinct
<1>17. /\ d.position[best][m].size = 0
       /\ \A b \in Accounts, n \in Markets :
             <<b, n>> \notin {<<best, m>>, <<Backstop, m>>} =>
                d.position[b][n] = clearing.position[b][n]
  BY <1>7, <1>9, <1>13
<1>. QED
  BY <1>1, <1>2, <1>4, <1>12, <1>14, <1>15, <1>16, <1>17 DEF owed

\* Deleveraging takes the deficit out of what the close paid the holder it closes:
\* apart from funding that holder owed, no trader's balance falls
\* (PerpExchange._autoDeleverage).
THEOREM AdlTakesOnlyTheGain == Spec => AdlTakesOnlyGains
<1>1. ASSUME IInv, [Next]_vars
      PROVE  [call.op = "adl" =>
                \A a \in Traders \ {call.bankrupt} :
                   LET p == clearing.position[a][call.market]
                   IN  clearing'.balance[a] >= clearing.balance[a]
                          - Longs(FundingOwed(p.size, p.snapshot,
                                              market[call.market].fundingIndex))]_vars
  <2>. SUFFICES ASSUME Next, call.op = "adl", NEW a \in Traders \ {call.bankrupt}
                PROVE  clearing'.balance[a]
                         >= clearing.balance[a] - Longs(Owed(clearing, a, call.market))
    BY <1>1 DEF Owed
  <2>1. clearing \in Clearing /\ call \in Adl /\ market \in [Markets -> Market] /\ a \in Accounts
    BY <1>1, WiredDistinct DEF IInv, TypeOK, Idle, Sweep
  <2>2. clearing.balance[a] \in Int /\ Longs(Owed(clearing, a, call.market)) \in Nat
    <3>1. call.market \in Markets
      BY <2>1 DEF Adl
    <3>2. Owed(clearing, a, call.market) \in Int
      BY <2>1, <3>1, SettleFundingType
    <3>. QED
      BY <2>1, <3>2, WiredDistinct DEF Clearing, Longs
  <2>3. CASE AutoDeleverage
    BY <1>1, <2>2, <2>3, DeleverageResult
  <2>4. CASE EndLiquidation
    BY <2>2, <2>4 DEF EndLiquidation
  <2>. QED
    BY <2>3, <2>4, AdlStep
<1>. QED
  BY <1>1, IInvHolds, PTL DEF Spec, AdlTakesOnlyGains
\* No further from flat than it was, and not on the other side.
Shrunk(before, after) ==
  /\ after # 0 => (after > 0) = (before > 0)
  /\ Abs(after) <= Abs(before)

LEMMA CloseOutShrinks ==
  ASSUME market \in [Markets -> Market],
         NEW c \in Clearing, BooksMatch(c), NEW a \in Accounts, NEW m \in Markets,
         c.position[a][m].size # 0,
         NEW qty \in 1 .. Abs(c.position[a][m].size), NEW mark \in Nat
  PROVE  LET d == CloseOut(c, a, m, qty, mark).after
         IN  /\ \A b \in Accounts, n \in Markets :
                   <<b, n>> \notin {<<a, m>>, <<Backstop, m>>} =>
                      d.position[b][n] = c.position[b][n]
             /\ a # Backstop => Shrunk(c.position[a][m].size, d.position[a][m].size)
<1>. DEFINE size  == c.position[a][m].size
            part  == CloseAgainstBackstop(c, a, m, qty, mark)
            left  == part.position[a][m].size
            rest  == Abs(left)
            whole == CloseAgainstBackstop(part, a, m, rest, mark)
            delta == IF size > 0 THEN -qty ELSE qty
            d     == CloseOut(c, a, m, qty, mark).after
<1>1. size \in Int /\ size # 0
  BY SizeInt
<1>2. qty \in Int \ {0} /\ qty > 0 /\ qty <= Abs(size)
  <2>. DEFINE have == Abs(size)
  <2>1. have \in Nat
    BY <1>1, AbsNat
  <2>2. qty \in 1 .. have
    OBVIOUS
  <2>. HIDE DEF have
  <2>3. qty \in Int \ {0} /\ qty > 0 /\ qty <= have
    BY <2>1, <2>2
  <2>. QED
    BY <2>3 DEF have
<1>3. Filled(c, part, a, Backstop, m, delta)
  BY <1>2, CloseAgainstBackstopType
<1>4. d = IF part.balance[a] < 0 /\ rest # 0 THEN whole ELSE part
  BY DEF CloseOut
<1>. HIDE DEF part, d
<1>5. part \in Clearing /\ BooksMatch(part) /\ left \in Int
  <2>1. part \in Clearing /\ BooksMatch(part)
    BY <1>3 DEF Filled
  <2>. QED
    BY <2>1, SizeInt
<1>6. a # Backstop => left = size + delta
  BY <1>3 DEF Filled
<1>7. a # Backstop => Shrunk(size, left)
  <2>. HIDE DEF size, left
  <2>. QED
    BY <1>1, <1>2, <1>5, <1>6 DEF Shrunk, Abs
<1>8. \A b \in Accounts, n \in Markets :
         <<b, n>> \notin {<<a, m>>, <<Backstop, m>>} => part.position[b][n] = c.position[b][n]
  BY <1>3 DEF Filled
<1>9. CASE ~(part.balance[a] < 0 /\ rest # 0)
  BY <1>4, <1>7, <1>8, <1>9 DEF d
<1>10. CASE part.balance[a] < 0 /\ rest # 0
  <2>. DEFINE back == IF left > 0 THEN -rest ELSE rest
  <2>1. rest \in Int \ {0}
    BY <1>5, <1>10, AbsNat
  <2>2. Filled(part, whole, a, Backstop, m, back)
    <3>. HIDE DEF rest
    <3>. QED
      BY <2>1, <1>5, CloseAgainstBackstopType
  <2>. HIDE DEF whole
  <2>3. left + back = 0
    <3>. HIDE DEF left
    <3>. QED
      BY <1>5 DEF Abs
  <2>4. a # Backstop => whole.position[a][m].size = 0
    BY <2>2, <2>3 DEF Filled
  <2>5. \A b \in Accounts, n \in Markets :
           <<b, n>> \notin {<<a, m>>, <<Backstop, m>>} => whole.position[b][n] = c.position[b][n]
    BY <2>2, <1>8 DEF Filled
  <2>6. Shrunk(size, 0)
    <3>. HIDE DEF size
    <3>. QED
      BY <1>1 DEF Shrunk, Abs
  <2>. QED
    BY <1>4, <1>10, <2>4, <2>5, <2>6 DEF d
<1>. QED
  BY <1>9, <1>10

\* A liquidation: what it closes, and the deficit it hands on.
LEMMA LiquidateResult ==
  ASSUME IInv, NEW liquidator \in Traders \cup {Keeper}, NEW a \in Accounts, NEW m \in Markets,
         Liquidate(liquidator, a, m)
  PROVE  /\ call'.bankrupt = a /\ clearing.position[a][m].size # 0
         /\ \A b \in Accounts, n \in Markets :
               <<b, n>> \notin {<<a, m>>, <<Backstop, m>>} =>
                  clearing'.position[b][n] = clearing.position[b][n]
         /\ a # Backstop =>
               Shrunk(clearing.position[a][m].size, clearing'.position[a][m].size)
         /\ a # InsuranceFund => Shorts(clearing'.balance[a]) = call'.needed
<1>. DEFINE mark    == Mark(m)
            p       == market[m].params
            size    == clearing.position[a][m].size
            qty     == LiquidationQty(Abs(size), p, mark)
            out     == CloseOut(clearing, a, m, qty, mark)
            after   == out.after
            fee     == MarginOf(Notional(out.closed, mark), p.liquidationFeeBps)
            charged == Transfer(after, a, liquidator, fee)
            debt    == Shorts(charged.balance[a])
            fund    == Longs(charged.balance[InsuranceFund])
            used    == IF fund < debt THEN fund ELSE debt
            covered == Transfer(charged, InsuranceFund, a, used)
<1>1. /\ TypeOK /\ clearing \in Clearing /\ BooksMatch(clearing)
      /\ market \in [Markets -> Market]
  BY BooksMatchNow DEF IInv, TypeOK, BooksHold
<1>2. p \in Params /\ ValidParams(p) /\ mark \in Nat
  BY <1>1, MarketTypes
<1>3. size \in Int /\ size # 0
  BY <1>1, SizeInt DEF Liquidate
<1>4. /\ clearing' = covered
      /\ call' = [op |-> "adl", bankrupt |-> a, market |-> m,
                  targetShorts |-> size > 0, mark |-> mark, needed |-> debt - used]
  BY DEF Liquidate
<1>5. qty \in 1 .. Abs(size)
  <2>1. Abs(size) \in Nat \ {0}
    BY <1>3, AbsNat
  <2>. QED
    BY <2>1, <1>2, LiquidationQtyPart
<1>. HIDE DEF qty, mark, p
<1>6. /\ after \in Clearing
      /\ out.closed \in Int
  <2>1. qty \in Int \ {0}
    <3>1. Abs(size) \in Nat
      BY <1>3, AbsNat
    <3>. HIDE DEF size
    <3>. QED
      BY <3>1, <1>5
  <2>. QED
    BY <2>1, <1>1, <1>2, CloseOutType
<1>7. /\ \A b \in Accounts, n \in Markets :
            <<b, n>> \notin {<<a, m>>, <<Backstop, m>>} =>
               after.position[b][n] = clearing.position[b][n]
      /\ a # Backstop => Shrunk(size, after.position[a][m].size)
  BY <1>1, <1>2, <1>3, <1>5, CloseOutShrinks
<1>8. fee \in Int
  <2>. DEFINE closed == out.closed
  <2>1. Notional(closed, mark) \in Int
    <3>1. mark \in Int /\ closed \in Int
      BY <1>2, <1>6
    <3>. HIDE DEF closed
    <3>. QED
      BY <3>1, NotionalInt
  <2>2. p.liquidationFeeBps \in Int
    BY <1>2 DEF Params
  <2>. QED
    BY <2>1, <2>2, FeesInt
<1>. HIDE DEF fee, after
<1>9. a \in Holders /\ liquidator \in Holders /\ InsuranceFund \in Holders
  BY WiredDistinct
<1>10. Paid(after, charged)
  BY <1>6, <1>8, <1>9, TransferType
<1>. HIDE DEF charged
<1>11. /\ charged \in Clearing
       /\ charged.balance[a] \in Int /\ charged.balance[InsuranceFund] \in Int
  BY <1>9, <1>10 DEF Paid, Clearing
<1>12. debt \in Nat /\ fund \in Nat /\ used \in 0 .. debt
  BY <1>11 DEF Longs, Shorts
<1>13. /\ Paid(charged, covered)
       /\ a # InsuranceFund => covered.balance[a] = charged.balance[a] + used
  <2>1. used \in Int
    BY <1>12
  <2>. HIDE DEF used
  <2>. QED
    BY <2>1, <1>9, <1>11, TransferType
<1>. HIDE DEF covered
<1>14. a # InsuranceFund => Shorts(covered.balance[a]) = debt - used
  BY <1>11, <1>12, <1>13 DEF Shorts
<1>15. covered.position = after.position
  BY <1>10, <1>13 DEF Paid, SameBooks
<1>. QED
  BY <1>3, <1>4, <1>7, <1>14, <1>15

\* A liquidation and the deleveraging after it close positions, in part or in full:
\* nobody but the backstop is grown or flipped by someone else's call
\* (PerpExchange.liquidate, _closeAgainstBackstop, _autoDeleverage).
THEOREM ForcedClosesShrink == Spec => ForcedClosesOnlyShrink
<1>1. ASSUME IInv, [Next]_vars
      PROVE  [call'.op = "adl" =>
                \A a \in Accounts \ {Backstop}, m \in Markets :
                   LET before == clearing.position[a][m].size
                       after  == clearing'.position[a][m].size
                   IN  /\ after # 0 => (after > 0) = (before > 0)
                       /\ Abs(after) <= Abs(before)]_vars
  <2>. SUFFICES ASSUME Next, call'.op = "adl",
                       NEW a \in Accounts \ {Backstop}, NEW m \in Markets
                PROVE  Shrunk(clearing.position[a][m].size, clearing'.position[a][m].size)
    BY <1>1 DEF Shrunk
  <2>1. TypeOK /\ clearing.position[a][m].size \in Int
    BY <1>1, SizeInt DEF IInv, TypeOK
  <2>2. \A n \in Int : Shrunk(n, n) /\ Shrunk(n, 0)
    BY DEF Shrunk, Abs
  <2>3. CASE AutoDeleverage
    <3>1. PICK best \in Accounts :
            /\ clearing'.position[best][call.market].size = 0
            /\ \A b \in Accounts, n \in Markets :
                  <<b, n>> \notin {<<best, call.market>>, <<Backstop, call.market>>} =>
                     clearing'.position[b][n] = clearing.position[b][n]
      BY <1>1, <2>3, DeleverageResult
    <3>. QED
      BY <2>1, <2>2, <3>1
  <2>4. ASSUME NEW liquidator \in Traders \cup {Keeper}, NEW b \in Accounts, NEW n \in Markets,
               Liquidate(liquidator, b, n)
        PROVE  Shrunk(clearing.position[a][m].size, clearing'.position[a][m].size)
    <3>1. /\ \A x \in Accounts, y \in Markets :
                <<x, y>> \notin {<<b, n>>, <<Backstop, n>>} =>
                   clearing'.position[x][y] = clearing.position[x][y]
          /\ b # Backstop =>
                Shrunk(clearing.position[b][n].size, clearing'.position[b][n].size)
      BY <1>1, <2>4, LiquidateResult
    <3>. QED
      BY <2>1, <2>2, <3>1
  <2>. QED
    BY <2>1, <2>3, <2>4, IntoAdl
<1>. QED
  BY <1>1, IInvHolds, PTL DEF Spec, ForcedClosesOnlyShrink
(***************************************************************************)
(* The ranking, with what it takes from the call in progress as arguments: *)
(* by the holder list it is a set of accounts.                             *)
(***************************************************************************)
RankedFor(c, m, bankrupt, targetShorts, mark) ==
  {c.holders[m][i] : i \in {j \in 1 .. Len(c.holders[m]) :
      LET p == c.position[c.holders[m][j]][m]
      IN  /\ c.holders[m][j] \notin {bankrupt, Backstop, InsuranceFund}
          /\ (p.size < 0) = targetShorts
          /\ UnrealizedPnl(p.size, p.entry, mark) > 0}}

LEMMA RankedNow ==
  Ranked(clearing) =
    RankedFor(clearing, call.market, call.bankrupt, call.targetShorts, call.mark)
  BY DEF Ranked, RankedFor, AdlCandidates

LEMMA RankedNext ==
  Ranked(clearing)' =
    RankedFor(clearing', call'.market, call'.bankrupt, call'.targetShorts, call'.mark)
  BY DEF Ranked, RankedFor, AdlCandidates

\* Nobody without a position is in profit.
LEMMA RankedAre ==
  ASSUME NEW c \in Clearing, HoldersMatch(c), NEW m \in Markets, NEW bankrupt,
         NEW targetShorts, NEW mark \in Nat
  PROVE  \A a : a \in RankedFor(c, m, bankrupt, targetShorts, mark) <=>
           /\ a \in Accounts \ {bankrupt, Backstop, InsuranceFund}
           /\ (c.position[a][m].size < 0) = targetShorts
           /\ UnrealizedPnl(c.position[a][m].size, c.position[a][m].entry, mark) > 0
<1>. DEFINE list  == c.holders[m]
            place == c.holderIndex[m]
<1>1. list \in Seq(Accounts) /\ place \in [Accounts -> Nat]
  BY DEF Clearing
<1>2. ListsExactly(list, place, Open(c, m))
  BY DEF HoldersMatch
<1>. HIDE DEF list, place
<1>3. \A i \in 1 .. Len(list) : list[i] \in Accounts
  BY <1>1, ElementOfSeq
<1>4. ASSUME NEW a \in Accounts,
             UnrealizedPnl(c.position[a][m].size, c.position[a][m].entry, mark) > 0
      PROVE  \E i \in 1 .. Len(list) : list[i] = a
  <2>1. c.position[a][m].entry \in Int /\ mark \in Int
    BY DEF Clearing, Position
  <2>2. c.position[a][m].size # 0
    BY <1>4, <2>1, FlatGainsNothing
  <2>3. place[a] # 0 /\ place[a] <= Len(list) /\ list[place[a]] = a /\ place[a] \in Nat
    BY <1>1, <1>2, <2>2 DEF ListsExactly, Open
  <2>4. Len(list) \in Nat
    BY <1>1, LenProperties
  <2>. QED
    BY <2>3, <2>4
<1>. QED
  BY <1>3, <1>4 DEF RankedFor, list

\* Every round of the deleveraging loop leaves strictly fewer holders to deleverage,
\* so that the loop, which has no bound of its own, ends: a close against the backstop
\* never brings anybody into the ranking (PerpExchange._autoDeleverage).
THEOREM AdlRoundsShrink == Spec => AdlRoundsRunOut
<1>1. ASSUME IInv, IInv', [Next]_vars
      PROVE  [call.op = "adl" /\ call'.op = "adl" =>
                /\ Ranked(clearing)' \subseteq Ranked(clearing)
                /\ Ranked(clearing)' # Ranked(clearing)]_vars
  <2>. SUFFICES ASSUME Next, call.op = "adl", call'.op = "adl"
                PROVE  /\ Ranked(clearing)' \subseteq Ranked(clearing)
                       /\ Ranked(clearing)' # Ranked(clearing)
    BY <1>1
  <2>1. AutoDeleverage
    <3>1. ~EndLiquidation
      BY DEF EndLiquidation, Idle
    <3>. QED
      BY <3>1, AdlStep
  <2>2. call \in Adl
    BY <1>1, <2>1, DeleverageResult
  <2>. DEFINE m == call.market
              n == call.mark
              gone(c) == RankedFor(c, m, call.bankrupt, call.targetShorts, n)
  <2>3. PICK best, take :
          /\ best \in Accounts \ {call.bankrupt, Backstop, InsuranceFund}
          /\ best \in Ranked(clearing)
          /\ clearing'.position[best][m].size = 0
          /\ \A b \in Accounts, y \in Markets :
                <<b, y>> \notin {<<best, m>>, <<Backstop, m>>} =>
                   clearing'.position[b][y] = clearing.position[b][y]
          /\ call' = [call EXCEPT !.needed = call.needed - take]
    BY <1>1, <2>1, DeleverageResult
  <2>4. /\ clearing \in Clearing /\ HoldersMatch(clearing)
        /\ clearing' \in Clearing /\ HoldersMatch(clearing')
    <3>1. HoldersMatch(clearing) /\ clearing \in Clearing
      BY <1>1 DEF IInv, TypeOK, BooksHold, HolderListExact
    <3>2. HoldersMatch(clearing') /\ clearing' \in Clearing
      BY <1>1, BooksMatchNext DEF IInv, TypeOK, BooksHold, BooksMatch
    <3>. QED
      BY <3>1, <3>2
  <2>5. m \in Markets /\ n \in Nat
    BY <2>2 DEF Adl
  <2>6. Ranked(clearing) = gone(clearing) /\ Ranked(clearing)' = gone(clearing')
    <3>1. /\ call'.market = m /\ call'.bankrupt = call.bankrupt
          /\ call'.targetShorts = call.targetShorts /\ call'.mark = n
      BY <2>2, <2>3 DEF Adl
    <3>. QED
      BY <3>1, RankedNow, RankedNext
  <2>7. \A c \in Clearing : HoldersMatch(c) =>
          \A a : a \in gone(c) <=>
            /\ a \in Accounts \ {call.bankrupt, Backstop, InsuranceFund}
            /\ (c.position[a][m].size < 0) = call.targetShorts
            /\ UnrealizedPnl(c.position[a][m].size, c.position[a][m].entry, n) > 0
    <3>. DEFINE bankrupt == call.bankrupt
                side     == call.targetShorts
    <3>. HIDE DEF m, n, bankrupt, side
    <3>1. \A c \in Clearing : HoldersMatch(c) =>
            \A a : a \in RankedFor(c, m, bankrupt, side, n) <=>
              /\ a \in Accounts \ {bankrupt, Backstop, InsuranceFund}
              /\ (c.position[a][m].size < 0) = side
              /\ UnrealizedPnl(c.position[a][m].size, c.position[a][m].entry, n) > 0
      BY <2>5, RankedAre
    <3>. QED
      BY <3>1 DEF bankrupt, side
  <2>8. best \notin gone(clearing')
    <3>1. UnrealizedPnl(clearing'.position[best][m].size, clearing'.position[best][m].entry, n) = 0
      <4>1. clearing'.position[best][m].entry \in Int
        BY <2>3, <2>4, <2>5 DEF Clearing, Position
      <4>. QED
        BY <2>3, <2>5, <4>1, FlatGainsNothing
    <3>. QED
      BY <3>1, <2>4, <2>7
  <2>9. \A a \in gone(clearing') : a \in gone(clearing)
    <3>. HIDE DEF gone, n
    <3>1. ASSUME NEW a \in gone(clearing') PROVE a \in gone(clearing)
      <4>1. a \in Accounts \ {call.bankrupt, Backstop, InsuranceFund} /\ a # best
        BY <2>4, <2>7, <2>8
      <4>2. clearing'.position[a][m] = clearing.position[a][m]
        BY <2>3, <2>5, <4>1
      <4>. QED
        BY <2>4, <2>7, <4>1, <4>2
    <3>. QED
      BY <3>1
  <2>. HIDE DEF gone
  <2>. QED
    BY <2>3, <2>6, <2>8, <2>9
<1>. QED
  BY <1>1, IInvHolds, PTL DEF Spec, AdlRoundsRunOut

(***************************************************************************)
(* The deficit a liquidation counts down.  The fund never holds a position *)
(* (it is no trader, and nobody fills against it), so it is never the      *)
(* account in liquidation, and never one whose funding deleveraging moves. *)
(***************************************************************************)
FundFlat == \A m \in Markets : clearing.position[InsuranceFund][m].size = 0

DeficitInv ==
  /\ FundFlat
  /\ call.op = "adl" => call.bankrupt # InsuranceFund
  /\ DeficitIsTracked

\* Nobody's handler touches a position of the fund.
LEMMA FundUntouched ==
  ASSUME IInv, FundFlat, Next
  PROVE  FundFlat'
<1>1. TypeOK /\ clearing \in Clearing /\ BooksMatch(clearing) /\ market \in [Markets -> Market]
  BY BooksMatchNow DEF IInv, TypeOK, BooksHold
<1>2. \A c, h, n : Credit(c, h, n).position = c.position
  BY DEF Credit
<1>3. ASSUME NEW maker \in Accounts \ {InsuranceFund}, NEW qty \in Nat \ {0}, NEW price \in Nat,
             call \in Sweep, Fill(maker, qty, price)
      PROVE  FundFlat'
  <2>. DEFINE m     == call.market
              taker == call.taker
              delta == call.side * qty
              both  == Exchanged(clearing, taker, maker, m, delta, price)
  <2>1. /\ m \in Markets /\ taker \in Accounts /\ taker # InsuranceFund /\ delta \in Int \ {0}
    BY <1>3, WiredDistinct DEF Sweep
  <2>2. clearing' = PayFees(both, taker, maker, m, Notional(qty, price))
    BY <1>3 DEF Fill
  <2>. HIDE DEF m, taker, delta
  <2>3. Filled(clearing, both, taker, maker, m, delta)
    BY <1>1, <2>1, ExchangedFills
  <2>. HIDE DEF both
  <2>4. both \in Clearing /\ BooksMatch(both)
        /\ \A n \in Markets : both.position[InsuranceFund][n] = clearing.position[InsuranceFund][n]
    BY <1>3, <2>1, <2>3, WiredDistinct DEF Filled
  <2>5. clearing'.position = both.position
    <3>1. Notional(qty, price) \in Int
      BY NotionalInt
    <3>2. Paid(both, PayFees(both, taker, maker, m, Notional(qty, price)))
      BY <3>1, <1>1, <2>1, <2>4, PayFeesType
    <3>. QED
      BY <2>2, <3>2 DEF Paid, SameBooks
  <2>. QED
    BY <2>4, <2>5 DEF FundFlat
<1>4. ASSUME clearing'.position = clearing.position PROVE FundFlat'
  BY <1>4 DEF FundFlat
<1>5. CASE UserStep
  <2>1. ASSUME NEW a \in Accounts, InitializeAccount(a) PROVE FundFlat'
    BY <1>4, <2>1 DEF InitializeAccount
  <2>2. ASSUME NEW a \in Accounts, NEW n \in Amounts, Deposit(a, n) \/ Withdraw(a, n)
        PROVE  FundFlat'
    BY <1>2, <1>4, <2>2 DEF Deposit, Withdraw
  <2>3. ASSUME NEW a \in Traders, NEW m \in Markets, NEW side \in {1, -1},
               NEW qty \in Quantities, NEW limit \in Prices \cup {0},
               PlaceOrder(a, m, side, qty, limit) \/ TriggerOrder(a, m, side, qty, limit)
        PROVE  FundFlat'
    BY <1>4, <2>3 DEF PlaceOrder, TriggerOrder, Execute
  <2>4. ASSUME NEW a \in Accounts, NEW m \in Markets, NEW liquidator \in Traders \cup {Keeper},
               Liquidate(liquidator, a, m)
        PROVE  FundFlat'
    <3>1. a # InsuranceFund
      BY <2>4, LiquidateResult DEF FundFlat
    <3>2. \A n \in Markets :
            clearing'.position[InsuranceFund][n] = clearing.position[InsuranceFund][n]
      BY <2>4, <3>1, LiquidateResult, WiredDistinct
    <3>. QED
      BY <3>2 DEF FundFlat
  <2>5. ASSUME NEW a \in Accounts, NEW m \in Markets, SettlePosition(a, m) PROVE FundFlat'
    <3>. DEFINE size  == clearing.position[a][m].size
                delta == -size
                price == market[m].settlementPrice
    <3>1. size # 0 /\ clearing' = ApplyPositionDelta(clearing, a, m, delta, price)
      BY <2>5 DEF SettlePosition
    <3>2. a # InsuranceFund
      BY <3>1 DEF FundFlat
    <3>3. delta \in Int \ {0} /\ price \in Nat
      <4>1. size \in Int /\ size # 0 /\ price \in Nat
        BY <1>1, <3>1, SizeInt, MarketTypes
      <4>. HIDE DEF size
      <4>. QED
        BY <4>1
    <3>. HIDE DEF delta, price
    <3>4. Moved(clearing, clearing', a, m, delta)
      BY <1>1, <3>1, <3>3, ApplyPositionDeltaMoves
    <3>. QED
      BY <3>2, <3>4, WiredDistinct DEF Moved, FundFlat
  <2>6. ASSUME NEW m \in Markets, NEW rate \in Rates, UpdateFunding(m, rate) PROVE FundFlat'
    BY <1>4, <2>6 DEF UpdateFunding
  <2>. QED
    BY <1>5, <2>1, <2>2, <2>3, <2>4, <2>5, <2>6 DEF UserStep
<1>6. CASE CallStep
  <2>1. ASSUME NEW maker \in Traders, NEW qty \in Quantities, NEW price \in Prices,
               FillFromBook(maker, qty, price)
        PROVE  FundFlat'
    <3>1. call \in Sweep
      BY <1>1, <2>1 DEF TypeOK, FillFromBook, Idle, Adl
    <3>2. maker \in Accounts \ {InsuranceFund} /\ qty \in Nat \ {0} /\ price \in Nat
      BY WiredDistinct, ClearingAssumption
    <3>. QED
      BY <1>3, <2>1, <3>1, <3>2 DEF FillFromBook
  <2>2. ASSUME FillFromBackstop PROVE FundFlat'
    <3>. DEFINE price == BackstopQuote(call.market, call.side)
                qty   == IF call.left < call.backstopLeft THEN call.left ELSE call.backstopLeft
    <3>1. call \in Sweep
      BY <1>1, <2>2 DEF TypeOK, FillFromBackstop, Idle, Adl
    <3>2. qty > 0 /\ price > 0 /\ Fill(Backstop, qty, price)
      BY <2>2 DEF FillFromBackstop
    <3>3. qty \in Nat
      BY <3>1 DEF Sweep
    <3>4. price \in Int
      BY <1>1, <3>1, BackstopQuoteInt
    <3>. HIDE DEF price, qty
    <3>5. qty \in Nat \ {0} /\ price \in Nat
      BY <3>2, <3>3, <3>4
    <3>. QED
      BY <1>3, <3>1, <3>2, <3>5, WiredDistinct
  <2>3. ASSUME AutoDeleverage PROVE FundFlat'
    <3>1. PICK best \in Accounts \ {InsuranceFund} :
            \A b \in Accounts, n \in Markets :
               <<b, n>> \notin {<<best, call.market>>, <<Backstop, call.market>>} =>
                  clearing'.position[b][n] = clearing.position[b][n]
      BY <2>3, DeleverageResult
    <3>. QED
      BY <3>1, WiredDistinct DEF FundFlat
  <2>. QED
    BY <1>4, <1>6, <2>1, <2>2, <2>3 DEF CallStep, EndSweep, EndLiquidation
<1>7. CASE AdminStep
  BY <1>4, <1>7 DEF AdminStep, MoveIndex, SetPaused, SetMarketStatus, SetMarketParams
<1>. QED
  BY <1>5, <1>6, <1>7 DEF Next

\* While a liquidation works off a deficit, the number it counts down is the deficit
\* the account really has, the backstop itself excluded: covering and deleveraging
\* never take more from anybody than the debt they pay (PerpExchange.liquidate,
\* _autoDeleverage).
THEOREM DeficitTracked == Spec => []DeficitIsTracked
<1>1. Init => DeficitInv
  <2>. SUFFICES ASSUME Init PROVE DeficitInv
    OBVIOUS
  <2>1. call.op # "adl"
    BY DEF Init, Idle
  <2>2. FundFlat
    <3>1. clearing.position = [a \in Accounts |-> [m \in Markets |-> Flat]]
      BY DEF Init
    <3>. QED
      BY <3>1, WiredDistinct DEF FundFlat, Flat
  <2>. QED
    BY <2>1, <2>2 DEF DeficitInv, DeficitIsTracked
<1>2. IInv /\ DeficitInv /\ [Next]_vars => DeficitInv'
  <2>. SUFFICES ASSUME IInv, DeficitInv, [Next]_vars PROVE DeficitInv'
    OBVIOUS
  <2>1. CASE UNCHANGED vars
    BY <2>1 DEF DeficitInv, DeficitIsTracked, FundFlat, vars
  <2>2. CASE Next
    <3>1. FundFlat'
      BY <2>2, FundUntouched DEF DeficitInv
    <3>2. CASE call'.op # "adl"
      BY <3>1, <3>2 DEF DeficitInv, DeficitIsTracked
    <3>3. CASE AutoDeleverage
      <4>. DEFINE a == call.bankrupt
      <4>1. call \in Adl /\ call.needed > 0
        BY <3>3, DeleverageResult
      <4>2. PICK take \in 0 .. call.needed :
              /\ a \notin {Backstop, InsuranceFund} =>
                    clearing'.balance[a] = clearing.balance[a] + take
              /\ call' = [call EXCEPT !.needed = call.needed - take]
        BY <3>3, DeleverageResult
      <4>3. /\ call'.op = "adl" /\ call'.bankrupt = a
            /\ call'.needed = call.needed - take /\ call.needed \in Nat
            /\ call.op = "adl" /\ a \in Holders
        BY <4>1, <4>2, WiredDistinct DEF Adl
      <4>4. a # InsuranceFund /\ (a # Backstop => Shorts(clearing.balance[a]) = call.needed)
        BY <4>3 DEF DeficitInv, DeficitIsTracked
      <4>5. clearing.balance[a] \in Int
        BY <4>3 DEF IInv, TypeOK, Clearing
      <4>6. a # Backstop => Shorts(clearing'.balance[a]) = call'.needed
        <5>. HIDE DEF a
        <5>. QED
          BY <4>1, <4>2, <4>3, <4>4, <4>5 DEF Shorts
      <4>. QED
        BY <3>1, <4>3, <4>4, <4>6 DEF DeficitInv, DeficitIsTracked
    <3>4. ASSUME NEW liquidator \in Traders \cup {Keeper}, NEW a \in Accounts, NEW m \in Markets,
                 Liquidate(liquidator, a, m)
          PROVE  DeficitInv'
      <4>1. /\ call'.bankrupt = a /\ clearing.position[a][m].size # 0
            /\ a # InsuranceFund => Shorts(clearing'.balance[a]) = call'.needed
        BY <3>4, LiquidateResult
      <4>2. a # InsuranceFund
        BY <4>1 DEF DeficitInv, FundFlat
      <4>. QED
        BY <3>1, <4>1, <4>2 DEF DeficitInv, DeficitIsTracked
    <3>. QED
      BY <2>2, <3>2, <3>3, <3>4, IntoAdl DEF IInv
  <2>. QED
    BY <2>1, <2>2
<1>3. DeficitInv => DeficitIsTracked
  BY DEF DeficitInv
<1>. QED
  BY <1>1, <1>2, <1>3, IInvHolds, PTL DEF Spec
(***************************************************************************)
(* Funding.  What the fund was paid, plus what every position owes it now: *)
(* touching a position turns the second into the first, to the unit, for   *)
(* any divisor.  Only an update of the index moves the sum, by the rounded *)
(* shares of it; without rounding, by the size of the two sides together.  *)
(***************************************************************************)
OwedAt(c, mk, a, m) ==
  FundingOwed(c.position[a][m].size, c.position[a][m].snapshot, mk[m].fundingIndex)

OwedBy(c, mk, m) == [a \in Accounts |-> OwedAt(c, mk, a, m)]
OwedIn(c, mk)    == [m \in Markets |-> SumFunction(OwedBy(c, mk, m))]

Outstanding(c, mk) == c.funding + SumFunction(OwedIn(c, mk))

LEMMA OwedTypes ==
  ASSUME NEW mk \in [Markets -> Market], NEW c \in Clearing
  PROVE  /\ \A m \in Markets : OwedBy(c, mk, m) \in [Accounts -> Int]
         /\ OwedIn(c, mk) \in [Markets -> Int]
         /\ SumFunction(OwedIn(c, mk)) \in Int
<1>1. \A a \in Accounts, m \in Markets : OwedAt(c, mk, a, m) \in Int
  <2>1. \A a \in Accounts, m \in Markets :
          /\ c.position[a][m].size \in Int /\ c.position[a][m].snapshot \in Int
          /\ mk[m].fundingIndex \in Int
    BY DEF Clearing, Position, Market
  <2>. QED
    BY <2>1, FundingOwedInt DEF OwedAt
<1>2. \A m \in Markets : OwedBy(c, mk, m) \in [Accounts -> Int]
  BY <1>1 DEF OwedBy
<1>3. \A m \in Markets : SumFunction(OwedBy(c, mk, m)) \in Int
  BY <1>2, FiniteAccounts, SumFunctionInt
<1>4. OwedIn(c, mk) \in [Markets -> Int]
  BY <1>3 DEF OwedIn
<1>. QED
  BY <1>2, <1>4, FiniteAccounts, SumFunctionInt

\* Only the positions and the indices count.
LEMMA OutstandingSame ==
  ASSUME NEW c, NEW d, NEW mk, NEW mk2,
         d.position = c.position, d.funding = c.funding,
         \A m \in Markets : mk2[m].fundingIndex = mk[m].fundingIndex
  PROVE  Outstanding(d, mk2) = Outstanding(c, mk)
<1>1. \A m \in Markets : OwedBy(d, mk2, m) = OwedBy(c, mk, m)
  BY DEF OwedBy, OwedAt
<1>2. OwedIn(d, mk2) = OwedIn(c, mk)
  BY <1>1 DEF OwedIn
<1>. QED
  BY <1>2 DEF Outstanding

LEMMA NothingOwed ==
  ASSUME NEW size \in Int, NEW snapshot \in Int
  PROVE  FundingOwed(size, snapshot, snapshot) = 0
<1>1. size * (snapshot - snapshot) = 0
  OBVIOUS
<1>2. 0 \div NOTIONAL_DIVISOR = 0
  BY ScaleAssumption
<1>. QED
  BY <1>1, <1>2 DEF FundingOwed, TruncDiv

\* A touch pays exactly what the position owed.
LEMMA MovedKeepsFunding ==
  ASSUME market \in [Markets -> Market],
         NEW c \in Clearing, NEW d, NEW a \in Accounts, NEW m \in Markets, NEW delta,
         Moved(c, d, a, m, delta)
  PROVE  Outstanding(d, market) = Outstanding(c, market)
<1>1. /\ d \in Clearing /\ d.funding = c.funding + OwedAt(c, market, a, m)
      /\ d.position[a][m].snapshot = market[m].fundingIndex
      /\ \A b \in Accounts, n \in Markets :
            <<b, n>> # <<a, m>> => d.position[b][n] = c.position[b][n]
  BY DEF Moved, Owed, OwedAt
<1>. DEFINE before(n) == OwedBy(c, market, n)
            after(n)  == OwedBy(d, market, n)
            owed      == OwedAt(c, market, a, m)
<1>2. /\ \A n \in Markets : before(n) \in [Accounts -> Int] /\ after(n) \in [Accounts -> Int]
      /\ OwedIn(c, market) \in [Markets -> Int] /\ OwedIn(d, market) \in [Markets -> Int]
      /\ SumFunction(OwedIn(c, market)) \in Int /\ SumFunction(OwedIn(d, market)) \in Int
  BY <1>1, OwedTypes
<1>3. after(m)[a] = 0 /\ before(m)[a] = owed /\ owed \in Int
  <2>1. d.position[a][m].size \in Int /\ market[m].fundingIndex \in Int
    BY <1>1 DEF Clearing, Position, Market
  <2>2. OwedAt(d, market, a, m) = 0
    BY <1>1, <2>1, NothingOwed DEF OwedAt
  <2>3. after(m)[a] = OwedAt(d, market, a, m) /\ before(m)[a] = owed
    BY DEF OwedBy
  <2>4. before(m)[a] \in Int
    BY <1>2
  <2>. QED
    BY <2>2, <2>3, <2>4
<1>4. /\ \A b \in Accounts \ {a} : after(m)[b] = before(m)[b]
      /\ \A n \in Markets \ {m} : after(n) = before(n)
  BY <1>1 DEF OwedBy, OwedAt
<1>. HIDE DEF before, after, owed
<1>5. SumFunction(after(m)) = SumFunction(before(m)) - owed
  <2>1. SumFunction(after(m)) = SumFunction(before(m)) - before(m)[a] + after(m)[a]
    <3>. DEFINE f == before(m)
                g == after(m)
    <3>1. f \in [Accounts -> Int] /\ g \in [Accounts -> Int] /\ \A b \in Accounts \ {a} : g[b] = f[b]
      BY <1>2, <1>4
    <3>. HIDE DEF f, g
    <3>2. SumFunction(g) = SumFunction(f) - f[a] + g[a]
      BY <3>1, FiniteAccounts, SumMoves
    <3>. QED
      BY <3>2 DEF f, g
  <2>2. SumFunction(before(m)) \in Int
    BY <1>2, FiniteAccounts, SumFunctionInt
  <2>. QED
    BY <1>3, <2>1, <2>2
<1>6. /\ OwedIn(c, market)[m] = SumFunction(before(m))
      /\ OwedIn(d, market)[m] = SumFunction(after(m))
      /\ \A n \in Markets \ {m} : OwedIn(d, market)[n] = OwedIn(c, market)[n]
  BY <1>4 DEF OwedIn, before, after
<1>7. SumFunction(OwedIn(d, market)) = SumFunction(OwedIn(c, market)) - owed
  <2>. DEFINE f == OwedIn(c, market)
              g == OwedIn(d, market)
  <2>1. f \in [Markets -> Int] /\ g \in [Markets -> Int] /\ \A n \in Markets \ {m} : g[n] = f[n]
    BY <1>2, <1>6
  <2>2. g[m] = f[m] - owed /\ f[m] \in Int /\ SumFunction(f) \in Int
    BY <1>2, <1>5, <1>6
  <2>. HIDE DEF f, g
  <2>3. SumFunction(g) = SumFunction(f) - f[m] + g[m]
    BY <2>1, FiniteAccounts, SumMoves
  <2>4. SumFunction(g) = SumFunction(f) - owed
    BY <2>2, <2>3, <1>3
  <2>. QED
    BY <2>4 DEF f, g
<1>8. c.funding \in Int /\ d.funding = c.funding + owed
  BY <1>1 DEF Clearing, owed
<1>. QED
  BY <1>2, <1>3, <1>7, <1>8 DEF Outstanding

LEMMA ExchangedKeepsFunding ==
  ASSUME market \in [Markets -> Market],
         NEW c \in Clearing, BooksMatch(c), NEW a \in Accounts, NEW other \in Accounts,
         NEW m \in Markets, NEW delta \in Int \ {0}, NEW price \in Nat
  PROVE  Outstanding(Exchanged(c, a, other, m, delta, price), market) = Outstanding(c, market)
<1>. DEFINE half == ApplyPositionDelta(c, a, m, delta, price)
            back == -delta
            d    == ApplyPositionDelta(half, other, m, back, price)
<1>1. Moved(c, half, a, m, delta)
  BY ApplyPositionDeltaMoves
<1>2. Exchanged(c, a, other, m, delta, price) = d
  BY DEF Exchanged
<1>3. back \in Int \ {0}
  OBVIOUS
<1>. HIDE DEF half, back
<1>4. half \in Clearing /\ BooksMatch(half)
  BY <1>1 DEF Moved
<1>5. Moved(half, d, other, m, back)
  BY <1>3, <1>4, ApplyPositionDeltaMoves
<1>. HIDE DEF d
<1>. QED
  BY <1>1, <1>2, <1>4, <1>5, MovedKeepsFunding

LEMMA CloseKeepsFunding ==
  ASSUME market \in [Markets -> Market],
         NEW c \in Clearing, BooksMatch(c), NEW a \in Accounts, NEW m \in Markets,
         NEW qty \in Int \ {0}, NEW mark \in Nat
  PROVE  /\ Outstanding(CloseAgainstBackstop(c, a, m, qty, mark), market)
              = Outstanding(c, market)
         /\ Outstanding(CloseOut(c, a, m, qty, mark).after, market) = Outstanding(c, market)
<1>1. ASSUME NEW e \in Clearing, BooksMatch(e), NEW q \in Int \ {0}
      PROVE  Outstanding(CloseAgainstBackstop(e, a, m, q, mark), market)
               = Outstanding(e, market)
  <2>. DEFINE delta == IF e.position[a][m].size > 0 THEN -q ELSE q
  <2>1. delta \in Int \ {0}
    OBVIOUS
  <2>2. CloseAgainstBackstop(e, a, m, q, mark) = Exchanged(e, a, Backstop, m, delta, mark)
    BY DEF CloseAgainstBackstop
  <2>. HIDE DEF delta
  <2>. QED
    BY <1>1, <2>1, <2>2, ExchangedKeepsFunding, WiredDistinct
<1>. DEFINE part  == CloseAgainstBackstop(c, a, m, qty, mark)
            rest  == Abs(part.position[a][m].size)
            whole == CloseAgainstBackstop(part, a, m, rest, mark)
            d     == CloseOut(c, a, m, qty, mark).after
<1>2. part \in Clearing /\ BooksMatch(part)
  BY CloseAgainstBackstopType, FilledTotals
<1>3. d = IF part.balance[a] < 0 /\ rest # 0 THEN whole ELSE part
  BY DEF CloseOut
<1>4. Outstanding(part, market) = Outstanding(c, market)
  BY <1>1
<1>. HIDE DEF part, d
<1>5. rest \in Int
  BY <1>2, SizeInt, AbsNat
<1>. HIDE DEF rest
<1>6. rest # 0 => Outstanding(whole, market) = Outstanding(part, market)
  BY <1>1, <1>2, <1>5
<1>. HIDE DEF whole
<1>. QED
  BY <1>3, <1>4, <1>6 DEF part, d

LEMMA PaidKeepsFunding ==
  ASSUME NEW c, NEW d, NEW mk, Paid(c, d)
  PROVE  Outstanding(d, mk) = Outstanding(c, mk)
  BY OutstandingSame DEF Paid, SameBooks
\* However much is moved between whichever entries.
LEMMA TransferKeepsPositions ==
  ASSUME NEW c \in Clearing, NEW from, NEW to, NEW amount
  PROVE  LET d == Transfer(c, from, to, amount)
         IN  /\ d.position = c.position /\ d.funding = c.funding
             /\ \A f, t, n : /\ Transfer(d, f, t, n).position = c.position
                             /\ Transfer(d, f, t, n).funding = c.funding
  BY DEF Transfer, Credit, Clearing

LEMMA LiquidateKeepsFunding ==
  ASSUME IInv, NEW liquidator \in Traders \cup {Keeper}, NEW a \in Accounts, NEW m \in Markets,
         Liquidate(liquidator, a, m)
  PROVE  /\ Outstanding(clearing', market) = Outstanding(clearing, market)
         /\ market' = [market EXCEPT ![m].lastFill = Mark(m)]
<1>. DEFINE out == CloseOut(clearing, a, m,
                     LiquidationQty(Abs(clearing.position[a][m].size), market[m].params, Mark(m)),
                     Mark(m))
            qty == LiquidationQty(Abs(clearing.position[a][m].size), market[m].params, Mark(m))
<1>1. /\ TypeOK /\ clearing \in Clearing /\ BooksMatch(clearing)
      /\ market \in [Markets -> Market]
  BY BooksMatchNow DEF IInv, TypeOK, BooksHold
<1>2. market[m].params \in Params /\ ValidParams(market[m].params) /\ Mark(m) \in Nat
  BY <1>1, MarketTypes
<1>3. qty \in Int \ {0}
  <2>1. clearing.position[a][m].size \in Int /\ clearing.position[a][m].size # 0
    BY <1>1, SizeInt DEF Liquidate
  <2>2. Abs(clearing.position[a][m].size) \in Nat \ {0}
    BY <2>1, AbsNat
  <2>. QED
    BY <2>2, <1>2, LiquidationQtyType
<1>. HIDE DEF qty
<1>4. Outstanding(out.after, market) = Outstanding(clearing, market)
  <2>. DEFINE mark == Mark(m)
  <2>1. mark \in Nat
    BY <1>2
  <2>. HIDE DEF mark
  <2>2. Outstanding(CloseOut(clearing, a, m, qty, mark).after, market) = Outstanding(clearing, market)
    BY <1>1, <1>3, <2>1, CloseKeepsFunding
  <2>. QED
    BY <2>2 DEF qty, mark
<1>5. clearing'.position = out.after.position /\ clearing'.funding = out.after.funding
  <2>. DEFINE after   == out.after
              fee     == MarginOf(Notional(out.closed, Mark(m)), market[m].params.liquidationFeeBps)
              charged == Transfer(after, a, liquidator, fee)
              debt    == Shorts(charged.balance[a])
              fund    == Longs(charged.balance[InsuranceFund])
              used    == IF fund < debt THEN fund ELSE debt
  <2>1. clearing' = Transfer(charged, InsuranceFund, a, used)
    BY DEF Liquidate
  <2>2. after \in Clearing
    BY <1>1, <1>2, <1>3, CloseOutType DEF qty
  <2>. HIDE DEF after, fee, used
  <2>. QED
    BY <2>1, <2>2, TransferKeepsPositions DEF after
<1>6. market' = [market EXCEPT ![m].lastFill = Mark(m)]
  BY DEF Liquidate
<1>. HIDE DEF out
<1>. QED
  BY <1>4, <1>5, <1>6, OutstandingSame

LEMMA DeleverageKeepsFunding ==
  ASSUME IInv, AutoDeleverage
  PROVE  Outstanding(clearing', market) = Outstanding(clearing, market)
<1>1. call \in Adl
  BY DeleverageStep
<1>2. PICK best \in Accounts :
        /\ clearing.position[best][call.market].size # 0
        /\ Deleverage(best)
  BY DeleverageStep
<1>. DEFINE m      == call.market
            mark   == call.mark
            qty    == Abs(clearing.position[best][m].size)
            closed == CloseAgainstBackstop(clearing, best, m, qty, mark)
<1>3. /\ clearing \in Clearing /\ BooksMatch(clearing) /\ market \in [Markets -> Market]
  BY BooksMatchNow DEF IInv, TypeOK, BooksHold
<1>4. m \in Markets /\ mark \in Nat
  BY <1>1 DEF Adl
<1>5. qty \in Int \ {0}
  BY <1>2, <1>3, <1>4, SizeInt, AbsNat
<1>6. clearing'.position = closed.position /\ clearing'.funding = closed.funding
  <2>. DEFINE take == AdlTake(Longs(closed.balance[best] - clearing.balance[best]), call.needed)
  <2>1. clearing' = Transfer(closed, best, call.bankrupt, take)
    BY <1>2 DEF Deleverage
  <2>2. closed \in Clearing
    BY <1>3, <1>4, <1>5, CloseAgainstBackstopType, FilledTotals
  <2>. HIDE DEF closed, take
  <2>. QED
    BY <2>1, <2>2, TransferKeepsPositions
<1>. HIDE DEF m, mark, qty
<1>7. Outstanding(closed, market) = Outstanding(clearing, market)
  BY <1>3, <1>4, <1>5, CloseKeepsFunding
<1>. HIDE DEF closed
<1>. QED
  BY <1>6, <1>7, OutstandingSame
\* No step but an update of the funding index moves what is outstanding.
LEMMA StepKeepsFunding ==
  ASSUME IInv, Next
  PROVE  \/ Outstanding(clearing', market') = Outstanding(clearing, market)
         \/ \E m \in Markets, rate \in Rates : UpdateFunding(m, rate)
<1>. DEFINE Kept == Outstanding(clearing', market') = Outstanding(clearing, market)
            IndexKept == \A n \in Markets : market'[n].fundingIndex = market[n].fundingIndex
<1>1. TypeOK /\ clearing \in Clearing /\ BooksMatch(clearing) /\ market \in [Markets -> Market]
  BY BooksMatchNow DEF IInv, TypeOK, BooksHold
<1>2. ASSUME IndexKept, Outstanding(clearing', market) = Outstanding(clearing, market)
      PROVE  Kept
  <2>1. Outstanding(clearing', market') = Outstanding(clearing', market)
    BY <1>2, OutstandingSame
  <2>. QED
    BY <2>1, <1>2
<1>3. ASSUME clearing' = clearing, IndexKept PROVE Kept
  BY <1>2, <1>3
<1>4. \A n \in Markets : \A price : [market EXCEPT ![n].lastFill = price] = market' => IndexKept
  BY <1>1 DEF Market
<1>5. market' = market => IndexKept
  OBVIOUS
<1>6. ASSUME NEW maker \in Accounts, NEW qty \in Nat \ {0}, NEW price \in Nat,
             call \in Sweep, Fill(maker, qty, price)
      PROVE  Kept
  <2>. DEFINE m     == call.market
              taker == call.taker
              delta == call.side * qty
              both  == Exchanged(clearing, taker, maker, m, delta, price)
  <2>1. /\ m \in Markets /\ taker \in Accounts /\ delta \in Int \ {0}
    BY <1>6, WiredDistinct DEF Sweep
  <2>2. /\ clearing' = PayFees(both, taker, maker, m, Notional(qty, price))
        /\ market' = [market EXCEPT ![m].lastFill = price]
    BY <1>6 DEF Fill
  <2>. HIDE DEF m, taker, delta, Kept, IndexKept
  <2>3. both \in Clearing /\ Outstanding(both, market) = Outstanding(clearing, market)
    BY <1>1, <2>1, ExchangedFills, ExchangedKeepsFunding DEF Filled
  <2>. HIDE DEF both
  <2>4. Paid(both, clearing')
    <3>1. Notional(qty, price) \in Int
      BY NotionalInt
    <3>. QED
      BY <3>1, <1>1, <2>1, <2>2, <2>3, PayFeesType
  <2>5. Outstanding(clearing', market) = Outstanding(both, market)
    BY <2>4, PaidKeepsFunding
  <2>. QED
    BY <1>2, <1>4, <2>1, <2>2, <2>3, <2>5
<1>7. CASE UserStep
  <2>1. ASSUME NEW a \in Accounts, InitializeAccount(a) PROVE Kept
    BY <1>3, <1>5, <2>1 DEF InitializeAccount
  <2>2. ASSUME NEW a \in Accounts, NEW n \in Amounts, Deposit(a, n) \/ Withdraw(a, n)
        PROVE  Kept
    <3>1. \A k : /\ Credit(clearing, a, k).position = clearing.position
                 /\ Credit(clearing, a, k).funding = clearing.funding
      BY <1>1 DEF Credit, Clearing
    <3>2. /\ market' = market
          /\ clearing'.position = clearing.position /\ clearing'.funding = clearing.funding
      BY <2>2, <3>1 DEF Deposit, Withdraw
    <3>. QED
      BY <3>2, OutstandingSame
  <2>3. ASSUME NEW a \in Traders, NEW m \in Markets, NEW side \in {1, -1},
               NEW qty \in Quantities, NEW limit \in Prices \cup {0},
               PlaceOrder(a, m, side, qty, limit) \/ TriggerOrder(a, m, side, qty, limit)
        PROVE  Kept
    BY <1>3, <1>5, <2>3 DEF PlaceOrder, TriggerOrder, Execute
  <2>4. ASSUME NEW a \in Accounts, NEW m \in Markets, NEW liquidator \in Traders \cup {Keeper},
               Liquidate(liquidator, a, m)
        PROVE  Kept
    BY <1>2, <1>4, <2>4, LiquidateKeepsFunding
  <2>5. ASSUME NEW a \in Accounts, NEW m \in Markets, SettlePosition(a, m) PROVE Kept
    <3>. DEFINE size  == clearing.position[a][m].size
                delta == -size
                price == market[m].settlementPrice
    <3>1. /\ size # 0 /\ clearing' = ApplyPositionDelta(clearing, a, m, delta, price)
          /\ market' = market
      BY <2>5 DEF SettlePosition
    <3>2. delta \in Int \ {0} /\ price \in Nat
      <4>1. size \in Int /\ size # 0 /\ price \in Nat
        BY <1>1, <3>1, SizeInt, MarketTypes
      <4>. HIDE DEF size
      <4>. QED
        BY <4>1
    <3>. HIDE DEF delta, price
    <3>3. Moved(clearing, clearing', a, m, delta)
      BY <1>1, <3>1, <3>2, ApplyPositionDeltaMoves
    <3>4. Outstanding(clearing', market) = Outstanding(clearing, market)
      BY <1>1, <3>3, MovedKeepsFunding
    <3>. QED
      BY <3>1, <3>4
  <2>. QED
    BY <1>7, <2>1, <2>2, <2>3, <2>4, <2>5 DEF UserStep
<1>8. CASE CallStep
  <2>1. ASSUME NEW maker \in Traders, NEW qty \in Quantities, NEW price \in Prices,
               FillFromBook(maker, qty, price)
        PROVE  Kept
    <3>1. call \in Sweep
      BY <1>1, <2>1 DEF TypeOK, FillFromBook, Idle, Adl
    <3>2. maker \in Accounts /\ qty \in Nat \ {0} /\ price \in Nat
      BY WiredDistinct, ClearingAssumption
    <3>. QED
      BY <1>6, <2>1, <3>1, <3>2 DEF FillFromBook
  <2>2. ASSUME FillFromBackstop PROVE Kept
    <3>. DEFINE price == BackstopQuote(call.market, call.side)
                qty   == IF call.left < call.backstopLeft THEN call.left ELSE call.backstopLeft
    <3>1. call \in Sweep
      BY <1>1, <2>2 DEF TypeOK, FillFromBackstop, Idle, Adl
    <3>2. qty > 0 /\ price > 0 /\ Fill(Backstop, qty, price)
      BY <2>2 DEF FillFromBackstop
    <3>3. qty \in Nat
      BY <3>1 DEF Sweep
    <3>4. price \in Int
      BY <1>1, <3>1, BackstopQuoteInt
    <3>. HIDE DEF price, qty, Kept
    <3>5. qty \in Nat \ {0} /\ price \in Nat
      BY <3>2, <3>3, <3>4
    <3>. QED
      BY <1>6, <3>1, <3>2, <3>5, WiredDistinct
  <2>3. ASSUME AutoDeleverage PROVE Kept
    <3>1. /\ Outstanding(clearing', market) = Outstanding(clearing, market)
          /\ market' = market
      BY <2>3, DeleverageKeepsFunding DEF AutoDeleverage
    <3>. QED
      BY <3>1
  <2>4. ASSUME EndSweep \/ EndLiquidation PROVE Kept
    BY <1>3, <1>5, <2>4 DEF EndSweep, EndLiquidation
  <2>. QED
    BY <1>8, <2>1, <2>2, <2>3, <2>4 DEF CallStep
<1>9. CASE AdminStep
  <2>1. clearing' = clearing
    BY <1>9 DEF AdminStep, MoveIndex, SetPaused, SetMarketStatus, SetMarketParams
  <2>2. ASSUME NEW n \in Markets, NEW s, NEW p
        PROVE  [market EXCEPT ![n].status = s, ![n].settlementPrice = p] = market' => IndexKept
    BY <1>1 DEF Market
  <2>3. ASSUME NEW n \in Markets, NEW p
        PROVE  [market EXCEPT ![n].params = p] = market' => IndexKept
    BY <1>1 DEF Market
  <2>4. ASSUME NEW n \in Markets, NEW price, NEW s, SetMarketStatus(n, s, price)
        PROVE  IndexKept
    <3>. DEFINE p == IF s = "Settling" THEN price ELSE 0
    <3>1. market' = [market EXCEPT ![n].status = s, ![n].settlementPrice = p]
      BY <2>4 DEF SetMarketStatus
    <3>. HIDE DEF p
    <3>. QED
      BY <2>2, <3>1
  <2>5. ASSUME NEW n \in Markets, NEW p, SetMarketParams(n, p) PROVE IndexKept
    BY <2>3, <2>5 DEF SetMarketParams
  <2>6. IndexKept
    <3>. HIDE DEF IndexKept
    <3>. QED
      BY <1>5, <1>9, <2>4, <2>5 DEF AdminStep, MoveIndex, SetPaused
  <2>. QED
    BY <1>3, <2>1, <2>6
<1>. QED
  BY <1>7, <1>8, <1>9 DEF Next

PaidAndOwed == Outstanding(clearing, market)

\* Every fill, liquidation, deleveraging and settlement pays exactly the funding it
\* settles, to the unit and whatever the rounding: between two updates of the funding
\* indices, what was paid and what is still owed add up to the same amount
\* (PerpExchange._settleFunding, which every change of a position goes through).
THEOREM TouchesKeepFunding ==
  Spec => [][(\A m \in Markets : market'[m].fundingIndex = market[m].fundingIndex) =>
               PaidAndOwed' = PaidAndOwed]_vars
<1>1. ASSUME IInv, [Next]_vars
      PROVE  [(\A m \in Markets : market'[m].fundingIndex = market[m].fundingIndex) =>
                PaidAndOwed' = PaidAndOwed]_vars
  <2>1. ASSUME NEW m \in Markets, NEW rate \in Rates, UpdateFunding(m, rate),
               \A n \in Markets : market'[n].fundingIndex = market[n].fundingIndex
        PROVE  Outstanding(clearing', market') = Outstanding(clearing, market)
    <3>1. clearing' = clearing
      BY <2>1 DEF UpdateFunding
    <3>. QED
      BY <2>1, <3>1, OutstandingSame
  <2>2. PaidAndOwed' = Outstanding(clearing', market')
    BY DEF PaidAndOwed, Outstanding, OwedIn, OwedBy, OwedAt
  <2>. QED
    BY <1>1, <2>1, <2>2, StepKeepsFunding DEF PaidAndOwed
<1>. QED
  BY <1>1, IInvHolds, PTL DEF Spec
\* What was settled is never forgotten.
LEMMA NothingSettledBefore ==
  ASSUME IInv, Next, \A m \in Markets : settled'[m] = NothingSettled
  PROVE  \A m \in Markets : settled[m] = NothingSettled
<1>1. settled \in [Markets -> [closes: Nat, size: Int, value: Int]]
  BY DEF IInv, TypeOK
<1>2. ASSUME NEW a \in Accounts, NEW m \in Markets, SettlePosition(a, m) PROVE FALSE
  <2>. DEFINE size  == settled[m].size + clearing.position[a][m].size
              value == settled[m].value
                         + clearing.position[a][m].size * market[m].settlementPrice
              n     == settled[m].closes + 1
  <2>1. settled' = [settled EXCEPT ![m] = [closes |-> n, size |-> size, value |-> value]]
    BY <1>2 DEF SettlePosition
  <2>2. n # 0
    BY <1>1
  <2>. HIDE DEF n, size, value
  <2>3. settled'[m].closes = n
    BY <1>1, <2>1
  <2>. QED
    BY <2>2, <2>3 DEF NothingSettled
<1>3. settled' = settled \/ \E a \in Accounts, m \in Markets : SettlePosition(a, m)
  <2>1. UserStep => settled' = settled \/ \E a \in Accounts, m \in Markets : SettlePosition(a, m)
    <3>1. \A a : InitializeAccount(a) => settled' = settled
      BY DEF InitializeAccount
    <3>2. \A a, n : Deposit(a, n) \/ Withdraw(a, n) => settled' = settled
      BY DEF Deposit, Withdraw
    <3>3. \A a, m, side, qty, limit :
            PlaceOrder(a, m, side, qty, limit) \/ TriggerOrder(a, m, side, qty, limit)
              => settled' = settled
      BY DEF PlaceOrder, TriggerOrder, Execute
    <3>4. ASSUME NEW l, NEW a, NEW m, Liquidate(l, a, m) PROVE settled' = settled
      BY <3>4 DEF Liquidate
    <3>5. \A m, rate : UpdateFunding(m, rate) => settled' = settled
      BY DEF UpdateFunding
    <3>. QED
      BY <3>1, <3>2, <3>3, <3>4, <3>5 DEF UserStep
  <2>2. CallStep => settled' = settled
    BY DEF CallStep, FillFromBook, FillFromBackstop, EndSweep, AutoDeleverage, EndLiquidation
  <2>3. AdminStep => settled' = settled
    BY DEF AdminStep, MoveIndex, SetPaused, SetMarketStatus, SetMarketParams
  <2>. QED
    BY <2>1, <2>2, <2>3 DEF Next
<1>. QED
  BY <1>2, <1>3
\* Funding is linear in the index, but for what two divisions leave.
LEMMA OwedNearly ==
  ASSUME NEW size \in Int, NEW snapshot \in Int, NEW cumulative \in Int, NEW delta \in Int
  PROVE  LET D == NOTIONAL_DIVISOR
             e == (D * FundingOwed(size, snapshot, cumulative + delta)
                    - D * FundingOwed(size, snapshot, cumulative)) - delta * size
         IN  -(2 * (D - 1)) <= e /\ e <= 2 * (D - 1)
<1>. DEFINE D == NOTIONAL_DIVISOR
            x == size * (cumulative - snapshot)
            y == size * ((cumulative + delta) - snapshot)
            z == delta * size
            p == D * TruncDiv(x, D)
            q == D * TruncDiv(y, D)
<1>1. D \in Nat \ {0}
  BY ScaleAssumption
<1>2. x \in Int /\ y \in Int /\ z \in Int /\ y = x + z
  <2>1. \A u, v \in Int : size * (u + v) = size * u + v * size /\ size * u \in Int /\ v * size \in Int
    OBVIOUS
  <2>2. cumulative - snapshot \in Int /\ (cumulative + delta) - snapshot = (cumulative - snapshot) + delta
    OBVIOUS
  <2>. QED
    BY <2>1, <2>2
<1>. HIDE DEF x, y, z, D
<1>3. p \in Int /\ -(D - 1) <= p - x /\ p - x <= D - 1
  BY <1>1, <1>2, TruncNear
<1>4. q \in Int /\ -(D - 1) <= q - y /\ q - y <= D - 1
  BY <1>1, <1>2, TruncNear
<1>. HIDE DEF p, q
<1>5. -(2 * (D - 1)) <= (q - p) - z /\ (q - p) - z <= 2 * (D - 1)
  BY <1>1, <1>2, <1>3, <1>4
<1>. QED
  BY <1>5 DEF FundingOwed, p, q, x, y, z, D

\* The sizes of a market sum to what settlement has taken out of it.
LEMMA SizesSum ==
  ASSUME IInv, NEW m \in Markets
  PROVE  SumFunction([a \in Accounts |-> clearing.position[a][m].size]) + settled[m].size = 0
<1>. DEFINE sizes  == [a \in Accounts |-> clearing.position[a][m].size]
            longs  == LongSizes(clearing, m)
            shorts == ShortSizes(clearing, m)
<1>1. clearing \in Clearing /\ InterestMatches(clearing)
  BY BooksMatchNow DEF IInv, TypeOK, BooksHold, BooksMatch
<1>2. longs \in [Accounts -> Int] /\ shorts \in [Accounts -> Int] /\ sizes \in [Accounts -> Int]
  BY <1>1, SidesInt, SizeInt
<1>3. \A a \in Accounts : sizes[a] = longs[a] + (-1) * shorts[a]
  <2>1. \A n \in Int : n = Longs(n) + (-1) * Shorts(n)
    BY DEF Longs, Shorts
  <2>2. \A a \in Accounts : clearing.position[a][m].size \in Int
    BY <1>1, SizeInt
  <2>. QED
    BY <2>1, <2>2 DEF LongSizes, ShortSizes
<1>4. /\ SumFunction(longs) = clearing.oiLong[m] /\ SumFunction(shorts) = clearing.oiShort[m]
      /\ clearing.oiLong[m] \in Int /\ clearing.oiShort[m] \in Int
  BY <1>1 DEF InterestMatches, Clearing
<1>5. clearing.oiLong[m] - clearing.oiShort[m] + settled[m].size = 0 /\ settled[m].size \in Int
  BY DEF IInv, TypeOK, BooksHold, OITwoSided
<1>. HIDE DEF sizes, longs, shorts
<1>6. SumFunction(sizes) = SumFunction(longs) + (-1) * SumFunction(shorts)
  <2>. DEFINE k == -1
  <2>1. k \in Int /\ \A a \in Accounts : sizes[a] = longs[a] + k * shorts[a]
    BY <1>3
  <2>. HIDE DEF k
  <2>2. SumFunction(sizes) = SumFunction(longs) + k * SumFunction(shorts)
    BY <2>1, <1>2, FiniteAccounts, SumPlus
  <2>. QED
    BY <2>2 DEF k
<1>7. SumFunction(sizes) + settled[m].size = 0
  BY <1>4, <1>5, <1>6
<1>. QED
  BY <1>7 DEF sizes

\* What one update of an index may leave behind.
Share == Cardinality(Accounts) * (2 * (NOTIONAL_DIVISOR - 1))

\* An update of the index hands the longs what it takes from the shorts, but for
\* what rounding leaves at every account.
LEMMA UpdateNearlyKeepsFunding ==
  ASSUME IInv, NEW m \in Markets, NEW rate \in Rates, UpdateFunding(m, rate), settled[m].size = 0
  PROVE  /\ Outstanding(clearing, market) \in Int /\ Outstanding(clearing', market') \in Int
         /\ Share \in Nat
         /\ NOTIONAL_DIVISOR * Outstanding(clearing', market')
              - NOTIONAL_DIVISOR * Outstanding(clearing, market) \in -Share .. Share
<1>. DEFINE D      == NOTIONAL_DIVISOR
            r      == 2 * (D - 1)
            delta  == IndexDelta(rate, index[m])
            sizes  == [a \in Accounts |-> clearing.position[a][m].size]
            before == OwedBy(clearing, market, m)
            after  == OwedBy(clearing, market', m)
            owed   == OwedIn(clearing, market)
            owes   == OwedIn(clearing, market')
<1>0. D \in Nat \ {0} /\ r \in Nat
  BY ScaleAssumption
<1>1. /\ TypeOK /\ clearing \in Clearing
      /\ market \in [Markets -> Market] /\ market' \in [Markets -> Market]
  BY UpdateFundingKeeps DEF IInv, TypeOK
<1>2. delta \in Int
  <2>1. rate \in Int /\ index[m] \in Int
    BY <1>1, MarketTypes, ClearingAssumption
  <2>. QED
    BY <2>1, IndexDeltaInt
<1>3. /\ clearing' = clearing
      /\ market' = [market EXCEPT ![m].fundingIndex = market[m].fundingIndex + delta]
  BY DEF UpdateFunding
<1>. HIDE DEF delta
<1>4. /\ market[m].fundingIndex \in Int
      /\ market'[m].fundingIndex = market[m].fundingIndex + delta
      /\ \A n \in Markets \ {m} : market'[n].fundingIndex = market[n].fundingIndex
  BY <1>1, <1>3 DEF Market
<1>5. \A a \in Accounts :
        LET e == (D * after[a] - D * before[a]) - delta * sizes[a] IN -r <= e /\ e <= r
  <2>1. ASSUME NEW a \in Accounts
        PROVE  LET e == (D * OwedAt(clearing, market', a, m) - D * OwedAt(clearing, market, a, m))
                          - delta * clearing.position[a][m].size
               IN  -r <= e /\ e <= r
    <3>1. clearing.position[a][m].size \in Int /\ clearing.position[a][m].snapshot \in Int
      BY <1>1 DEF Clearing, Position
    <3>. QED
      BY <3>1, <1>2, <1>4, OwedNearly DEF OwedAt
  <2>. QED
    BY <2>1 DEF OwedBy
<1>6. /\ before \in [Accounts -> Int] /\ after \in [Accounts -> Int] /\ sizes \in [Accounts -> Int]
      /\ owed \in [Markets -> Int] /\ owes \in [Markets -> Int]
  BY <1>1, OwedTypes, SizeInt
<1>7. SumFunction(sizes) = 0
  <2>1. SumFunction(sizes) + settled[m].size = 0
    BY SizesSum
  <2>2. SumFunction(sizes) \in Int
    BY <1>6, FiniteAccounts, SumFunctionInt
  <2>. QED
    BY <2>1, <2>2
<1>8. /\ \A n \in Markets \ {m} : owes[n] = owed[n]
      /\ owed[m] = SumFunction(before) /\ owes[m] = SumFunction(after)
  <2>1. \A n \in Markets \ {m} : OwedBy(clearing, market', n) = OwedBy(clearing, market, n)
    BY <1>4 DEF OwedBy, OwedAt
  <2>. QED
    BY <2>1 DEF OwedIn
<1>9. /\ Outstanding(clearing, market) = clearing.funding + SumFunction(owed)
      /\ Outstanding(clearing', market') = clearing.funding + SumFunction(owes)
  BY <1>3 DEF Outstanding
<1>10. clearing.funding \in Int
  BY <1>1 DEF Clearing
<1>. HIDE DEF D, r, sizes, before, after, owed, owes
<1>11. /\ Cardinality(Accounts) * r \in Nat
       /\ -(Cardinality(Accounts) * r) <= D * SumFunction(after) - D * SumFunction(before)
       /\ D * SumFunction(after) - D * SumFunction(before) <= Cardinality(Accounts) * r
  <2>. DEFINE s == delta * SumFunction(sizes)
              k == Cardinality(Accounts) * r
              w == D * SumFunction(after) - D * SumFunction(before)
  <2>1. k \in Nat /\ -k <= w - s /\ w - s <= k
    BY <1>0, <1>2, <1>5, <1>6, FiniteAccounts, SumNearly
  <2>2. s = 0
    BY <1>2, <1>7
  <2>3. w \in Int
    <3>1. SumFunction(after) \in Int /\ SumFunction(before) \in Int
      BY <1>6, FiniteAccounts, SumFunctionInt
    <3>. QED
      BY <3>1, <1>0
  <2>. HIDE DEF s, k, w
  <2>4. -k <= w /\ w <= k
    BY <2>1, <2>2, <2>3
  <2>. QED
    BY <2>1, <2>4 DEF k, w
<1>12. SumFunction(owes) = SumFunction(owed) - owed[m] + owes[m]
  BY <1>6, <1>8, FiniteAccounts, SumMoves
<1>13. /\ SumFunction(owed) \in Int /\ SumFunction(owes) \in Int
       /\ SumFunction(before) \in Int /\ SumFunction(after) \in Int
  BY <1>6, FiniteAccounts, SumFunctionInt
<1>14. /\ Outstanding(clearing, market) \in Int /\ Outstanding(clearing', market') \in Int
       /\ Outstanding(clearing', market')
            = Outstanding(clearing, market) + (SumFunction(after) - SumFunction(before))
  BY <1>8, <1>9, <1>10, <1>12, <1>13
<1>. DEFINE o == Outstanding(clearing, market)
            q == Outstanding(clearing', market')
            u == SumFunction(before)
            v == SumFunction(after)
            k == Cardinality(Accounts) * r
<1>15. o \in Int /\ q \in Int /\ u \in Int /\ v \in Int /\ k \in Nat /\ q = o + (v - u)
       /\ -k <= D * v - D * u /\ D * v - D * u <= k
  BY <1>11, <1>13, <1>14
<1>. HIDE DEF o, q, u, v, k
<1>16. D * q = D * o + (D * v - D * u) /\ D * q \in Int /\ D * o \in Int /\ D * v \in Int /\ D * u \in Int
  BY <1>0, <1>15
<1>17. D * q - D * o \in -k .. k
  BY <1>15, <1>16
<1>. QED
  BY <1>15, <1>17 DEF Share, D, r, o, q, k

LEMMA ShareNat == Share \in Nat
<1>1. Cardinality(Accounts) \in Nat
  BY FiniteAccounts, FS_CardinalityType
<1>2. 2 * (NOTIONAL_DIVISOR - 1) \in Nat
  BY ScaleAssumption
<1>. QED
  BY <1>1, <1>2 DEF Share

\* A value that moves by s at most stays within a bound that grows by s.
LEMMA AbsGrows ==
  ASSUME NEW D \in Nat \ {0}, NEW x \in Int, NEW y \in Int, NEW b \in Int, NEW s \in Nat,
         D * Abs(x) <= b, D * y - D * x \in -s .. s
  PROVE  D * Abs(y) <= b + s
<1>1. Abs(x) = (IF x < 0 THEN -x ELSE x) /\ Abs(y) = (IF y < 0 THEN -y ELSE y)
  BY DEF Abs
<1>2. D * (-x) = -(D * x) /\ D * (-y) = -(D * y) /\ D * x \in Int /\ D * y \in Int
  OBVIOUS
<1>. DEFINE p == D * x
            q == D * y
<1>3. p \in Int /\ q \in Int /\ q - p \in -s .. s /\ p <= b /\ -p <= b
  <2>1. x < 0 => D * x <= 0
    OBVIOUS
  <2>2. x >= 0 => D * x >= 0
    OBVIOUS
  <2>. QED
    BY <1>1, <1>2, <2>1, <2>2
<1>4. D * Abs(y) = q \/ D * Abs(y) = -q
  BY <1>1, <1>2
<1>. HIDE DEF p, q
<1>. QED
  BY <1>3, <1>4

\* The updates of funding made so far.
Updates == Budget["funding"] - budget["funding"]

\* No step makes updates undone, and an update is one more.
LEMMA UpdatesGrow ==
  ASSUME IInv, [Next]_vars
  PROVE  /\ Updates \in Int /\ Updates' \in Int /\ Updates <= Updates'
         /\ \A m \in Markets, rate \in Rates : UpdateFunding(m, rate) => Updates' = Updates + 1
<1>1. budget \in [Kinds -> Nat] /\ Budget \in [Kinds -> Nat]
  BY ClearingAssumption DEF IInv, TypeOK
<1>2. "funding" \in Kinds
  BY DEF Kinds
<1>3. ASSUME NEW kind \in Kinds, Spend(kind)
      PROVE  budget'["funding"] = IF kind = "funding" THEN budget["funding"] - 1 ELSE budget["funding"]
  BY <1>1, <1>2, <1>3 DEF Spend
<1>4. \A m \in Markets, rate \in Rates : UpdateFunding(m, rate) => Spend("funding")
  BY DEF UpdateFunding
<1>5. UNCHANGED budget \/ \E kind \in Kinds : Spend(kind)
  <2>1. UserStep => UNCHANGED budget \/ \E kind \in Kinds : Spend(kind)
    <3>1. \A a : InitializeAccount(a) => UNCHANGED budget \/ Spend("other")
      BY DEF InitializeAccount
    <3>2. \A a, n : Deposit(a, n) \/ Withdraw(a, n) => Spend("other")
      BY DEF Deposit, Withdraw
    <3>3. \A a, m, side, qty, limit :
            PlaceOrder(a, m, side, qty, limit) \/ TriggerOrder(a, m, side, qty, limit) => Spend("order")
      BY DEF PlaceOrder, TriggerOrder, Execute
    <3>4. ASSUME NEW l, NEW a, NEW m, Liquidate(l, a, m) PROVE Spend("liquidate")
      BY <3>4 DEF Liquidate
    <3>5. \A a, m : SettlePosition(a, m) => UNCHANGED budget
      BY DEF SettlePosition
    <3>6. \A m, rate : UpdateFunding(m, rate) => Spend("funding")
      BY DEF UpdateFunding
    <3>. QED
      BY <3>1, <3>2, <3>3, <3>4, <3>5, <3>6 DEF UserStep, Kinds
  <2>2. CallStep => UNCHANGED budget \/ Spend("trade")
    BY DEF CallStep, FillFromBook, FillFromBackstop, EndSweep, AutoDeleverage, EndLiquidation
  <2>3. AdminStep => Spend("price") \/ Spend("other")
    BY DEF AdminStep, MoveIndex, SetPaused, SetMarketStatus, SetMarketParams
  <2>. QED
    BY <2>1, <2>2, <2>3 DEF Next, vars, Kinds
<1>6. budget'["funding"] \in Int /\ budget'["funding"] <= budget["funding"]
  BY <1>1, <1>2, <1>3, <1>5
<1>7. \A m \in Markets, rate \in Rates : UpdateFunding(m, rate) => budget'["funding"] = budget["funding"] - 1
  BY <1>2, <1>3, <1>4
<1>. QED
  BY <1>1, <1>2, <1>6, <1>7 DEF Updates

(***************************************************************************)
(* As long as nothing was settled without a counterparty, everything the   *)
(* fund has paid or been paid as funding is what it is still owed or owes, *)
(* but for the rounding of the updates: the funding of a two-sided market  *)
(* nets to nothing, within two units for an account and an update, for any *)
(* NOTIONAL_DIVISOR.                                                       *)
(***************************************************************************)
THEOREM FundingNets == Spec => []FundingIsZeroSum
<1>. DEFINE Nets == (\A m \in Markets : settled[m] = NothingSettled) =>
                      /\ PaidAndOwed \in Int
                      /\ NOTIONAL_DIVISOR * Abs(PaidAndOwed) <= Updates * Share
<1>1. Init => Nets
  <2>. SUFFICES ASSUME Init
                PROVE  PaidAndOwed \in Int /\ NOTIONAL_DIVISOR * Abs(PaidAndOwed) <= Updates * Share
    OBVIOUS
  <2>1. /\ clearing.funding = 0 /\ clearing.position = [a \in Accounts |-> [m \in Markets |-> Flat]]
        /\ \A m \in Markets : market[m].fundingIndex = 0
    BY DEF Init
  <2>2. \A m \in Markets, a \in Accounts : OwedAt(clearing, market, a, m) = 0
    <3>1. FundingOwed(0, 0, 0) = 0
      BY NothingOwed
    <3>. QED
      BY <2>1, <3>1 DEF OwedAt, Flat
  <2>3. ASSUME NEW m \in Markets PROVE SumFunction(OwedBy(clearing, market, m)) = 0
    <3>1. OwedBy(clearing, market, m) \in [Accounts -> Int]
          /\ \A a \in Accounts : OwedBy(clearing, market, m)[a] = 0
      BY <2>2 DEF OwedBy
    <3>. QED
      BY <3>1, FiniteAccounts, SumOfZeros
  <2>4. /\ OwedIn(clearing, market) \in [Markets -> Int]
        /\ \A m \in Markets : OwedIn(clearing, market)[m] = 0
    BY <2>3 DEF OwedIn
  <2>5. SumFunction(OwedIn(clearing, market)) = 0
    BY <2>4, FiniteAccounts, SumOfZeros
  <2>6. PaidAndOwed = 0
    BY <2>1, <2>5 DEF PaidAndOwed, Outstanding
  <2>7. Updates = 0
    <3>1. budget = Budget /\ Budget["funding"] \in Nat
      BY ClearingAssumption DEF Init, Kinds
    <3>. QED
      BY <3>1 DEF Updates
  <2>8. Share \in Nat
    BY ShareNat
  <2>9. NOTIONAL_DIVISOR * 0 = 0 /\ Abs(0) = 0 /\ 0 * Share = 0
    BY <2>8, ScaleAssumption DEF Abs
  <2>. QED
    BY <2>6, <2>7, <2>9
<1>2. ASSUME IInv, Nets, [Next]_vars PROVE Nets'
  <2>. SUFFICES ASSUME \A m \in Markets : settled'[m] = NothingSettled
                PROVE  PaidAndOwed' \in Int /\ NOTIONAL_DIVISOR * Abs(PaidAndOwed') <= Updates' * Share
    BY DEF Share
  <2>1. PaidAndOwed' = Outstanding(clearing', market')
    BY DEF PaidAndOwed, Outstanding, OwedIn, OwedBy, OwedAt
  <2>2. \A m \in Markets : settled[m] = NothingSettled
    BY <1>2, NothingSettledBefore DEF vars
  <2>3. PaidAndOwed \in Int /\ NOTIONAL_DIVISOR * Abs(PaidAndOwed) <= Updates * Share
    BY <1>2, <2>2
  <2>4. /\ Updates \in Int /\ Updates' \in Int /\ Updates <= Updates'
        /\ \A m \in Markets, rate \in Rates : UpdateFunding(m, rate) => Updates' = Updates + 1
    BY <1>2, UpdatesGrow
  <2>5. CASE PaidAndOwed' = PaidAndOwed
    <3>1. Share \in Nat
      BY ShareNat
    <3>2. Share * Updates <= Share * Updates' /\ Updates * Share = Share * Updates
          /\ Updates' * Share = Share * Updates' /\ Share * Updates' \in Int /\ Share * Updates \in Int
      BY <2>4, <3>1, TimesMonotone
    <3>3. NOTIONAL_DIVISOR * Abs(PaidAndOwed) \in Int
      BY <2>3, AbsNat, ScaleAssumption
    <3>. QED
      BY <2>3, <2>5, <3>2, <3>3
  <2>6. ASSUME NEW m \in Markets, NEW rate \in Rates, UpdateFunding(m, rate)
        PROVE  PaidAndOwed' \in Int /\ NOTIONAL_DIVISOR * Abs(PaidAndOwed') <= Updates' * Share
    <3>1. settled[m].size = 0
      BY <2>2 DEF NothingSettled
    <3>2. /\ PaidAndOwed \in Int /\ PaidAndOwed' \in Int /\ Share \in Nat
          /\ NOTIONAL_DIVISOR * PaidAndOwed' - NOTIONAL_DIVISOR * PaidAndOwed \in -Share .. Share
      BY <1>2, <2>1, <2>6, <3>1, UpdateNearlyKeepsFunding DEF PaidAndOwed
    <3>3. Updates' = Updates + 1 /\ Updates \in Int
      BY <2>4, <2>6
    <3>4. NOTIONAL_DIVISOR * Abs(PaidAndOwed') <= Updates * Share + Share
      <4>. DEFINE x == PaidAndOwed
                  y == PaidAndOwed'
                  b == Updates * Share
      <4>1. /\ x \in Int /\ y \in Int /\ b \in Int /\ NOTIONAL_DIVISOR \in Nat \ {0}
            /\ NOTIONAL_DIVISOR * Abs(x) <= b
            /\ NOTIONAL_DIVISOR * y - NOTIONAL_DIVISOR * x \in -Share .. Share
        <5>1. b \in Int /\ NOTIONAL_DIVISOR \in Nat \ {0}
          BY <3>2, <3>3, ScaleAssumption
        <5>. QED
          BY Zenon, <2>3, <3>2, <5>1
      <4>. HIDE DEF x, y, b
      <4>2. NOTIONAL_DIVISOR * Abs(y) <= b + Share
        BY <3>2, <4>1, AbsGrows
      <4>. QED
        BY <4>2 DEF y, b
    <3>5. Updates' * Share = Updates * Share + Share
      BY <3>2, <3>3
    <3>. QED
      BY <3>2, <3>4, <3>5
  <2>7. CASE UNCHANGED vars
    <3>1. PaidAndOwed' = PaidAndOwed
      BY <2>1, <2>7 DEF vars, PaidAndOwed
    <3>. QED
      BY <3>1, <2>5
  <2>8. CASE Next
    <3>1. Outstanding(clearing', market') = Outstanding(clearing, market)
          \/ \E m \in Markets, rate \in Rates : UpdateFunding(m, rate)
      BY <1>2, <2>8, StepKeepsFunding
    <3>. QED
      BY <2>1, <2>5, <2>6, <3>1 DEF PaidAndOwed
  <2>. QED
    BY <1>2, <2>7, <2>8
<1>3. Nets => FundingIsZeroSum
  BY DEF FundingIsZeroSum, FundingDust, Updates, Share, PaidAndOwed, Outstanding, OwedIn, OwedBy, OwedAt
<1>. QED
  BY <1>1, <1>2, <1>3, IInvHolds, PTL DEF Spec

(***************************************************************************)
(* The pot.  The exchange's entry in units of size times price, plus every *)
(* open position at its entry: one application of a quantity moves this by *)
(* what it trades, up to the dust it records, and the two sides of a fill  *)
(* trade opposite amounts.  Nothing else touches it.                       *)
(***************************************************************************)
EntryValues(c, m) == [a \in Accounts |-> c.position[a][m].size * c.position[a][m].entry]
EntryCost(c)      == [m \in Markets |-> SumFunction(EntryValues(c, m))]

Pot(c) == NOTIONAL_DIVISOR * c.balance[Exchange] + SumFunction(EntryCost(c))

\* From c to d the pot moved by v, give or take the dust recorded on the way.
Drift(c, d, v) == Abs(Pot(d) - Pot(c) - v) <= d.dust - c.dust

LEMMA PotTypes ==
  ASSUME NEW c \in Clearing
  PROVE  /\ \A m \in Markets : EntryValues(c, m) \in [Accounts -> Int]
         /\ EntryCost(c) \in [Markets -> Int] /\ SumFunction(EntryCost(c)) \in Int
         /\ c.balance[Exchange] \in Int /\ c.dust \in Nat /\ Pot(c) \in Int
<1>1. ASSUME NEW a \in Accounts, NEW m \in Markets
      PROVE  c.position[a][m].size * c.position[a][m].entry \in Int
  <2>1. c.position[a][m].size \in Int /\ c.position[a][m].entry \in Int
    BY DEF Clearing, Position
  <2>. QED
    BY <2>1
<1>2. \A m \in Markets : EntryValues(c, m) \in [Accounts -> Int]
  BY <1>1 DEF EntryValues
<1>3. \A m \in Markets : SumFunction(EntryValues(c, m)) \in Int
  BY <1>2, FiniteAccounts, SumFunctionInt
<1>4. EntryCost(c) \in [Markets -> Int]
  BY <1>3 DEF EntryCost
<1>5. SumFunction(EntryCost(c)) \in Int
  BY <1>4, FiniteAccounts, SumFunctionInt
<1>6. c.balance[Exchange] \in Int /\ c.dust \in Nat
  BY WiredDistinct DEF Clearing
<1>7. NOTIONAL_DIVISOR * c.balance[Exchange] \in Int
  BY <1>6, ScaleAssumption
<1>. QED
  BY <1>2, <1>4, <1>5, <1>6, <1>7 DEF Pot

\* Only the positions and the exchange's own entry count.
LEMMA PotSame ==
  ASSUME NEW c, NEW d, d.position = c.position, d.balance[Exchange] = c.balance[Exchange]
  PROVE  Pot(d) = Pot(c)
<1>1. \A m \in Markets : EntryValues(d, m) = EntryValues(c, m)
  BY DEF EntryValues
<1>2. EntryCost(d) = EntryCost(c)
  BY <1>1 DEF EntryCost
<1>. QED
  BY <1>2 DEF Pot

LEMMA DriftSame ==
  ASSUME NEW b, NEW c, NEW d, NEW v, Drift(b, c, v),
         d.position = c.position, d.balance[Exchange] = c.balance[Exchange], d.dust = c.dust
  PROVE  Drift(b, d, v)
  BY PotSame DEF Drift

LEMMA NoDrift ==
  ASSUME NEW c \in Clearing
  PROVE  Drift(c, c, 0)
  BY PotTypes DEF Drift, Abs

LEMMA DriftAdds ==
  ASSUME NEW b \in Clearing, NEW c \in Clearing, NEW d \in Clearing,
         NEW v \in Int, NEW w \in Int, Drift(b, c, v), Drift(c, d, w),
         NEW x \in Int, x = v + w
  PROVE  Drift(b, d, x)
<1>. DEFINE p == Pot(b)
            q == Pot(c)
            r == Pot(d)
<1>1. /\ p \in Int /\ q \in Int /\ r \in Int
      /\ b.dust \in Int /\ c.dust \in Int /\ d.dust \in Int
  BY PotTypes
<1>2. Abs(q - p - v) <= c.dust - b.dust /\ Abs(r - q - w) <= d.dust - c.dust
  BY DEF Drift
<1>. HIDE DEF p, q, r
<1>3. Abs(r - p - x) <= d.dust - b.dust
  BY <1>1, <1>2 DEF Abs
<1>. QED
  BY <1>3 DEF Drift, p, r

\* What an application records covers what it rounds away.
LEMMA RoundingCovered ==
  ASSUME NEW size \in Int, NEW entry \in Nat, NEW delta \in Int \ {0}, NEW price \in Nat,
         NEW off, off = Rounding(size, entry, delta, price)
  PROVE  off \in Int /\ Abs(off) <= DustOf(size, delta)
<1>1. CASE size = 0 \/ (size > 0) = (delta > 0)
  <2>1. off \in Int /\ Abs(off) <= Abs(size + delta) - 1 /\ (size = 0 => off = 0)
    BY <1>1, GrowthKeepsValue
  <2>2. CASE size = 0
    BY <2>1, <2>2 DEF DustOf, Abs
  <2>3. CASE size # 0
    BY <1>1, <2>1, <2>3 DEF DustOf
  <2>. QED
    BY <2>2, <2>3
<1>2. CASE size # 0 /\ (size > 0) # (delta > 0)
  <2>1. off \in Int /\ Abs(off) <= NOTIONAL_DIVISOR - 1
    BY <1>2, CloseKeepsValue
  <2>. QED
    BY <1>2, <2>1 DEF DustOf
<1>. QED
  BY <1>1, <1>2

\* One application moves the pot by what it trades.
LEMMA ApplicationDrifts ==
  ASSUME market \in [Markets -> Market],
         NEW c \in Clearing, BooksMatch(c), NEW a \in Accounts, NEW m \in Markets,
         NEW delta \in Int \ {0}, NEW price \in Nat, NEW v \in Int, v = delta * price
  PROVE  LET d == ApplyPositionDelta(c, a, m, delta, price)
         IN  d \in Clearing /\ BooksMatch(d) /\ Drift(c, d, v)
<1>. DEFINE d      == ApplyPositionDelta(c, a, m, delta, price)
            size   == c.position[a][m].size
            entry  == c.position[a][m].entry
            moved  == MovePosition(size, entry, delta, price)
            off    == Rounding(size, entry, delta, price)
            before == EntryValues(c, m)
            after  == EntryValues(d, m)
<1>1. /\ Moved(c, d, a, m, delta)
      /\ d.balance[Exchange] = c.balance[Exchange] - moved.realized
      /\ d.position[a][m].entry = moved.entry
      /\ d.dust = c.dust + DustOf(size, delta)
  BY ApplyPositionDeltaMoves
<1>2. /\ d \in Clearing /\ BooksMatch(d) /\ d.position[a][m].size = size + delta
      /\ \A b \in Accounts, n \in Markets :
            <<b, n>> # <<a, m>> => d.position[b][n] = c.position[b][n]
  BY <1>1 DEF Moved
<1>. HIDE DEF d
<1>3. size \in Int /\ entry \in Nat
  BY DEF Clearing, Position
<1>. HIDE DEF size, entry
<1>4. moved.size = size + delta /\ moved.entry \in Nat /\ moved.realized \in Int
  BY <1>3, MovePositionType
<1>5. off \in Int /\ Abs(off) <= DustOf(size, delta)
  <2>1. PICK x : x = off
    OBVIOUS
  <2>. HIDE DEF off
  <2>2. x = Rounding(size, entry, delta, price)
    BY <2>1 DEF off
  <2>. QED
    BY <1>3, <2>1, <2>2, RoundingCovered
<1>6. /\ before[a] = size * entry /\ after[a] = moved.size * moved.entry
      /\ \A b \in Accounts \ {a} : after[b] = before[b]
      /\ \A n \in Markets \ {m} : EntryValues(d, n) = EntryValues(c, n)
  <2>. HIDE DEF moved
  <2>1. after[a] = d.position[a][m].size * d.position[a][m].entry
    BY DEF EntryValues
  <2>2. before[a] = size * entry
    BY DEF EntryValues, size, entry
  <2>3. \A b \in Accounts \ {a} : after[b] = before[b]
    BY <1>2 DEF EntryValues
  <2>4. \A n \in Markets \ {m} : EntryValues(d, n) = EntryValues(c, n)
    BY <1>2 DEF EntryValues
  <2>. QED
    BY <2>1, <2>2, <2>3, <2>4, <1>1, <1>2, <1>4
<1>7. /\ before \in [Accounts -> Int] /\ after \in [Accounts -> Int]
      /\ EntryCost(c) \in [Markets -> Int] /\ EntryCost(d) \in [Markets -> Int]
      /\ SumFunction(EntryCost(c)) \in Int
      /\ EntryCost(c)[m] = SumFunction(before) /\ EntryCost(d)[m] = SumFunction(after)
  BY <1>2, PotTypes DEF EntryCost
<1>8. \A n \in Markets \ {m} : EntryCost(d)[n] = EntryCost(c)[n]
  BY <1>6 DEF EntryCost
<1>. DEFINE old == size * entry
            new == moved.size * moved.entry
<1>9. old \in Int /\ new \in Int
  <2>. HIDE DEF moved
  <2>. QED
    BY <1>3, <1>4
<1>. HIDE DEF before, after
<1>10. SumFunction(after) = SumFunction(before) - before[a] + after[a] /\ SumFunction(before) \in Int
  BY <1>6, <1>7, FiniteAccounts, SumMoves, SumFunctionInt
<1>11. SumFunction(EntryCost(d)) = SumFunction(EntryCost(c)) - EntryCost(c)[m] + EntryCost(d)[m]
  <2>. DEFINE f == EntryCost(c)
              g == EntryCost(d)
  <2>1. f \in [Markets -> Int] /\ g \in [Markets -> Int] /\ \A n \in Markets \ {m} : g[n] = f[n]
    BY <1>7, <1>8
  <2>. HIDE DEF f, g
  <2>2. SumFunction(g) = SumFunction(f) - f[m] + g[m]
    BY <2>1, FiniteAccounts, SumMoves
  <2>. QED
    BY <2>2 DEF f, g
<1>12. PICK i \in Int : i = SumFunction(before)
  BY <1>10
<1>13. SumFunction(EntryCost(d)) = SumFunction(EntryCost(c)) - old + new
  <2>1. EntryCost(c)[m] = i /\ EntryCost(d)[m] = i - old + new
    BY <1>6, <1>7, <1>10, <1>12
  <2>. HIDE DEF old, new
  <2>. QED
    BY <1>7, <1>9, <1>11, <2>1
<1>. DEFINE paid == NOTIONAL_DIVISOR * moved.realized
            had  == NOTIONAL_DIVISOR * c.balance[Exchange]
<1>14. /\ paid \in Int /\ had \in Int
       /\ NOTIONAL_DIVISOR * d.balance[Exchange] = had - paid
  <2>. DEFINE x == moved.realized
              y == c.balance[Exchange]
  <2>1. x \in Int /\ y \in Int /\ d.balance[Exchange] = y - x
    BY <1>1, <1>4, PotTypes
  <2>. HIDE DEF x, y
  <2>. QED
    BY <2>1, ScaleAssumption DEF x, y
<1>15. off = paid + v + old - new
  BY <1>9 DEF Rounding
<1>16. Pot(d) - Pot(c) - v = -off
  <2>1. Pot(d) = (had - paid) + (SumFunction(EntryCost(c)) - old + new)
    BY <1>13, <1>14 DEF Pot
  <2>2. Pot(c) = had + SumFunction(EntryCost(c))
    BY DEF Pot
  <2>. HIDE DEF had, paid, old, new, off
  <2>. QED
    BY <2>1, <2>2, <1>7, <1>9, <1>14, <1>15
<1>17. Abs(Pot(d) - Pot(c) - v) <= d.dust - c.dust
  <2>1. c.dust \in Int /\ DustOf(size, delta) \in Int
    BY <1>3, DustNat, PotTypes
  <2>2. Abs(-off) = Abs(off)
    BY <1>5 DEF Abs
  <2>. HIDE DEF off
  <2>3. Abs(off) \in Int
    BY <1>5, AbsNat
  <2>. QED
    BY <1>1, <1>5, <1>16, <2>1, <2>2, <2>3
<1>. QED
  BY <1>2, <1>17 DEF Drift, d

\* The two sides of a fill trade opposite amounts.
LEMMA ExchangedDrifts ==
  ASSUME market \in [Markets -> Market],
         NEW c \in Clearing, BooksMatch(c), NEW a \in Accounts, NEW other \in Accounts,
         NEW m \in Markets, NEW delta \in Int \ {0}, NEW price \in Nat
  PROVE  LET d == Exchanged(c, a, other, m, delta, price)
         IN  d \in Clearing /\ BooksMatch(d) /\ Drift(c, d, 0)
<1>. DEFINE half == ApplyPositionDelta(c, a, m, delta, price)
            back == -delta
            d    == ApplyPositionDelta(half, other, m, back, price)
<1>1. PICK v \in Int : v = delta * price
  OBVIOUS
<1>2. PICK w \in Int : w = -v
  OBVIOUS
<1>3. back \in Int \ {0} /\ w = back * price
  BY <1>1, <1>2
<1>4. half \in Clearing /\ BooksMatch(half) /\ Drift(c, half, v)
  BY <1>1, ApplicationDrifts
<1>5. Exchanged(c, a, other, m, delta, price) = d
  BY DEF Exchanged
<1>. HIDE DEF half, back
<1>6. d \in Clearing /\ BooksMatch(d) /\ Drift(half, d, w)
  BY <1>3, <1>4, ApplicationDrifts
<1>. HIDE DEF d
<1>7. Drift(c, d, 0)
  <2>1. PICK x \in Int : x = 0
    OBVIOUS
  <2>2. x = v + w
    BY <1>2, <2>1
  <2>3. Drift(c, d, x)
    BY <1>4, <1>6, <2>2, DriftAdds
  <2>. QED
    BY <2>1, <2>3
<1>. QED
  BY <1>5, <1>6, <1>7

\* Closes against the backstop, one or two of them.
LEMMA CloseDrifts ==
  ASSUME market \in [Markets -> Market],
         NEW c \in Clearing, BooksMatch(c), NEW a \in Accounts, NEW m \in Markets,
         NEW qty \in Int \ {0}, NEW mark \in Nat
  PROVE  LET d == CloseAgainstBackstop(c, a, m, qty, mark)
         IN  d \in Clearing /\ BooksMatch(d) /\ Drift(c, d, 0)
<1>. DEFINE delta == IF c.position[a][m].size > 0 THEN -qty ELSE qty
<1>1. delta \in Int \ {0}
  OBVIOUS
<1>2. CloseAgainstBackstop(c, a, m, qty, mark) = Exchanged(c, a, Backstop, m, delta, mark)
  BY DEF CloseAgainstBackstop
<1>. HIDE DEF delta
<1>. QED
  BY <1>1, <1>2, ExchangedDrifts, WiredDistinct

LEMMA CloseOutDrifts ==
  ASSUME market \in [Markets -> Market],
         NEW c \in Clearing, BooksMatch(c), NEW a \in Accounts, NEW m \in Markets,
         NEW qty \in Int \ {0}, NEW mark \in Nat
  PROVE  LET d == CloseOut(c, a, m, qty, mark).after
         IN  d \in Clearing /\ Drift(c, d, 0)
<1>. DEFINE part  == CloseAgainstBackstop(c, a, m, qty, mark)
            rest  == Abs(part.position[a][m].size)
            whole == CloseAgainstBackstop(part, a, m, rest, mark)
            d     == CloseOut(c, a, m, qty, mark).after
<1>1. part \in Clearing /\ BooksMatch(part) /\ Drift(c, part, 0)
  BY CloseDrifts
<1>2. d = IF part.balance[a] < 0 /\ rest # 0 THEN whole ELSE part
  BY DEF CloseOut
<1>. HIDE DEF part, d
<1>3. rest \in Int
  BY <1>1, SizeInt, AbsNat
<1>. HIDE DEF rest
<1>4. rest # 0 => whole \in Clearing /\ Drift(part, whole, 0)
  BY <1>1, <1>3, CloseDrifts
<1>. HIDE DEF whole
<1>5. rest # 0 => Drift(c, whole, 0)
  <2>1. PICK x \in Int : x = 0
    OBVIOUS
  <2>2. x = x + x
    BY <2>1
  <2>3. rest # 0 => Drift(c, whole, x)
    BY <1>1, <1>4, <2>1, <2>2, DriftAdds
  <2>. QED
    BY <2>1, <2>3
<1>. QED
  BY <1>1, <1>2, <1>4, <1>5 DEF d

\* Transfers between other entries leave the exchange's alone.
LEMMA TransferSparesExchange ==
  ASSUME NEW c \in Clearing, NEW from \in Holders \ {Exchange}, NEW to \in Holders \ {Exchange},
         NEW amount \in Int
  PROVE  LET d == Transfer(c, from, to, amount)
         IN  /\ d \in Clearing /\ d.position = c.position /\ d.dust = c.dust
             /\ d.balance[Exchange] = c.balance[Exchange]
<1>. DEFINE d == Transfer(c, from, to, amount)
<1>1. Paid(c, d) /\ \A h \in Holders \ {from, to} : d.balance[h] = c.balance[h]
  BY TransferType
<1>. HIDE DEF d
<1>2. Exchange \in Holders \ {from, to}
  BY WiredDistinct
<1>3. /\ d \in Clearing /\ d.position = c.position /\ d.dust = c.dust
      /\ d.balance[Exchange] = c.balance[Exchange]
  BY <1>1, <1>2 DEF Paid, SameBooks
<1>. QED
  BY <1>3 DEF d

\* Into or out of the exchange's entry.
LEMMA TransferMovesExchange ==
  ASSUME NEW c \in Clearing, NEW h \in Holders \ {Exchange}, NEW amount \in Int
  PROVE  /\ LET d == Transfer(c, h, Exchange, amount)
            IN  /\ d \in Clearing /\ d.position = c.position /\ d.dust = c.dust
                /\ d.balance[Exchange] = c.balance[Exchange] + amount
         /\ LET d == Transfer(c, Exchange, h, amount)
            IN  /\ d \in Clearing /\ d.position = c.position /\ d.dust = c.dust
                /\ d.balance[Exchange] = c.balance[Exchange] - amount
<1>. DEFINE in  == Transfer(c, h, Exchange, amount)
            out == Transfer(c, Exchange, h, amount)
<1>1. Exchange \in Holders
  BY WiredDistinct
<1>2. Paid(c, in) /\ in.balance[Exchange] = c.balance[Exchange] + amount
  BY <1>1, TransferType
<1>3. Paid(c, out) /\ out.balance[Exchange] = c.balance[Exchange] - amount
  BY <1>1, TransferType
<1>. HIDE DEF in, out
<1>4. /\ in \in Clearing /\ in.position = c.position /\ in.dust = c.dust
      /\ in.balance[Exchange] = c.balance[Exchange] + amount
  BY <1>2 DEF Paid, SameBooks
<1>5. /\ out \in Clearing /\ out.position = c.position /\ out.dust = c.dust
      /\ out.balance[Exchange] = c.balance[Exchange] - amount
  BY <1>3 DEF Paid, SameBooks
<1>. QED
  BY <1>4, <1>5 DEF in, out

\* A maker's rebate is paid out of the taker's fee and the net leaves at once.
LEMMA PayFeesSparesExchange ==
  ASSUME market \in [Markets -> Market],
         NEW c \in Clearing, NEW taker \in Accounts, NEW maker \in Accounts,
         NEW m \in Markets, NEW n \in Nat
  PROVE  LET d == PayFees(c, taker, maker, m, n)
         IN  /\ d.position = c.position /\ d.dust = c.dust
             /\ d.balance[Exchange] = c.balance[Exchange]
<1>. DEFINE takerFee == TakerFee(n, market[m].params.takerBps)
            makerFee == IF maker = Backstop THEN 0 ELSE MakerFee(n, market[m].params.makerBps)
            net      == IF takerFee + makerFee > 0 THEN takerFee + makerFee ELSE 0
            toFund   == (net * FeeToInsuranceBps) \div BPS
            toHouse  == net - toFund
            first    == Transfer(c, taker, Exchange, takerFee)
            charged  == Transfer(first, maker, Exchange, makerFee)
            third    == Transfer(charged, Exchange, InsuranceFund, toFund)
            d        == Transfer(third, Exchange, Treasury, toHouse)
<1>1. /\ market[m].params.takerBps \in Nat /\ market[m].params.makerBps \in Int
      /\ market[m].params.makerBps >= -market[m].params.takerBps
  BY ClearingAssumption DEF Market, Params, ValidParams
<1>2. /\ takerFee \in Int /\ makerFee \in Int
      /\ takerFee + makerFee >= 0
  <2>. DEFINE t == market[m].params.takerBps
              k == market[m].params.makerBps
  <2>1. t \in Nat /\ k \in Int /\ k >= -t
    BY <1>1
  <2>. HIDE DEF t, k
  <2>2. TakerFee(n, t) \in Int /\ MakerFee(n, k) \in Int /\ TakerFee(n, t) >= 0
    <3>1. n * t \in Nat
      BY <2>1
    <3>2. (n * t) \div BPS \in Nat
      BY <3>1, NatDiv, ScaleAssumption
    <3>. QED
      BY <2>1, <3>2, FeesInt DEF TakerFee
  <2>3. TakerFee(n, t) + MakerFee(n, k) >= 0
    <3>1. CASE k >= 0
      <4>1. n * k \in Nat
        BY <2>1, <3>1
      <4>2. MakerFee(n, k) = (n * k) \div BPS
        BY <4>1 DEF MakerFee, TruncDiv
      <4>3. (n * k) \div BPS \in Nat
        BY <4>1, NatDiv, ScaleAssumption
      <4>. QED
        BY <2>2, <4>2, <4>3
    <3>2. CASE k < 0
      <4>1. PICK r \in Nat : r = -k
        BY <2>1, <3>2
      <4>2. r <= t /\ k = -r
        BY <2>1, <4>1
      <4>3. TakerFee(n, t) + MakerFee(n, -r) >= 0
        BY <2>1, <4>2, NetFeeNeverNegative
      <4>. QED
        BY <4>2, <4>3
    <3>. QED
      BY <2>1, <3>1, <3>2
  <2>. QED
    BY <2>2, <2>3 DEF t, k
<1>. HIDE DEF takerFee, makerFee
<1>3. net = takerFee + makerFee /\ net \in Int
  BY <1>2
<1>. HIDE DEF net
<1>4. toFund \in Int
  <2>1. FeeToInsuranceBps \in Int
    BY ClearingAssumption
  <2>2. net * FeeToInsuranceBps \in Int
    BY <1>3, <2>1
  <2>. QED
    BY <2>2, IntDiv, ScaleAssumption
<1>. HIDE DEF toFund
<1>5. toHouse = net - toFund
  OBVIOUS
<1>15. toHouse \in Int
  BY <1>3, <1>4
<1>. HIDE DEF toHouse
<1>6. /\ taker \in Holders \ {Exchange} /\ maker \in Holders \ {Exchange}
      /\ InsuranceFund \in Holders \ {Exchange} /\ Treasury \in Holders \ {Exchange}
  BY WiredDistinct
<1>7. /\ first \in Clearing /\ first.position = c.position /\ first.dust = c.dust
      /\ first.balance[Exchange] = c.balance[Exchange] + takerFee
  BY <1>2, <1>6, TransferMovesExchange
<1>. HIDE DEF first
<1>8. /\ charged \in Clearing /\ charged.position = first.position /\ charged.dust = first.dust
      /\ charged.balance[Exchange] = first.balance[Exchange] + makerFee
  BY <1>2, <1>6, <1>7, TransferMovesExchange
<1>. HIDE DEF charged
<1>9. /\ third \in Clearing /\ third.position = charged.position /\ third.dust = charged.dust
      /\ third.balance[Exchange] = charged.balance[Exchange] - toFund
  BY <1>4, <1>6, <1>8, TransferMovesExchange
<1>. HIDE DEF third
<1>10. /\ d \in Clearing /\ d.position = third.position /\ d.dust = third.dust
       /\ d.balance[Exchange] = third.balance[Exchange] - toHouse
  <2>1. Treasury \in Holders \ {Exchange}
    BY <1>6
  <2>. QED
    BY <1>15, <1>9, <2>1, TransferMovesExchange
<1>11. PayFees(c, taker, maker, m, n) = d
  BY DEF PayFees, d, third, charged, first, toHouse, toFund, net, takerFee, makerFee
<1>. HIDE DEF d
<1>12. c.balance[Exchange] \in Int
  BY PotTypes
<1>13. d.balance[Exchange] = c.balance[Exchange]
  <2>1. d.balance[Exchange]
          = (((c.balance[Exchange] + takerFee) + makerFee) - toFund) - toHouse
    BY <1>7, <1>8, <1>9, <1>10
  <2>. QED
    BY <2>1, <1>2, <1>3, <1>4, <1>5, <1>12
<1>14. d.position = c.position /\ d.dust = c.dust
  BY <1>7, <1>8, <1>9, <1>10
<1>. QED
  BY <1>11, <1>13, <1>14

LEMMA LiquidateDrifts ==
  ASSUME IInv, NEW liquidator \in Traders \cup {Keeper}, NEW a \in Accounts, NEW m \in Markets,
         Liquidate(liquidator, a, m)
  PROVE  Drift(clearing, clearing', 0)
<1>. DEFINE out == CloseOut(clearing, a, m,
                     LiquidationQty(Abs(clearing.position[a][m].size), market[m].params, Mark(m)),
                     Mark(m))
            qty == LiquidationQty(Abs(clearing.position[a][m].size), market[m].params, Mark(m))
            pays == MarginOf(Notional(out.closed, Mark(m)), market[m].params.liquidationFeeBps)
<1>1. /\ TypeOK /\ clearing \in Clearing /\ BooksMatch(clearing)
      /\ market \in [Markets -> Market]
  BY BooksMatchNow DEF IInv, TypeOK, BooksHold
<1>2. market[m].params \in Params /\ ValidParams(market[m].params) /\ Mark(m) \in Nat
  BY <1>1, MarketTypes
<1>3. qty \in Int \ {0}
  <2>1. clearing.position[a][m].size \in Int /\ clearing.position[a][m].size # 0
    BY <1>1, SizeInt DEF Liquidate
  <2>2. Abs(clearing.position[a][m].size) \in Nat \ {0}
    BY <2>1, AbsNat
  <2>. QED
    BY <2>2, <1>2, LiquidationQtyType
<1>. HIDE DEF qty
<1>4. /\ out.after \in Clearing
      /\ Drift(clearing, out.after, 0)
      /\ out.closed \in Int
  <2>. DEFINE mark == Mark(m)
  <2>1. mark \in Nat
    BY <1>2
  <2>. HIDE DEF mark
  <2>2. /\ CloseOut(clearing, a, m, qty, mark).after \in Clearing
        /\ Drift(clearing, CloseOut(clearing, a, m, qty, mark).after, 0)
    BY <1>1, <1>3, <2>1, CloseOutDrifts
  <2>3. CloseOut(clearing, a, m, qty, mark).closed \in Int
    BY <1>1, <1>3, <2>1, CloseOutType
  <2>. QED
    BY <2>2, <2>3 DEF qty, mark
<1>5. pays \in Int
  <2>. DEFINE mark   == Mark(m)
              traded == out.closed
  <2>0. traded \in Int /\ mark \in Nat
    BY <1>2, <1>4
  <2>. HIDE DEF out, traded, mark
  <2>1. Notional(traded, mark) \in Int
    BY <2>0, NotionalInt
  <2>2. market[m].params.liquidationFeeBps \in Int
    BY <1>2 DEF Params
  <2>3. MarginOf(Notional(traded, mark), market[m].params.liquidationFeeBps) \in Int
    BY <2>1, <2>2, FeesInt
  <2>. QED
    BY <2>3 DEF traded, mark
<1>6. /\ a \in Holders \ {Exchange} /\ liquidator \in Holders \ {Exchange}
      /\ InsuranceFund \in Holders \ {Exchange}
  BY WiredDistinct
<1>7. /\ clearing'.position = out.after.position
      /\ clearing'.dust = out.after.dust
      /\ clearing'.balance[Exchange] = out.after.balance[Exchange]
  <2>. DEFINE after   == out.after
              fee     == MarginOf(Notional(out.closed, Mark(m)), market[m].params.liquidationFeeBps)
              charged == Transfer(after, a, liquidator, fee)
              debt    == Shorts(charged.balance[a])
              fund    == Longs(charged.balance[InsuranceFund])
              used    == IF fund < debt THEN fund ELSE debt
  <2>1. clearing' = Transfer(charged, InsuranceFund, a, used)
    BY DEF Liquidate
  <2>2. after \in Clearing /\ fee \in Int
    BY <1>4, <1>5
  <2>. HIDE DEF after, fee
  <2>3. charged \in Clearing
    BY <1>6, <2>2, TransferSparesExchange
  <2>4. /\ charged.position = after.position /\ charged.dust = after.dust
        /\ charged.balance[Exchange] = after.balance[Exchange]
    BY <1>6, <2>2, TransferSparesExchange
  <2>. HIDE DEF charged
  <2>5. charged.balance[a] \in Int /\ charged.balance[InsuranceFund] \in Int
    BY <1>6, <2>3 DEF Clearing
  <2>6. used \in Int
    BY <2>5 DEF Longs, Shorts
  <2>. HIDE DEF used
  <2>7. /\ clearing'.position = charged.position /\ clearing'.dust = charged.dust
        /\ clearing'.balance[Exchange] = charged.balance[Exchange]
    BY <2>1, <1>6, <2>3, <2>6, TransferSparesExchange
  <2>. QED
    BY <2>4, <2>7 DEF after
<1>. HIDE DEF out
<1>. QED
  BY <1>4, <1>7, DriftSame

LEMMA DeleverageDrifts ==
  ASSUME IInv, AutoDeleverage
  PROVE  Drift(clearing, clearing', 0)
<1>1. call \in Adl
  BY DeleverageStep
<1>2. PICK best \in Accounts :
        /\ clearing.position[best][call.market].size # 0
        /\ Deleverage(best)
  BY DeleverageStep
<1>. DEFINE m      == call.market
            mark   == call.mark
            needed == call.needed
            broke  == call.bankrupt
            qty    == Abs(clearing.position[best][m].size)
            closed == CloseAgainstBackstop(clearing, best, m, qty, mark)
            gained == Longs(closed.balance[best] - clearing.balance[best])
            take   == AdlTake(gained, needed)
<1>3. /\ clearing \in Clearing /\ BooksMatch(clearing) /\ market \in [Markets -> Market]
  BY BooksMatchNow DEF IInv, TypeOK, BooksHold
<1>4. m \in Markets /\ mark \in Nat /\ needed \in Nat /\ broke \in Accounts
  BY <1>1 DEF Adl
<1>5. qty \in Int \ {0}
  BY <1>2, <1>3, <1>4, SizeInt, AbsNat
<1>6. clearing' = Transfer(closed, best, broke, take)
  BY <1>2 DEF Deleverage
<1>. HIDE DEF m, mark, qty, needed, broke
<1>7. closed \in Clearing /\ Drift(clearing, closed, 0)
  BY <1>3, <1>4, <1>5, CloseDrifts
<1>. HIDE DEF closed
<1>8. best \in Holders \ {Exchange} /\ broke \in Holders \ {Exchange}
  BY <1>4, WiredDistinct
<1>9. take \in Int
  <2>1. closed.balance[best] \in Int /\ clearing.balance[best] \in Int
    BY <1>3, <1>7, <1>8 DEF Clearing
  <2>2. gained \in Int
    BY <2>1 DEF Longs
  <2>. HIDE DEF gained
  <2>. QED
    BY <1>4, <2>2 DEF AdlTake
<1>. HIDE DEF take
<1>10. /\ clearing'.position = closed.position /\ clearing'.dust = closed.dust
       /\ clearing'.balance[Exchange] = closed.balance[Exchange]
  BY <1>6, <1>7, <1>8, <1>9, TransferSparesExchange
<1>. QED
  BY <1>7, <1>10, DriftSame

\* Every step but a settlement leaves the pot where it was, give or take its dust.
LEMMA StepDrifts ==
  ASSUME IInv, Next
  PROVE  \/ Drift(clearing, clearing', 0) /\ settled' = settled
         \/ \E a \in Accounts, m \in Markets : SettlePosition(a, m)
<1>. DEFINE Kept == Drift(clearing, clearing', 0) /\ settled' = settled
<1>1. TypeOK /\ clearing \in Clearing /\ BooksMatch(clearing) /\ market \in [Markets -> Market]
  BY BooksMatchNow DEF IInv, TypeOK, BooksHold
<1>2. ASSUME clearing' = clearing, settled' = settled PROVE Kept
  BY <1>1, <1>2, NoDrift
<1>3. ASSUME NEW maker \in Accounts, NEW qty \in Nat \ {0}, NEW price \in Nat,
             call \in Sweep, Fill(maker, qty, price)
      PROVE  Drift(clearing, clearing', 0)
  <2>. DEFINE m     == call.market
              taker == call.taker
              delta == call.side * qty
              both  == Exchanged(clearing, taker, maker, m, delta, price)
              n     == Notional(qty, price)
  <2>1. /\ m \in Markets /\ taker \in Accounts /\ delta \in Int \ {0}
    BY <1>3, WiredDistinct DEF Sweep
  <2>2. clearing' = PayFees(both, taker, maker, m, n)
    BY <1>3 DEF Fill
  <2>. HIDE DEF m, taker, delta
  <2>3. both \in Clearing /\ Drift(clearing, both, 0)
    BY <1>1, <2>1, ExchangedDrifts
  <2>. HIDE DEF both
  <2>4. n \in Nat
    <3>1. qty * price \in Nat
      BY <1>3
    <3>. QED
      BY <3>1, NatDiv, ScaleAssumption DEF Notional
  <2>. HIDE DEF n
  <2>5. /\ clearing'.position = both.position /\ clearing'.dust = both.dust
        /\ clearing'.balance[Exchange] = both.balance[Exchange]
    BY <1>1, <2>1, <2>2, <2>3, <2>4, PayFeesSparesExchange
  <2>. QED
    BY <2>3, <2>5, DriftSame
<1>4. CASE UserStep
  <2>1. ASSUME NEW a \in Accounts, InitializeAccount(a) PROVE Kept
    BY <1>2, <2>1 DEF InitializeAccount
  <2>2. ASSUME NEW a \in Accounts, NEW n \in Amounts, Deposit(a, n) \/ Withdraw(a, n)
        PROVE  Kept
    <3>1. a # Exchange
      BY WiredDistinct
    <3>2. \A k : /\ Credit(clearing, a, k).position = clearing.position
                 /\ Credit(clearing, a, k).dust = clearing.dust
                 /\ Credit(clearing, a, k).balance[Exchange] = clearing.balance[Exchange]
      BY <1>1, <3>1 DEF Credit, Clearing
    <3>3. /\ settled' = settled /\ clearing'.position = clearing.position
          /\ clearing'.dust = clearing.dust
          /\ clearing'.balance[Exchange] = clearing.balance[Exchange]
      BY <2>2, <3>2 DEF Deposit, Withdraw
    <3>. QED
      BY <1>1, <3>3, NoDrift, DriftSame
  <2>3. ASSUME NEW a \in Traders, NEW m \in Markets, NEW side \in {1, -1},
               NEW qty \in Quantities, NEW limit \in Prices \cup {0},
               PlaceOrder(a, m, side, qty, limit) \/ TriggerOrder(a, m, side, qty, limit)
        PROVE  Kept
    BY <1>2, <2>3 DEF PlaceOrder, TriggerOrder, Execute
  <2>4. ASSUME NEW a \in Accounts, NEW m \in Markets, NEW liquidator \in Traders \cup {Keeper},
               Liquidate(liquidator, a, m)
        PROVE  Kept
    <3>1. settled' = settled
      BY Zenon, <2>4 DEF Liquidate
    <3>. QED
      BY <2>4, <3>1, LiquidateDrifts
  <2>5. ASSUME NEW m \in Markets, NEW rate \in Rates, UpdateFunding(m, rate) PROVE Kept
    BY <1>2, <2>5 DEF UpdateFunding
  <2>. HIDE DEF Kept
  <2>. QED
    BY <1>4, <2>1, <2>2, <2>3, <2>4, <2>5 DEF UserStep, Kept
<1>5. CASE CallStep
  <2>1. ASSUME NEW maker \in Traders, NEW qty \in Quantities, NEW price \in Prices,
               FillFromBook(maker, qty, price)
        PROVE  Kept
    <3>1. call \in Sweep
      BY <1>1, <2>1 DEF TypeOK, FillFromBook, Idle, Adl
    <3>2. maker \in Accounts /\ qty \in Nat \ {0} /\ price \in Nat
      BY WiredDistinct, ClearingAssumption
    <3>. QED
      BY <1>3, <2>1, <3>1, <3>2 DEF FillFromBook
  <2>2. ASSUME FillFromBackstop PROVE Kept
    <3>. DEFINE price == BackstopQuote(call.market, call.side)
                qty   == IF call.left < call.backstopLeft THEN call.left ELSE call.backstopLeft
    <3>1. call \in Sweep
      BY <1>1, <2>2 DEF TypeOK, FillFromBackstop, Idle, Adl
    <3>2. qty > 0 /\ price > 0 /\ Fill(Backstop, qty, price) /\ settled' = settled
      BY <2>2 DEF FillFromBackstop
    <3>3. qty \in Nat
      BY <3>1 DEF Sweep
    <3>4. price \in Int
      BY <1>1, <3>1, BackstopQuoteInt
    <3>. HIDE DEF price, qty
    <3>5. qty \in Nat \ {0} /\ price \in Nat
      BY <3>2, <3>3, <3>4
    <3>. QED
      BY <1>3, <3>1, <3>2, <3>5, WiredDistinct
  <2>3. ASSUME AutoDeleverage PROVE Kept
    BY <2>3, DeleverageDrifts DEF AutoDeleverage
  <2>4. ASSUME EndSweep \/ EndLiquidation PROVE Kept
    BY <1>2, <2>4 DEF EndSweep, EndLiquidation
  <2>. QED
    BY <1>5, <2>1, <2>2, <2>3, <2>4 DEF CallStep
<1>6. CASE AdminStep
  BY <1>2, <1>6 DEF AdminStep, MoveIndex, SetPaused, SetMarketStatus, SetMarketParams
<1>. QED
  BY <1>4, <1>5, <1>6 DEF Next

\* What settlement paid out at its price.
SettledValues(paid) == [m \in Markets |-> paid[m].value]

\* A settlement moves the pot by the worth it takes out of it, which it adds to `settled`.
LEMMA SettlementDrifts ==
  ASSUME IInv, NEW a \in Accounts, NEW m \in Markets, SettlePosition(a, m)
  PROVE  \E v \in Int :
           /\ Drift(clearing, clearing', v)
           /\ SumFunction(SettledValues(settled')) = SumFunction(SettledValues(settled)) - v
<1>. DEFINE size  == clearing.position[a][m].size
            delta == -size
            price == market[m].settlementPrice
            paid  == [closes |-> settled[m].closes + 1, size |-> settled[m].size + size,
                      value |-> settled[m].value + size * price]
            f     == SettledValues(settled)
            g     == SettledValues(settled')
<1>1. /\ TypeOK /\ clearing \in Clearing /\ BooksMatch(clearing)
      /\ market \in [Markets -> Market]
      /\ settled \in [Markets -> [closes: Nat, size: Int, value: Int]]
  BY BooksMatchNow DEF IInv, TypeOK, BooksHold
<1>2. /\ size # 0 /\ clearing' = ApplyPositionDelta(clearing, a, m, delta, price)
      /\ settled' = [settled EXCEPT ![m] = paid]
  BY DEF SettlePosition
<1>3. size \in Int /\ price \in Nat
  BY <1>1, SizeInt, MarketTypes
<1>. HIDE DEF size, price
<1>4. delta \in Int \ {0}
  BY <1>2, <1>3
<1>. HIDE DEF delta
<1>5. PICK v \in Int : v = delta * price
  BY <1>3, <1>4
<1>6. Drift(clearing, clearing', v)
  BY <1>1, <1>2, <1>3, <1>4, <1>5, ApplicationDrifts
<1>7. f[m] \in Int /\ paid.value = f[m] - v
  <2>1. PICK w \in Int : w = size * price
    BY <1>3
  <2>2. v = -w
    BY <1>3, <1>5, <2>1 DEF delta
  <2>3. f[m] = settled[m].value /\ settled[m].value \in Int /\ paid.value = settled[m].value + w
    BY <1>1, <2>1 DEF SettledValues
  <2>. QED
    BY <2>2, <2>3
<1>. HIDE DEF paid
<1>8. /\ f \in [Markets -> Int] /\ g \in [Markets -> Int]
      /\ g[m] = paid.value /\ \A n \in Markets \ {m} : g[n] = f[n]
  <2>1. /\ f \in [Markets -> Int] /\ \A n \in Markets \ {m} : g[n] = f[n] /\ g[m] = paid.value
    BY <1>1, <1>2 DEF SettledValues
  <2>2. g[m] = paid.value
    BY <1>1, <1>2 DEF SettledValues
  <2>3. g = [n \in Markets |-> g[n]]
    BY DEF SettledValues
  <2>4. \A n \in Markets : g[n] \in Int
    BY <1>7, <2>1, <2>2
  <2>. HIDE DEF f, g
  <2>. QED
    BY <2>1, <2>2, <2>3, <2>4
<1>. HIDE DEF f, g
<1>9. SumFunction(g) = SumFunction(f) - f[m] + g[m] /\ SumFunction(f) \in Int
  BY <1>8, FiniteAccounts, SumMoves, SumFunctionInt
<1>10. SumFunction(g) = SumFunction(f) - v
  BY <1>5, <1>7, <1>8, <1>9
<1>. QED
  BY <1>6, <1>10 DEF f, g

(***************************************************************************)
(* The exchange's entry, the open positions at entry and the settled       *)
(* worth cancel, up to the roundings that were made: no order of fills,    *)
(* flips, fees, rebates, funding, liquidations, deleveraging and           *)
(* settlements, however long, takes more out of the entry that pays every  *)
(* gain than one rounding for each division of _applyPositionDelta.        *)
(***************************************************************************)
THEOREM PotHolds == Spec => []PotBacksPnl
<1>. DEFINE Backed == Abs(Pot(clearing) + SumFunction(SettledValues(settled))) <= clearing.dust
<1>1. Init => Backed
  <2>. SUFFICES ASSUME Init PROVE Backed
    OBVIOUS
  <2>1. IInv
    BY InitIInv
  <2>2. /\ clearing.balance[Exchange] = 0 /\ clearing.dust = 0
        /\ \A a \in Accounts, m \in Markets : clearing.position[a][m] = Flat
        /\ \A m \in Markets : settled[m] = NothingSettled
    BY WiredDistinct DEF Init
  <2>3. ASSUME NEW m \in Markets PROVE SumFunction(EntryValues(clearing, m)) = 0
    <3>1. /\ EntryValues(clearing, m) \in [Accounts -> Int]
          /\ \A a \in Accounts : EntryValues(clearing, m)[a] = 0
      BY <2>2 DEF EntryValues, Flat
    <3>. QED
      BY <3>1, FiniteAccounts, SumOfZeros
  <2>4. /\ EntryCost(clearing) \in [Markets -> Int]
        /\ \A m \in Markets : EntryCost(clearing)[m] = 0
    BY <2>3 DEF EntryCost
  <2>5. /\ SettledValues(settled) \in [Markets -> Int]
        /\ \A m \in Markets : SettledValues(settled)[m] = 0
    BY <2>2 DEF SettledValues, NothingSettled
  <2>6. SumFunction(EntryCost(clearing)) = 0 /\ SumFunction(SettledValues(settled)) = 0
    BY <2>4, <2>5, FiniteAccounts, SumOfZeros
  <2>7. Pot(clearing) = 0
    BY <2>2, <2>6, ScaleAssumption DEF Pot
  <2>. QED
    BY <2>2, <2>6, <2>7 DEF Abs
<1>2. ASSUME IInv, IInv', Backed, [Next]_vars PROVE Backed'
  <2>. DEFINE p == Pot(clearing)
              q == Pot(clearing')
              s == SumFunction(SettledValues(settled))
              t == SumFunction(SettledValues(settled'))
  <2>1. Backed' <=> Abs(q + t) <= clearing'.dust
    BY DEF Pot, EntryCost, EntryValues, SettledValues
  <2>2. /\ clearing \in Clearing /\ clearing' \in Clearing
        /\ settled \in [Markets -> [closes: Nat, size: Int, value: Int]]
    BY <1>2 DEF IInv, TypeOK
  <2>3. p \in Int /\ q \in Int /\ clearing.dust \in Int /\ clearing'.dust \in Int
    <3>1. PICK d : d = clearing'
      OBVIOUS
    <3>2. d \in Clearing
      BY <2>2, <3>1
    <3>3. Pot(d) \in Int /\ d.dust \in Int
      BY <3>2, PotTypes
    <3>. QED
      BY <2>2, <3>1, <3>3, PotTypes
  <2>4. s \in Int
    <3>1. SettledValues(settled) \in [Markets -> Int]
      BY <2>2 DEF SettledValues
    <3>. QED
      BY <3>1, FiniteAccounts, SumFunctionInt
  <2>5. \E v \in Int : Drift(clearing, clearing', v) /\ t = s - v
    <3>1. CASE UNCHANGED vars
      <4>1. clearing' = clearing /\ settled' = settled
        BY <3>1 DEF vars
      <4>2. Drift(clearing, clearing', 0) /\ t = s
        BY <2>2, <4>1, NoDrift
      <4>. HIDE DEF s, t
      <4>3. t = s - 0
        BY <2>4, <4>2
      <4>. QED
        BY <4>2, <4>3
    <3>2. CASE Next
      <4>1. CASE Drift(clearing, clearing', 0) /\ settled' = settled
        <5>1. t = s
          BY <4>1
        <5>. HIDE DEF s, t
        <5>2. t = s - 0
          BY <2>4, <5>1
        <5>. QED
          BY <4>1, <5>2
      <4>2. ASSUME NEW a \in Accounts, NEW m \in Markets, SettlePosition(a, m)
            PROVE  \E v \in Int : Drift(clearing, clearing', v) /\ t = s - v
        BY <1>2, <4>2, SettlementDrifts
      <4>. QED
        BY <1>2, <3>2, <4>1, <4>2, StepDrifts
    <3>. QED
      BY <1>2, <3>1, <3>2
  <2>6. PICK v \in Int : Drift(clearing, clearing', v) /\ t = s - v
    BY <2>5
  <2>7. Abs(p + s) <= clearing.dust /\ Abs(q - p - v) <= clearing'.dust - clearing.dust
    BY <1>2, <2>6 DEF Drift
  <2>. HIDE DEF p, q, s, t
  <2>8. Abs(q + t) <= clearing'.dust
    BY <2>3, <2>4, <2>6, <2>7 DEF Abs
  <2>. QED
    BY <2>1, <2>8
<1>3. ASSUME IInv, Backed PROVE PotBacksPnl
  <2>. DEFINE f == EntryCost(clearing)
              g == SettledValues(settled)
              h == [m \in Markets |-> EntryValue(m) + settled[m].value]
  <2>1. /\ clearing \in Clearing
        /\ settled \in [Markets -> [closes: Nat, size: Int, value: Int]]
    BY <1>3 DEF IInv, TypeOK
  <2>2. f \in [Markets -> Int] /\ SumFunction(f) \in Int /\ clearing.balance[Exchange] \in Int
    BY <2>1, PotTypes
  <2>3. g \in [Markets -> Int]
    BY <2>1 DEF SettledValues
  <2>4. \A m \in Markets : EntryValue(m) = f[m] /\ settled[m].value = g[m]
    BY DEF EntryValue, EntryCost, EntryValues, SettledValues
  <2>5. \A m \in Markets : h[m] = f[m] + g[m]
    BY <2>4
  <2>6. h \in [Markets -> Int]
    BY <2>2, <2>3, <2>4
  <2>. HIDE DEF f, g, h
  <2>7. SumFunction(g) \in Int
    BY <2>3, FiniteAccounts, SumFunctionInt
  <2>8. SumFunction(h) = SumFunction(f) + SumFunction(g)
    <3>1. PICK k \in Int : k = 1
      OBVIOUS
    <3>2. \A m \in Markets : h[m] = f[m] + k * g[m]
      BY <2>2, <2>3, <2>5, <3>1
    <3>3. SumFunction(h) = SumFunction(f) + k * SumFunction(g)
      BY <2>2, <2>3, <2>6, <3>2, FiniteAccounts, SumPlus
    <3>. QED
      BY <2>7, <3>1, <3>3
  <2>. DEFINE b == NOTIONAL_DIVISOR * clearing.balance[Exchange]
  <2>9. b \in Int
    BY <2>2, ScaleAssumption
  <2>10. Abs((b + SumFunction(f)) + SumFunction(g)) <= clearing.dust
    BY <1>3 DEF Pot, f, g
  <2>. HIDE DEF b
  <2>11. b + SumFunction(h) = (b + SumFunction(f)) + SumFunction(g)
    BY <2>2, <2>7, <2>8, <2>9
  <2>. QED
    BY <2>10, <2>11 DEF PotBacksPnl, b, h
<1>. QED
  BY <1>1, <1>2, <1>3, IInvHolds, PTL DEF Spec

(***************************************************************************)
(* The life of one position (PositionAccounting): the ledger above keeps   *)
(* many positions, this reference keeps one next to the cash its fills     *)
(* cost.                                                                   *)
(***************************************************************************)
\* What PnlMatchesCash needs to be inductive: the shape of the stored position.
LotShape ==
    /\ lotSize \in Int /\ lotEntry \in Nat /\ lotRealized \in Int /\ lotCash \in Int
    /\ lotBlends \in Nat /\ lotFills \in Nat
    /\ Abs(lotSize) <= LotMaxSize

LEMMA LotSteps ==
    ASSUME LotNext
    PROVE  \E delta \in Int \ {0}, price \in Nat : LotFill(delta, price)
<1>1. PICK q \in LotQuantities, price \in LotPrices : LotFill(q, price) \/ LotFill(-q, price)
    BY DEF LotNext
<1>2. q \in Int \ {0} /\ -q \in Int \ {0} /\ price \in Nat
    BY AccountingAssumption
<1> QED BY <1>1, <1>2

\* The dust grows by what one fill may round: Bound is the right-hand side of PnlMatchesCash.
LEMMA DustGrows ==
    ASSUME NEW b \in Nat, NEW f \in Nat, NEW m \in Nat, NEW n \in Nat \ {0},
           NEW v \in Int, NEW off \in Int, NEW grown \in BOOLEAN, NEW w \in Int,
           Abs(v) <= b * (m - 1) + f * (n - 1),
           Abs(off) <= IF grown THEN m - 1 ELSE n - 1,
           w = v + off
    PROVE  Abs(w) <= (IF grown THEN b + 1 ELSE b) * (m - 1) + (f + 1) * (n - 1)
<1> DEFINE p == b * (m - 1)
           r == f * (n - 1)
<1>1. p \in Int /\ r \in Int /\ n - 1 >= 0
    OBVIOUS
<1>2. (f + 1) * (n - 1) = r + (n - 1) /\ (b + 1) * (m - 1) = p + (m - 1)
    OBVIOUS
<1> DEFINE r1 == (f + 1) * (n - 1)
           p1 == (b + 1) * (m - 1)
<1>3. r1 = r + (n - 1) /\ p1 = p + (m - 1) /\ Abs(v) <= p + r
    BY <1>2
<1> HIDE DEF p, r, r1, p1
<1>4. Abs(w) <= Abs(v) + Abs(off) /\ Abs(v) \in Int /\ Abs(off) \in Int /\ Abs(w) \in Int
    BY DEF Abs
<1>5. CASE grown
    <2>1. Abs(w) <= p1 + r1
        BY <1>1, <1>3, <1>4, <1>5
    <2> QED BY <2>1, <1>5 DEF p1, r1
<1>6. CASE ~grown
    <2>1. Abs(w) <= p + r1
        BY <1>1, <1>3, <1>4, <1>6
    <2> QED BY <2>1, <1>6 DEF p, r1
<1> QED BY <1>5, <1>6

LEMMA LotShapeKept ==
    ASSUME LotShape,
           NEW delta \in Int \ {0}, NEW price \in Nat, LotFill(delta, price)
    PROVE  LotShape'
<1> DEFINE moved == MovePosition(lotSize, lotEntry, delta, price)
<1>1. moved.size = lotSize + delta /\ moved.entry \in Nat /\ moved.realized \in Int
    BY MovePositionType, SMTT(30) DEF LotShape
<1>2. delta * price \in Int
    OBVIOUS
<1> HIDE DEF moved
<1>3. /\ lotSize' = moved.size /\ lotEntry' = moved.entry /\ lotRealized' = lotRealized + moved.realized
      /\ lotCash' = lotCash - delta * price /\ lotFills' = lotFills + 1
      /\ Abs(lotSize + delta) <= LotMaxSize
      /\ lotBlends' = lotBlends \/ lotBlends' = lotBlends + 1
    BY Zenon DEF LotFill, moved
<1> QED BY <1>1, <1>2, <1>3 DEF LotShape

LEMMA LotPnlKept ==
    ASSUME LotShape, PnlMatchesCash,
           NEW delta \in Int \ {0}, NEW price \in Nat, LotFill(delta, price)
    PROVE  PnlMatchesCash'
<1> DEFINE moved == MovePosition(lotSize, lotEntry, delta, price)
           grown == lotSize # 0 /\ (lotSize > 0) = (delta > 0)
           off   == Rounding(lotSize, lotEntry, delta, price)
           v     == NOTIONAL_DIVISOR * lotRealized - lotCash - lotSize * lotEntry
           w     == NOTIONAL_DIVISOR * lotRealized' - lotCash' - lotSize' * lotEntry'
           most  == IF grown THEN LotMaxSize - 1 ELSE NOTIONAL_DIVISOR - 1
<1>1. moved.size = lotSize + delta /\ moved.entry \in Nat /\ moved.realized \in Int
    BY MovePositionType, SMTT(30) DEF LotShape
<1>2. /\ lotSize' = moved.size /\ lotEntry' = moved.entry /\ lotRealized' = lotRealized + moved.realized
      /\ lotCash' = lotCash - delta * price /\ lotFills' = lotFills + 1
      /\ Abs(lotSize + delta) <= LotMaxSize
      /\ lotBlends' = IF grown THEN lotBlends + 1 ELSE lotBlends
    BY Zenon DEF LotFill
<1>3. off \in Int /\ Abs(off) <= most
    <2>1. CASE lotSize = 0 \/ (lotSize > 0) = (delta > 0)
        <3>1. off \in Int /\ Abs(off) <= Abs(lotSize + delta) - 1 /\ (lotSize = 0 => off = 0)
            BY <2>1, GrowthKeepsValue DEF LotShape
        <3> HIDE DEF off
        <3>3. CASE lotSize = 0
            BY <3>1, <3>3, ScaleAssumption DEF Abs
        <3>4. CASE lotSize # 0
            <4>1. grown
                BY <2>1, <3>4
            <4>2. Abs(lotSize + delta) \in Int /\ Abs(off) \in Int /\ LotMaxSize \in Int
                BY <3>1, AbsNat, AccountingAssumption DEF LotShape
            <4> HIDE DEF grown
            <4> QED BY <1>2, <3>1, <4>1, <4>2
        <3> QED BY <3>3, <3>4
    <2>2. CASE ~(lotSize = 0 \/ (lotSize > 0) = (delta > 0))
        <3>1. lotSize # 0 /\ (lotSize > 0) # (delta > 0) /\ ~grown
            BY <2>2
        <3>2. off \in Int /\ Abs(off) <= NOTIONAL_DIVISOR - 1
            BY <3>1, CloseKeepsValue DEF LotShape
        <3> HIDE DEF off, grown
        <3> QED BY <3>1, <3>2
    <2> QED BY <2>1, <2>2
<1>4. v \in Int /\ w \in Int /\ w = v + off
    <2> DEFINE x == delta * price
               y == lotSize * lotEntry
               z == moved.size * moved.entry
               a == NOTIONAL_DIVISOR * lotRealized
               b == NOTIONAL_DIVISOR * moved.realized
    <2>1. x \in Int /\ y \in Int /\ a \in Int /\ lotCash \in Int
        BY ScaleAssumption DEF LotShape
    <2> HIDE DEF moved
    <2>2. z \in Int /\ b \in Int
        BY <1>1, ScaleAssumption DEF LotShape
    <2>3. NOTIONAL_DIVISOR * lotRealized' = a + b
        BY <1>1, <1>2, ScaleAssumption DEF LotShape
    <2>4. lotCash' = lotCash - x /\ lotSize' * lotEntry' = z
        BY <1>2
    <2>5. v = a - lotCash - y /\ w = (a + b) - (lotCash - x) - z /\ off = b + x + y - z
        BY <2>3, <2>4 DEF Rounding, moved
    <2> HIDE DEF x, y, z, a, b, v, w, off
    <2> QED BY <2>1, <2>2, <2>5
<1>5. lotBlends \in Nat /\ lotFills \in Nat /\ LotMaxSize \in Nat /\ NOTIONAL_DIVISOR \in Nat \ {0} /\ grown \in BOOLEAN
    BY ScaleAssumption, AccountingAssumption DEF LotShape
<1>6. Abs(v) <= lotBlends * (LotMaxSize - 1) + lotFills * (NOTIONAL_DIVISOR - 1)
    BY Zenon DEF PnlMatchesCash
<1> HIDE DEF v, off, grown, moved
<1>7. PICK u \in Int : u = w
    BY <1>4
<1>8. Abs(u) <= (IF grown THEN lotBlends + 1 ELSE lotBlends) * (LotMaxSize - 1) + (lotFills + 1) * (NOTIONAL_DIVISOR - 1)
    BY <1>3, <1>4, <1>5, <1>6, <1>7, DustGrows
<1>9. Abs(w) <= lotBlends' * (LotMaxSize - 1) + lotFills' * (NOTIONAL_DIVISOR - 1)
    <2> HIDE DEF w
    <2> QED BY <1>2, <1>7, <1>8
<1> QED BY Zenon, <1>9 DEF PnlMatchesCash

(***************************************************************************)
(* Whatever the scales, sizes and prices: what the position realised plus  *)
(* its cost at entry is what its fills cost, up to one rounding of the     *)
(* entry per fill that grows it and one division per fill that closes      *)
(* (PerpExchange._applyPositionDelta, blendedEntry).                       *)
(***************************************************************************)
THEOREM PnlIsTheFills == LotSpec => []PnlMatchesCash
<1> DEFINE Kept == LotShape /\ PnlMatchesCash
<1>1. LotInit => Kept
    <2> SUFFICES ASSUME LotInit PROVE Kept
        OBVIOUS
    <2>1. LotShape
        BY AccountingAssumption DEF LotInit, LotShape, Abs
    <2>2. NOTIONAL_DIVISOR * 0 - 0 - 0 * 0 = 0 /\ 0 * (LotMaxSize - 1) + 0 * (NOTIONAL_DIVISOR - 1) = 0 /\ Abs(0) <= 0
        BY ScaleAssumption, AccountingAssumption DEF Abs
    <2>3. PnlMatchesCash
        BY <2>2 DEF LotInit, PnlMatchesCash
    <2> QED BY <2>1, <2>3
<1>2. Kept /\ [LotNext]_lotVars => Kept'
    <2>1. CASE LotNext /\ Kept
        <3>1. PICK delta \in Int \ {0}, price \in Nat : LotFill(delta, price)
            BY <2>1, LotSteps
        <3> QED BY <2>1, <3>1, LotShapeKept, LotPnlKept
    <2>2. CASE UNCHANGED lotVars /\ Kept
        BY <2>2 DEF lotVars, LotShape, PnlMatchesCash
    <2> QED BY <2>1, <2>2
<1> HIDE DEF Kept
<1>3. Kept => PnlMatchesCash
    BY DEF Kept
<1> QED BY <1>1, <1>2, <1>3, PTL DEF LotSpec

\* LotShape on its own is inductive.
LEMMA LotShapeAlways == LotSpec => []LotShape
<1>1. LotInit => LotShape
    BY AccountingAssumption DEF LotInit, LotShape, Abs
<1>2. LotShape /\ [LotNext]_lotVars => LotShape'
    <2>1. CASE LotNext /\ LotShape
        <3>1. PICK delta \in Int \ {0}, price \in Nat : LotFill(delta, price)
            BY <2>1, LotSteps
        <3> QED BY <2>1, <3>1, LotShapeKept
    <2>2. CASE UNCHANGED lotVars /\ LotShape
        BY <2>2 DEF lotVars, LotShape
    <2> QED BY <2>1, <2>2
<1> QED BY <1>1, <1>2, PTL DEF LotSpec

(***************************************************************************)
(* The unrealised PnL of a stored position (MarginMath.unrealizedPnl) is   *)
(* exactly what the close branch of _applyPositionDelta would realise at   *)
(* that mark, for every position a sequence of fills can build.            *)
(***************************************************************************)
THEOREM MarkIsTheClose == LotSpec => []MarkIsCloseValue
<1>1. LotShape => MarkIsCloseValue
    <2> SUFFICES ASSUME LotShape, NEW mark \in LotPrices, lotSize # 0
                 PROVE  UnrealizedPnl(lotSize, lotEntry, mark)
                          = MovePosition(lotSize, lotEntry, -lotSize, mark).realized
        BY DEF MarkIsCloseValue
    <2>1. lotSize \in Int \ {0} /\ lotEntry \in Nat /\ mark \in Nat
        BY AccountingAssumption DEF LotShape
    <2>2. MovePosition(lotSize, lotEntry, -lotSize, mark).realized = UnrealizedPnl(lotSize, lotEntry, mark)
        BY <2>1, MarkCloses
    <2> QED BY <2>2
<1> QED BY <1>1, LotShapeAlways, PTL

(***************************************************************************)
(* A partial close followed by the close of the rest, as a partial         *)
(* liquidation and its follow-up make them, pays at most one unit less     *)
(* than one close and never more (_applyPositionDelta's division).         *)
(***************************************************************************)
THEOREM ClosingInTwoShavesDust == LotSpec => []SplitCloseShavesDust
<1>1. LotShape => SplitCloseShavesDust
    <2> SUFFICES ASSUME LotShape, NEW mark \in LotPrices, NEW q \in 1 .. LotMaxSize, q < Abs(lotSize)
                 PROVE  LET part  == IF lotSize > 0 THEN -q ELSE q
                            first == MovePosition(lotSize, lotEntry, part, mark)
                            rest  == MovePosition(first.size, first.entry, -first.size, mark)
                            whole == UnrealizedPnl(lotSize, lotEntry, mark)
                        IN  /\ Abs(first.realized + rest.realized) <= Abs(whole)
                            /\ Abs(whole) <= Abs(first.realized + rest.realized) + 1
        BY Zenon DEF SplitCloseShavesDust
    <2>1. lotEntry \in Nat /\ mark \in Nat /\ q \in Nat \ {0} /\ q < Abs(lotSize)
        BY AccountingAssumption DEF LotShape
    <2>2. lotSize \in Int \ {0}
        BY <2>1 DEF LotShape, Abs
    <2> DEFINE part  == IF lotSize > 0 THEN -q ELSE q
               first == MovePosition(lotSize, lotEntry, part, mark)
               rest  == MovePosition(first.size, first.entry, -first.size, mark)
               whole == UnrealizedPnl(lotSize, lotEntry, mark)
    <2>3. Abs(first.realized + rest.realized) <= Abs(whole) /\ Abs(whole) <= Abs(first.realized + rest.realized) + 1
        BY <2>1, <2>2, SplitClose, Zenon
    <2> QED BY <2>3, Zenon
<1> QED BY <1>1, LotShapeAlways, PTL

(***************************************************************************)
(* A long that is not in profit and whose mark stays above the price the   *)
(* exchange reported for it still covers its maintenance margin, whatever  *)
(* its size, its entry and its balance: the floor of the cushion and of    *)
(* the move are both on the safe side, which the proof splits at a cushion *)
(* of 100 %, and the loss so far only brings the report forward.           *)
(***************************************************************************)
THEOREM EstimateWarnsInTime == LotSpec => []EstimateIsNotLateForLongs
<1>1. LotShape => EstimateIsNotLateForLongs
    <2> SUFFICES ASSUME LotShape, NEW mark \in 1 .. lotEntry, NEW later \in 1 .. lotEntry,
                        NEW balance \in LotBalances,
                        lotSize > 0, Notional(lotSize, lotEntry) > 0,
                        later > ReportedLiquidationPrice(lotSize, lotEntry, balance, mark, LotMarginBps)
                 PROVE  balance + UnrealizedPnl(lotSize, lotEntry, later)
                          >= MarginOf(Notional(lotSize, later), LotMarginBps)
        BY Zenon DEF EstimateIsNotLateForLongs
    <2>1. lotEntry \in Nat /\ balance \in Int /\ LotMarginBps \in Nat /\ lotSize \in Nat \ {0}
        BY AccountingAssumption DEF LotShape
    <2>2. Notional(lotSize, lotEntry) > 0
        OBVIOUS
    <2>3. later > ReportedLiquidationPrice(lotSize, lotEntry, balance, mark, LotMarginBps)
        BY Zenon
    <2>4. balance + UnrealizedPnl(lotSize, lotEntry, later) >= MarginOf(Notional(lotSize, later), LotMarginBps)
        BY <2>1, <2>2, <2>3, ReportCovers
    <2> QED BY <2>4, Zenon
<1> QED BY <1>1, LotShapeAlways, PTL
=============================================================================
