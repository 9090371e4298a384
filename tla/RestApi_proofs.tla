---------------------------- MODULE RestApi_proofs ----------------------------
(***************************************************************************)
(* Two results for any limit, window, page size and store.                  *)
(*                                                                         *)
(* The client's reserve is enough: the rate limiter of lib/http.js never   *)
(* answers 429 to a client that naps when Reserve or fewer requests        *)
(* remain, as long as it does not lose more than Reserve replies in a row. *)
(*                                                                         *)
(* The pages are exact: a cursor at the last row of a full page leaves     *)
(* nothing between two pages, whatever the indexer does meanwhile.         *)
(***************************************************************************)
EXTENDS RestApi, FiniteSetTheorems, WellFoundedInduction, TLAPS

\* What the client believes is left: the whole window when it has seen nothing.
Believed == IF client.remaining = NotSeen THEN Limit ELSE client.remaining

Typed ==
    /\ bucket \in [count : Nat, age : Nat]
    /\ client \in [remaining : 0..NotSeen, nap : Nat, burst : Nat, limited : BOOLEAN]
    /\ lost \in 0..MaxLost

\* A nap outlasts the bucket's window.
NapCovers == client.nap > 0 => bucket.age + client.nap >= Window

\* An awake client about to count a request is in a new window, or knows that
\* little is left, or has overlooked no more than the replies it lost.
BudgetKnown ==
    client.nap = 0 =>
        \/ bucket.age >= Window
        \/ client.remaining <= Reserve
        \/ bucket.count <= Limit - Believed + lost

IInv == Typed /\ NapCovers /\ BudgetKnown /\ ThrottleSuffices

-----------------------------------------------------------------------------
LEMMA InitHolds == Init => IInv
    BY RestAssumption
    DEF Init, IInv, Typed, NapCovers, BudgetKnown, ThrottleSuffices, NotSeen

\* Counting a request: 1 in a new window, one more in the old one.
LEMMA CountedIs ==
    ASSUME Typed
    PROVE  /\ Counted \in [count : Nat, age : Nat]
           /\ bucket.age >= Window => Counted.count = 1
           /\ ~(bucket.age >= Window) => Counted.count = bucket.count + 1
    BY RestAssumption DEF Typed, Counted

\* Steps that leave the limiter, the budget and the lost replies alone.
LEMMA ElsewhereKeeps ==
    ASSUME IInv, UNCHANGED <<bucket, client, lost>>
    PROVE  IInv'
    BY DEF IInv, Typed, NapCovers, BudgetKnown, ThrottleSuffices, Believed

\* What a step leaves of the client when it starts a nap.
LEMMA NapStartKeeps ==
    ASSUME IInv, UNCHANGED <<bucket, lost>>,
           client' \in [remaining : 0..NotSeen, nap : Nat, burst : Nat, limited : BOOLEAN],
           client'.nap = Window, client'.limited = client.limited
    PROVE  IInv'
    BY RestAssumption DEF IInv, Typed, NapCovers, BudgetKnown, ThrottleSuffices, Believed

LEMMA NapKeeps ==
    ASSUME IInv, Nap
    PROVE  IInv'
<1>1. /\ UNCHANGED <<bucket, lost>>
      /\ client' = [client EXCEPT !.nap = Window, !.remaining = NotSeen]
    BY DEF Nap
<1>2. NotSeen \in 0..NotSeen /\ Window \in Nat
    BY RestAssumption DEF NotSeen
<1> QED BY <1>1, <1>2, NapStartKeeps DEF IInv, Typed

LEMMA TickKeeps ==
    ASSUME IInv, Tick
    PROVE  IInv'
    BY RestAssumption
    DEF IInv, Typed, NapCovers, BudgetKnown, ThrottleSuffices, Tick, NotSeen, Believed

LEMMA StartBurstKeeps ==
    ASSUME IInv, StartBurst
    PROVE  IInv'
<1>1. /\ UNCHANGED <<bucket, lost>>
      /\ client' = [client EXCEPT !.nap = Window, !.burst = Limit + 1]
    BY DEF StartBurst
<1>2. Limit + 1 \in Nat /\ Window \in Nat
    BY RestAssumption
<1> QED BY <1>1, <1>2, NapStartKeeps DEF IInv, Typed

\* A page is asked for only when more than the reserve is believed to be left:
\* then it is within the limit.
LEMMA TurnPageKeeps ==
    ASSUME MaxLost <= Reserve, IInv, TurnPage
    PROVE  IInv'
<1>1. /\ bucket' = Counted /\ client.nap = 0
      /\ ~(client.remaining <= Reserve)
    BY DEF TurnPage, Awake, Throttled
<1>2. Counted.count <= Limit
    BY <1>1, CountedIs, RestAssumption DEF IInv, Typed, BudgetKnown, Believed, NotSeen
<1>3. ~Limited(Counted)
    BY <1>2, CountedIs, RestAssumption DEF Limited, IInv
<1>4. CASE /\ client' = [client EXCEPT !.remaining = Remaining(Counted)]
           /\ lost' = 0
    BY <1>1, <1>2, <1>4, CountedIs, RestAssumption
    DEF IInv, Typed, NapCovers, BudgetKnown, ThrottleSuffices, Believed, NotSeen, Remaining
<1>5. CASE UNCHANGED client /\ lost' = lost + 1 /\ lost < MaxLost
    <2>1. bucket'.count <= Limit - Believed + lost'
        BY <1>1, <1>5, CountedIs, RestAssumption DEF IInv, Typed, BudgetKnown, Believed, NotSeen
    <2> QED
        BY <1>1, <1>5, <2>1, CountedIs, RestAssumption
        DEF IInv, Typed, NapCovers, BudgetKnown, ThrottleSuffices, Believed
<1> QED BY <1>3, <1>4, <1>5 DEF TurnPage

\* The burst passes the throttle: what it sees, or has seen when it goes over
\* the limit, is the budget itself.
LEMMA BurstKeeps ==
    ASSUME MaxLost <= Reserve, IInv, Burst
    PROVE  IInv'
<1>1. bucket' = Counted /\ client.nap = 0 /\ client.burst > 0
    BY DEF Burst, Awake
<1> DEFINE after == IF Limited(Counted) THEN client.remaining ELSE Remaining(Counted)
<1>2. CASE client' = [client EXCEPT !.burst = @ - 1, !.remaining = after] /\ lost' = 0
    <2>1. /\ Limited(Counted) => after = client.remaining
          /\ ~Limited(Counted) => after = Remaining(Counted)
        OBVIOUS
    <2> HIDE DEF after
    <2>2. \/ after <= Reserve
          \/ after \in 0..Limit /\ after <= Limit - Counted.count
        BY <1>1, <2>1, CountedIs, RestAssumption
        DEF IInv, Typed, BudgetKnown, Believed, NotSeen, Limited, Remaining
    <2>3. after \in 0..NotSeen
        BY <2>1, CountedIs, RestAssumption DEF IInv, Typed, NotSeen, Limited, Remaining
    <2>4. client.burst - 1 \in Nat
        BY <1>1 DEF IInv, Typed
    <2>5. /\ client' \in [remaining : 0..NotSeen, nap : Nat, burst : Nat, limited : BOOLEAN]
          /\ client'.remaining = after /\ client'.nap = 0 /\ client'.limited = client.limited
        BY <1>1, <1>2, <2>3, <2>4 DEF IInv, Typed
    <2>6. Typed'
        BY <1>1, <1>2, <2>5, CountedIs, RestAssumption DEF IInv, Typed
    <2>7. BudgetKnown'
        BY <1>1, <1>2, <2>2, <2>5, CountedIs, RestAssumption DEF IInv, BudgetKnown, Believed, NotSeen
    <2> QED BY <2>5, <2>6, <2>7 DEF IInv, NapCovers, ThrottleSuffices
<1>3. CASE client' = [client EXCEPT !.burst = 0] /\ lost' = lost + 1 /\ lost < MaxLost
    <2>1. \/ client.remaining <= Reserve
          \/ bucket'.count <= Limit - Believed + lost'
        BY <1>1, <1>3, CountedIs, RestAssumption DEF IInv, Typed, BudgetKnown, Believed, NotSeen
    <2> QED
        BY <1>1, <1>3, <2>1, CountedIs, RestAssumption
        DEF IInv, Typed, NapCovers, BudgetKnown, ThrottleSuffices, Believed
<1> QED BY <1>2, <1>3 DEF Burst

LEMMA NextKeeps ==
    ASSUME MaxLost <= Reserve, IInv, [Next]_vars
    PROVE  IInv'
<1>1. CASE \/ Reorg \/ CheckTip \/ Rebuild \/ ReadLogs \/ OpenRange \/ ReadTip
           \/ CommitRange \/ RollBackRange \/ StartWalk \/ LoseRequest \/ UNCHANGED vars
    BY <1>1, ElsewhereKeeps
    DEF Reorg, CheckTip, Rebuild, ReadLogs, OpenRange, ReadTip, CommitRange, RollBackRange,
        StartWalk, LoseRequest, vars
<1> QED
    BY <1>1, NapKeeps, TickKeeps, StartBurstKeeps, TurnPageKeeps, BurstKeeps DEF Next

-----------------------------------------------------------------------------
(* Rows and their order.                                                    *)

Place == [block : Nat, log : Nat]
Apart(S) == \A r, s \in S : SamePlace(r, s) => r = s

LEMMA NewerIsLinear ==
    /\ \A r \in Row \cup Place : ~Newer(r, r)
    /\ \A r, s, t \in Row \cup Place : Newer(r, s) /\ Newer(s, t) => Newer(r, t)
    /\ \A r, s \in Row \cup Place : SamePlace(r, s) \/ Newer(r, s) \/ Newer(s, r)
<1>1. \A r \in Row \cup Place : r.block \in Nat /\ r.log \in Nat
    BY DEF Row, Place
<1> QED BY <1>1 DEF Newer, SamePlace

\* The rows of S newer than r.
Above(S, r) == {s \in S : Newer(s, r)}

\* A finite set of rows has one that is newer than none, and one that none is
\* newer than: the rows above it, or below it, are as few as they can be.
LEMMA NewestExists ==
    ASSUME NEW S \in SUBSET Row, IsFiniteSet(S), S # {}
    PROVE  \E r \in S : \A s \in S : ~Newer(s, r)
<1> DEFINE F == {Above(S, r) : r \in S}
<1>1. F \subseteq FiniteSubsetsOf(S) /\ F # {}
    <2>1. \A r \in S : Above(S, r) \in SUBSET S
        BY DEF Above
    <2>2. \A r \in S : IsFiniteSet(Above(S, r))
        BY <2>1, FS_Subset
    <2> QED BY <2>1, <2>2 DEF FiniteSubsetsOf
<1>2. PICK U \in F : \A V \in F : <<V, U>> \notin StrictSubsetOrdering(S)
    <2> HIDE DEF F
    <2> QED BY <1>1, FS_StrictSubsetOrderingWellFounded, WFMin
<1>3. PICK r \in S : U = Above(S, r)
    BY <1>2
<1>4. ASSUME NEW s \in S, Newer(s, r) PROVE FALSE
    <2>1. Above(S, s) \subseteq Above(S, r) /\ s \in Above(S, r) /\ s \notin Above(S, s)
        BY <1>4, NewerIsLinear DEF Above
    <2>2. Above(S, s) \in SUBSET S /\ Above(S, r) \in SUBSET S
        BY DEF Above
    <2>3. <<Above(S, s), Above(S, r)>> \in StrictSubsetOrdering(S)
        BY <2>1, <2>2 DEF StrictSubsetOrdering
    <2>4. Above(S, s) \in F
        OBVIOUS
    <2> QED BY <2>3, <2>4, <1>2, <1>3
<1> QED BY <1>4

LEMMA OldestExists ==
    ASSUME NEW S \in SUBSET Row, IsFiniteSet(S), S # {}
    PROVE  \E r \in S : \A s \in S : ~Newer(r, s)
<1> DEFINE Below(r) == {s \in S : Newer(r, s)}
           F == {Below(r) : r \in S}
<1>1. F \subseteq FiniteSubsetsOf(S) /\ F # {}
    <2>1. \A r \in S : Below(r) \in SUBSET S
        OBVIOUS
    <2>2. \A r \in S : IsFiniteSet(Below(r))
        BY <2>1, FS_Subset
    <2> QED BY <2>1, <2>2 DEF FiniteSubsetsOf
<1>2. PICK U \in F : \A V \in F : <<V, U>> \notin StrictSubsetOrdering(S)
    <2> HIDE DEF F
    <2> QED BY <1>1, FS_StrictSubsetOrderingWellFounded, WFMin
<1>3. PICK r \in S : U = Below(r)
    BY <1>2
<1>4. ASSUME NEW s \in S, Newer(r, s) PROVE FALSE
    <2>1. Below(s) \subseteq Below(r) /\ s \in Below(r) /\ s \notin Below(s)
        BY <1>4, NewerIsLinear
    <2>2. Below(s) \in SUBSET S /\ Below(r) \in SUBSET S
        OBVIOUS
    <2>4. Below(s) \in F
        OBVIOUS
    <2>3. <<Below(s), Below(r)>> \in StrictSubsetOrdering(S)
        <3> HIDE DEF Below
        <3> QED BY <2>1, <2>2 DEF StrictSubsetOrdering
    <2> QED BY <2>3, <2>4, <1>2, <1>3
<1> QED BY <1>4

\* The first n rows of S, newest first.
FirstRows(S, n) == {r \in S : Cardinality(Above(S, r)) < n}

\* Fewer than n of them: they are all of S.
LEMMA ShortPageIsAll ==
    ASSUME NEW S \in SUBSET Row, IsFiniteSet(S), NEW n \in Nat,
           Cardinality(FirstRows(S, n)) < n
    PROVE  FirstRows(S, n) = S
<1> SUFFICES ASSUME S \ FirstRows(S, n) # {}
             PROVE  FALSE
    BY DEF FirstRows
<1> DEFINE P == FirstRows(S, n)
           R == S \ P
<1>1. P \in SUBSET S /\ R \in SUBSET S /\ R # {}
    BY DEF FirstRows
<1>2. IsFiniteSet(P) /\ IsFiniteSet(R) /\ R \in SUBSET Row
    BY <1>1, FS_Subset
<1>3. PICK r \in R : \A s \in R : ~Newer(s, r)
    <2> HIDE DEF R
    <2> QED BY <1>1, <1>2, NewestExists
<1>4. Above(S, r) \in SUBSET P
    BY <1>3 DEF Above
<1>5. Cardinality(Above(S, r)) <= Cardinality(P)
    <2> HIDE DEF P
    <2> QED BY <1>2, <1>4, FS_Subset
<1>6. r \in S /\ ~(Cardinality(Above(S, r)) < n)
    BY <1>3 DEF FirstRows
<1>7. Cardinality(Above(S, r)) \in Nat /\ Cardinality(P) \in Nat
    <2>1. IsFiniteSet(Above(S, r))
        BY <1>2, <1>4, FS_Subset
    <2> HIDE DEF P
    <2> QED BY <2>1, <1>2, FS_CardinalityType
<1> QED BY <1>5, <1>6, <1>7

\* No more than n of them.
LEMMA PageNotOver ==
    ASSUME NEW S \in SUBSET Row, Apart(S), IsFiniteSet(S), NEW n \in Nat
    PROVE  Cardinality(FirstRows(S, n)) <= n
<1> DEFINE P == FirstRows(S, n)
<1> SUFFICES Cardinality(P) <= n
    OBVIOUS
<1>1. P \in SUBSET S /\ P \in SUBSET Row
    BY DEF FirstRows
<1>2. IsFiniteSet(P) /\ Cardinality(P) \in Nat
    <2> HIDE DEF P
    <2> QED BY <1>1, FS_Subset, FS_CardinalityType
<1>3. CASE P = {}
    <2> HIDE DEF P
    <2> QED BY <1>3, FS_EmptySet
<1>4. CASE P # {}
    <2>1. PICK o \in P : \A s \in P : ~Newer(o, s)
        <3> HIDE DEF P
        <3> QED BY <1>1, <1>2, <1>4, OldestExists
    <2>2. P \ {o} \in SUBSET Above(S, o)
        <3>1. \A s \in P \ {o} : Newer(s, o)
            <4> HIDE DEF P
            <4> QED BY <1>1, <2>1, NewerIsLinear DEF Apart
        <3> HIDE DEF P
        <3> QED BY <1>1, <3>1 DEF Above
    <2>3. Above(S, o) \in SUBSET S
        BY DEF Above
    <2>4. IsFiniteSet(Above(S, o))
        BY <2>3, FS_Subset
    <2>5. Cardinality(P \ {o}) <= Cardinality(Above(S, o)) /\ Cardinality(Above(S, o)) \in Nat
        <3> HIDE DEF P
        <3> QED BY <2>2, <2>4, FS_Subset, FS_CardinalityType
    <2>6. Cardinality(P \ {o}) = Cardinality(P) - 1
        <3> HIDE DEF P
        <3> QED BY <1>2, <2>1, FS_RemoveElement
    <2>7. Cardinality(Above(S, o)) < n
        BY <2>1 DEF FirstRows
    <2> HIDE DEF P
    <2> QED BY <1>2, <2>5, <2>6, <2>7
<1> QED BY <1>3, <1>4

\* What is not among the first rows is older than each of them.
LEMMA RestIsOlder ==
    ASSUME NEW S \in SUBSET Row, Apart(S), IsFiniteSet(S), NEW n \in Nat,
           NEW o \in FirstRows(S, n), NEW r \in S \ FirstRows(S, n)
    PROVE  Newer(o, r)
<1> SUFFICES ASSUME ~Newer(o, r) PROVE FALSE
    OBVIOUS
<1>1. o \in S /\ r \in S /\ o # r
    BY DEF FirstRows
<1>2. Newer(r, o)
    BY <1>1, NewerIsLinear DEF Apart
<1>3. Above(S, r) \in SUBSET Above(S, o) /\ Above(S, o) \in SUBSET S
    BY <1>1, <1>2, NewerIsLinear DEF Above
<1>4. IsFiniteSet(Above(S, o))
    BY <1>3, FS_Subset
<1>5. /\ Cardinality(Above(S, r)) <= Cardinality(Above(S, o))
      /\ IsFiniteSet(Above(S, r))
    BY <1>3, <1>4, FS_Subset
<1>6. Cardinality(Above(S, r)) \in Nat /\ Cardinality(Above(S, o)) \in Nat
    BY <1>4, <1>5, FS_CardinalityType
<1>7. Cardinality(Above(S, o)) < n /\ ~(Cardinality(Above(S, r)) < n)
    BY <1>1 DEF FirstRows
<1> QED BY <1>5, <1>6, <1>7

-----------------------------------------------------------------------------
(* The walk over the pages.                                                 *)

\* Rows of the store are below the block an empty cursor stands for.
Stored == {r \in Row : r.block <= MaxBlock}
TradeKey == [tx : Nat, log : Nat]

StoreTyped ==
    /\ mined \in Chains
    /\ committed \in SUBSET Stored /\ IsFiniteSet(committed)
    /\ sync \in [at : {"idle", "checked", "read", "open"}, rows : SUBSET Stored,
                 to : -1 .. MaxBlock, tip : {"ours", "gone", "none"}]
    /\ IsFiniteSet(sync.rows)
    /\ indexed \in -1 .. MaxBlock

\* What is fetched lies above what is indexed, and in neither do two rows share
\* a place: one range is of one chain.
Layered ==
    /\ \A r \in committed : r.block <= indexed
    /\ \A r \in sync.rows : indexed < r.block /\ r.block <= sync.to
    /\ sync.at \in {"idle", "checked"} => sync.rows = {} /\ sync.tip = "none"
    /\ sync.at \in {"read", "open"} => indexed < sync.to
    /\ Apart(committed) /\ Apart(sync.rows)

Seen == walk.got \cup Visible \cup sync.rows

\* Every row seen is where the chain has it, unless its key is known to have moved.
InPlace == \A r \in Seen : Key(r) \in walk.moved \/ r \in mined

WalkTyped ==
    walk \in [on : BOOLEAN, size : Nat \ {0}, filter : Filters \cup {All}, cursor : Place,
              got : SUBSET Row, twice : SUBSET TradeKey, kept : SUBSET Row,
              moved : SUBSET TradeKey, done : BOOLEAN]

\* What was there all along is still there; the walk has what is not after its
\* cursor, and nothing that is; what it got twice has moved.
WalkExact ==
    /\ walk.kept \subseteq Selected(walk.filter)
    /\ walk.on =>
           /\ \A r \in walk.got : ~After(r, walk.cursor)
           /\ \A r \in walk.kept : r \in walk.got \/ After(r, walk.cursor)
    /\ walk.done => walk.kept \subseteq walk.got
    /\ walk.twice \subseteq walk.moved

PInv == StoreTyped /\ Layered /\ InPlace /\ WalkTyped /\ WalkExact

LEMMA ChainIs ==
    ASSUME NEW chain \in Chains
    PROVE  /\ chain \in SUBSET Stored /\ IsFiniteSet(chain) /\ Apart(chain)
           /\ \A r, s \in chain : Key(r) = Key(s) => r = s
    BY ChainsAssumption DEF Stored, Apart

LEMMA KeyTyped == \A r \in Row : Key(r) \in TradeKey
    BY DEF Key, Row, TradeKey

LEMMA StrayedTyped ==
    ASSUME NEW rows \in SUBSET Row, NEW chain
    PROVE  Strayed(rows, chain) \in SUBSET TradeKey
    BY KeyTyped DEF Strayed

LEMMA PagesInit == Init => PInv
<1> SUFFICES ASSUME Init PROVE PInv
    OBVIOUS
<1>1. IsFiniteSet({})
    BY FS_EmptySet
<1>2. NoCursor \in Place /\ MaxBlock \in Nat
    BY ChainsAssumption DEF NoCursor, Place
<1>3. sync = [at |-> "idle", rows |-> {}, to |-> -1, tip |-> "none"]
    BY DEF Init, NoSync
<1>4. StoreTyped
    BY <1>1, <1>2, <1>3 DEF Init, StoreTyped
<1>5. walk = [on |-> FALSE, size |-> 1, filter |-> All, cursor |-> NoCursor, got |-> {},
              twice |-> {}, kept |-> {}, moved |-> {}, done |-> FALSE]
    BY DEF Init, NewWalk
<1>6. WalkTyped /\ WalkExact
    BY <1>2, <1>5 DEF WalkTyped, WalkExact
<1>7. Layered /\ InPlace
    BY <1>3, <1>5 DEF Init, Layered, InPlace, Seen, Visible, OpenRows, Apart
<1> QED BY <1>4, <1>6, <1>7 DEF PInv

LEMMA VisibleIs ==
    ASSUME StoreTyped, Layered
    PROVE  /\ Visible \in SUBSET Stored /\ IsFiniteSet(Visible) /\ Apart(Visible)
           /\ OpenRows \in SUBSET sync.rows
           /\ sync.at = "open" => \A r \in Visible : r.block <= sync.to
<1>1. OpenRows \in SUBSET Stored /\ IsFiniteSet(OpenRows) /\ OpenRows \in SUBSET sync.rows
    BY FS_EmptySet DEF StoreTyped, OpenRows
<1>2. Visible \in SUBSET Stored /\ IsFiniteSet(Visible)
    BY <1>1, FS_Union DEF StoreTyped, Visible
<1>3. \A r \in committed, s \in OpenRows : ~SamePlace(r, s)
    <2>1. ASSUME NEW r \in committed, NEW s \in OpenRows PROVE ~SamePlace(r, s)
        <3>1. r.block <= indexed /\ indexed < s.block /\ r \in Stored /\ s \in Stored
            BY <1>1 DEF Layered, StoreTyped
        <3>2. indexed \in Int /\ r.block \in Int /\ s.block \in Int
            BY <3>1 DEF StoreTyped, Stored, Row
        <3> QED BY <3>1, <3>2 DEF SamePlace
    <2> QED BY <2>1
<1>4. Apart(Visible)
    <2>1. \A r, s : SamePlace(r, s) => SamePlace(s, r)
        BY DEF SamePlace
    <2> QED BY <1>1, <1>3, <2>1 DEF Layered, Apart, Visible
<1>5. ASSUME sync.at = "open", NEW r \in Visible PROVE r.block <= sync.to
    <2>1. indexed < sync.to /\ (r.block <= indexed \/ r.block <= sync.to)
        BY <1>1, <1>5 DEF Layered, Visible
    <2>2. indexed \in Int /\ sync.to \in Int /\ r.block \in Int
        BY <1>2, <1>5, ChainsAssumption DEF StoreTyped, Stored, Row
    <2> QED BY <2>1, <2>2
<1> QED BY <1>1, <1>2, <1>4, <1>5

\* A walk that does not move, over a store that lost none of the kept rows.
LEMMA StoreMoves ==
    ASSUME PInv, StoreTyped', Layered', UNCHANGED mined, Seen' \subseteq Seen,
           walk' = [walk EXCEPT !.kept = @ \cap Visible']
    PROVE  PInv'
<1>1. WalkTyped'
    BY DEF PInv, WalkTyped
<1>2. WalkExact'
    BY DEF PInv, WalkTyped, WalkExact, Selected
<1>3. InPlace'
    BY DEF PInv, WalkTyped, InPlace
<1> QED BY <1>1, <1>2, <1>3 DEF PInv

LEMMA WalkStays ==
    ASSUME PInv, StoreTyped', Layered', InPlace', UNCHANGED walk, Visible \subseteq Visible'
    PROVE  PInv'
<1>1. walk'.kept \subseteq Selected(walk.filter)'
    BY DEF PInv, WalkExact, Selected
<1> QED BY <1>1 DEF PInv, WalkTyped, WalkExact

LEMMA ReorgKeeps ==
    ASSUME PInv, Reorg
    PROVE  PInv'
<1>1. PICK chain \in Chains, fork \in 0 .. MaxBlock :
          /\ mined' = chain
          /\ sync' = [sync EXCEPT !.tip = IF @ = "ours" /\ fork <= sync.to THEN "gone" ELSE @]
          /\ walk' = [walk EXCEPT !.moved = @ \cup Strayed(Seen, chain)]
    BY DEF Reorg, Seen
<1>2. UNCHANGED <<committed, indexed>>
    BY DEF Reorg
<1> DEFINE tip == IF sync.tip = "ours" /\ fork <= sync.to THEN "gone" ELSE sync.tip
<1>3. sync' = [sync EXCEPT !.tip = tip] /\ tip \in {"ours", "gone", "none"}
    BY <1>1 DEF PInv, StoreTyped
<1>4. sync.tip = "none" => tip = "none"
    OBVIOUS
<1> HIDE DEF tip
<1>5. sync'.at = sync.at /\ sync'.rows = sync.rows /\ sync'.to = sync.to /\ sync'.tip = tip
    BY <1>3 DEF PInv, StoreTyped
<1>6. StoreTyped'
    BY <1>1, <1>2, <1>3, <1>5 DEF PInv, StoreTyped
<1>7. Layered'
    BY <1>2, <1>4, <1>5 DEF PInv, Layered, Apart
<1>8. OpenRows' = OpenRows /\ Visible' = Visible
    BY <1>2, <1>5 DEF OpenRows, Visible
<1>9. Seen \in SUBSET Row
    BY VisibleIs DEF PInv, Seen, WalkTyped, StoreTyped, Stored
<1>10. Strayed(Seen, chain) \in SUBSET TradeKey
    BY <1>9, StrayedTyped
<1> DEFINE strayed == Strayed(Seen, chain)
<1>11. /\ WalkTyped' /\ walk'.moved = walk.moved \cup strayed
       /\ walk'.got = walk.got /\ walk'.kept = walk.kept /\ walk'.on = walk.on
       /\ walk'.done = walk.done /\ walk'.twice = walk.twice /\ walk'.cursor = walk.cursor
       /\ walk'.filter = walk.filter
    <2>1. walk' = [walk EXCEPT !.moved = @ \cup strayed] /\ strayed \in SUBSET TradeKey
        BY <1>1, <1>10
    <2> HIDE DEF strayed
    <2> QED BY <2>1 DEF PInv, WalkTyped
<1>12. WalkExact'
    BY <1>8, <1>11 DEF PInv, WalkExact, Selected, After
<1>13. InPlace'
    <2>1. Seen' = Seen
        BY <1>5, <1>8, <1>11 DEF Seen
    <2>2. \A r \in Seen : r \in chain \/ Key(r) \in strayed
        BY DEF Strayed
    <2> HIDE DEF strayed
    <2> QED BY <1>1, <1>11, <2>1, <2>2 DEF InPlace
<1> QED BY <1>6, <1>7, <1>11, <1>12, <1>13 DEF PInv

\* A step of sync that leaves the rows, the range and the store alone.
LEMMA SyncMoves ==
    ASSUME PInv, NEW at \in {"checked", "open"}, NEW tip \in {"ours", "none"},
           sync' = [sync EXCEPT !.at = at, !.tip = tip],
           at = "checked" => sync.at = "idle" /\ tip = "none",
           at = "open" => sync.at = "open",
           UNCHANGED <<mined, committed, indexed, walk>>
    PROVE  PInv'
<1>1. sync'.at = at /\ sync'.rows = sync.rows /\ sync'.to = sync.to /\ sync'.tip = tip
    BY DEF PInv, StoreTyped
<1>2. StoreTyped'
    BY <1>1 DEF PInv, StoreTyped
<1>3. Layered'
    BY <1>1 DEF PInv, Layered, Apart
<1>4. OpenRows' = OpenRows /\ Visible' = Visible
    BY <1>1 DEF OpenRows, Visible
<1>5. InPlace'
    BY <1>1, <1>4 DEF PInv, InPlace, Seen
<1> QED BY <1>2, <1>3, <1>4, <1>5, WalkStays

LEMMA CheckTipKeeps ==
    ASSUME PInv, CheckTip
    PROVE  PInv'
<1>1. sync' = [sync EXCEPT !.at = "checked", !.tip = "none"]
    BY DEF CheckTip, PInv, StoreTyped, Layered
<1> QED BY <1>1, SyncMoves DEF CheckTip

LEMMA ReadTipKeeps ==
    ASSUME PInv, ReadTip
    PROVE  PInv'
<1>1. sync' = [sync EXCEPT !.at = "open", !.tip = "ours"]
    BY DEF ReadTip, PInv, StoreTyped
<1> QED BY <1>1, SyncMoves DEF ReadTip

LEMMA ReadLogsKeeps ==
    ASSUME PInv, ReadLogs
    PROVE  PInv'
<1>1. PICK to \in indexed + 1 .. MaxBlock :
          sync' = [sync EXCEPT !.at = "read", !.to = to,
                               !.rows = { r \in mined : indexed < r.block /\ r.block <= to }]
    BY DEF ReadLogs
<1> DEFINE rows == { r \in mined : indexed < r.block /\ r.block <= to }
<1>2. UNCHANGED <<mined, committed, indexed, walk>> /\ sync.at = "checked"
    BY DEF ReadLogs
<1>3. rows \in SUBSET mined /\ rows \in SUBSET Stored /\ IsFiniteSet(rows) /\ Apart(rows)
    <2>1. mined \in SUBSET Stored /\ IsFiniteSet(mined) /\ Apart(mined)
        BY ChainIs DEF PInv, StoreTyped
    <2>2. rows \in SUBSET mined
        OBVIOUS
    <2> HIDE DEF rows
    <2> QED BY <2>1, <2>2, FS_Subset DEF Apart
<1>4. \A r \in rows : indexed < r.block /\ r.block <= to
    OBVIOUS
<1>5. to \in -1 .. MaxBlock /\ indexed < to
    BY <1>1, ChainsAssumption DEF PInv, StoreTyped
<1>6. sync' = [sync EXCEPT !.at = "read", !.to = to, !.rows = rows]
    BY <1>1
<1> HIDE DEF rows
<1>7. sync'.at = "read" /\ sync'.rows = rows /\ sync'.to = to /\ sync'.tip = sync.tip
    BY <1>6 DEF PInv, StoreTyped
<1>8. StoreTyped'
    BY <1>2, <1>3, <1>5, <1>6, <1>7 DEF PInv, StoreTyped
<1>9. Layered'
    BY <1>2, <1>3, <1>4, <1>5, <1>7 DEF PInv, Layered, Apart
<1>10. Visible' = Visible
    BY <1>2, <1>7 DEF Visible, OpenRows
<1>11. InPlace'
    BY <1>2, <1>3, <1>7, <1>10 DEF PInv, InPlace, Seen
<1> QED BY <1>2, <1>8, <1>9, <1>10, <1>11, WalkStays

LEMMA OpenRangeKeeps ==
    ASSUME PInv, OpenRange
    PROVE  PInv'
<1> DEFINE rows == { r \in sync.rows : \A s \in committed : Key(s) # Key(r) }
<1>1. sync' = [sync EXCEPT !.at = "open", !.rows = rows] /\ sync.at = "read"
    BY DEF OpenRange
<1>2. UNCHANGED <<mined, committed, indexed, walk>>
    BY DEF OpenRange
<1>3. rows \in SUBSET sync.rows
    OBVIOUS
<1> HIDE DEF rows
<1>4. IsFiniteSet(rows)
    BY <1>3, FS_Subset DEF PInv, StoreTyped
<1>5. sync'.at = "open" /\ sync'.rows = rows /\ sync'.to = sync.to /\ sync'.tip = sync.tip
    BY <1>1 DEF PInv, StoreTyped
<1>6. StoreTyped'
    BY <1>1, <1>2, <1>3, <1>4, <1>5 DEF PInv, StoreTyped
<1>7. Layered'
    BY <1>1, <1>2, <1>3, <1>5 DEF PInv, Layered, Apart
<1>8. Visible \subseteq Visible' /\ Visible' = committed \cup rows
    BY <1>1, <1>2, <1>5 DEF Visible, OpenRows
<1>9. InPlace'
    BY <1>2, <1>3, <1>5, <1>8 DEF PInv, InPlace, Seen, Visible
<1> QED BY <1>2, <1>6, <1>7, <1>8, <1>9, WalkStays

LEMMA NoSyncIs ==
    ASSUME sync' = NoSync
    PROVE  /\ sync'.at = "idle" /\ sync'.rows = {} /\ sync'.to = -1 /\ sync'.tip = "none"
           /\ sync' \in [at : {"idle", "checked", "read", "open"}, rows : SUBSET Stored,
                         to : -1 .. MaxBlock, tip : {"ours", "gone", "none"}]
           /\ IsFiniteSet(sync'.rows) /\ Visible' = committed'
    BY ChainsAssumption, FS_EmptySet DEF NoSync, Visible, OpenRows

LEMMA CommitRangeKeeps ==
    ASSUME PInv, CommitRange
    PROVE  PInv'
<1>1. /\ sync.at = "open" /\ committed' = Visible /\ indexed' = sync.to /\ sync' = NoSync
      /\ UNCHANGED <<mined, walk>>
    BY DEF CommitRange
<1>2. StoreTyped'
    BY <1>1, VisibleIs, NoSyncIs DEF PInv, StoreTyped
<1>3. Layered'
    BY <1>1, VisibleIs, NoSyncIs DEF PInv, Layered, Apart
<1>4. Visible' = Visible
    BY <1>1, NoSyncIs
<1>5. InPlace'
    BY <1>1, <1>4, NoSyncIs DEF PInv, InPlace, Seen
<1> QED BY <1>1, <1>2, <1>3, <1>4, <1>5, WalkStays

LEMMA RollBackRangeKeeps ==
    ASSUME PInv, RollBackRange
    PROVE  PInv'
<1>1. sync' = NoSync /\ Keep(committed) /\ UNCHANGED <<mined, committed, indexed>>
    BY DEF RollBackRange
<1>2. StoreTyped' /\ Layered' /\ Visible' = committed
    BY <1>1, NoSyncIs DEF PInv, StoreTyped, Layered, Apart
<1>3. walk' = [walk EXCEPT !.kept = @ \cap Visible'] /\ walk'.got = walk.got
    BY <1>1, <1>2 DEF Keep, PInv, WalkTyped
<1>4. Seen' \subseteq Seen
    BY <1>1, <1>2, <1>3, NoSyncIs DEF Seen, Visible
<1> QED BY <1>1, <1>2, <1>3, <1>4, StoreMoves

LEMMA RebuildKeeps ==
    ASSUME PInv, Rebuild
    PROVE  PInv'
<1>1. /\ committed' = {} /\ indexed' = -1 /\ sync.at = "idle" /\ Keep({})
      /\ sync' = [sync EXCEPT !.at = "checked"] /\ UNCHANGED mined
    BY DEF Rebuild
<1>2. /\ sync'.at = "checked" /\ sync'.rows = {} /\ sync'.tip = "none" /\ sync'.to = sync.to
    BY <1>1 DEF PInv, StoreTyped, Layered
<1>3. StoreTyped'
    BY <1>1, <1>2, FS_EmptySet, ChainsAssumption DEF PInv, StoreTyped
<1>4. Layered' /\ Visible' = {}
    BY <1>1, <1>2 DEF Layered, Apart, Visible, OpenRows
<1>5. walk' = [walk EXCEPT !.kept = @ \cap Visible'] /\ walk'.got = walk.got
    BY <1>1, <1>4 DEF Keep, PInv, WalkTyped
<1>6. Seen' \subseteq Seen
    BY <1>2, <1>4, <1>5 DEF Seen
<1> QED BY <1>1, <1>3, <1>4, <1>5, <1>6, StoreMoves

LEMMA StartWalkKeeps ==
    ASSUME PInv, StartWalk
    PROVE  PInv'
<1>1. PICK size \in PageSizes, filter \in Filters :
          walk' = [NewWalk(size, filter) EXCEPT
                     !.kept = Selected(filter), !.moved = Strayed(Visible \cup sync.rows, mined)]
    BY DEF StartWalk
<1>2. UNCHANGED store
    BY DEF StartWalk
<1>3. NoCursor \in Place /\ \A r \in Stored : After(r, NoCursor)
    BY ChainsAssumption DEF NoCursor, Row, Place, Stored, After, Newer
<1>4. Visible \in SUBSET Row /\ Selected(filter) \in SUBSET Stored
    BY VisibleIs DEF PInv, Selected, Stored
<1>5. size \in Nat \ {0}
    BY <1>1, RestAssumption
<1> DEFINE strayed == Strayed(Visible \cup sync.rows, mined)
<1>6. strayed \in SUBSET TradeKey
    BY <1>4, StrayedTyped DEF PInv, StoreTyped, Stored
<1>7. \A r \in Visible \cup sync.rows : r \in mined \/ Key(r) \in strayed
    BY DEF Strayed
<1>8. walk' = [NewWalk(size, filter) EXCEPT !.kept = Selected(filter), !.moved = strayed]
    BY <1>1
<1> HIDE DEF strayed
<1>9. /\ walk'.kept = Selected(filter) /\ walk'.filter = filter /\ walk'.got = {}
      /\ walk'.cursor = NoCursor /\ walk'.done = FALSE /\ walk'.twice = {}
      /\ walk'.moved = strayed
    BY <1>8 DEF NewWalk
<1>10. WalkTyped'
    BY <1>3, <1>4, <1>5, <1>6, <1>8 DEF WalkTyped, NewWalk, Stored
<1>11. Selected(filter)' = Selected(filter) /\ Visible' = Visible
    BY <1>2 DEF Selected, Visible, OpenRows, store
<1>12. WalkExact'
    BY <1>3, <1>4, <1>9, <1>11 DEF WalkExact, After
<1>13. StoreTyped' /\ Layered'
    BY <1>2 DEF PInv, StoreTyped, Layered, Apart, store
<1>14. InPlace'
    BY <1>2, <1>7, <1>9, <1>11 DEF InPlace, Seen, store
<1> QED BY <1>10, <1>12, <1>13, <1>14 DEF PInv

\* What a page takes off the rows after the cursor.
LEMMA PageIs ==
    ASSUME PInv
    PROVE  LET rows == {r \in Selected(walk.filter) : After(r, walk.cursor)}
           IN  /\ rows \in SUBSET Stored /\ IsFiniteSet(rows) /\ Apart(rows)
               /\ rows \in SUBSET Visible
               /\ Page(walk.filter, walk.cursor, walk.size) = FirstRows(rows, walk.size)
<1>1. {r \in Selected(walk.filter) : After(r, walk.cursor)} \in SUBSET Visible
    BY DEF Selected
<1>2. Visible \in SUBSET Stored /\ IsFiniteSet(Visible) /\ Apart(Visible)
    BY VisibleIs DEF PInv
<1> QED BY <1>1, <1>2, FS_Subset DEF Apart, Page, FirstRows, Above

LEMMA EndedKeeps ==
    ASSUME PInv, UNCHANGED store, walk' = Ended
    PROVE  PInv'
<1>1. WalkTyped'
    BY DEF PInv, WalkTyped, Ended
<1>2. WalkExact'
    BY DEF PInv, WalkTyped, WalkExact, Ended, Selected, Visible, OpenRows, store
<1>3. InPlace'
    BY DEF PInv, WalkTyped, InPlace, Seen, Ended, Visible, OpenRows, store
<1> QED BY <1>1, <1>2, <1>3 DEF PInv, StoreTyped, Layered, Apart, store

\* What a walk has got twice has moved: the chain has a trade in one place only.
LEMMA TwiceMoved ==
    ASSUME PInv, NEW page \in SUBSET Visible, page \cap walk.got = {}
    PROVE  { k \in { Key(r) : r \in page } : \E s \in walk.got : Key(s) = k } \subseteq walk.moved
<1> SUFFICES ASSUME NEW r \in page, NEW s \in walk.got, Key(s) = Key(r),
                    Key(r) \notin walk.moved
             PROVE  FALSE
    OBVIOUS
<1>1. r \in mined /\ s \in mined
    BY DEF PInv, InPlace, Seen
<1>2. r = s
    BY <1>1, ChainIs DEF PInv, StoreTyped
<1> QED BY <1>2

LEMMA PageKeeps ==
    ASSUME PInv, walk.on, UNCHANGED store,
           walk' = Turned(walk, Page(walk.filter, walk.cursor, walk.size))
    PROVE  PInv'
<1> DEFINE rows == {r \in Selected(walk.filter) : After(r, walk.cursor)}
           size == walk.size
           page == FirstRows(rows, size)
           full == Cardinality(page) = size
           again == { k \in { Key(r) : r \in page } : \E s \in walk.got : Key(s) = k }
<1>1. /\ rows \in SUBSET Stored /\ rows \in SUBSET Row /\ IsFiniteSet(rows)
      /\ Apart(rows) /\ rows \in SUBSET Visible
      /\ walk' = Turned(walk, page)
    BY PageIs DEF Stored
<1>2. size \in Nat \ {0}
    BY DEF PInv, WalkTyped
<1>3. page \in SUBSET rows /\ IsFiniteSet(page)
    <2>1. page \in SUBSET rows
        BY DEF FirstRows
    <2> HIDE DEF rows, page
    <2> QED BY <2>1, <1>1, FS_Subset
<1>4. page \cap walk.got = {}
    BY <1>3 DEF PInv, WalkExact
<1>5. Cardinality(page) \in Nat
    BY <1>3, FS_CardinalityType
<1>6. again \subseteq walk.moved /\ page \in SUBSET Visible
    <2>1. page \in SUBSET Visible
        <3> HIDE DEF page, rows
        <3> QED BY <1>1, <1>3
    <2> HIDE DEF page
    <2> QED BY <1>4, <2>1, TwiceMoved
<1>7. /\ Visible' = Visible
      /\ StoreTyped' /\ Layered'
    BY DEF PInv, StoreTyped, Layered, Apart, Visible, OpenRows, store
<1>8. (walk'.got = walk.got \cup page /\ walk'.moved = walk.moved) => InPlace'
    <2> HIDE DEF page
    <2> QED BY <1>6, <1>7 DEF PInv, InPlace, Seen, store
<1>9. CASE full
    <2> DEFINE o == Oldest(page)
               cursor == CursorOf(o)
    <2>1. page # {}
        <3> HIDE DEF page
        <3> QED BY <1>2, <1>9, FS_EmptySet
    <2>2. PICK r \in page : \A s \in page : ~Newer(r, s)
        <3> HIDE DEF page, rows
        <3> QED BY <1>1, <1>3, <2>1, OldestExists
    <2>3. \A s \in page \ {r} : Newer(s, r)
        <3> HIDE DEF page, rows
        <3> QED BY <1>1, <1>3, <2>2, NewerIsLinear DEF Apart
    <2>4. o \in page /\ \A s \in page \ {o} : Newer(s, o)
        <3> HIDE DEF page
        <3> QED BY <2>2, <2>3 DEF Oldest
    <2>5. \A s \in rows \ page : Newer(o, s)
        <3> HIDE DEF rows
        <3> QED BY <1>1, <1>2, <2>4, RestIsOlder
    <2>6. o \in Row /\ Newer(walk.cursor, o)
        BY <1>1, <1>3, <2>4 DEF After
    <2>7. /\ cursor \in Place
          /\ \A s : Newer(cursor, s) <=> Newer(o, s)
        <3> HIDE DEF o
        <3> QED BY <2>6 DEF CursorOf, Row, Place, Newer
    <2>8. walk' = [walk EXCEPT !.got = @ \cup page, !.twice = @ \cup again,
                               !.cursor = cursor, !.on = TRUE, !.done = FALSE]
        <3> HIDE DEF page
        <3> QED BY <1>1, <1>9 DEF Turned
    <2>9. /\ walk'.got = walk.got \cup page /\ walk'.twice = walk.twice \cup again
          /\ walk'.cursor = cursor /\ walk'.moved = walk.moved
          /\ walk'.on = TRUE /\ walk'.done = FALSE /\ walk'.kept = walk.kept
          /\ walk'.filter = walk.filter /\ WalkTyped'
        <3>1. page \in SUBSET Row
            BY <1>1, <1>3
        <3>2. again \in SUBSET TradeKey
            <4> HIDE DEF again
            <4> QED BY <1>6 DEF PInv, WalkTyped
        <3> HIDE DEF page, rows, cursor, o, again
        <3> QED BY ZenonT(60), <2>7, <2>8, <3>1, <3>2 DEF PInv, WalkTyped
    <2>10. \A s \in walk'.got : ~After(s, cursor)
        <3>1. ASSUME NEW s \in walk.got PROVE ~Newer(o, s)
            <4>1. s \in Row /\ walk.cursor \in Place /\ ~Newer(walk.cursor, s)
                BY <3>1 DEF PInv, WalkTyped, WalkExact, After
            <4>2. \A c \in Place, x \in Row, y \in Row : Newer(c, x) /\ Newer(x, y) => Newer(c, y)
                BY NewerIsLinear
            <4> HIDE DEF o
            <4> QED BY <4>1, <4>2, <2>6
        <3>2. ASSUME NEW s \in page PROVE ~Newer(o, s)
            <4>1. s \in Row /\ o \in Row
                BY <1>1, <1>3, <2>4
            <4> HIDE DEF o, page
            <4> QED BY <4>1, <2>4, NewerIsLinear
        <3> HIDE DEF o, page, cursor
        <3> QED BY <3>1, <3>2, <2>7, <2>9 DEF After
    <2>11. \A s \in walk.kept : s \in walk'.got \/ After(s, cursor)
        <3>1. \A s \in walk.kept : s \in walk.got \/ s \in rows
            BY DEF PInv, WalkExact
        <3> HIDE DEF o, page, rows, cursor
        <3> QED BY <3>1, <2>5, <2>7, <2>9 DEF After
    <2>12. walk'.kept \subseteq Selected(walk.filter)'
        BY <1>7, <2>9 DEF PInv, WalkExact, Selected
    <2>13. walk'.twice \subseteq walk'.moved
        <3> HIDE DEF again
        <3> QED BY <1>6, <2>9 DEF PInv, WalkExact
    <2>14. WalkExact'
        <3> HIDE DEF o, page, rows, cursor, again
        <3> QED BY <2>9, <2>10, <2>11, <2>12, <2>13 DEF WalkExact
    <2> QED BY <1>7, <1>8, <2>9, <2>14 DEF PInv
<1>10. CASE ~full
    <2>1. page = rows
        <3>1. CASE Cardinality(page) < size
            <4> HIDE DEF rows
            <4> QED BY <3>1, <1>1, <1>2, ShortPageIsAll
        <3>2. Cardinality(page) <= size
            <4> HIDE DEF rows
            <4> QED BY <1>1, <1>2, PageNotOver
        <3> HIDE DEF page, rows
        <3> QED BY <1>2, <1>5, <1>10, <3>1, <3>2
    <2>2. walk' = [walk EXCEPT !.got = @ \cup page, !.twice = @ \cup again,
                               !.on = FALSE, !.done = TRUE]
        <3> HIDE DEF page
        <3> QED BY <1>1, <1>10 DEF Turned, PInv, WalkTyped
    <2>3. /\ walk'.got = walk.got \cup page /\ walk'.twice = walk.twice \cup again
          /\ walk'.on = FALSE /\ walk'.kept = walk.kept /\ walk'.moved = walk.moved
          /\ walk'.filter = walk.filter /\ WalkTyped'
        <3>1. page \in SUBSET Row
            BY <1>1, <1>3
        <3>2. again \in SUBSET TradeKey
            <4> HIDE DEF again
            <4> QED BY <1>6 DEF PInv, WalkTyped
        <3> HIDE DEF page, rows, again
        <3> QED BY ZenonT(60), <2>2, <3>1, <3>2 DEF PInv, WalkTyped
    <2>4. walk'.kept \subseteq walk'.got
        <3>1. \A s \in walk.kept : s \in walk.got \/ s \in rows
            BY DEF PInv, WalkExact
        <3> HIDE DEF page, rows
        <3> QED BY <3>1, <2>1, <2>3
    <2>5. walk'.kept \subseteq Selected(walk.filter)'
        BY <1>7, <2>3 DEF PInv, WalkExact, Selected
    <2>6. walk'.twice \subseteq walk'.moved
        <3> HIDE DEF again
        <3> QED BY <1>6, <2>3 DEF PInv, WalkExact
    <2>7. WalkExact'
        <3> HIDE DEF page, rows, again
        <3> QED BY <2>3, <2>4, <2>5, <2>6 DEF WalkExact
    <2> QED BY <1>7, <1>8, <2>3, <2>7 DEF PInv
<1> QED BY <1>9, <1>10

LEMMA TurnPageKeepsPages ==
    ASSUME PInv, TurnPage
    PROVE  PInv'
<1>1. walk.on /\ UNCHANGED store
    BY DEF TurnPage
<1>2. CASE walk' = Turned(walk, Page(walk.filter, walk.cursor, walk.size))
    BY <1>1, <1>2, PageKeeps
<1>3. CASE walk' = Ended
    BY <1>1, <1>3, EndedKeeps
<1> QED BY <1>2, <1>3 DEF TurnPage

LEMMA PagesNext ==
    ASSUME PInv, [Next]_vars
    PROVE  PInv'
<1>1. CASE Nap \/ Tick \/ StartBurst \/ Burst \/ UNCHANGED vars
    <2>1. UNCHANGED <<store, walk>>
        BY <1>1 DEF Nap, Tick, StartBurst, Burst, vars
    <2> QED BY <2>1 DEF PInv, StoreTyped, Layered, Apart, InPlace, Seen, WalkTyped, WalkExact,
                        Selected, Visible, OpenRows, store
<1>2. CASE LoseRequest
    BY <1>2, EndedKeeps DEF LoseRequest
<1> QED
    BY <1>1, <1>2, ReorgKeeps, CheckTipKeeps, RebuildKeeps, ReadLogsKeeps, OpenRangeKeeps,
       ReadTipKeeps, CommitRangeKeeps, RollBackRangeKeeps, StartWalkKeeps, TurnPageKeepsPages
    DEF Next

-----------------------------------------------------------------------------
(***************************************************************************)
(* The throttle of the API client (mini.js) never lets a 429 happen while   *)
(* no more replies in a row are lost than it keeps in reserve.             *)
(***************************************************************************)
THEOREM ThrottleIsEnough ==
    ASSUME MaxLost <= Reserve
    PROVE  Spec => []ThrottleSuffices
<1>1. Init => IInv
    BY InitHolds
<1>2. IInv /\ [Next]_vars => IInv'
    BY NextKeeps
<1>3. IInv => ThrottleSuffices
    BY DEF IInv
<1> QED BY <1>1, <1>2, <1>3, PTL DEF Spec


(***************************************************************************)
(* GET /trades, for any chains, any reorganisations and any page size: a    *)
(* walk that reaches the last page returned no trade twice but those that   *)
(* were moved under it, and missed no row that stayed.                      *)
(***************************************************************************)
THEOREM PagesAreExact == Spec => []PagesExact
<1>1. Init => PInv
    BY PagesInit
<1>2. PInv /\ [Next]_vars => PInv'
    BY PagesNext
<1>3. PInv => PagesExact
    BY DEF PInv, WalkExact, PagesExact
<1> QED BY <1>1, <1>2, <1>3, PTL DEF Spec

===============================================================================
