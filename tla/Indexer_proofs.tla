--------------------------- MODULE Indexer_proofs ---------------------------
(***************************************************************************)
(* Two promises of the indexer, for any chain, any blocks and any faults.  *)
(*                                                                         *)
(* PauseHolds: what the pause lever promises.  The argument needs nothing  *)
(* of the tables, only the order of the awaits.                            *)
(*                                                                         *)
(* StoreIsTheChain: a store that has caught up holds what the chain's logs *)
(* say.  From the bottom: what one more log does to a sum, a last log and  *)
(* a row of every table (Tells, Agree); the logs of a range and of a block *)
(* in order; what a transaction emits is legal where it is emitted, so a   *)
(* mined chain stays lawful; then the service: whatever is committed, and  *)
(* whatever is in sight, was read off the present chain up to some height  *)
(* (Faithful), or a stored hash will tell that it was not (Mismatch).      *)
(***************************************************************************)
EXTENDS Indexer, PerpMath_proofs, SequenceTheorems, TLAPS

-----------------------------------------------------------------------------
(* The pause lever.                                                         *)

\* A pass that can still commit a range: it read the state unpaused.
MayCommit == pc \in {"head", "check", "logs", "tip"} \/ (pc \in {"count", "market", "index"} /\ ~sy.boot)

\* Away from an open transaction what is seen is what is committed.
SeenIsCommitted == pc # "tip" => disk.state.paused = state.paused

\* The store is paused by an answer that stood.
Stands == ~pause.undone /\ pause.told

AnswerIsKept == ~pause.undone => state.paused = pause.told

\* Whoever pauses under a pass has just reset the count.
PauseUnderPass == MayCommit /\ Stands => pause.late = 0

AtMostOne == Stands => pause.late <= 1

\* The fields the argument reads are there.
Shapes ==
    /\ "paused" \in DOMAIN state /\ state.paused \in BOOLEAN
    /\ disk.state.paused \in BOOLEAN /\ "paused" \in DOMAIN disk.state
    /\ "boot" \in DOMAIN sy
    /\ pause \in [told : BOOLEAN, undone : BOOLEAN, late : Nat]

IInv == Shapes /\ SeenIsCommitted /\ AnswerIsKept /\ PauseUnderPass /\ AtMostOne

LEMMA InitHolds == Init => IInv
<1> SUFFICES ASSUME Init PROVE IInv
    OBVIOUS
<1>1. /\ state = [last |-> 0, hash |-> NoHash, paused |-> FALSE]
      /\ disk.state = state /\ pause = [told |-> FALSE, undone |-> FALSE, late |-> 0]
      /\ pc = "down" /\ sy = NoRead
    BY DEF Init
<1>2. Shapes
    BY <1>1 DEF Shapes, NoRead
<1>3. state.paused = FALSE /\ disk.state.paused = FALSE /\ pause.told = FALSE
    BY <1>1
<1> QED BY <1>1, <1>2, <1>3 DEF IInv, SeenIsCommitted, AnswerIsKept, PauseUnderPass, AtMostOne, Stands

\* Whether a range is asked for or not, no transaction is open.
LEMMA AskedOrIdle ==
    ASSUME NEW r, AskForLogs(r), "boot" \in DOMAIN r, "boot" \in DOMAIN NoRead
    PROVE pc' \in {"idle", "logs"} /\ "boot" \in DOMAIN sy'
    BY DEF AskForLogs

LEMMA NoReadShape == "boot" \in DOMAIN NoRead /\ NoRead.boot = FALSE
    BY DEF NoRead

\* Steps that touch neither the state nor the count only have to keep a pass that
\* could not commit from becoming one that can.
LEMMA QuietSteps ==
    ASSUME IInv, UNCHANGED <<state, disk, pause>>, "boot" \in DOMAIN sy',
           pc' # "tip" => pc # "tip",
           MayCommit' => MayCommit \/ (~state.paused /\ pc # "tip")
    PROVE IInv'
<1>1. Shapes' /\ SeenIsCommitted' /\ AnswerIsKept' /\ AtMostOne'
    BY DEF IInv, Shapes, SeenIsCommitted, AnswerIsKept, AtMostOne, Stands
<1>2. PauseUnderPass'
    BY DEF IInv, Shapes, AnswerIsKept, PauseUnderPass, Stands
<1> QED BY <1>1, <1>2 DEF IInv

LEMMA ReadingSteps ==
    ASSUME IInv, tick \/ readHead \/ sameBlock \/ marketCount \/ applyRange \/ start
    PROVE IInv'
<1> USE NoReadShape
<1>1. "boot" \in DOMAIN sy
    BY DEF IInv, Shapes
<1>2. CASE tick
    BY <1>2, <1>1, QuietSteps DEF tick, MayCommit
<1>3. CASE readHead
    <2> DEFINE r == [sy EXCEPT !.head = Len(chain)]
    <2>1. "boot" \in DOMAIN r
        BY <1>1
    <2>2. UNCHANGED <<state, disk, pause>> /\ pc = "head"
        BY <1>3 DEF readHead
    <2>3. (pc' = "check" /\ sy' = r) \/ AskForLogs(r)
        BY <1>3 DEF readHead
    <2> HIDE DEF r
    <2>4. pc' # "tip" /\ "boot" \in DOMAIN sy'
        BY <2>1, <2>3, AskedOrIdle
    <2> QED BY <2>2, <2>4, QuietSteps DEF MayCommit
<1>4. CASE sameBlock
    BY <1>4, <1>1, AskedOrIdle, QuietSteps DEF sameBlock, MayCommit
<1>5. CASE marketCount
    <2>1. pc = "count" /\ pc' = "market" /\ UNCHANGED <<state, disk, pause>>
        BY <1>5 DEF marketCount
    <2>2. "boot" \in DOMAIN sy' /\ sy'.boot = sy.boot
        BY <1>5, <1>1 DEF marketCount
    <2> QED BY <2>1, <2>2, QuietSteps DEF MayCommit
<1>6. CASE applyRange
    BY <1>6, <1>1, QuietSteps DEF applyRange, MayCommit
<1>7. CASE start
    <2>1. pc = "down" /\ pc' = "count" /\ UNCHANGED <<state, disk, pause>>
        BY <1>7 DEF start
    <2>2. "boot" \in DOMAIN sy' /\ sy'.boot = TRUE
        BY <1>7, NoReadShape DEF start
    <2> QED BY <2>1, <2>2, QuietSteps DEF MayCommit
<1> QED BY <1>2, <1>3, <1>4, <1>5, <1>6, <1>7

\* A statement outside a range is committed as it stands.
LEMMA SeedKeeps ==
    ASSUME IInv, NEW t, Write(state, t), pc # "tip", pause' = pause, "boot" \in DOMAIN sy'
    PROVE Shapes' /\ SeenIsCommitted' /\ AnswerIsKept' /\ AtMostOne'
<1>1. state' = state /\ disk'.state = state
    BY DEF Write
<1> QED BY <1>1 DEF IInv, Shapes, SeenIsCommitted, AnswerIsKept, AtMostOne, Stands

LEMMA WritingSteps ==
    ASSUME IInv, rebuild \/ seedMarket \/ seedIndex
    PROVE IInv'
<1>1. "boot" \in DOMAIN sy
    BY DEF IInv, Shapes
<1>2. CASE rebuild
    <2>1. /\ pc = "check" /\ pc' = "count" /\ sy' = sy /\ pause' = pause
          /\ Write([last |-> 0, hash |-> NoHash, paused |-> state.paused], NoRows)
        BY <1>2 DEF rebuild
    <2>2. /\ state' = [last |-> 0, hash |-> NoHash, paused |-> state.paused]
          /\ disk'.state = state'
        BY <2>1 DEF Write
    <2>3. state'.paused = state.paused /\ disk'.state.paused = state.paused
        BY <2>2
    <2>4. Shapes' /\ SeenIsCommitted' /\ AnswerIsKept' /\ AtMostOne'
        BY <2>1, <2>2, <2>3 DEF IInv, Shapes, SeenIsCommitted, AnswerIsKept, AtMostOne, Stands
    <2>5. PauseUnderPass'
        BY <2>1 DEF IInv, PauseUnderPass, Stands, MayCommit
    <2> QED BY <2>4, <2>5 DEF IInv
<1>3. CASE seedMarket
    <2>1. /\ pc = "market" /\ pc' = "index" /\ sy' = sy /\ pause' = pause
          /\ \E t : Write(state, t)
        BY <1>3 DEF seedMarket, Seed
    <2>2. Shapes' /\ SeenIsCommitted' /\ AnswerIsKept' /\ AtMostOne'
        BY <2>1, <1>1, SeedKeeps
    <2>3. PauseUnderPass'
        BY <2>1 DEF IInv, PauseUnderPass, Stands, MayCommit
    <2> QED BY <2>2, <2>3 DEF IInv
<1>4. CASE seedIndex
    <2> DEFINE asked == [sy EXCEPT !.last = state.last, !.hash = state.hash]
               moved == [sy EXCEPT !.market = @ + 1]
    <2>1. "boot" \in DOMAIN asked /\ "boot" \in DOMAIN moved /\ moved.boot = sy.boot
        BY <1>1
    <2>2. /\ pc = "index" /\ pause' = pause
          /\ \E t : Write(state, t)
        BY <1>4 DEF seedIndex, Seed
    <2>3. \/ pc' = "market" /\ sy' = moved
          \/ pc' = "idle" /\ sy' = NoRead
          \/ ~sy.boot /\ AskForLogs(asked)
        BY <1>4 DEF seedIndex
    <2> HIDE DEF asked, moved
    <2>4. /\ "boot" \in DOMAIN sy'
          /\ \/ pc' = "market" /\ sy'.boot = sy.boot
             \/ pc' = "idle"
             \/ ~sy.boot /\ pc' = "logs"
        BY <2>1, <2>3, NoReadShape, AskedOrIdle
    <2>5. Shapes' /\ SeenIsCommitted' /\ AnswerIsKept' /\ AtMostOne'
        BY <2>2, <2>4, SeedKeeps
    <2>6. PauseUnderPass'
        BY <2>2, <2>4 DEF IInv, PauseUnderPass, Stands, MayCommit
    <2> QED BY <2>5, <2>6 DEF IInv
<1> QED BY <1>2, <1>3, <1>4

\* The one step that counts: the pass it ends read the state unpaused.
LEMMA CommitStep ==
    ASSUME IInv, commit
    PROVE IInv'
<1>1. /\ pc = "tip" /\ pc' = "idle" /\ sy' = NoRead
      /\ pause' = [pause EXCEPT !.late = IF pause.told THEN @ + 1 ELSE 0]
      /\ disk'.state = state'
    BY DEF commit
<1>2. "paused" \in DOMAIN state' /\ state'.paused = state.paused
    BY DEF commit, IInv, Shapes
<1>p. /\ pause'.told = pause.told /\ pause'.undone = pause.undone
      /\ pause' \in [told : BOOLEAN, undone : BOOLEAN, late : Nat]
      /\ pause.told => pause'.late = pause.late + 1
    BY <1>1 DEF IInv, Shapes
<1>3. Stands => pause.late = 0
    BY <1>1 DEF IInv, PauseUnderPass, MayCommit
<1>4. Shapes'
    BY <1>1, <1>2, <1>p, NoReadShape DEF IInv, Shapes
<1>5. AtMostOne' /\ SeenIsCommitted' /\ AnswerIsKept' /\ PauseUnderPass'
    BY <1>1, <1>2, <1>p, <1>3
       DEF IInv, AtMostOne, SeenIsCommitted, AnswerIsKept, PauseUnderPass, MayCommit, Stands
<1> QED BY <1>4, <1>5 DEF IInv

\* Rolling back, or dying, leaves what was committed and no pass; an answer that
\* goes with it is undone.
LEMMA ThrowingSteps ==
    ASSUME IInv, requestFails \/ marketGone \/ statementFails \/ crash
    PROVE IInv'
<1>1. /\ state' = disk.state /\ disk' = disk /\ RolledBack
      /\ pc' \in {"down", "idle"} /\ sy' = NoRead
    BY DEF requestFails, marketGone, statementFails, crash, Throw
<1>p. /\ pause'.told = pause.told /\ pause'.late = pause.late
      /\ pause'.undone = (pause.undone \/ state.paused # disk.state.paused)
      /\ pause' \in [told : BOOLEAN, undone : BOOLEAN, late : Nat]
    BY <1>1 DEF RolledBack, IInv, Shapes
<1>2. Shapes'
    BY <1>1, <1>p, NoReadShape DEF IInv, Shapes
<1>3. AtMostOne' /\ SeenIsCommitted' /\ AnswerIsKept' /\ PauseUnderPass'
    BY <1>1, <1>p
       DEF IInv, AtMostOne, SeenIsCommitted, AnswerIsKept, PauseUnderPass, MayCommit, Stands
<1> QED BY <1>2, <1>3 DEF IInv

LEMMA AdminSteps ==
    ASSUME IInv, (\E flag \in BOOLEAN : setPaused(flag)) \/ (\E h \in 0..MaxHeight : rewindTo(h))
    PROVE IInv'
<1>1. CASE \E flag \in BOOLEAN : setPaused(flag)
    <2>1. PICK flag \in BOOLEAN : setPaused(flag)
        BY <1>1
    <2>2. /\ pause' = [told |-> flag, undone |-> FALSE, late |-> 0] /\ UNCHANGED <<pc, sy>>
          /\ "paused" \in DOMAIN state' /\ state'.paused = flag
        BY <2>1 DEF setPaused, Write, IInv, Shapes
    <2>3. (disk' = disk /\ pc = "tip") \/ (disk'.state = state' /\ pc # "tip")
        BY <2>1 DEF setPaused, Write
    <2>4. /\ pause'.told = flag /\ pause'.late = 0
          /\ pause' \in [told : BOOLEAN, undone : BOOLEAN, late : Nat]
        BY <2>2
    <2>5. Shapes' /\ SeenIsCommitted'
        BY <2>2, <2>3, <2>4 DEF IInv, Shapes, SeenIsCommitted
    <2>6. AnswerIsKept' /\ AtMostOne' /\ PauseUnderPass'
        BY <2>2, <2>4 DEF AtMostOne, AnswerIsKept, PauseUnderPass, Stands
    <2> QED BY <2>5, <2>6 DEF IInv
<1>2. CASE \E h \in 0..MaxHeight : rewindTo(h)
    <2> PICK h \in 0..MaxHeight : rewindTo(h)
        BY <1>2
    <2> DEFINE s == [state EXCEPT !.last = h, !.hash = NoHash]
    <2>0. Write(s, tables) /\ pause' = pause /\ UNCHANGED <<pc, sy>>
        BY DEF rewindTo
    <2>s. "paused" \in DOMAIN s /\ s.paused = state.paused
        BY DEF IInv, Shapes
    <2> HIDE DEF s
    <2>1. /\ pause' = pause /\ UNCHANGED <<pc, sy>>
          /\ "paused" \in DOMAIN state' /\ state'.paused = state.paused
        BY <2>0, <2>s DEF Write
    <2>2. (disk' = disk /\ pc = "tip") \/ (disk'.state = state' /\ pc # "tip")
        BY <2>0 DEF Write
    <2>3. disk'.state.paused = disk.state.paused
        BY <2>1, <2>2 DEF IInv, SeenIsCommitted
    <2>4. Shapes'
        BY <2>1, <2>2 DEF IInv, Shapes
    <2> QED BY <2>1, <2>3, <2>4
            DEF IInv, AtMostOne, SeenIsCommitted, AnswerIsKept, PauseUnderPass, MayCommit, Stands
<1> QED BY <1>1, <1>2

LEMMA ChainSteps ==
    ASSUME IInv, UNCHANGED <<state, disk, pc, sy, pause>>
    PROVE IInv'
    BY DEF IInv, Shapes, AtMostOne, SeenIsCommitted, AnswerIsKept, PauseUnderPass, MayCommit, Stands

LEMMA StepHolds == IInv /\ [Next]_vars => IInv'
<1> SUFFICES ASSUME IInv, [Next]_vars PROVE IInv'
    OBVIOUS
<1>1. CASE (\E txs \in Blocks : Mine(txs)) \/ (\E h \in 1..Len(chain) : Revert(h)) \/ UNCHANGED vars
    BY <1>1, ChainSteps DEF Mine, Revert, vars
<1>2. CASE Pass
    BY <1>2, ReadingSteps, WritingSteps, CommitStep, ThrowingSteps DEF Pass
<1>3. CASE requestFails \/ crash
    BY <1>3, ThrowingSteps
<1>4. CASE (\E flag \in BOOLEAN : setPaused(flag)) \/ (\E h \in 0..MaxHeight : rewindTo(h))
    BY <1>4, AdminSteps
<1>5. CASE start
    BY <1>5, ReadingSteps
<1> QED BY <1>1, <1>2, <1>3, <1>4, <1>5 DEF Next

\* What the pause route answered last holds: the store is set to it, and paused it
\* advances by the range in flight and no further, whatever fails, dies or is
\* rewound meanwhile.  The one exception is an answer given inside an open range
\* and rolled back with it.
THEOREM PauseHolds == Spec => []PauseFreezes
<1>1. IInv => PauseFreezes
    BY DEF IInv, AnswerIsKept, AtMostOne, PauseFreezes, Stands
<1> QED BY <1>1, InitHolds, StepHolds, PTL DEF Spec

-----------------------------------------------------------------------------
(***************************************************************************)
(* Sums and last logs, as logs are added one after the other.              *)
(***************************************************************************)
LEMMA TotalEmpty == \A field : Total({}, field) = 0
    BY SumEmpty DEF Total

LEMMA TotalGrows ==
    ASSUME NEW S, IsFiniteSet(S), NEW x, x \notin S, NEW field, \A k \in S \cup {x} : k[field] \in Int
    PROVE  Total(S, field) \in Int /\ Total(S \cup {x}, field) = Total(S, field) + x[field]
<1> DEFINE f == [k \in S |-> k[field]]
           g == [k \in S \cup {x} |-> k[field]]
           U == S \cup {x}
<1>1. IsFiniteSet(U)
    BY FS_AddElement
<1>2. U \ {x} = S /\ x \in U
    OBVIOUS
<1>3. \A k \in U : g[k] \in Int
    OBVIOUS
<1>4. \A k \in S : f[k] = g[k] /\ f[k] \in Int
    OBVIOUS
<1>5. g[x] = x[field]
    OBVIOUS
<1> HIDE DEF f, g, U
<1>6. SumFunctionOnSet(g, U) = g[x] + SumFunctionOnSet(g, U \ {x})
    BY <1>1, <1>2, <1>3, SumTakeOut
<1>7. SumFunctionOnSet(f, S) = SumFunctionOnSet(g, S)
    BY <1>4, SumSame
<1>8. SumFunctionOnSet(f, S) \in Int
    BY <1>4, SumInt
<1>9. x[field] \in Int
    OBVIOUS
<1>10. SumFunctionOnSet(g, U) = SumFunctionOnSet(f, S) + x[field]
    <2>1. SumFunctionOnSet(g, U) = x[field] + SumFunctionOnSet(f, S)
        BY <1>2, <1>5, <1>6, <1>7
    <2> DEFINE a == SumFunctionOnSet(f, S)
               b == x[field]
    <2>2. a \in Int /\ b \in Int
        BY <1>8, <1>9
    <2> HIDE DEF a, b
    <2>3. b + a = a + b
        BY <2>2
    <2> QED BY <2>1, <2>3 DEF a, b
<1> QED BY <1>8, <1>10 DEF Total, f, g, U

LEMMA TotalInt ==
    ASSUME NEW S, IsFiniteSet(S), NEW field, \A k \in S : k[field] \in Int
    PROVE  Total(S, field) \in Int
<1> DEFINE f == [k \in S |-> k[field]]
<1>1. \A k \in S : f[k] \in Int
    OBVIOUS
<1> HIDE DEF f
<1>2. SumFunctionOnSet(f, S) \in Int
    BY <1>1, SumInt
<1> QED BY <1>2 DEF Total, f

\* A log with a place in the chain: its block, its index in it, and a hash that names the block.
Placed_(l) == l.block \in Nat \ {0} /\ l.index \in Nat /\ l.tx[1] = l.block

LEMMA LatestNew ==
    ASSUME NEW S, NEW x, \A k \in S : Placed_(k) /\ Before(k, x), Placed_(x)
    PROVE  Latest(S \cup {x}) = x
<1> DEFINE Is(y) == y \in S \cup {x} /\ \A k \in S \cup {x} : k = y \/ Before(k, y)
<1>1. Is(x)
    OBVIOUS
<1>2. ASSUME NEW y, Is(y) PROVE y = x
    <2> SUFFICES ASSUME y # x PROVE FALSE
        OBVIOUS
    <2>1. Before(y, x) /\ Before(x, y) /\ Placed_(y)
        BY <1>2
    <2> QED BY <2>1 DEF Before, Placed_
<1>3. Latest(S \cup {x}) = CHOOSE y \in S \cup {x} : \A k \in S \cup {x} : k = y \/ Before(k, y)
    BY DEF Latest
<1> QED BY <1>1, <1>2, <1>3

(***************************************************************************)
(* The chain's logs, one at a time.                                        *)
(***************************************************************************)
Ids(P) == {l.order : l \in Named(P, "OrderPlaced")}
Inited(P) == {l.account : l \in Named(P, "AccountInitialized")}
Undone == {"Open", "Pending"}
Markets(P) == {l.market : l \in Named(P, "PriceSet")}

\* What a log of each kind says about the ones before it: the contract's promises to its readers.
Legal(P, l) ==
    /\ Placed_(l)
    /\ \A k \in P : Before(k, l)
    /\ l.name = "OrderPlaced" =>
         l.order = Cardinality(Ids(P)) + 1 /\ l.size \in Nat \ {0} /\ l.stop \in BOOLEAN
    /\ l.name = "OrderFilled" =>
         /\ l.taker \in Ids(P) /\ l.maker \in Ids(P) \cup {0} /\ l.taker # l.maker /\ l.size \in Int
         /\ \A id \in {l.taker, l.maker} \cap Ids(P) : OrdersOf(P)[id].status \in Undone
    /\ l.name = "OrderCancelled" => l.order \in Ids(P)
    /\ l.name = "OrderTriggered" => l.order \in Ids(P) /\ OrdersOf(P)[l.order].status = "Pending"
    /\ l.name \in {"Deposited", "Withdrawn"} => l.account \in Inited(P) /\ l.amount \in Int
    /\ l.name = "PositionChanged" => l.delta \in Int
    /\ l.name = "PriceSet" => l.market \in Markets(P) \cup {Cardinality(Markets(P)) + 1}

\* Logs that came one after the other, each legal when it did.
Ordered(P) == \A k, l \in P : k = l \/ Before(k, l) \/ Before(l, k)
SanePlaced(P) ==
    /\ \E n \in Nat : Ids(P) = 1 .. n
    /\ \A k, l \in Named(P, "OrderPlaced") : k.order = l.order => k = l
    /\ \A l \in Named(P, "OrderPlaced") : l.size \in Nat \ {0} /\ l.stop \in BOOLEAN
SaneFilled(P) == \A l \in Named(P, "OrderFilled") :
    l.taker \in Ids(P) /\ l.maker \in Ids(P) \cup {0} /\ l.size \in Int
SaneEnded(P) == \A l \in Named(P, "OrderCancelled") \cup Named(P, "OrderTriggered") : l.order \in Ids(P)
SaneFlows(P) == \A l \in Named(P, "Deposited") \cup Named(P, "Withdrawn") :
    l.account \in Inited(P) /\ l.amount \in Int
SanePrices(P) == \E n \in Nat : Markets(P) = 1 .. n
SaneChanges(P) == \A l \in Named(P, "PositionChanged") : l.delta \in Int
Sane(P) ==
    /\ IsFiniteSet(P) /\ (\A l \in P : Placed_(l)) /\ Ordered(P)
    /\ SanePlaced(P) /\ SaneFilled(P) /\ SaneEnded(P) /\ SaneFlows(P) /\ SaneChanges(P)
    /\ SanePrices(P)

LEMMA NamedEmpty == \A name : Named({}, name) = {}
    BY DEF Named

LEMMA NamedGrows ==
    ASSUME NEW P, NEW l, NEW name
    PROVE  Named(P \cup {l}, name) = IF l.name = name THEN Named(P, name) \cup {l} ELSE Named(P, name)
    BY DEF Named

LEMMA NamedFinite ==
    ASSUME NEW P, IsFiniteSet(P), NEW name
    PROVE  IsFiniteSet(Named(P, name)) /\ Named(P, name) \subseteq P
<1>1. Named(P, name) \subseteq P
    BY DEF Named
<1> QED BY <1>1, FS_Subset

LEMMA IdsGrow ==
    ASSUME NEW P, NEW l
    PROVE  Ids(P \cup {l}) = IF l.name = "OrderPlaced" THEN Ids(P) \cup {l.order} ELSE Ids(P)
    BY DEF Ids, Named

LEMMA InitedGrow ==
    ASSUME NEW P, NEW l
    PROVE  Inited(P \cup {l}) = IF l.name = "AccountInitialized" THEN Inited(P) \cup {l.account} ELSE Inited(P)
    BY DEF Inited, Named

LEMMA MarketsGrow ==
    ASSUME NEW P, NEW l
    PROVE  Markets(P \cup {l}) = IF l.name = "PriceSet" THEN Markets(P) \cup {l.market} ELSE Markets(P)
    BY DEF Markets, Named

LEMMA SaneEmpty == Sane({})
<1>1. \A name : Named({}, name) = {}
    BY NamedEmpty
<1>2. Ids({}) = {} /\ {} = 1 .. 0
    BY <1>1 DEF Ids
<1>3. SanePlaced({})
    BY <1>1, <1>2 DEF SanePlaced
<1>4. SanePrices({})
    <2>1. Markets({}) = {} /\ {} = 1 .. 0
        BY <1>1 DEF Markets
    <2> QED BY <2>1 DEF SanePrices
<1> QED BY <1>1, <1>3, <1>4, FS_EmptySet DEF Sane, Ordered, SaneFilled, SaneEnded, SaneFlows, SaneChanges

\* The order a log places has the next number.
LEMMA NextNumber ==
    ASSUME NEW P, SanePlaced(P)
    PROVE  \E n \in Nat : Ids(P) = 1 .. n /\ Cardinality(Ids(P)) = n
<1>1. PICK n \in Nat : Ids(P) = 1 .. n
    BY DEF SanePlaced
<1>2. Cardinality(1 .. n) = n
    <2>1. Cardinality(1 .. n) = IF 1 > n THEN 0 ELSE n - 1 + 1
        BY FS_Interval
    <2> QED BY <2>1
<1> QED BY <1>1, <1>2

LEMMA OneMore == \A n \in Nat : (1 .. n) \cup {n + 1} = 1 .. (n + 1)
    OBVIOUS

LEMMA SanePlacedGrows ==
    ASSUME NEW P, SanePlaced(P), NEW l, Legal(P, l)
    PROVE  SanePlaced(P \cup {l})
<1> DEFINE U == P \cup {l}
<1>1. PICK n \in Nat : Ids(P) = 1 .. n /\ Cardinality(Ids(P)) = n
    BY NextNumber
<1>2. CASE l.name # "OrderPlaced"
    <2>1. Named(U, "OrderPlaced") = Named(P, "OrderPlaced") /\ Ids(U) = Ids(P)
        BY <1>2, NamedGrows, IdsGrow
    <2> QED BY <2>1 DEF SanePlaced
<1>3. CASE l.name = "OrderPlaced"
    <2>1. Named(U, "OrderPlaced") = Named(P, "OrderPlaced") \cup {l} /\ Ids(U) = Ids(P) \cup {l.order}
        BY <1>3 DEF Named, Ids
    <2>2. l.order = n + 1 /\ l.size \in Nat \ {0} /\ l.stop \in BOOLEAN
        BY <1>1, <1>3 DEF Legal
    <2>3. Ids(U) = 1 .. (n + 1)
        <3>1. Ids(U) = (1 .. n) \cup {n + 1}
            BY <1>1, <2>1, <2>2
        <3> QED BY <3>1, OneMore
    <2>4. \A k \in Named(P, "OrderPlaced") : k.order # l.order
        <3>1. \A k \in Named(P, "OrderPlaced") : k.order \in 1 .. n
            BY <1>1 DEF Ids
        <3> QED BY <3>1, <2>2
    <2>5. \A k, j \in Named(U, "OrderPlaced") : k.order = j.order => k = j
        BY <2>1, <2>4 DEF SanePlaced
    <2>6. n + 1 \in Nat
        OBVIOUS
    <2> HIDE DEF U
    <2>7. \A k \in Named(U, "OrderPlaced") : k.size \in Nat \ {0} /\ k.stop \in BOOLEAN
        BY <2>1, <2>2 DEF SanePlaced
    <2> QED BY <2>3, <2>5, <2>6, <2>7 DEF SanePlaced, U
<1> QED BY <1>2, <1>3

\* A market is listed under the next number.
LEMMA NextMarket ==
    ASSUME NEW P, SanePrices(P)
    PROVE  \E n \in Nat : Markets(P) = 1 .. n /\ Cardinality(Markets(P)) = n
<1>1. PICK n \in Nat : Markets(P) = 1 .. n
    BY DEF SanePrices
<1>2. Cardinality(1 .. n) = n
    <2>1. Cardinality(1 .. n) = IF 1 > n THEN 0 ELSE n - 1 + 1
        BY FS_Interval
    <2> QED BY <2>1
<1> QED BY <1>1, <1>2

LEMMA SanePricesGrow ==
    ASSUME NEW P, SanePrices(P), NEW l, Legal(P, l)
    PROVE  SanePrices(P \cup {l})
<1>1. PICK n \in Nat : Markets(P) = 1 .. n /\ Cardinality(Markets(P)) = n
    BY NextMarket
<1>2. Markets(P \cup {l}) = IF l.name = "PriceSet" THEN Markets(P) \cup {l.market} ELSE Markets(P)
    BY MarketsGrow
<1>3. l.name = "PriceSet" => l.market \in (1 .. n) \cup {n + 1}
    BY <1>1 DEF Legal
<1>4. Markets(P \cup {l}) = 1 .. n \/ Markets(P \cup {l}) = (1 .. n) \cup {n + 1}
    BY <1>1, <1>2, <1>3
<1>5. n + 1 \in Nat /\ (1 .. n) \cup {n + 1} = 1 .. (n + 1)
    BY OneMore
<1> QED BY <1>4, <1>5 DEF SanePrices

LEMMA SaneGrows ==
    ASSUME NEW P, Sane(P), NEW l, Legal(P, l)
    PROVE  Sane(P \cup {l})
<1> DEFINE U == P \cup {l}
<1>1. IsFiniteSet(U)
    BY FS_AddElement DEF Sane
<1>2. (\A k \in U : Placed_(k)) /\ Ordered(U)
    BY DEF Sane, Legal, Ordered
<1>3. SanePlaced(U)
    BY SanePlacedGrows DEF Sane
<1>4. Ids(P) \subseteq Ids(U) /\ Inited(P) \subseteq Inited(U)
    BY IdsGrow, InitedGrow
<1> HIDE DEF U
<1>5. SaneFilled(U)
    <2>1. \A k \in Named(U, "OrderFilled") : k \in Named(P, "OrderFilled") \/ (k = l /\ l.name = "OrderFilled")
        BY DEF Named, U
    <2> QED BY <2>1, <1>4 DEF Sane, SaneFilled, Legal
<1>6. SaneEnded(U)
    <2>1. \A k \in Named(U, "OrderCancelled") \cup Named(U, "OrderTriggered") :
            \/ k \in Named(P, "OrderCancelled") \cup Named(P, "OrderTriggered")
            \/ k = l /\ l.name \in {"OrderCancelled", "OrderTriggered"}
        BY DEF Named, U
    <2> QED BY <2>1, <1>4 DEF Sane, SaneEnded, Legal
<1>7. SaneFlows(U)
    <2>1. \A k \in Named(U, "Deposited") \cup Named(U, "Withdrawn") :
            \/ k \in Named(P, "Deposited") \cup Named(P, "Withdrawn")
            \/ k = l /\ l.name \in {"Deposited", "Withdrawn"}
        BY DEF Named, U
    <2> QED BY <2>1, <1>4 DEF Sane, SaneFlows, Legal
<1>8. SaneChanges(U)
    <2>1. \A k \in Named(U, "PositionChanged") : k \in Named(P, "PositionChanged") \/ (k = l /\ l.name = "PositionChanged")
        BY DEF Named, U
    <2> QED BY <2>1 DEF Sane, SaneChanges, Legal
<1>9. SanePrices(U)
    BY SanePricesGrow DEF Sane, U
<1> QED BY <1>1, <1>2, <1>3, <1>5, <1>6, <1>7, <1>8, <1>9 DEF Sane, U

LEMMA NotYet ==
    ASSUME NEW P, Sane(P), NEW l, Legal(P, l)
    PROVE  l \notin P
<1> SUFFICES ASSUME l \in P PROVE FALSE
    OBVIOUS
<1>1. Before(l, l) /\ Placed_(l)
    BY DEF Legal
<1> QED BY <1>1 DEF Before, Placed_

-----------------------------------------------------------------------------
(***************************************************************************)
(* What one more log does to the orders the chain tells of.                *)
(***************************************************************************)
PlacedAs(P, id) == CHOOSE l \in Named(P, "OrderPlaced") : l.order = id
RowAt(P, id) == OrderOf(P, PlacedAs(P, id))

\* An order as a function of what its logs add up to.
StatusFrom(size, filled, stop, cancelled, triggered) ==
    IF cancelled THEN "Cancelled"
    ELSE IF filled = size THEN "Filled"
    ELSE IF stop /\ ~triggered THEN "Pending"
    ELSE "Open"

LEMMA OrdersAre ==
    ASSUME NEW P
    PROVE  OrdersOf(P) = [id \in Ids(P) |-> RowAt(P, id)]
    BY DEF OrdersOf, Ids, RowAt, PlacedAs

LEMMA PlacedAsIs ==
    ASSUME NEW P, SanePlaced(P), NEW l \in Named(P, "OrderPlaced")
    PROVE  PlacedAs(P, l.order) = l
    BY DEF SanePlaced, PlacedAs

LEMMA PlacedAsIn ==
    ASSUME NEW P, NEW id \in Ids(P)
    PROVE  PlacedAs(P, id) \in Named(P, "OrderPlaced") /\ PlacedAs(P, id).order = id
    BY DEF Ids, PlacedAs

LEMMA RowIs ==
    ASSUME NEW P, NEW id \in Ids(P)
    PROVE  LET p == PlacedAs(P, id)
               filled == Total(FillsOf(P, id), "size")
           IN  RowAt(P, id) = [size |-> p.size, filled |-> filled,
                               status |-> StatusFrom(p.size, filled, p.stop, CancelsOf(P, id) # {}, TriggersOf(P, id) # {})]
<1>1. PlacedAs(P, id).order = id
    BY PlacedAsIn
<1> QED BY <1>1 DEF RowAt, OrderOf, StatusFrom

\* An order placed before stays placed as it was.
LEMMA PlacedAsStays ==
    ASSUME NEW P, Sane(P), NEW l, Legal(P, l), NEW id \in Ids(P)
    PROVE  id \in Ids(P \cup {l}) /\ PlacedAs(P \cup {l}, id) = PlacedAs(P, id)
<1> DEFINE U == P \cup {l}
<1>1. SanePlaced(U)
    BY SanePlacedGrows DEF Sane
<1>2. PlacedAs(P, id) \in Named(U, "OrderPlaced") /\ PlacedAs(P, id).order = id
    BY PlacedAsIn DEF Named
<1>3. id \in Ids(U)
    BY IdsGrow
<1> HIDE DEF U
<1>4. PlacedAs(U, id) = PlacedAs(P, id)
    <2> DEFINE k == PlacedAs(P, id)
    <2> HIDE DEF k
    <2>1. PlacedAs(U, k.order) = k
        BY <1>1, <1>2, PlacedAsIs DEF k
    <2> QED BY <2>1, <1>2 DEF k
<1> QED BY <1>3, <1>4 DEF U

\* Orders no log names keep their row.
LEMMA RowStays ==
    ASSUME NEW P, Sane(P), NEW l, Legal(P, l), NEW id \in Ids(P),
           l.name = "OrderFilled" => id \notin {l.taker, l.maker},
           l.name \in {"OrderCancelled", "OrderTriggered"} => l.order # id
    PROVE  RowAt(P \cup {l}, id) = RowAt(P, id)
<1> DEFINE U == P \cup {l}
<1>1. id \in Ids(U) /\ PlacedAs(U, id) = PlacedAs(P, id)
    BY PlacedAsStays
<1>2. FillsOf(U, id) = FillsOf(P, id) /\ CancelsOf(U, id) = CancelsOf(P, id) /\ TriggersOf(U, id) = TriggersOf(P, id)
    BY DEF FillsOf, CancelsOf, TriggersOf, Named
<1> HIDE DEF U
<1>3. RowAt(U, id) = RowAt(P, id)
    BY <1>1, <1>2, RowIs
<1> QED BY <1>3 DEF U

LEMMA OrdersUntouched ==
    ASSUME NEW P, Sane(P), NEW l, Legal(P, l),
           l.name \notin {"OrderPlaced", "OrderFilled", "OrderCancelled", "OrderTriggered"}
    PROVE  OrdersOf(P \cup {l}) = OrdersOf(P)
<1>1. Ids(P \cup {l}) = Ids(P)
    BY IdsGrow
<1>2. \A id \in Ids(P) : RowAt(P \cup {l}, id) = RowAt(P, id)
    BY RowStays
<1> QED BY <1>1, <1>2, OrdersAre

\* No log names an order before it is placed.
LEMMA NothingBefore ==
    ASSUME NEW P, Sane(P), NEW id, id \notin Ids(P), id # 0
    PROVE  FillsOf(P, id) = {} /\ CancelsOf(P, id) = {} /\ TriggersOf(P, id) = {}
    BY DEF Sane, SaneFilled, SaneEnded, FillsOf, CancelsOf, TriggersOf

LEMMA OrdersPlaced ==
    ASSUME NEW P, Sane(P), NEW l, Legal(P, l), l.name = "OrderPlaced"
    PROVE  OrdersOf(P \cup {l}) = insertOrder(OrdersOf(P), l)
<1> DEFINE U == P \cup {l}
           id == l.order
<1>1. id \notin Ids(P) /\ id # 0 /\ l.size \in Nat \ {0} /\ l.stop \in BOOLEAN
    <2>1. PICK n \in Nat : Ids(P) = 1 .. n /\ Cardinality(Ids(P)) = n
        BY NextNumber DEF Sane
    <2>2. id = n + 1 /\ l.size \in Nat \ {0} /\ l.stop \in BOOLEAN
        BY <2>1 DEF Legal
    <2> QED BY <2>1, <2>2
<1>2. Ids(U) = Ids(P) \cup {id}
    BY IdsGrow
<1>3. \A i \in Ids(P) : RowAt(U, i) = RowAt(P, i)
    BY RowStays
<1>4. RowAt(U, id) = [size |-> l.size, filled |-> 0, status |-> IF l.stop THEN "Pending" ELSE "Open"]
    <2>1. FillsOf(U, id) = {} /\ CancelsOf(U, id) = {} /\ TriggersOf(U, id) = {}
        <3>1. FillsOf(P, id) = {} /\ CancelsOf(P, id) = {} /\ TriggersOf(P, id) = {}
            BY <1>1, NothingBefore
        <3> QED BY <3>1 DEF FillsOf, CancelsOf, TriggersOf, Named
    <2>2. PlacedAs(U, id) = l
        <3>1. SanePlaced(U) /\ l \in Named(U, "OrderPlaced")
            BY SanePlacedGrows DEF Sane, Named
        <3> QED BY <3>1, PlacedAsIs
    <2>3. Total(FillsOf(U, id), "size") = 0
        BY <2>1, TotalEmpty
    <2>4. id \in Ids(U)
        BY <1>2
    <2> HIDE DEF U, id
    <2>5. RowAt(U, id) = [size |-> l.size, filled |-> 0, status |-> StatusFrom(l.size, 0, l.stop, FALSE, FALSE)]
        BY <2>1, <2>2, <2>3, <2>4, RowIs
    <2> QED BY <2>5, <1>1 DEF StatusFrom
<1>5. OrdersOf(P) = [i \in Ids(P) |-> RowAt(P, i)] /\ OrdersOf(U) = [i \in Ids(U) |-> RowAt(U, i)]
    BY OrdersAre
<1> HIDE DEF U, id
<1>6. OrdersOf(U) = Put(OrdersOf(P), id, RowAt(U, id))
    BY <1>1, <1>2, <1>3, <1>5 DEF Put
<1>7. insertOrder(OrdersOf(P), l) = Put(OrdersOf(P), id, RowAt(U, id))
    BY <1>1, <1>4, <1>5 DEF insertOrder, id
<1> QED BY <1>6, <1>7 DEF U

LEMMA OrdersCancelled ==
    ASSUME NEW P, Sane(P), NEW l, Legal(P, l), l.name = "OrderCancelled"
    PROVE  OrdersOf(P \cup {l}) = orderStatus(OrdersOf(P), l.order, "Cancelled")
<1> DEFINE U == P \cup {l}
           id == l.order
<1>1. id \in Ids(P) /\ Ids(U) = Ids(P)
    BY IdsGrow DEF Legal
<1>2. \A i \in Ids(P) \ {id} : RowAt(U, i) = RowAt(P, i)
    BY RowStays
<1>3. RowAt(U, id) = [RowAt(P, id) EXCEPT !.status = "Cancelled"]
    <2>1. FillsOf(U, id) = FillsOf(P, id) /\ CancelsOf(U, id) # {}
        BY DEF FillsOf, CancelsOf, TriggersOf, Named
    <2>2. PlacedAs(U, id) = PlacedAs(P, id) /\ id \in Ids(U)
        BY <1>1, PlacedAsStays
    <2> HIDE DEF U, id
    <2> QED BY <1>1, <2>1, <2>2, RowIs DEF StatusFrom
<1>5. OrdersOf(P) = [i \in Ids(P) |-> RowAt(P, i)] /\ OrdersOf(U) = [i \in Ids(U) |-> RowAt(U, i)]
    BY OrdersAre
<1> HIDE DEF U, id
<1>6. OrdersOf(U) = orderStatus(OrdersOf(P), id, "Cancelled")
    BY <1>1, <1>2, <1>3, <1>5 DEF orderStatus
<1> QED BY <1>6 DEF U, id

LEMMA OrdersTriggered ==
    ASSUME NEW P, Sane(P), NEW l, Legal(P, l), l.name = "OrderTriggered"
    PROVE  OrdersOf(P \cup {l}) = orderStatus(OrdersOf(P), l.order, "Open")
<1> DEFINE U == P \cup {l}
           id == l.order
<1>1. id \in Ids(P) /\ Ids(U) = Ids(P) /\ OrdersOf(P)[id].status = "Pending"
    BY IdsGrow DEF Legal
<1>2. \A i \in Ids(P) \ {id} : RowAt(U, i) = RowAt(P, i)
    BY RowStays
<1>5. OrdersOf(P) = [i \in Ids(P) |-> RowAt(P, i)] /\ OrdersOf(U) = [i \in Ids(U) |-> RowAt(U, i)]
    BY OrdersAre
<1>3. RowAt(U, id) = [RowAt(P, id) EXCEPT !.status = "Open"]
    <2>1. FillsOf(U, id) = FillsOf(P, id) /\ CancelsOf(U, id) = CancelsOf(P, id) /\ TriggersOf(U, id) # {}
        BY DEF FillsOf, CancelsOf, TriggersOf, Named
    <2>2. PlacedAs(U, id) = PlacedAs(P, id) /\ id \in Ids(U)
        BY <1>1, PlacedAsStays
    <2>3. RowAt(P, id).status = "Pending"
        BY <1>1, <1>5
    <2> HIDE DEF U, id
    <2> QED BY <1>1, <2>1, <2>2, <2>3, RowIs DEF StatusFrom
<1> HIDE DEF U, id
<1>6. OrdersOf(U) = orderStatus(OrdersOf(P), id, "Open")
    BY <1>1, <1>2, <1>3, <1>5 DEF orderStatus
<1> QED BY <1>6 DEF U, id

\* One side of a fill.
LEMMA RowFilled ==
    ASSUME NEW P, Sane(P), NEW l, Legal(P, l), l.name = "OrderFilled",
           NEW id \in Ids(P), id \in {l.taker, l.maker}
    PROVE  LET o == RowAt(P, id)
               filled == o.filled + l.size
           IN  RowAt(P \cup {l}, id) = [size |-> o.size, filled |-> filled,
                                        status |-> IF filled = o.size THEN "Filled" ELSE o.status]
<1> DEFINE U == P \cup {l}
<1>1. FillsOf(U, id) = FillsOf(P, id) \cup {l} /\ CancelsOf(U, id) = CancelsOf(P, id) /\ TriggersOf(U, id) = TriggersOf(P, id)
    BY DEF FillsOf, CancelsOf, TriggersOf, Named
<1>2. PlacedAs(U, id) = PlacedAs(P, id) /\ id \in Ids(U)
    BY PlacedAsStays
<1>3. RowAt(P, id).status \in Undone
    <2>1. OrdersOf(P)[id].status \in Undone
        BY DEF Legal
    <2> QED BY <2>1, OrdersAre
<1>4. Total(FillsOf(U, id), "size") = Total(FillsOf(P, id), "size") + l.size
    <2>1. FillsOf(P, id) \subseteq P
        BY DEF FillsOf, Named
    <2>2. IsFiniteSet(FillsOf(P, id)) /\ l \notin FillsOf(P, id)
        BY <2>1, FS_Subset, NotYet DEF Sane
    <2>3. \A k \in FillsOf(P, id) \cup {l} : k["size"] \in Int
        BY DEF FillsOf, Sane, SaneFilled, Legal
    <2>4. Total(FillsOf(P, id) \cup {l}, "size") = Total(FillsOf(P, id), "size") + l["size"]
        BY <2>2, <2>3, TotalGrows
    <2> QED BY <2>4, <1>1
<1> HIDE DEF U
<1> DEFINE o == RowAt(P, id)
           p == PlacedAs(P, id)
<1>5. o = [size |-> p.size, filled |-> Total(FillsOf(P, id), "size"),
           status |-> StatusFrom(p.size, Total(FillsOf(P, id), "size"), p.stop, CancelsOf(P, id) # {}, TriggersOf(P, id) # {})]
    BY RowIs
<1>6. RowAt(U, id) = [size |-> p.size, filled |-> Total(FillsOf(P, id), "size") + l.size,
           status |-> StatusFrom(p.size, Total(FillsOf(P, id), "size") + l.size, p.stop, CancelsOf(P, id) # {}, TriggersOf(P, id) # {})]
    BY <1>1, <1>2, <1>4, RowIs, ZenonT(60)
<1>7. CancelsOf(P, id) = {} /\ Total(FillsOf(P, id), "size") # p.size
    BY <1>3, <1>5 DEF StatusFrom, Undone
<1>8. RowAt(U, id) = [size |-> o.size, filled |-> o.filled + l.size,
                      status |-> IF o.filled + l.size = o.size THEN "Filled" ELSE o.status]
    <2> DEFINE f == Total(FillsOf(P, id), "size")
               g == f + l.size
    <2>1. o.size = p.size /\ o.filled = f /\ o.filled + l.size = g
          /\ o.status = StatusFrom(p.size, f, p.stop, CancelsOf(P, id) # {}, TriggersOf(P, id) # {})
        BY <1>5
    <2>2. RowAt(U, id) = [size |-> p.size, filled |-> g,
                          status |-> StatusFrom(p.size, g, p.stop, CancelsOf(P, id) # {}, TriggersOf(P, id) # {})]
        BY <1>6
    <2>3. f # p.size
        BY <1>7
    <2> HIDE DEF o, p, f, g
    <2> QED BY <1>7, <2>1, <2>2, <2>3 DEF StatusFrom
<1> QED BY <1>8 DEF U

LEMMA OrdersFilled ==
    ASSUME NEW P, Sane(P), NEW l, Legal(P, l), l.name = "OrderFilled"
    PROVE  OrdersOf(P \cup {l}) = _fill(_fill(OrdersOf(P), l.taker, l.size), l.maker, l.size)
<1> DEFINE U == P \cup {l}
           New(o) == [size |-> o.size, filled |-> o.filled + l.size,
                      status |-> IF o.filled + l.size = o.size THEN "Filled" ELSE o.status]
<1>1. l.taker \in Ids(P) /\ l.taker # l.maker /\ Ids(U) = Ids(P)
    BY IdsGrow DEF Legal
<1>2. \A i \in Ids(P) \ {l.taker, l.maker} : RowAt(U, i) = RowAt(P, i)
    BY RowStays
<1>3. \A i \in Ids(P) \cap {l.taker, l.maker} : RowAt(U, i) = New(RowAt(P, i))
    BY RowFilled
<1>4. OrdersOf(P) = [i \in Ids(P) |-> RowAt(P, i)] /\ OrdersOf(U) = [i \in Ids(U) |-> RowAt(U, i)]
    BY OrdersAre
<1>5. \A orders, i : _fill(orders, i, l.size) = IF i \in DOMAIN orders THEN [orders EXCEPT ![i] = New(orders[i])] ELSE orders
    BY DEF _fill
<1> HIDE DEF U, New
<1>6. OrdersOf(U) = _fill(_fill(OrdersOf(P), l.taker, l.size), l.maker, l.size)
    <2> DEFINE one == [OrdersOf(P) EXCEPT ![l.taker] = New(OrdersOf(P)[l.taker])]
    <2>1. _fill(OrdersOf(P), l.taker, l.size) = one
        BY <1>1, <1>4, <1>5
    <2>2. one = [i \in Ids(P) |-> IF i = l.taker THEN New(RowAt(P, i)) ELSE RowAt(P, i)]
        BY <1>1, <1>4
    <2> HIDE DEF one
    <2>3. CASE l.maker \in Ids(P)
        <3>1. _fill(one, l.maker, l.size) = [one EXCEPT ![l.maker] = New(one[l.maker])]
            BY <2>2, <2>3, <1>5
        <3>2. [one EXCEPT ![l.maker] = New(one[l.maker])]
                = [i \in Ids(P) |-> IF i \in {l.taker, l.maker} THEN New(RowAt(P, i)) ELSE RowAt(P, i)]
            BY <2>2, <2>3, <1>1
        <3> QED BY <3>1, <3>2, <2>1, <1>1, <1>2, <1>3, <1>4
    <2>4. CASE l.maker \notin Ids(P)
        <3>1. _fill(one, l.maker, l.size) = one
            BY <2>2, <2>4, <1>5
        <3> QED BY <3>1, <2>1, <2>2, <2>4, <1>1, <1>2, <1>3, <1>4
    <2> QED BY <2>3, <2>4
<1> QED BY <1>6 DEF U

\* Whatever the log, what OrdersAfter makes of the orders so far are the orders with it.
LEMMA OrdersGrow ==
    ASSUME NEW P, Sane(P), NEW l, Legal(P, l), NEW s, s.orders = OrdersOf(P)
    PROVE  OrdersOf(P \cup {l}) = OrdersAfter(s, l)
<1>1. CASE l.name = "OrderPlaced"
    <2>1. OrdersAfter(s, l) = insertOrder(OrdersOf(P), l)
        BY <1>1 DEF OrdersAfter
    <2> QED BY <1>1, <2>1, OrdersPlaced
<1>2. CASE l.name = "OrderFilled"
    <2>1. OrdersAfter(s, l) = _fill(_fill(OrdersOf(P), l.taker, l.size), l.maker, l.size)
        BY <1>2 DEF OrdersAfter
    <2> QED BY <1>2, <2>1, OrdersFilled
<1>3. CASE l.name = "OrderCancelled"
    <2>1. OrdersAfter(s, l) = orderStatus(OrdersOf(P), l.order, "Cancelled")
        BY <1>3 DEF OrdersAfter
    <2> QED BY <1>3, <2>1, OrdersCancelled
<1>4. CASE l.name = "OrderTriggered"
    <2>1. OrdersAfter(s, l) = orderStatus(OrdersOf(P), l.order, "Open")
        BY <1>4 DEF OrdersAfter
    <2> QED BY <1>4, <2>1, OrdersTriggered
<1>5. CASE l.name \notin {"OrderPlaced", "OrderFilled", "OrderCancelled", "OrderTriggered"}
    <2>1. OrdersAfter(s, l) = OrdersOf(P)
        BY <1>5 DEF OrdersAfter
    <2> QED BY <1>5, <2>1, OrdersUntouched
<1> QED BY <1>1, <1>2, <1>3, <1>4, <1>5

-----------------------------------------------------------------------------
(***************************************************************************)
(* What one more log does to the other rows.                               *)
(***************************************************************************)
Holding(P, a) == [size |-> Latest(ChangesOf(P, a)).after, realized |-> Total(ChangesOf(P, a), "delta")]
Held(P) == {l.account : l \in Named(P, "PositionChanged")}

LEMMA PositionsUntouched ==
    ASSUME NEW P, NEW l, l.name # "PositionChanged"
    PROVE  PositionsOf(P \cup {l}) = PositionsOf(P)
<1>1. Named(P \cup {l}, "PositionChanged") = Named(P, "PositionChanged")
    BY DEF Named
<1>2. \A a : ChangesOf(P \cup {l}, a) = ChangesOf(P, a)
    BY <1>1 DEF ChangesOf
<1> QED BY <1>1, <1>2 DEF PositionsOf

LEMMA PositionsChanged ==
    ASSUME NEW P, Sane(P), NEW l, Legal(P, l), l.name = "PositionChanged"
    PROVE  PositionsOf(P \cup {l}) = upsertPosition(PositionsOf(P), l)
<1> DEFINE U == P \cup {l}
           a == l.account
<1>1. Held(U) = Held(P) \cup {a}
    BY DEF Held, Named
<1>2. \A b \in Held(P) \ {a} : ChangesOf(U, b) = ChangesOf(P, b)
    BY DEF ChangesOf, Named
<1>3. ChangesOf(U, a) = ChangesOf(P, a) \cup {l}
    BY DEF ChangesOf, Named
<1>4. ChangesOf(P, a) \subseteq P /\ IsFiniteSet(ChangesOf(P, a)) /\ l \notin ChangesOf(P, a)
    <2>1. ChangesOf(P, a) \subseteq P
        BY DEF ChangesOf, Named
    <2> QED BY <2>1, FS_Subset, NotYet DEF Sane
<1>5. Latest(ChangesOf(U, a)) = l
    <2>1. \A k \in ChangesOf(P, a) : Placed_(k) /\ Before(k, l)
        BY <1>4 DEF Sane, Legal
    <2>2. Placed_(l)
        BY DEF Legal
    <2> QED BY <1>3, <2>1, <2>2, LatestNew
<1>6. Total(ChangesOf(U, a), "delta") = Total(ChangesOf(P, a), "delta") + l.delta
      /\ Total(ChangesOf(P, a), "delta") \in Int /\ l.delta \in Int
    <2>1. \A k \in ChangesOf(P, a) \cup {l} : k["delta"] \in Int
        BY DEF ChangesOf, Sane, SaneChanges, Legal
    <2>2. Total(ChangesOf(P, a) \cup {l}, "delta") = Total(ChangesOf(P, a), "delta") + l["delta"]
          /\ Total(ChangesOf(P, a), "delta") \in Int
        BY <1>4, <2>1, TotalGrows
    <2> QED BY <1>3, <2>1, <2>2
<1>7. a \notin Held(P) => Total(ChangesOf(P, a), "delta") = 0
    <2>1. a \notin Held(P) => ChangesOf(P, a) = {}
        BY DEF Held, ChangesOf
    <2> QED BY <2>1, TotalEmpty
<1>8. \A S : PositionsOf(S) = [b \in Held(S) |-> Holding(S, b)]
    BY DEF PositionsOf, Held, Holding
<1> HIDE DEF U, a
<1>9. \A b \in Held(P) \ {a} : Holding(U, b) = Holding(P, b)
    BY <1>2 DEF Holding
<1>10. Holding(U, a) = [size |-> l.after, realized |-> l.delta + IF a \in Held(P) THEN Holding(P, a).realized ELSE 0]
    <2> DEFINE t == Total(ChangesOf(P, a), "delta")
               d == l.delta
    <2>1. Holding(U, a) = [size |-> l.after, realized |-> t + d] /\ Holding(P, a).realized = t
        BY <1>5, <1>6 DEF Holding
    <2>2. t \in Int /\ d \in Int /\ (a \notin Held(P) => t = 0)
        BY <1>6, <1>7
    <2> HIDE DEF t, d
    <2>3. t + d = d + IF a \in Held(P) THEN t ELSE 0
        BY <2>2
    <2> QED BY <2>1, <2>3 DEF d
<1>11. upsertPosition(PositionsOf(P), l) = Put(PositionsOf(P), a, Holding(U, a))
    BY <1>8, <1>10 DEF upsertPosition, a
<1>12. PositionsOf(U) = Put(PositionsOf(P), a, Holding(U, a))
    BY <1>1, <1>8, <1>9 DEF Put
<1> QED BY <1>11, <1>12 DEF U

Flowed(P, a) == [deposits |-> Total(FlowsOf(P, "Deposited", a), "amount"),
                 withdrawals |-> Total(FlowsOf(P, "Withdrawn", a), "amount")]

LEMMA AccountsAre == \A P : AccountsOf(P) = [a \in Inited(P) |-> Flowed(P, a)]
    BY DEF AccountsOf, Inited, Flowed

LEMMA AccountsUntouched ==
    ASSUME NEW P, NEW l, l.name \notin {"AccountInitialized", "Deposited", "Withdrawn"}
    PROVE  AccountsOf(P \cup {l}) = AccountsOf(P)
<1>1. \A name \in {"AccountInitialized", "Deposited", "Withdrawn"} : Named(P \cup {l}, name) = Named(P, name)
    BY DEF Named
<1>2. \A a : Flowed(P \cup {l}, a) = Flowed(P, a)
    BY <1>1 DEF FlowsOf, Flowed
<1>3. Inited(P \cup {l}) = Inited(P)
    BY <1>1 DEF Inited
<1> QED BY <1>2, <1>3, AccountsAre

LEMMA NoFlowsBefore ==
    ASSUME NEW P, Sane(P), NEW a, a \notin Inited(P)
    PROVE  Flowed(P, a) = [deposits |-> 0, withdrawals |-> 0]
<1>1. FlowsOf(P, "Deposited", a) = {} /\ FlowsOf(P, "Withdrawn", a) = {}
    BY DEF FlowsOf, Sane, SaneFlows
<1> QED BY <1>1, TotalEmpty DEF Flowed

LEMMA AccountsInited ==
    ASSUME NEW P, Sane(P), NEW l, Legal(P, l), l.name = "AccountInitialized"
    PROVE  AccountsOf(P \cup {l}) = upsertAccount(AccountsOf(P), l.account)
<1> DEFINE U == P \cup {l}
           a == l.account
<1>1. Inited(U) = Inited(P) \cup {a}
    BY InitedGrow
<1>2. \A b : Flowed(U, b) = Flowed(P, b)
    <2>1. \A name \in {"Deposited", "Withdrawn"} : Named(U, name) = Named(P, name)
        BY DEF Named
    <2> HIDE DEF U
    <2> QED BY <2>1 DEF FlowsOf, Flowed
<1>3. a \notin Inited(P) => Flowed(P, a) = [deposits |-> 0, withdrawals |-> 0]
    BY NoFlowsBefore
<1> HIDE DEF U, a
<1>4. AccountsOf(P) = [b \in Inited(P) |-> Flowed(P, b)] /\ AccountsOf(U) = [b \in Inited(U) |-> Flowed(U, b)]
    BY AccountsAre
<1>5. AccountsOf(U) = upsertAccount(AccountsOf(P), a)
    <2>1. CASE a \in Inited(P)
        BY <1>1, <1>2, <1>4, <2>1 DEF upsertAccount
    <2>2. CASE a \notin Inited(P)
        BY <1>1, <1>2, <1>3, <1>4, <2>2 DEF upsertAccount, Put
    <2> QED BY <2>1, <2>2
<1> QED BY <1>5 DEF U, a

LEMMA FlowsGrow ==
    ASSUME NEW P, Sane(P), NEW l, Legal(P, l), l.name \in {"Deposited", "Withdrawn"},
           NEW name \in {"Deposited", "Withdrawn"}
    PROVE  Total(FlowsOf(P \cup {l}, name, l.account), "amount")
             = Total(FlowsOf(P, name, l.account), "amount") + IF l.name = name THEN l.amount ELSE 0
<1> DEFINE U == P \cup {l}
           a == l.account
           S == FlowsOf(P, name, a)
<1>1. FlowsOf(U, name, a) = IF l.name = name THEN S \cup {l} ELSE S
    BY DEF FlowsOf, Named
<1>2. S \subseteq P /\ IsFiniteSet(S) /\ l \notin S
    <2>1. S \subseteq P
        BY DEF FlowsOf, Named
    <2> QED BY <2>1, FS_Subset, NotYet DEF Sane
<1>3. \A k \in S \cup {l} : k["amount"] \in Int
    BY DEF FlowsOf, Sane, SaneFlows, Legal
<1> HIDE DEF S, U, a
<1>4. Total(S, "amount") \in Int /\ Total(S \cup {l}, "amount") = Total(S, "amount") + l["amount"]
    BY <1>2, <1>3, TotalGrows
<1>5. CASE l.name = name
    BY <1>1, <1>4, <1>5 DEF S, U, a
<1>6. CASE l.name # name
    <2>1. Total(S, "amount") = Total(S, "amount") + 0
        BY <1>4
    <2> QED BY <1>1, <2>1, <1>6 DEF S, U, a
<1> QED BY <1>5, <1>6

LEMMA AccountsFlowed ==
    ASSUME NEW P, Sane(P), NEW l, Legal(P, l), l.name \in {"Deposited", "Withdrawn"}
    PROVE  AccountsOf(P \cup {l}) = accountFlow(AccountsOf(P), l)
<1> DEFINE U == P \cup {l}
           a == l.account
<1>1. Inited(U) = Inited(P) /\ a \in Inited(P)
    BY InitedGrow DEF Legal
<1>2. \A b \in Inited(P) \ {a} : Flowed(U, b) = Flowed(P, b)
    <2>1. \A b \in Inited(P) \ {a}, name \in {"Deposited", "Withdrawn"} : FlowsOf(U, name, b) = FlowsOf(P, name, b)
        BY DEF FlowsOf, Named
    <2> HIDE DEF U
    <2> QED BY <2>1 DEF Flowed
<1>3. Flowed(U, a) = [deposits |-> Flowed(P, a).deposits + IF l.name = "Deposited" THEN l.amount ELSE 0,
                      withdrawals |-> Flowed(P, a).withdrawals + IF l.name = "Withdrawn" THEN l.amount ELSE 0]
    <2>1. /\ Total(FlowsOf(U, "Deposited", a), "amount")
               = Total(FlowsOf(P, "Deposited", a), "amount") + IF l.name = "Deposited" THEN l.amount ELSE 0
          /\ Total(FlowsOf(U, "Withdrawn", a), "amount")
               = Total(FlowsOf(P, "Withdrawn", a), "amount") + IF l.name = "Withdrawn" THEN l.amount ELSE 0
        BY FlowsGrow
    <2> HIDE DEF U, a
    <2> QED BY <2>1 DEF Flowed
<1> HIDE DEF U, a
<1>4. AccountsOf(P) = [b \in Inited(P) |-> Flowed(P, b)] /\ AccountsOf(U) = [b \in Inited(U) |-> Flowed(U, b)]
    BY AccountsAre
<1>5. upsertAccount(AccountsOf(P), a) = AccountsOf(P)
    BY <1>1, <1>4 DEF upsertAccount
<1>6. accountFlow(AccountsOf(P), l) = [AccountsOf(P) EXCEPT ![a] = Flowed(U, a)]
    BY <1>1, <1>3, <1>4, <1>5 DEF accountFlow, a
<1>7. AccountsOf(U) = [AccountsOf(P) EXCEPT ![a] = Flowed(U, a)]
    BY <1>1, <1>2, <1>4
<1> QED BY <1>6, <1>7 DEF U

LEMMA AccountsGrow ==
    ASSUME NEW P, Sane(P), NEW l, Legal(P, l), NEW s, s.accounts = AccountsOf(P)
    PROVE  AccountsOf(P \cup {l}) = AccountsAfter(s, l)
<1>1. CASE l.name = "AccountInitialized"
    BY <1>1, AccountsInited DEF AccountsAfter
<1>2. CASE l.name \in {"Deposited", "Withdrawn"}
    BY <1>2, AccountsFlowed DEF AccountsAfter
<1>3. CASE l.name \notin {"AccountInitialized", "Deposited", "Withdrawn"}
    BY <1>3, AccountsUntouched DEF AccountsAfter
<1> QED BY <1>1, <1>2, <1>3

LEMMA RowsGrow ==
    ASSUME NEW P, NEW l
    PROVE  RowsOf(P \cup {l}) = IF l.name \in Mirrored THEN RowsOf(P) \cup {l} ELSE RowsOf(P)
    BY DEF RowsOf

(***************************************************************************)
(* The rows of a store and the logs they stand for: P was applied, D is    *)
(* all that could have been read.  A market's price and status may be      *)
(* ahead of the rows, as the chain told them when the markets were read.   *)
(***************************************************************************)
PriceLogs(P, m) == {l \in Named(P, "PriceSet") : l.market = m}
StatusLogs(P, m) == {l \in Named(P, "MarketStatusChanged") : l.market = m}
Keys(P) == {<<k.tx, k.index>> : k \in P}
Cut(Q, D) == Q \subseteq D /\ \A k \in Q, j \in D : Before(j, k) => j \in Q

Priced(s, P, D) ==
    /\ s.price = [m \in DOMAIN s.price |-> s.price[m]]
    /\ \A l \in Named(P, "PriceSet") : l.market \in DOMAIN s.price
    /\ \A m \in DOMAIN s.price : \E Q : Cut(Q, D) /\ P \subseteq Q /\ PriceLogs(Q, m) # {}
                                        /\ s.price[m] = Latest(PriceLogs(Q, m)).price
Tracked(s, P, D) ==
    \A m \in DOMAIN s.markets : \E Q : Cut(Q, D) /\ P \subseteq Q /\ s.markets[m] = StatusOf(Q, m)
Mirrors(s, P) ==
    /\ DOMAIN s = DOMAIN NoRows
    /\ s.applied = Keys(P)
    /\ s.orders = OrdersOf(P) /\ s.positions = PositionsOf(P)
    /\ s.accounts = AccountsOf(P) /\ s.rows = RowsOf(P)
Agree(s, P, D) == Mirrors(s, P) /\ Priced(s, P, D) /\ Tracked(s, P, D)

LEMMA ColumnsAre == DOMAIN NoRows = {"markets", "price", "orders", "rows", "positions", "accounts", "applied"}
    BY DEF NoRows

\* A log's key names it.
LEMMA KeyIsNew ==
    ASSUME NEW P, Sane(P), NEW l, Legal(P, l)
    PROVE  <<l.tx, l.index>> \notin Keys(P)
<1> SUFFICES ASSUME NEW k \in P, k.tx = l.tx, k.index = l.index PROVE FALSE
    BY DEF Keys
<1>1. Placed_(k) /\ Placed_(l) /\ Before(k, l)
    BY DEF Sane, Legal
<1>2. k.block = l.block
    BY <1>1 DEF Placed_
<1> QED BY <1>1, <1>2 DEF Before, Placed_

LEMMA AppliedFields ==
    ASSUME NEW s, DOMAIN s = DOMAIN NoRows, NEW l, <<l.tx, l.index>> \notin s.applied
    PROVE  /\ DOMAIN apply(s, l) = DOMAIN NoRows
           /\ apply(s, l).applied = s.applied \cup {<<l.tx, l.index>>}
           /\ apply(s, l).orders = OrdersAfter(s, l)
           /\ apply(s, l).accounts = AccountsAfter(s, l)
           /\ apply(s, l).rows = IF l.name \in Mirrored THEN s.rows \cup {l} ELSE s.rows
           /\ apply(s, l).positions = IF l.name = "PositionChanged" THEN upsertPosition(s.positions, l) ELSE s.positions
           /\ apply(s, l).price = IF l.name = "PriceSet" THEN Put(s.price, l.market, l.price) ELSE s.price
           /\ apply(s, l).markets = IF l.name = "MarketStatusChanged" /\ l.market \in DOMAIN s.markets
                                    THEN [s.markets EXCEPT ![l.market] = l.status] ELSE s.markets
    BY ColumnsAre DEF apply

LEMMA MirrorsGrow ==
    ASSUME NEW P, Sane(P), NEW l, Legal(P, l), NEW s, Mirrors(s, P)
    PROVE  Mirrors(apply(s, l), P \cup {l})
<1>1. <<l.tx, l.index>> \notin s.applied
    BY KeyIsNew DEF Mirrors
<1> DEFINE t == apply(s, l)
           U == P \cup {l}
<1>2. DOMAIN s = DOMAIN NoRows
    BY DEF Mirrors
<1>3. DOMAIN t = DOMAIN NoRows
    BY <1>1, <1>2, AppliedFields
<1>4. t.applied = Keys(U)
    <2>1. t.applied = s.applied \cup {<<l.tx, l.index>>}
        BY <1>1, <1>2, AppliedFields
    <2> HIDE DEF t
    <2> QED BY <2>1 DEF Mirrors, Keys
<1>5. t.orders = OrdersOf(U)
    <2>1. t.orders = OrdersAfter(s, l)
        BY <1>1, <1>2, AppliedFields
    <2> HIDE DEF t
    <2> QED BY <2>1, OrdersGrow DEF Mirrors
<1>6. t.accounts = AccountsOf(U)
    <2>1. t.accounts = AccountsAfter(s, l)
        BY <1>1, <1>2, AppliedFields
    <2> HIDE DEF t
    <2> QED BY <2>1, AccountsGrow DEF Mirrors
<1>7. t.positions = PositionsOf(U)
    <2>1. t.positions = IF l.name = "PositionChanged" THEN upsertPosition(s.positions, l) ELSE s.positions
        BY <1>1, <1>2, AppliedFields
    <2> HIDE DEF t
    <2> QED BY <2>1, PositionsChanged, PositionsUntouched DEF Mirrors
<1>8. t.rows = RowsOf(U)
    <2>1. t.rows = IF l.name \in Mirrored THEN s.rows \cup {l} ELSE s.rows
        BY <1>1, <1>2, AppliedFields
    <2> HIDE DEF t
    <2> QED BY <2>1, RowsGrow DEF Mirrors
<1> HIDE DEF t, U
<1>9. Mirrors(t, U)
    BY <1>3, <1>4, <1>5, <1>6, <1>7, <1>8 DEF Mirrors
<1> QED BY <1>9 DEF t, U

\* A cut that reaches as far as P reaches the next log once that log is added.
LEMMA CutGrows ==
    ASSUME NEW P, NEW D, NEW l \in D, Ordered(D), Cut(P \cup {l}, D),
           NEW Q, Cut(Q, D), P \subseteq Q
    PROVE  Cut(Q \cup {l}, D) /\ P \cup {l} \subseteq Q \cup {l}
<1>1. CASE l \in Q
    <2>1. Q \cup {l} = Q
        BY <1>1
    <2> QED BY <2>1
<1>2. CASE l \notin Q
    <2>1. ASSUME NEW k \in Q PROVE k \in P
        <3>1. k \in D /\ k # l /\ ~Before(l, k)
            BY <1>2, <2>1 DEF Cut
        <3>2. Before(k, l)
            BY <3>1 DEF Ordered
        <3>3. k \in P \cup {l}
            BY <3>1, <3>2 DEF Cut
        <3> QED BY <3>1, <3>3
    <2>2. Q = P
        BY <2>1
    <2> QED BY <2>2
<1> QED BY <1>1, <1>2

LEMMA PricedGrows ==
    ASSUME NEW P, Sane(P), NEW l, Legal(P, l), NEW s, Mirrors(s, P),
           NEW D, l \in D, Ordered(D), Cut(P \cup {l}, D), Priced(s, P, D)
    PROVE  Priced(apply(s, l), P \cup {l}, D)
<1> DEFINE t == apply(s, l)
           U == P \cup {l}
<1>1. t.price = IF l.name = "PriceSet" THEN Put(s.price, l.market, l.price) ELSE s.price
    <2>1. <<l.tx, l.index>> \notin s.applied /\ DOMAIN s = DOMAIN NoRows
        BY KeyIsNew DEF Mirrors
    <2> QED BY <2>1, AppliedFields
<1> HIDE DEF t
<1>2. DOMAIN t.price = IF l.name = "PriceSet" THEN DOMAIN s.price \cup {l.market} ELSE DOMAIN s.price
    BY <1>1 DEF Put
<1>3. \A k \in Named(U, "PriceSet") : k.market \in DOMAIN t.price
    BY <1>2 DEF Named, Priced
<1>4. ASSUME NEW m \in DOMAIN t.price
      PROVE  \E Q : Cut(Q, D) /\ U \subseteq Q /\ PriceLogs(Q, m) # {} /\ t.price[m] = Latest(PriceLogs(Q, m)).price
    <2>1. CASE l.name = "PriceSet" /\ m = l.market
        <3>1. PriceLogs(U, m) = PriceLogs(P, m) \cup {l}
            BY <2>1 DEF PriceLogs, Named
        <3>2. \A k \in PriceLogs(P, m) : Placed_(k) /\ Before(k, l)
            BY DEF PriceLogs, Named, Sane, Legal
        <3>3. Latest(PriceLogs(P, m) \cup {l}) = l
            BY <3>2, LatestNew DEF Legal
        <3>4. t.price[m] = l.price
            BY <1>1, <2>1 DEF Put
        <3> HIDE DEF U
        <3>5. Cut(U, D)
            BY DEF U
        <3> QED BY <3>1, <3>3, <3>4, <3>5
    <2>2. CASE ~(l.name = "PriceSet" /\ m = l.market)
        <3>1. m \in DOMAIN s.price /\ t.price[m] = s.price[m]
            BY <1>1, <1>2, <2>2 DEF Put
        <3>2. PICK Q : Cut(Q, D) /\ P \subseteq Q /\ PriceLogs(Q, m) # {} /\ s.price[m] = Latest(PriceLogs(Q, m)).price
            BY <3>1 DEF Priced
        <3>3. Cut(Q \cup {l}, D) /\ U \subseteq Q \cup {l}
            BY <3>2, CutGrows
        <3>4. PriceLogs(Q \cup {l}, m) = PriceLogs(Q, m)
            BY <2>2 DEF PriceLogs, Named
        <3> HIDE DEF U
        <3> QED BY <3>1, <3>2, <3>3, <3>4
    <2> QED BY <2>1, <2>2
<1> HIDE DEF U
<1>6. t.price = [m \in DOMAIN t.price |-> t.price[m]]
    BY <1>1, <1>2 DEF Put, Priced
<1>5. Priced(t, U, D)
    BY <1>3, <1>4, <1>6 DEF Priced
<1> QED BY <1>5 DEF t, U

LEMMA StatusIs ==
    ASSUME NEW Q, NEW m
    PROVE  StatusOf(Q, m) = IF StatusLogs(Q, m) = {} THEN "Active" ELSE Latest(StatusLogs(Q, m)).status
    BY DEF StatusOf, StatusLogs

LEMMA TrackedGrows ==
    ASSUME NEW P, Sane(P), NEW l, Legal(P, l), NEW s, Mirrors(s, P),
           NEW D, l \in D, Ordered(D), Cut(P \cup {l}, D), Tracked(s, P, D)
    PROVE  Tracked(apply(s, l), P \cup {l}, D)
<1> DEFINE t == apply(s, l)
           U == P \cup {l}
<1>1. t.markets = IF l.name = "MarketStatusChanged" /\ l.market \in DOMAIN s.markets
                  THEN [s.markets EXCEPT ![l.market] = l.status] ELSE s.markets
    <2>1. <<l.tx, l.index>> \notin s.applied /\ DOMAIN s = DOMAIN NoRows
        BY KeyIsNew DEF Mirrors
    <2> QED BY <2>1, AppliedFields
<1> HIDE DEF t
<1>2. DOMAIN t.markets = DOMAIN s.markets
    BY <1>1
<1>4. ASSUME NEW m \in DOMAIN t.markets
      PROVE  \E Q : Cut(Q, D) /\ U \subseteq Q /\ t.markets[m] = StatusOf(Q, m)
    <2>1. CASE l.name = "MarketStatusChanged" /\ m = l.market
        <3>1. StatusLogs(U, m) = StatusLogs(P, m) \cup {l}
            BY <2>1 DEF StatusLogs, Named
        <3>2. \A k \in StatusLogs(P, m) : Placed_(k) /\ Before(k, l)
            BY DEF StatusLogs, Named, Sane, Legal
        <3>3. Latest(StatusLogs(P, m) \cup {l}) = l
            BY <3>2, LatestNew DEF Legal
        <3>4. t.markets[m] = l.status
            BY <1>1, <1>2, <2>1
        <3> HIDE DEF U
        <3>5. Cut(U, D)
            BY DEF U
        <3>6. StatusOf(U, m) = l.status
            BY <3>1, <3>3, StatusIs
        <3> QED BY <3>4, <3>5, <3>6
    <2>2. CASE ~(l.name = "MarketStatusChanged" /\ m = l.market)
        <3>1. m \in DOMAIN s.markets /\ t.markets[m] = s.markets[m]
            BY <1>1, <1>2, <2>2
        <3>2. PICK Q : Cut(Q, D) /\ P \subseteq Q /\ s.markets[m] = StatusOf(Q, m)
            BY <3>1 DEF Tracked
        <3>3. Cut(Q \cup {l}, D) /\ U \subseteq Q \cup {l}
            BY <3>2, CutGrows
        <3>4. StatusLogs(Q \cup {l}, m) = StatusLogs(Q, m)
            BY <2>2 DEF StatusLogs, Named
        <3>5. StatusOf(Q \cup {l}, m) = StatusOf(Q, m)
            BY <3>4, StatusIs
        <3> HIDE DEF U
        <3> QED BY <3>1, <3>2, <3>3, <3>5
    <2> QED BY <2>1, <2>2
<1> HIDE DEF U
<1>5. Tracked(t, U, D)
    BY <1>4 DEF Tracked
<1> QED BY <1>5 DEF t, U

LEMMA AgreeGrows ==
    ASSUME NEW P, Sane(P), NEW l, Legal(P, l), NEW s,
           NEW D, l \in D, Ordered(D), Cut(P \cup {l}, D), Agree(s, P, D)
    PROVE  Agree(apply(s, l), P \cup {l}, D)
    BY MirrorsGrow, PricedGrows, TrackedGrows DEF Agree

\* A log that was applied before is skipped.
LEMMA ReplaySkips ==
    ASSUME NEW s, NEW P, Mirrors(s, P), NEW l \in P
    PROVE  apply(s, l) = s
    BY DEF apply, Mirrors, Keys

-----------------------------------------------------------------------------
(***************************************************************************)
(* The logs of a range, in the order they are applied.                     *)
(***************************************************************************)
Sorted(s) == \A i, j \in 1..Len(s) : i < j => Before(s[i], s[j])

\* Every log says which block it is in, and where.
Numbered(c) ==
    /\ Len(c) \in Nat
    /\ \A b \in 1..Len(c) :
         /\ \E S : c[b].logs \in Seq(S)
         /\ \A i \in 1..Len(c[b].logs) : c[b].logs[i].block = b /\ c[b].logs[i].index = i

LEMMA InLogs ==
    ASSUME NEW c, NEW h, NEW l
    PROVE  l \in LogsUpTo(c, h) <=> \E b \in 1..h : \E i \in 1..Len(c[b].logs) : l = c[b].logs[i]
<1>1. l \in LogsUpTo(c, h) <=> \E b \in 1..h : l \in {c[b].logs[i] : i \in 1..Len(c[b].logs)}
    BY DEF LogsUpTo
<1> QED BY <1>1

\* What was logged up to a height are the logs of the blocks up to it.
LEMMA LogsAreByBlock ==
    ASSUME NEW c, Numbered(c), NEW h \in 0..Len(c), NEW g \in 0..h
    PROVE  LogsUpTo(c, g) = {l \in LogsUpTo(c, h) : l.block <= g}
<1>0. Len(c) \in Nat
    BY DEF Numbered
<1>1. ASSUME NEW l \in LogsUpTo(c, g) PROVE l \in LogsUpTo(c, h) /\ l.block <= g
    <2>1. PICK b \in 1..g : \E i \in 1..Len(c[b].logs) : l = c[b].logs[i]
        BY InLogs
    <2>2. b \in 1..h /\ b \in 1..Len(c) /\ b <= g
        BY <1>0
    <2>3. \E a \in 1..h : \E i \in 1..Len(c[a].logs) : l = c[a].logs[i]
        BY <2>1, <2>2
    <2>4. l \in LogsUpTo(c, h)
        BY <2>3, InLogs
    <2>5. l.block = b
        BY <2>1, <2>2 DEF Numbered
    <2> QED BY <2>2, <2>4, <2>5
<1>2. ASSUME NEW l \in LogsUpTo(c, h), l.block <= g PROVE l \in LogsUpTo(c, g)
    <2>1. PICK b \in 1..h : \E i \in 1..Len(c[b].logs) : l = c[b].logs[i]
        BY InLogs
    <2>2. b \in 1..Len(c)
        BY <1>0
    <2>3. l.block = b
        BY <2>1, <2>2 DEF Numbered
    <2>4. b \in 1..g
        BY <2>3, <1>2
    <2>5. \E a \in 1..g : \E i \in 1..Len(c[a].logs) : l = c[a].logs[i]
        BY <2>1, <2>4
    <2> QED BY <2>5, InLogs
<1> QED BY <1>1, <1>2

LEMMA BlockOf ==
    ASSUME NEW c, Numbered(c), NEW h \in 0..Len(c), NEW l \in LogsUpTo(c, h)
    PROVE  /\ l.block \in 1..h
           /\ l.index \in 1..Len(c[l.block].logs) /\ l = c[l.block].logs[l.index]
<1>1. PICK b \in 1..h : \E i \in 1..Len(c[b].logs) : l = c[b].logs[i]
    BY InLogs
<1>2. PICK i \in 1..Len(c[b].logs) : l = c[b].logs[i]
    BY <1>1
<1>3. b \in 1..Len(c)
    BY DEF Numbered
<1>4. l.block = b /\ l.index = i
    BY <1>2, <1>3 DEF Numbered
<1> QED BY <1>2, <1>4

LEMMA ConcatSorted ==
    ASSUME NEW D, NEW s \in Seq(D), NEW t \in Seq(D), Sorted(s), Sorted(t),
           \A k \in ToSet(s), l \in ToSet(t) : Before(k, l)
    PROVE  s \o t \in Seq(D) /\ Sorted(s \o t) /\ ToSet(s \o t) = ToSet(s) \cup ToSet(t)
<1> DEFINE u == s \o t
           m == Len(s)
           n == Len(t)
<1>1. m \in Nat /\ n \in Nat /\ DOMAIN s = 1..m /\ DOMAIN t = 1..n
    BY LenProperties
<1>2. u \in Seq(D) /\ Len(u) = m + n
    BY ConcatProperties
<1>3. \A i \in 1..(m + n) : u[i] = IF i <= m THEN s[i] ELSE t[i - m]
    BY ConcatProperties
<1>4. DOMAIN u = 1..(m + n)
    BY <1>2, LenProperties
<1>5. (\A i \in 1..m : s[i] \in ToSet(s)) /\ (\A i \in 1..n : t[i] \in ToSet(t))
    BY <1>1 DEF ToSet
<1> HIDE DEF u
<1>6. ToSet(u) = ToSet(s) \cup ToSet(t)
    <2> HIDE DEF m, n
    <2>1. ASSUME NEW x \in ToSet(u) PROVE x \in ToSet(s) \cup ToSet(t)
        <3>1. PICK i \in 1..(m + n) : x = u[i]
            BY <1>4 DEF ToSet
        <3>2. i <= m => i \in 1..m
            BY <1>1
        <3>3. ~(i <= m) => i - m \in 1..n
            BY <1>1
        <3> QED BY <1>3, <1>5, <3>1, <3>2, <3>3
    <2>2. ASSUME NEW x \in ToSet(s) PROVE x \in ToSet(u)
        <3>1. PICK i \in 1..m : x = s[i]
            BY <1>1 DEF ToSet
        <3>2. i \in 1..(m + n) /\ u[i] = s[i]
            BY <1>1, <1>3
        <3> QED BY <1>4, <3>1, <3>2 DEF ToSet
    <2>3. ASSUME NEW x \in ToSet(t) PROVE x \in ToSet(u)
        <3>1. PICK i \in 1..n : x = t[i]
            BY <1>1 DEF ToSet
        <3>2. PICK j : j = m + i
            OBVIOUS
        <3>3. j \in 1..(m + n) /\ ~(j <= m) /\ j - m = i
            BY <1>1, <3>2
        <3>4. u[j] = t[i]
            BY <1>3, <3>3
        <3> QED BY <1>4, <3>1, <3>3, <3>4 DEF ToSet
    <2> QED BY <2>1, <2>2, <2>3
<1>7. Sorted(u)
    <2> HIDE DEF m, n
    <2>1. SUFFICES ASSUME NEW i \in 1..(m + n), NEW j \in 1..(m + n), i < j PROVE Before(u[i], u[j])
        BY <1>2 DEF Sorted
    <2>2. CASE j <= m
        <3>1. i <= m /\ i \in 1..m /\ j \in 1..m
            BY <1>1, <2>1, <2>2
        <3>2. Before(s[i], s[j])
            BY <2>1, <3>1 DEF Sorted, m
        <3> QED BY <1>3, <2>2, <3>1, <3>2
    <2>3. CASE i <= m /\ ~(j <= m)
        <3>1. i \in 1..m /\ j - m \in 1..n
            BY <1>1, <2>1, <2>3
        <3>2. Before(s[i], t[j - m])
            BY <3>1, <1>5
        <3> QED BY <1>3, <2>3, <3>2
    <2>4. CASE ~(i <= m)
        <3>1. ~(j <= m) /\ i - m \in 1..n /\ j - m \in 1..n /\ i - m < j - m
            BY <1>1, <2>1, <2>4
        <3>2. Before(t[i - m], t[j - m])
            BY <3>1 DEF Sorted, n
        <3> QED BY <1>3, <2>4, <3>1, <3>2
    <2> QED BY <2>2, <2>3, <2>4
<1> QED BY <1>2, <1>6, <1>7 DEF u

(* FlattenSeq, one sequence at a time *)
Join(s, q, i) == IF i = 1 THEN q[i] ELSE s \o q[i]
Joins(f, q, n) == f = [i \in 1..n |-> Join(f[i - 1], q, i)]

LEMMA JoinsAt ==
    ASSUME NEW f, NEW q, NEW n, Joins(f, q, n)
    PROVE  \A i \in 1..n : f[i] = Join(f[i - 1], q, i)
    BY DEF Joins

LEMMA JoinerExists ==
    ASSUME NEW q, NEW n \in Nat
    PROVE  \E f : Joins(f, q, n)
<1> DEFINE good == {m \in Nat : \E f : Joins(f, q, m)}
<1>1. 0 \in good
    <2> DEFINE f == [i \in 1..0 |-> <<>>]
    <2>1. f = [i \in 1..0 |-> Join(f[i - 1], q, i)]
        OBVIOUS
    <2>2. Joins(f, q, 0)
        BY <2>1 DEF Joins
    <2> QED BY <2>2
<1>2. ASSUME NEW m \in good PROVE m + 1 \in good
    <2>1. PICK f : Joins(f, q, m)
        OBVIOUS
    <2> DEFINE g == [i \in 1..(m + 1) |-> Join(f[i - 1], q, i)]
    <2>2. \A i \in 1..m : f[i] = Join(f[i - 1], q, i)
        BY <2>1, JoinsAt
    <2>3. \A i \in 1..m : i \in 1..(m + 1) /\ g[i] = f[i]
        BY <2>2
    <2>4. ASSUME NEW i \in 1..(m + 1)
          PROVE  Join(f[i - 1], q, i) = Join(g[i - 1], q, i)
        <3>1. CASE i = 1
            BY <3>1 DEF Join
        <3>2. CASE i # 1
            <4>1. i - 1 \in 1..m
                BY <3>2
            <4> HIDE DEF g
            <4> QED BY <4>1, <2>3
        <3> QED BY <3>1, <3>2
    <2>5. g = [i \in 1..(m + 1) |-> Join(g[i - 1], q, i)]
        BY <2>4
    <2>6. Joins(g, q, m + 1)
        BY <2>5 DEF Joins
    <2> QED BY <2>6
<1>3. good = Nat
    <2>1. good \in SUBSET Nat
        OBVIOUS
    <2> HIDE DEF good
    <2> QED BY <2>1, <1>1, <1>2, AllNaturals
<1> QED BY <1>3

LEMMA FlattenIs ==
    ASSUME NEW q, Len(q) \in Nat, Len(q) # 0
    PROVE  \E f : Joins(f, q, Len(q)) /\ FlattenSeq(q) = f[Len(q)]
<1> DEFINE f == CHOOSE f : Joins(f, q, Len(q))
<1>1. Joins(f, q, Len(q))
    BY JoinerExists
<1>2. FlattenSeq(q) = f[Len(q)]
    BY DEF FlattenSeq, Joins, Join
<1> QED BY <1>1, <1>2

\* One block's logs are in order, and say so.
LEMMA BlockSorted ==
    ASSUME NEW c, Numbered(c), NEW b \in 1..Len(c)
    PROVE  LET s == c[b].logs
               D == LogsUpTo(c, Len(c))
           IN  s \in Seq(D) /\ Sorted(s) /\ ToSet(s) = {l \in D : l.block = b}
<1> DEFINE s == c[b].logs
           D == LogsUpTo(c, Len(c))
           n == Len(s)
<1>1. PICK S : s \in Seq(S)
    BY DEF Numbered
<1>2. n \in Nat /\ DOMAIN s = 1..n /\ s \in [1..n -> S]
    BY <1>1, LenProperties
<1>3. \A i \in 1..n : s[i].block = b /\ s[i].index = i
    BY DEF Numbered
<1>4. \A i \in 1..n : s[i] \in D
    BY InLogs
<1>5. \A l \in D : l.block = b => l.index \in 1..n /\ l = s[l.index]
    <2>1. Len(c) \in 0..Len(c)
        BY DEF Numbered
    <2> QED BY <2>1, BlockOf
<1> HIDE DEF s, D
<1>6. s \in Seq(D)
    <2>1. s \in [1..n -> D]
        BY <1>2, <1>4
    <2> QED BY <2>1, <1>2, SeqDef
<1>7. Sorted(s)
    BY <1>2, <1>3 DEF Sorted, Before
<1>8. ToSet(s) = {l \in D : l.block = b}
    BY <1>2, <1>3, <1>4, <1>5 DEF ToSet
<1> QED BY <1>6, <1>7, <1>8 DEF s, D

LEMMA RangeIs ==
    ASSUME NEW c, Numbered(c), NEW from \in 0..Len(c), NEW to \in from..Len(c)
    PROVE  LET s == LogsAfter(c, from, to)
               D == LogsUpTo(c, Len(c))
           IN  s \in Seq(D) /\ Sorted(s) /\ ToSet(s) = {l \in D : from < l.block /\ l.block <= to}
<1> DEFINE s == LogsAfter(c, from, to)
           D == LogsUpTo(c, Len(c))
           n == to - from
           q == [i \in 1..n |-> c[from + i].logs]
           Upto(k) == {l \in D : from < l.block /\ l.block <= from + k}
           Good(x, k) == x \in Seq(D) /\ Sorted(x) /\ ToSet(x) = Upto(k)
<1>1. Len(c) \in Nat /\ n \in Nat /\ from \in Nat /\ to \in Nat /\ from + n = to
    BY DEF Numbered
<1>2. s = FlattenSeq(q) /\ Len(q) = n
    <2>1. Greater(from, to) = to
        BY <1>1 DEF Greater
    <2> QED BY <1>1, <2>1 DEF LogsAfter
<1>3. \A l \in D : l.block \in 1..Len(c)
    BY <1>1, BlockOf
<1>4. ASSUME NEW i \in 1..n
      PROVE  q[i] \in Seq(D) /\ Sorted(q[i]) /\ ToSet(q[i]) = {l \in D : l.block = from + i}
    <2>1. from + i \in 1..Len(c) /\ q[i] = c[from + i].logs
        BY <1>1
    <2> HIDE DEF q
    <2> QED BY <2>1, BlockSorted
<1> HIDE DEF q, s, D
<1>5. CASE n = 0
    <2>1. s = q /\ q = <<>>
        BY <1>2, <1>5 DEF FlattenSeq, q
    <2>2. s \in Seq(D) /\ Sorted(s) /\ ToSet(s) = {}
        <3>1. Len(s) = 0 /\ s \in Seq(D)
            BY <2>1, EmptySeq
        <3> QED BY <2>1, <3>1 DEF Sorted, ToSet
    <2>3. {l \in D : from < l.block /\ l.block <= to} = {}
        BY <1>1, <1>3, <1>5
    <2> QED BY <2>2, <2>3 DEF s, D
<1>6. CASE n # 0
    <2>1. PICK f : Joins(f, q, n) /\ s = f[n]
        BY <1>1, <1>2, <1>6, FlattenIs
    <2>2. \A i \in 1..n : f[i] = Join(f[i - 1], q, i)
        BY <2>1, JoinsAt
    <2> DEFINE G == {k \in Nat : k \in 1..n => Good(f[k], k)}
    <2>3. 0 \in G
        OBVIOUS
    <2>4. ASSUME NEW k \in G PROVE k + 1 \in G
        <3>1. SUFFICES ASSUME k + 1 \in 1..n PROVE Good(f[k + 1], k + 1)
            OBVIOUS
        <3>2. CASE k = 0
            <4>1. f[1] = q[1]
                BY <2>2, <3>1, <3>2 DEF Join
            <4>2. Upto(1) = {l \in D : l.block = from + 1}
                BY <1>1, <1>3
            <4> QED BY <1>4, <3>1, <3>2, <4>1, <4>2
        <3>3. CASE k # 0
            <4>1. k \in 1..n /\ Good(f[k], k)
                BY <3>1, <3>3
            <4>2. f[k + 1] = f[k] \o q[k + 1]
                <5>1. PICK j : j = k + 1
                    OBVIOUS
                <5>2. j \in 1..n /\ j # 1 /\ j - 1 = k
                    BY <3>1, <3>3, <5>1
                <5> HIDE DEF G
                <5>3. f[j] = f[k] \o q[j]
                    BY <2>2, <5>2 DEF Join
                <5> QED BY <5>1, <5>3
            <4>3. \A a \in ToSet(f[k]), b \in ToSet(q[k + 1]) : Before(a, b)
                <5>1. \A a \in ToSet(f[k]) : a \in D /\ a.block <= from + k
                    BY <4>1
                <5>2. \A b \in ToSet(q[k + 1]) : b \in D /\ b.block = from + (k + 1)
                    BY <3>1, <1>4
                <5> QED BY <5>1, <5>2, <1>1, <1>3 DEF Before
            <4>4. /\ f[k + 1] \in Seq(D) /\ Sorted(f[k + 1])
                  /\ ToSet(f[k + 1]) = ToSet(f[k]) \cup ToSet(q[k + 1])
                <5>1. q[k + 1] \in Seq(D) /\ Sorted(q[k + 1])
                    BY <1>4, <3>1
                <5>2. f[k] \in Seq(D) /\ Sorted(f[k])
                    BY <4>1
                <5> HIDE DEF G
                <5> QED BY <4>2, <4>3, <5>1, <5>2, ConcatSorted
            <4>5. Upto(k + 1) = Upto(k) \cup {l \in D : l.block = from + (k + 1)}
                BY <1>1, <1>3, <3>1
            <4>6. ToSet(q[k + 1]) = {l \in D : l.block = from + (k + 1)}
                BY <1>4, <3>1
            <4> QED BY <4>1, <4>4, <4>5, <4>6
        <3> QED BY <3>2, <3>3
    <2>5. G = Nat
        <3>1. G \in SUBSET Nat
            OBVIOUS
        <3> HIDE DEF G
        <3> QED BY <3>1, <2>3, <2>4, AllNaturals
    <2>6. n \in G /\ n \in 1..n
        BY <2>5, <1>1, <1>6
    <2>7. Good(f[n], n)
        BY <2>6
    <2>8. Upto(n) = {l \in D : from < l.block /\ l.block <= to}
        BY <1>1
    <2> QED BY <2>1, <2>7, <2>8 DEF s, D
<1> QED BY <1>5, <1>6

-----------------------------------------------------------------------------
(***************************************************************************)
(* A range of logs, applied to a store that agrees with the chain.         *)
(***************************************************************************)
Prior(c, l) == {k \in LogsUpTo(c, l.block) : Before(k, l)}

\* Every log was legal when it came.
Lawful(c) ==
    /\ Numbered(c)
    /\ \A h \in 0..Len(c) : Sane(LogsUpTo(c, h))
    /\ \A l \in LogsUpTo(c, Len(c)) : Sane(Prior(c, l)) /\ Legal(Prior(c, l), l)

LEMMA PriorIs ==
    ASSUME NEW c, Numbered(c), NEW h \in 0..Len(c), NEW l \in LogsUpTo(c, h)
    PROVE  Prior(c, l) = {k \in LogsUpTo(c, h) : Before(k, l)}
<1>1. l.block \in 1..h /\ Len(c) \in Nat
    BY BlockOf DEF Numbered
<1>2. l.block \in 0..h
    BY <1>1
<1>3. LogsUpTo(c, l.block) = {k \in LogsUpTo(c, h) : k.block <= l.block}
    BY <1>2, LogsAreByBlock
<1>4. \A k \in LogsUpTo(c, h) : k.block \in 1..h
    BY BlockOf
<1>5. \A k \in LogsUpTo(c, h) : Before(k, l) => k.block <= l.block
    BY <1>1, <1>4 DEF Before
<1> QED BY <1>3, <1>5 DEF Prior

LEMMA BeforeTransitive ==
    ASSUME NEW j, NEW k, NEW l, Placed_(j), Placed_(k), Placed_(l), Before(j, k), Before(k, l)
    PROVE  Before(j, l)
    BY DEF Before, Placed_

(* applyAll, one log at a time *)
Applied(T, log) == {apply(t, log) : t \in {u \in T : KeysHold(u, log)}}
Step(T, s, logs, i) == IF i = 0 THEN {s} ELSE Applied(T, logs[i])
Steps(f, s, logs, n) == f = [i \in 0..n |-> Step(f[i - 1], s, logs, i)]

LEMMA StepsAt ==
    ASSUME NEW f, NEW s, NEW logs, NEW n, Steps(f, s, logs, n)
    PROVE  \A i \in 0..n : f[i] = Step(f[i - 1], s, logs, i)
    BY DEF Steps

LEMMA StepperExists ==
    ASSUME NEW s, NEW logs, NEW n \in Nat
    PROVE  \E f : Steps(f, s, logs, n)
<1> DEFINE good == {m \in Nat : \E f : Steps(f, s, logs, m)}
<1>1. 0 \in good
    <2> DEFINE f == [i \in 0..0 |-> {s}]
    <2>1. \A i \in 0..0 : Step(f[i - 1], s, logs, i) = {s}
        BY DEF Step
    <2>2. f = [i \in 0..0 |-> Step(f[i - 1], s, logs, i)]
        BY <2>1
    <2> QED BY <2>2 DEF Steps
<1>2. ASSUME NEW m \in good PROVE m + 1 \in good
    <2>1. PICK f : Steps(f, s, logs, m)
        OBVIOUS
    <2> DEFINE g == [i \in 0..(m + 1) |-> Step(f[i - 1], s, logs, i)]
    <2>2. \A i \in 0..m : f[i] = Step(f[i - 1], s, logs, i)
        BY <2>1, StepsAt
    <2>3. \A i \in 0..m : i \in 0..(m + 1) /\ g[i] = f[i]
        BY <2>2
    <2>4. ASSUME NEW i \in 0..(m + 1)
          PROVE  Step(f[i - 1], s, logs, i) = Step(g[i - 1], s, logs, i)
        <3>1. CASE i = 0
            BY <3>1 DEF Step
        <3>2. CASE i # 0
            <4>1. i - 1 \in 0..m
                BY <3>2
            <4> HIDE DEF g
            <4> QED BY <4>1, <2>3
        <3> QED BY <3>1, <3>2
    <2>5. g = [i \in 0..(m + 1) |-> Step(g[i - 1], s, logs, i)]
        BY <2>4
    <2>6. Steps(g, s, logs, m + 1)
        BY <2>5 DEF Steps
    <2> QED BY <2>6
<1>3. good = Nat
    <2>1. good \in SUBSET Nat
        OBVIOUS
    <2> HIDE DEF good
    <2> QED BY <2>1, <1>1, <1>2, AllNaturals
<1> QED BY <1>3

LEMMA ApplyAllIs ==
    ASSUME NEW s, NEW logs, Len(logs) \in Nat
    PROVE  \E f : Steps(f, s, logs, Len(logs)) /\ applyAll(s, logs) = f[Len(logs)]
<1> DEFINE f == CHOOSE f : Steps(f, s, logs, Len(logs))
<1>1. Steps(f, s, logs, Len(logs))
    BY StepperExists
<1>2. applyAll(s, logs) = f[Len(logs)]
    BY DEF applyAll, Steps, Step, Applied
<1> QED BY <1>1, <1>2

\* One more log of a range: either the store has it, or it is the next one it lacks.
LEMMA NextOfRange ==
    ASSUME NEW c, Lawful(c), NEW h \in 0..Len(c), NEW T \in 0..h, NEW to \in 0..h, NEW P,
           NEW l \in LogsUpTo(c, h), l.block <= to,
           LogsUpTo(c, T) \subseteq P, P \subseteq LogsUpTo(c, h),
           \A k \in P : k \in LogsUpTo(c, T) \/ Before(k, l),
           \A k \in LogsUpTo(c, h) : Before(k, l) => k \in P,
           NEW s, Agree(s, P, LogsUpTo(c, h))
    PROVE  Agree(apply(s, l), P \cup {l}, LogsUpTo(c, h))
<1> DEFINE D == LogsUpTo(c, h)
<1>1. CASE l \in P
    <2>1. apply(s, l) = s
        BY <1>1, ReplaySkips DEF Agree
    <2>2. P \cup {l} = P
        BY <1>1
    <2> QED BY <2>1, <2>2
<1>2. CASE l \notin P
    <2>1. Sane(D) /\ Numbered(c) /\ Len(c) \in Nat
        BY DEF Lawful, Numbered
    <2>2. \A k \in D : Placed_(k) /\ k.block \in 1..h
        BY <2>1, BlockOf DEF Sane
    <2>3. LogsUpTo(c, T) = {k \in D : k.block <= T}
        BY <2>1, LogsAreByBlock
    <2>4. ~(l.block <= T)
        BY <1>2, <2>3
    <2>5. \A k \in LogsUpTo(c, T) : Before(k, l)
        BY <2>2, <2>3, <2>4 DEF Before
    <2>6. P = {k \in D : Before(k, l)}
        BY <2>5
    <2>7. Prior(c, l) = P
        BY <2>1, <2>6, PriorIs
    <2>8. l \in LogsUpTo(c, Len(c))
        <3>1. h \in 0..Len(c) /\ Len(c) \in 0..Len(c) /\ h \in 0..Len(c)
            BY <2>1
        <3>2. LogsUpTo(c, h) = {k \in LogsUpTo(c, Len(c)) : k.block <= h}
            BY <2>1, <3>1, LogsAreByBlock
        <3> QED BY <3>2
    <2>9. Sane(P) /\ Legal(P, l)
        BY <2>7, <2>8 DEF Lawful
    <2>10. Cut(P \cup {l}, D)
        <3> HIDE DEF D
        <3>0. l \in D
            BY DEF D
        <3>1. ASSUME NEW k \in P \cup {l}, NEW j \in D, Before(j, k) PROVE j \in P \cup {l}
            <4>1. CASE k = l
                BY <3>1, <4>1, <2>6
            <4>2. CASE k \in P
                <5>1. Before(k, l) /\ k \in D
                    BY <4>2, <2>6
                <5>2. Before(j, l)
                    BY <3>0, <3>1, <5>1, <2>2, BeforeTransitive
                <5> QED BY <5>2, <2>6
            <4> QED BY <4>1, <4>2
        <3> QED BY <3>0, <3>1, <2>6 DEF Cut
    <2>11. Ordered(D)
        BY <2>1 DEF Sane
    <2> QED BY <2>9, <2>10, <2>11, AgreeGrows
<1> QED BY <1>1, <1>2

\* Replay converges: a store that agrees with the chain up to T, given any range of
\* logs that starts no higher (after a restart, a rewind or a failed commit it starts
\* lower, and its first logs were applied before), agrees with it up to the end of that
\* range; nothing is counted twice (apply and its applied_logs guard, indexer.js).
THEOREM ApplyAgrees ==
    ASSUME NEW c, Lawful(c), NEW h \in 0..Len(c), NEW T \in 0..h, NEW from \in 0..T, NEW to \in from..h,
           NEW s, Agree(s, LogsUpTo(c, T), LogsUpTo(c, h)), NEW after \in applyAll(s, LogsAfter(c, from, to))
    PROVE  Agree(after, LogsUpTo(c, Greater(T, to)), LogsUpTo(c, h))
<1> DEFINE D == LogsUpTo(c, h)
           L == LogsAfter(c, from, to)
           P0 == LogsUpTo(c, T)
           n == Len(L)
           Upto(i) == P0 \cup {L[j] : j \in 1..i}
<1>1. Numbered(c) /\ Len(c) \in Nat /\ from \in Nat /\ T \in Nat /\ h \in Nat /\ to \in Nat
    BY DEF Lawful, Numbered
<1>2. D = {l \in LogsUpTo(c, Len(c)) : l.block <= h}
    <2>1. Len(c) \in 0..Len(c) /\ h \in 0..Len(c)
        BY <1>1
    <2> QED BY <1>1, <2>1, LogsAreByBlock
<1>3. /\ L \in Seq(LogsUpTo(c, Len(c))) /\ Sorted(L)
      /\ ToSet(L) = {l \in LogsUpTo(c, Len(c)) : from < l.block /\ l.block <= to}
    <2>1. from \in 0..Len(c) /\ to \in from..Len(c)
        BY <1>1
    <2> QED BY <1>1, <2>1, RangeIs
<1>4. n \in Nat /\ DOMAIN L = 1..n
    BY <1>3, LenProperties
<1>5. \A l \in D : l.block \in 1..h
    BY <1>1, BlockOf
<1>5a. \A l \in LogsUpTo(c, Len(c)) : l.block \in 1..Len(c)
    <2>1. Len(c) \in 0..Len(c)
        BY <1>1
    <2> QED BY <1>1, <2>1, BlockOf
<1>6. ToSet(L) = {l \in D : from < l.block /\ l.block <= to}
    BY <1>1, <1>2, <1>3, <1>5a
<1>7. P0 = {l \in D : l.block <= T}
    BY <1>1, LogsAreByBlock
<1>8. ToSet(L) = {L[j] : j \in 1..n}
    BY <1>4 DEF ToSet
<1>9. PICK f : Steps(f, s, L, n) /\ applyAll(s, L) = f[n]
    BY <1>4, ApplyAllIs
<1>10. \A i \in 0..n : f[i] = Step(f[i - 1], s, L, i)
    BY <1>9, StepsAt
<1>11. Agree(s, P0, D)
    OBVIOUS
<1> HIDE DEF D, L, P0, n
<1> DEFINE G == {i \in Nat : i \in 0..n => \A t \in f[i] : Agree(t, Upto(i), D)}
<1>12. 0 \in G
    <2>1. f[0] = {s}
        BY <1>4, <1>10 DEF Step
    <2>2. Upto(0) = P0
        OBVIOUS
    <2> HIDE DEF Upto
    <2> QED BY <2>1, <2>2, <1>11
<1>13. ASSUME NEW i \in G PROVE i + 1 \in G
    <2>1. SUFFICES ASSUME i + 1 \in 0..n, NEW t \in f[i + 1] PROVE Agree(t, Upto(i + 1), D)
        OBVIOUS
    <2>2. PICK k : k = i + 1
        OBVIOUS
    <2>3. k \in 1..n /\ k \in 0..n /\ k # 0 /\ k - 1 = i /\ i \in 0..n
        BY <2>1, <2>2, <1>4
    <2>4. t \in Applied(f[i], L[k])
        <3>1. f[k] = Step(f[i], s, L, k)
            BY <1>10, <2>3
        <3> HIDE DEF G, Upto
        <3> QED BY <3>1, <2>1, <2>2, <2>3 DEF Step
    <2>5. PICK u \in f[i] : t = apply(u, L[k])
        BY <2>4 DEF Applied
    <2>6. Agree(u, Upto(i), D)
        BY <2>3
    <2>7. L[k] \in ToSet(L)
        BY <2>3, <1>8
    <2>8. L[k] \in D /\ L[k].block <= to
        BY <2>7, <1>6
    <2>9. \A x \in Upto(i) : x \in P0 \/ Before(x, L[k])
        <3>1. \A j \in 1..i : j \in 1..n /\ j < k
            BY <2>3, <1>4
        <3>2. \A j \in 1..i : Before(L[j], L[k])
            BY <3>1, <2>3, <1>3 DEF Sorted, n
        <3> QED BY <3>2
    <2>10. ASSUME NEW x \in D, Before(x, L[k]) PROVE x \in Upto(i)
        <3>1. CASE x.block <= T
            BY <3>1, <1>7
        <3>2. CASE ~(x.block <= T)
            <4>1. from < x.block /\ x.block <= to
                BY <3>2, <2>8, <2>10, <1>1, <1>5 DEF Before
            <4>2. x \in ToSet(L)
                BY <4>1, <1>6
            <4>3. PICK j \in 1..n : x = L[j]
                BY <4>2, <1>8
            <4>4. ~(k < j)
                <5>1. ASSUME k < j PROVE FALSE
                    <6>1. Before(L[k], x)
                        BY <5>1, <4>3, <2>3, <1>3 DEF Sorted, n
                    <6>2. Placed_(x) /\ Placed_(L[k])
                        BY <2>8 DEF Lawful, Sane, D
                    <6> QED BY <6>1, <6>2, <2>10 DEF Before, Placed_
                <5> QED BY <5>1
            <4>5. j # k
                <5>1. Placed_(x)
                    BY <2>8 DEF Lawful, Sane, D
                <5> QED BY <5>1, <4>3, <2>10 DEF Before, Placed_
            <4>6. j \in 1..i
                BY <4>4, <4>5, <2>3, <1>4
            <4> QED BY <4>3, <4>6
        <3> QED BY <3>1, <3>2
    <2>11. Upto(i) \subseteq D
        <3>0. \A j \in 1..i : j \in 1..n
            BY <1>4, <2>3
        <3>1. \A j \in 1..i : L[j] \in ToSet(L)
            BY <1>8, <3>0
        <3> QED BY <3>1, <1>6, <1>7
    <2>12. Upto(i + 1) = Upto(i) \cup {L[k]}
        <3>1. 1..(i + 1) = (1..i) \cup {k}
            BY <2>2, <2>3
        <3> QED BY <3>1
    <2>13. P0 \subseteq Upto(i)
        OBVIOUS
    <2>14. to \in 0..h
        BY <1>1
    <2> HIDE DEF Upto, G
    <2>15. PICK P : P = Upto(i)
        OBVIOUS
    <2>16. Agree(apply(u, L[k]), P \cup {L[k]}, D)
        <3>1. PICK l : l = L[k]
            OBVIOUS
        <3>2. /\ l \in LogsUpTo(c, h) /\ l.block <= to
              /\ LogsUpTo(c, T) \subseteq P /\ P \subseteq LogsUpTo(c, h)
              /\ \A x \in P : x \in LogsUpTo(c, T) \/ Before(x, l)
              /\ \A x \in LogsUpTo(c, h) : Before(x, l) => x \in P
              /\ Agree(u, P, LogsUpTo(c, h))
            BY <3>1, <2>6, <2>8, <2>9, <2>10, <2>11, <2>13, <2>15 DEF D, P0
        <3>3. Agree(apply(u, l), P \cup {l}, LogsUpTo(c, h))
            BY <3>2, <2>14, NextOfRange
        <3> QED BY <3>1, <3>3 DEF D
    <2> QED BY <2>5, <2>12, <2>15, <2>16
<1>14. G = Nat
    <2>1. G \in SUBSET Nat
        OBVIOUS
    <2> HIDE DEF G
    <2> QED BY <2>1, <1>12, <1>13, AllNaturals
<1>15. \A t \in f[n] : Agree(t, Upto(n), D)
    <2>1. n \in G /\ n \in 0..n
        BY <1>14, <1>4
    <2> HIDE DEF Upto
    <2> QED BY <2>1
<1>16. Upto(n) = LogsUpTo(c, Greater(T, to))
    <2>1. Greater(T, to) \in 0..h
        BY <1>1 DEF Greater
    <2>2. LogsUpTo(c, Greater(T, to)) = {l \in D : l.block <= Greater(T, to)}
        BY <2>1, <1>1, LogsAreByBlock DEF D
    <2>3. Upto(n) = P0 \cup ToSet(L)
        BY <1>8
    <2>4. \A l \in D : l.block <= Greater(T, to) <=> (l.block <= T \/ (from < l.block /\ l.block <= to))
        BY <1>1, <1>5 DEF Greater
    <2> HIDE DEF Upto
    <2> QED BY <2>2, <2>3, <2>4, <1>6, <1>7
<1> HIDE DEF Upto
<1>17. after \in f[n]
    BY <1>9 DEF L
<1>18. Agree(after, Upto(n), D)
    BY <1>15, <1>17
<1> QED BY <1>16, <1>18 DEF D

-----------------------------------------------------------------------------
(***************************************************************************)
(* What a transaction logs is legal.                                       *)
(***************************************************************************)
Fits(P, l) ==
    /\ l.name = "OrderPlaced" =>
         l.order = Cardinality(Ids(P)) + 1 /\ l.size \in Nat \ {0} /\ l.stop \in BOOLEAN
    /\ l.name = "OrderFilled" =>
         /\ l.taker \in Ids(P) /\ l.maker \in Ids(P) \cup {0} /\ l.taker # l.maker /\ l.size \in Int
         /\ \A id \in {l.taker, l.maker} \cap Ids(P) : OrdersOf(P)[id].status \in Undone
    /\ l.name = "OrderCancelled" => l.order \in Ids(P)
    /\ l.name = "OrderTriggered" => l.order \in Ids(P) /\ OrdersOf(P)[l.order].status = "Pending"
    /\ l.name \in {"Deposited", "Withdrawn"} => l.account \in Inited(P) /\ l.amount \in Int
    /\ l.name = "PositionChanged" => l.delta \in Int
    /\ l.name = "PriceSet" => l.market \in Markets(P) \cup {Cardinality(Markets(P)) + 1}

LEMMA LegalIs ==
    ASSUME NEW P, NEW l
    PROVE  Legal(P, l) <=> Placed_(l) /\ (\A k \in P : Before(k, l)) /\ Fits(P, l)
    BY DEF Legal, Fits

LEMMA StampedFields ==
    ASSUME NEW body, NEW key, NEW h, NEW i
    PROVE  LET l == Stamped(body, key, h, i) IN
           /\ l.tx = key /\ l.block = h /\ l.index = i
           /\ \A x \in DOMAIN body : x \notin {"tx", "block", "index"} => l[x] = body[x]
    BY DEF Stamped

LEMMA PlainFits ==
    ASSUME NEW P, NEW l,
           l.name \in {"AccountInitialized", "MarketStatusChanged", "FundingUpdated", "Liquidated"}
    PROVE  Fits(P, l)
    BY DEF Fits
LEMMA PriceFits ==
    ASSUME NEW P, NEW l, l.name = "PriceSet", l.market \in Markets(P) \cup {Cardinality(Markets(P)) + 1}
    PROVE  Fits(P, l)
    BY DEF Fits
LEMMA ChangedFits ==
    ASSUME NEW P, NEW l, l.name = "PositionChanged", l.delta \in Int
    PROVE  Fits(P, l)
    BY DEF Fits
LEMMA FlowFits ==
    ASSUME NEW P, NEW l, l.name \in {"Deposited", "Withdrawn"}, l.account \in Inited(P), l.amount \in Int
    PROVE  Fits(P, l)
    BY DEF Fits
LEMMA PlacedFits ==
    ASSUME NEW P, NEW l, l.name = "OrderPlaced", l.order = Cardinality(Ids(P)) + 1,
           l.size \in Nat \ {0}, l.stop \in BOOLEAN
    PROVE  Fits(P, l)
    BY DEF Fits
LEMMA FillFits ==
    ASSUME NEW P, NEW l, l.name = "OrderFilled",
           l.taker \in Ids(P), l.maker \in Ids(P) \cup {0}, l.taker # l.maker, l.size \in Int,
           \A id \in {l.taker, l.maker} \cap Ids(P) : OrdersOf(P)[id].status \in Undone
    PROVE  Fits(P, l)
    BY DEF Fits
LEMMA CancelFits ==
    ASSUME NEW P, NEW l, l.name = "OrderCancelled", l.order \in Ids(P)
    PROVE  Fits(P, l)
    BY DEF Fits
LEMMA TriggerFits ==
    ASSUME NEW P, NEW l, l.name = "OrderTriggered", l.order \in Ids(P), OrdersOf(P)[l.order].status = "Pending"
    PROVE  Fits(P, l)
    BY DEF Fits

(* The logs of a list of bodies, stamped from the k-th on, each on the ones before *)
Told(P, B, key, h, k, n) == P \cup {Stamped(B[j], key, h, k + j) : j \in 1..n}
Telling(P, B, key, h, k) ==
    /\ \E S : B \in Seq(S)
    /\ \A i \in 1..Len(B) : Fits(Told(P, B, key, h, k, i - 1), Stamped(B[i], key, h, k + i))

LEMMA TellNone ==
    ASSUME NEW P, NEW key, NEW h, NEW k \in Nat
    PROVE  Telling(P, <<>>, key, h, k)
<1>1. <<>> \in Seq({}) /\ Len(<<>>) = 0
    BY EmptySeq
<1> QED BY <1>1 DEF Telling

LEMMA TellOne ==
    ASSUME NEW P, NEW key, NEW h, NEW k \in Nat, NEW a, Fits(P, Stamped(a, key, h, k + 1))
    PROVE  Telling(P, <<a>>, key, h, k)
<1> DEFINE B == <<a>>
<1>1. B \in Seq({a}) /\ Len(B) = 1 /\ B[1] = a
    OBVIOUS
<1> HIDE DEF B
<1>2. Told(P, B, key, h, k, 0) = P
    BY DEF Told
<1>3. \A i \in 1..Len(B) : i = 1 /\ i - 1 = 0
    BY <1>1
<1>4. Telling(P, B, key, h, k)
    BY <1>1, <1>2, <1>3 DEF Telling
<1> QED BY <1>4 DEF B

LEMMA TellTwo ==
    ASSUME NEW P, NEW key, NEW h, NEW k \in Nat, NEW a, NEW b,
           Fits(P, Stamped(a, key, h, k + 1)),
           Fits(P \cup {Stamped(a, key, h, k + 1)}, Stamped(b, key, h, k + 2))
    PROVE  Telling(P, <<a, b>>, key, h, k)
<1> DEFINE B == <<a, b>>
<1>1. B \in Seq({a, b}) /\ Len(B) = 2 /\ B[1] = a /\ B[2] = b
    OBVIOUS
<1> HIDE DEF B
<1>2. Told(P, B, key, h, k, 0) = P
    BY DEF Told
<1>3. Told(P, B, key, h, k, 1) = P \cup {Stamped(a, key, h, k + 1)}
    BY <1>1 DEF Told
<1>4. \A i \in 1..Len(B) : (i = 1 /\ i - 1 = 0) \/ (i = 2 /\ i - 1 = 1)
    BY <1>1
<1>5. Telling(P, B, key, h, k)
    BY <1>1, <1>2, <1>3, <1>4 DEF Telling
<1> QED BY <1>5 DEF B

LEMMA TellThree ==
    ASSUME NEW P, NEW key, NEW h, NEW k \in Nat, NEW a, NEW b, NEW c,
           Fits(P, Stamped(a, key, h, k + 1)),
           Fits(P \cup {Stamped(a, key, h, k + 1)}, Stamped(b, key, h, k + 2)),
           \A Q : Fits(Q, Stamped(c, key, h, k + 3))
    PROVE  Telling(P, <<a, b, c>>, key, h, k)
<1> DEFINE B == <<a, b, c>>
<1>1. B \in Seq({a, b, c}) /\ Len(B) = 3 /\ B[1] = a /\ B[2] = b /\ B[3] = c
    OBVIOUS
<1> HIDE DEF B
<1>2. Told(P, B, key, h, k, 0) = P
    BY DEF Told
<1>3. Told(P, B, key, h, k, 1) = P \cup {Stamped(a, key, h, k + 1)}
    BY <1>1 DEF Told
<1>4. \A i \in 1..Len(B) : (i = 1 /\ i - 1 = 0) \/ (i = 2 /\ i - 1 = 1) \/ i = 3
    BY <1>1
<1>5. Telling(P, B, key, h, k)
    BY <1>1, <1>2, <1>3, <1>4 DEF Telling
<1> QED BY <1>5 DEF B

LEMMA TellFour ==
    ASSUME NEW P, NEW key, NEW h, NEW k \in Nat, NEW a, NEW b, NEW c, NEW d,
           Fits(P, Stamped(a, key, h, k + 1)),
           Fits(P \cup {Stamped(a, key, h, k + 1)}, Stamped(b, key, h, k + 2)),
           \A Q : Fits(Q, Stamped(c, key, h, k + 3)),
           \A Q : Fits(Q, Stamped(d, key, h, k + 4))
    PROVE  Telling(P, <<a, b, c, d>>, key, h, k)
<1> DEFINE B == <<a, b, c, d>>
<1>1. B \in Seq({a, b, c, d}) /\ Len(B) = 4 /\ B[1] = a /\ B[2] = b /\ B[3] = c /\ B[4] = d
    OBVIOUS
<1> HIDE DEF B
<1>2. Told(P, B, key, h, k, 0) = P
    BY DEF Told
<1>3. Told(P, B, key, h, k, 1) = P \cup {Stamped(a, key, h, k + 1)}
    BY <1>1 DEF Told
<1>4. \A i \in 1..Len(B) : (i = 1 /\ i - 1 = 0) \/ (i = 2 /\ i - 1 = 1) \/ i = 3 \/ i = 4
    BY <1>1
<1>5. Telling(P, B, key, h, k)
    BY <1>1, <1>2, <1>3, <1>4 DEF Telling
<1> QED BY <1>5 DEF B

(* The calls, one by one *)
LEMMA PlacedIs ==
    ASSUME NEW id, NEW size, NEW stop, NEW key, NEW h, NEW i
    PROVE  LET l == Stamped(Placed(id, size, stop), key, h, i) IN
           l.name = "OrderPlaced" /\ l.order = id /\ l.size = size /\ l.stop = stop
    BY DEF Stamped, Placed
LEMMA FillIs ==
    ASSUME NEW taker, NEW maker, NEW key, NEW h, NEW i
    PROVE  LET l == Stamped(Fill(taker, maker), key, h, i) IN
           l.name = "OrderFilled" /\ l.taker = taker /\ l.maker = maker /\ l.size = 1
    BY DEF Stamped, Fill
LEMMA ChangedAnyway ==
    ASSUME NEW P, NEW Q, NEW a, NEW by, NEW delta \in Int, NEW key, NEW h, NEW i
    PROVE  Fits(Q, Stamped(Changed(P, a, by, delta), key, h, i))
<1> DEFINE l == Stamped(Changed(P, a, by, delta), key, h, i)
<1>1. l.name = "PositionChanged" /\ l.delta = delta
    BY DEF Stamped, Changed
<1> HIDE DEF l
<1>2. Fits(Q, l)
    BY <1>1, ChangedFits
<1> QED BY <1>2 DEF l

LEMMA IdsAre ==
    ASSUME NEW P
    PROVE  DOMAIN OrdersOf(P) = Ids(P) /\ DOMAIN AccountsOf(P) = Inited(P)
    BY DEF OrdersOf, AccountsOf, Ids, Inited

LEMMA FirstIn ==
    ASSUME NEW P, Sane(P), NEW s, WithStatus(P, s) # {}
    PROVE  First(WithStatus(P, s)) \in Ids(P) /\ OrdersOf(P)[First(WithStatus(P, s))].status = s
<1> DEFINE W == WithStatus(P, s)
<1>1. PICK n \in Nat : Ids(P) = 1..n
    BY DEF Sane, SanePlaced
<1>2. W \subseteq 1..n /\ W # {}
    BY <1>1, IdsAre DEF WithStatus
<1>3. \A id \in W : id \in Ids(P) /\ OrdersOf(P)[id].status = s
    BY IdsAre DEF WithStatus
<1> HIDE DEF W
<1>4. \E x \in W : \A y \in W : x <= y
    <2> DEFINE G == {m \in Nat : W \cap (1..m) = {} \/ \E x \in W : \A y \in W : x <= y}
    <2>1. 0 \in G
        OBVIOUS
    <2>2. ASSUME NEW m \in G PROVE m + 1 \in G
        <3>1. CASE W \cap (1..m) # {}
            BY <3>1
        <3>2. CASE W \cap (1..m) = {} /\ m + 1 \in W
            <4>1. \A y \in W : m + 1 <= y
                BY <3>2, <1>2
            <4> QED BY <4>1, <3>2
        <3>3. CASE W \cap (1..m) = {} /\ m + 1 \notin W
            <4>1. W \cap (1..(m + 1)) = {}
                BY <3>3, <1>2
            <4> QED BY <4>1
        <3> QED BY <3>1, <3>2, <3>3
    <2>3. G = Nat
        <3>1. G \in SUBSET Nat
            OBVIOUS
        <3> HIDE DEF G
        <3> QED BY <3>1, <2>1, <2>2, AllNaturals
    <2>4. n \in G
        BY <2>3
    <2> QED BY <2>4, <1>2
<1>5. First(W) \in W
    BY <1>4 DEF First
<1> QED BY <1>3, <1>5 DEF W

LEMMA RestTells ==
    ASSUME NEW P, NEW key, NEW h, NEW k \in Nat, NEW size \in Nat \ {0}, NEW stop \in BOOLEAN
    PROVE  Fits(P, Stamped(Placed(NextId(P), size, stop), key, h, k + 1))
<1> DEFINE l == Stamped(Placed(NextId(P), size, stop), key, h, k + 1)
<1>1. l.name = "OrderPlaced" /\ l.order = NextId(P) /\ l.size = size /\ l.stop = stop
    BY PlacedIs
<1>2. NextId(P) = Cardinality(Ids(P)) + 1
    BY IdsAre DEF NextId
<1> HIDE DEF l
<1>3. Fits(P, l)
    BY <1>1, <1>2, PlacedFits
<1> QED BY <1>3 DEF l

\* A first log, on logs that all came before.
Later(P, h, k) == \A x \in P : x.block < h \/ (x.block = h /\ x.index <= k)

LEMMA NextLegal ==
    ASSUME NEW P, Sane(P), NEW h \in Nat \ {0}, NEW k \in Nat, Later(P, h, k), NEW body, NEW key, key[1] = h,
           Fits(P, Stamped(body, key, h, k + 1))
    PROVE  Legal(P, Stamped(body, key, h, k + 1))
<1> DEFINE l == Stamped(body, key, h, k + 1)
<1>1. l.tx = key /\ l.block = h /\ l.index = k + 1
    BY StampedFields
<1>2. Fits(P, l)
    OBVIOUS
<1> HIDE DEF l
<1>3. Placed_(l)
    BY <1>1 DEF Placed_
<1>4. \A x \in P : Before(x, l)
    BY <1>1 DEF Later, Before, Sane, Placed_
<1>5. Legal(P, l)
    BY <1>2, <1>3, <1>4, LegalIs
<1> QED BY <1>5 DEF l

LEMMA CrossTells ==
    ASSUME NEW P, Sane(P), NEW h \in Nat \ {0}, NEW k \in Nat, Later(P, h, k), NEW key, key[1] = h,
           NEW m \in Ids(P), OrdersOf(P)[m].status = "Open", NEW stop \in BOOLEAN, ~stop
    PROVE  LET l == Stamped(Placed(NextId(P), 1, stop), key, h, k + 1) IN
           Fits(P \cup {l}, Stamped(Fill(NextId(P), m), key, h, k + 2))
<1> DEFINE n == NextId(P)
           l == Stamped(Placed(n, 1, stop), key, h, k + 1)
           f == Stamped(Fill(n, m), key, h, k + 2)
           U == P \cup {l}
<1>1. Legal(P, l)
    <2>0. 1 \in Nat \ {0}
        OBVIOUS
    <2>1. Fits(P, l)
        BY <2>0, RestTells
    <2> HIDE DEF n
    <2> QED BY <2>1, NextLegal
<1>2. l.name = "OrderPlaced" /\ l.order = n /\ l.size = 1 /\ l.stop = stop
    BY PlacedIs
<1>3. f.name = "OrderFilled" /\ f.taker = n /\ f.maker = m /\ f.size = 1
    BY FillIs
<1>4. n \notin Ids(P)
    <2>1. PICK j \in Nat : Ids(P) = 1..j /\ Cardinality(Ids(P)) = j
        BY NextNumber DEF Sane
    <2>2. n = j + 1
        BY <2>1, IdsAre DEF NextId
    <2> HIDE DEF n
    <2> QED BY <2>1, <2>2
<1> HIDE DEF l, f, n, U
<1>5. Ids(U) = Ids(P) \cup {n}
    BY <1>2, IdsGrow DEF U
<1>6. OrdersOf(U) = insertOrder(OrdersOf(P), l)
    <2> DEFINE s == [orders |-> OrdersOf(P)]
    <2>1. s.orders = OrdersOf(P)
        OBVIOUS
    <2>2. OrdersAfter(s, l) = insertOrder(s.orders, l)
        BY <1>2 DEF OrdersAfter
    <2> HIDE DEF s
    <2>3. OrdersOf(U) = OrdersAfter(s, l)
        BY <1>1, <2>1, OrdersGrow DEF U
    <2> QED BY <2>1, <2>2, <2>3
<1>7. OrdersOf(U)[n].status = "Open" /\ OrdersOf(U)[m].status = "Open"
    <2>1. n \notin DOMAIN OrdersOf(P) /\ m \in DOMAIN OrdersOf(P) /\ m # n
        BY <1>4, IdsAre
    <2>2. OrdersOf(U) = Put(OrdersOf(P), n, [size |-> 1, filled |-> 0, status |-> "Open"])
        BY <1>2, <1>6, <2>1 DEF insertOrder
    <2> QED BY <2>1, <2>2 DEF Put
<1>8. Fits(U, f)
    BY <1>3, <1>4, <1>5, <1>7, FillFits DEF Undone
<1> QED BY <1>8 DEF l, f, n, U

LEMMA FireTells ==
    ASSUME NEW P, Sane(P), NEW h \in Nat \ {0}, NEW k \in Nat, Later(P, h, k), NEW key, key[1] = h,
           NEW m \in Ids(P), OrdersOf(P)[m].status = "Pending"
    PROVE  LET l == Stamped([name |-> "OrderTriggered", market |-> 1, order |-> m], key, h, k + 1) IN
           Fits(P, l) /\ Fits(P \cup {l}, Stamped(Fill(m, 0), key, h, k + 2))
<1> DEFINE b == [name |-> "OrderTriggered", market |-> 1, order |-> m]
           l == Stamped(b, key, h, k + 1)
           f == Stamped(Fill(m, 0), key, h, k + 2)
           U == P \cup {l}
<1>1. l.name = "OrderTriggered" /\ l.order = m
    BY DEF Stamped
<1>2. f.name = "OrderFilled" /\ f.taker = m /\ f.maker = 0 /\ f.size = 1
    BY FillIs
<1>3. Fits(P, l)
    <2> HIDE DEF l
    <2> QED BY <1>1, TriggerFits
<1>4. Legal(P, l)
    <2> HIDE DEF b
    <2> QED BY <1>3, NextLegal
<1> HIDE DEF b, l, f, U
<1>5. Ids(U) = Ids(P) /\ 0 \notin Ids(P)
    <2>1. Ids(U) = Ids(P)
        BY <1>1, IdsGrow DEF U
    <2>2. PICK j \in Nat : Ids(P) = 1..j
        BY DEF Sane, SanePlaced
    <2> QED BY <2>1, <2>2
<1>6. OrdersOf(U) = orderStatus(OrdersOf(P), m, "Open")
    <2> DEFINE s == [orders |-> OrdersOf(P)]
    <2>1. s.orders = OrdersOf(P)
        OBVIOUS
    <2>2. OrdersAfter(s, l) = orderStatus(s.orders, m, "Open")
        BY <1>1 DEF OrdersAfter
    <2> HIDE DEF s
    <2>3. OrdersOf(U) = OrdersAfter(s, l)
        BY <1>4, <2>1, OrdersGrow DEF U
    <2> QED BY <2>1, <2>2, <2>3
<1>7. OrdersOf(U)[m].status = "Open"
    <2>1. m \in DOMAIN OrdersOf(P)
        BY IdsAre
    <2>2. "status" \in DOMAIN OrdersOf(P)[m]
        BY <2>1 DEF OrdersOf, OrderOf
    <2> QED BY <1>6, <2>1, <2>2 DEF orderStatus
<1>8. Fits(U, f)
    BY <1>2, <1>5, <1>7, FillFits DEF Undone
<1> QED BY <1>3, <1>8 DEF b, l, f, U

-----------------------------------------------------------------------------
LEMMA DepositTells ==
    ASSUME NEW P, NEW key, NEW h, NEW k \in Nat
    PROVE  LET first == [name |-> "AccountInitialized", account |-> "ann"]
               then == [name |-> "Deposited", account |-> "ann", amount |-> 2]
           IN  /\ Telling(P, <<first, then>>, key, h, k)
               /\ "ann" \in Inited(P) => Telling(P, <<then>>, key, h, k)
<1> DEFINE first == [name |-> "AccountInitialized", account |-> "ann"]
           then == [name |-> "Deposited", account |-> "ann", amount |-> 2]
           a == Stamped(first, key, h, k + 1)
           b == Stamped(then, key, h, k + 2)
           c == Stamped(then, key, h, k + 1)
           U == P \cup {a}
<1>1. a.name = "AccountInitialized" /\ a.account = "ann"
    BY DEF Stamped
<1>2. b.name = "Deposited" /\ b.account = "ann" /\ b.amount = 2
    BY DEF Stamped
<1>3. c.name = "Deposited" /\ c.account = "ann" /\ c.amount = 2
    BY DEF Stamped
<1> HIDE DEF a, b, c, first, then, U
<1>4. Fits(P, a)
    BY <1>1, PlainFits
<1>5. "ann" \in Inited(U)
    BY <1>1, InitedGrow DEF U
<1>6. Fits(U, b)
    BY <1>2, <1>5, FlowFits
<1>7. "ann" \in Inited(P) => Fits(P, c)
    BY <1>3, FlowFits
<1>8. Telling(P, <<first, then>>, key, h, k)
    BY <1>4, <1>6, TellTwo DEF a, b, U
<1>9. "ann" \in Inited(P) => Telling(P, <<then>>, key, h, k)
    BY <1>7, TellOne DEF c
<1> QED BY <1>8, <1>9 DEF first, then

LEMMA WithdrawTells ==
    ASSUME NEW P, NEW key, NEW h, NEW k \in Nat, "ann" \in Inited(P)
    PROVE  Telling(P, <<[name |-> "Withdrawn", account |-> "ann", amount |-> 1]>>, key, h, k)
<1> DEFINE b == [name |-> "Withdrawn", account |-> "ann", amount |-> 1]
           a == Stamped(b, key, h, k + 1)
<1>1. a.name = "Withdrawn" /\ a.account = "ann" /\ a.amount = 1
    BY DEF Stamped
<1> HIDE DEF a, b
<1>2. Fits(P, a)
    BY <1>1, FlowFits
<1>3. Telling(P, <<b>>, key, h, k)
    BY <1>2, TellOne DEF a
<1> QED BY <1>3 DEF b

LEMMA CancelTells ==
    ASSUME NEW P, NEW key, NEW h, NEW k \in Nat, NEW m \in Ids(P)
    PROVE  Telling(P, <<[name |-> "OrderCancelled", order |-> m]>>, key, h, k)
<1> DEFINE b == [name |-> "OrderCancelled", order |-> m]
           a == Stamped(b, key, h, k + 1)
<1>1. a.name = "OrderCancelled" /\ a.order = m
    BY DEF Stamped
<1> HIDE DEF a, b
<1>2. Fits(P, a)
    BY <1>1, CancelFits
<1>3. Telling(P, <<b>>, key, h, k)
    BY <1>2, TellOne DEF a
<1> QED BY <1>3 DEF b

LEMMA PlainBodyFits ==
    ASSUME NEW P, NEW key, NEW h, NEW i, NEW b, "name" \in DOMAIN b,
           b.name \in {"AccountInitialized", "MarketStatusChanged", "FundingUpdated", "Liquidated"}
    PROVE  Fits(P, Stamped(b, key, h, i))
<1> DEFINE a == Stamped(b, key, h, i)
<1>1. a.name = b.name
    BY DEF Stamped
<1> HIDE DEF a
<1>2. Fits(P, a)
    BY <1>1, PlainFits
<1> QED BY <1>2 DEF a

LEMMA PlainTells ==
    ASSUME NEW P, NEW key, NEW h, NEW k \in Nat, NEW b, "name" \in DOMAIN b,
           b.name \in {"AccountInitialized", "MarketStatusChanged", "FundingUpdated", "Liquidated"}
    PROVE  Telling(P, <<b>>, key, h, k)
    BY PlainBodyFits, TellOne

LEMMA PriceTells ==
    ASSUME NEW P, Sane(P), NEW key, NEW h, NEW k \in Nat, NEW m, NEW price,
           m = 1 \/ (m = 2 /\ MarketCount(P) = 1)
    PROVE  Telling(P, <<[name |-> "PriceSet", market |-> m, price |-> price]>>, key, h, k)
<1> DEFINE b == [name |-> "PriceSet", market |-> m, price |-> price]
           a == Stamped(b, key, h, k + 1)
<1>1. a.name = "PriceSet" /\ a.market = m
    BY DEF Stamped
<1>2. PICK n \in Nat : Markets(P) = 1 .. n /\ Cardinality(Markets(P)) = n
    BY NextMarket DEF Sane
<1>3. MarketCount(P) = n
    BY <1>2 DEF MarketCount, PricesOf, Markets
<1>4. m \in Markets(P) \cup {Cardinality(Markets(P)) + 1}
    BY <1>2, <1>3
<1> HIDE DEF a, b
<1>5. Fits(P, a)
    BY <1>1, <1>4, PriceFits
<1>6. Telling(P, <<b>>, key, h, k)
    BY <1>5, TellOne DEF a
<1> QED BY <1>6 DEF b

LEMMA PairUp ==
    ASSUME NEW a, NEW b
    PROVE  <<a>> \o <<b>> = <<a, b>> /\ <<>> \o <<b>> = <<b>>
<1> DEFINE S == {a, b}
           s == <<a>>
           t == <<b>>
           u == <<a, b>>
<1>1. s \in Seq(S) /\ t \in Seq(S) /\ u \in Seq(S)
    OBVIOUS
<1>2. Len(s) = 1 /\ Len(t) = 1 /\ Len(u) = 2 /\ s[1] = a /\ t[1] = b /\ u[1] = a /\ u[2] = b
    OBVIOUS
<1> HIDE DEF S, s, t, u
<1>3. /\ s \o t \in Seq(S) /\ Len(s \o t) = Len(s) + Len(t)
      /\ \A i \in 1..Len(s) + Len(t) : (s \o t)[i] = IF i <= Len(s) THEN s[i] ELSE t[i - Len(s)]
    BY <1>1, ConcatProperties
<1>4. Len(s \o t) = 2 /\ (s \o t)[1] = a /\ (s \o t)[2] = b
    BY <1>2, <1>3
<1>5. \A i \in 1..Len(u) : u[i] = (s \o t)[i]
    BY <1>2, <1>4
<1>6. s \o t = u
    BY <1>1, <1>2, <1>3, <1>4, <1>5, SeqEqual
<1>7. <<>> \o t = t
    BY <1>1, ConcatEmptySeq
<1> QED BY <1>6, <1>7 DEF s, t, u

\* Whatever the call, and whatever was logged before, what it logs is legal.
LEMMA EmittedTells ==
    ASSUME NEW P, Sane(P), NEW h \in Nat \ {0}, NEW k \in Nat, Later(P, h, k), NEW key, key[1] = h, NEW tx
    PROVE  Telling(P, Emitted(tx, P), key, h, k)
<1>1. CASE tx = "deposit"
    <2> DEFINE first == [name |-> "AccountInitialized", account |-> "ann"]
               then == [name |-> "Deposited", account |-> "ann", amount |-> 2]
    <2>1. Emitted(tx, P) = (IF "ann" \in DOMAIN AccountsOf(P) THEN <<>> ELSE <<first>>) \o <<then>>
        BY <1>1 DEF Emitted
    <2>2. <<first>> \o <<then>> = <<first, then>> /\ <<>> \o <<then>> = <<then>>
        <3> HIDE DEF first, then
        <3> QED BY PairUp
    <2>3. Telling(P, <<first, then>>, key, h, k)
        BY DepositTells
    <2>4. "ann" \in Inited(P) => Telling(P, <<then>>, key, h, k)
        BY DepositTells
    <2> HIDE DEF first, then
    <2> QED BY <2>1, <2>2, <2>3, <2>4, IdsAre
<1>2. CASE tx = "withdraw" /\ "ann" \in DOMAIN AccountsOf(P)
    <2>1. Emitted(tx, P) = <<[name |-> "Withdrawn", account |-> "ann", amount |-> 1]>>
        BY <1>2 DEF Emitted
    <2> QED BY <1>2, <2>1, WithdrawTells, IdsAre
<1>3. CASE tx = "rest"
    <2>1. Emitted(tx, P) = <<Placed(NextId(P), 2, FALSE)>>
        BY <1>3 DEF Emitted
    <2>2. 2 \in Nat \ {0} /\ FALSE \in BOOLEAN
        OBVIOUS
    <2>3. Fits(P, Stamped(Placed(NextId(P), 2, FALSE), key, h, k + 1))
        BY <2>2, RestTells
    <2> QED BY <2>1, <2>3, TellOne
<1>4. CASE tx = "cross" /\ WithStatus(P, "Open") # {}
    <2> DEFINE n == NextId(P)
               m == First(WithStatus(P, "Open"))
               a == Placed(n, 1, FALSE)
               b == Fill(n, m)
               c == Changed(P, "ann", -1, 1)
               d == Changed(P, "bob", 1, 0)
    <2>1. Emitted(tx, P) = <<a, b, c, d>>
        BY <1>4 DEF Emitted
    <2>2. 1 \in Nat \ {0} /\ FALSE \in BOOLEAN /\ ~FALSE /\ 1 \in Int /\ 0 \in Int
        OBVIOUS
    <2>3. Fits(P, Stamped(a, key, h, k + 1))
        BY <2>2, RestTells
    <2>4. m \in Ids(P) /\ OrdersOf(P)[m].status = "Open"
        BY <1>4, FirstIn
    <2> HIDE DEF m
    <2>5. Fits(P \cup {Stamped(a, key, h, k + 1)}, Stamped(b, key, h, k + 2))
        BY <2>2, <2>4, CrossTells
    <2>6. \A Q : Fits(Q, Stamped(c, key, h, k + 3))
        BY <2>2, ChangedAnyway
    <2>7. \A Q : Fits(Q, Stamped(d, key, h, k + 4))
        BY <2>2, ChangedAnyway
    <2> HIDE DEF a, b, c, d, n
    <2>8. Telling(P, <<a, b, c, d>>, key, h, k)
        BY <2>3, <2>5, <2>6, <2>7, TellFour
    <2> QED BY <2>1, <2>8
<1>5. CASE tx = "stop"
    <2>1. Emitted(tx, P) = <<Placed(NextId(P), 1, TRUE)>>
        BY <1>5 DEF Emitted
    <2>2. 1 \in Nat \ {0} /\ TRUE \in BOOLEAN
        OBVIOUS
    <2>3. Fits(P, Stamped(Placed(NextId(P), 1, TRUE), key, h, k + 1))
        BY <2>2, RestTells
    <2> QED BY <2>1, <2>3, TellOne
<1>6. CASE tx = "fire" /\ WithStatus(P, "Pending") # {}
    <2> DEFINE m == First(WithStatus(P, "Pending"))
               a == [name |-> "OrderTriggered", market |-> 1, order |-> m]
               b == Fill(m, 0)
               c == Changed(P, "bob", 1, 2)
    <2>1. Emitted(tx, P) = <<a, b, c>>
        BY <1>6 DEF Emitted
    <2>2. 2 \in Int
        OBVIOUS
    <2>4. m \in Ids(P) /\ OrdersOf(P)[m].status = "Pending"
        BY <1>6, FirstIn
    <2> HIDE DEF m
    <2>5. Fits(P, Stamped(a, key, h, k + 1)) /\ Fits(P \cup {Stamped(a, key, h, k + 1)}, Stamped(b, key, h, k + 2))
        BY <2>4, FireTells
    <2>6. \A Q : Fits(Q, Stamped(c, key, h, k + 3))
        BY <2>2, ChangedAnyway
    <2> HIDE DEF a, b, c
    <2>8. Telling(P, <<a, b, c>>, key, h, k)
        BY <2>5, <2>6, TellThree
    <2> QED BY <2>1, <2>8
<1>7. CASE tx = "cancel" /\ WithStatus(P, "Open") # {}
    <2>1. Emitted(tx, P) = <<[name |-> "OrderCancelled", order |-> First(WithStatus(P, "Open"))]>>
        BY <1>7 DEF Emitted
    <2> QED BY <1>7, <2>1, FirstIn, CancelTells
<1>8. CASE tx = "price"
    <2> DEFINE b == [name |-> "PriceSet", market |-> 1, price |-> Cardinality(Named(P, "PriceSet")) + 1]
    <2>1. Emitted(tx, P) = <<b>>
        BY <1>8 DEF Emitted
    <2>2. Telling(P, <<b>>, key, h, k)
        BY PriceTells
    <2> QED BY <2>1, <2>2
<1>9. CASE tx = "status"
    <2> DEFINE b == [name |-> "MarketStatusChanged", market |-> 1,
                     status |-> IF StatusOf(P, 1) = "Active" THEN "Paused" ELSE "Active"]
    <2>1. Emitted(tx, P) = <<b>>
        BY <1>9 DEF Emitted
    <2>2. "name" \in DOMAIN b /\ b.name = "MarketStatusChanged"
        OBVIOUS
    <2> HIDE DEF b
    <2> QED BY <2>1, <2>2, PlainTells
<1>10. CASE tx = "fund"
    <2> DEFINE b == [name |-> "FundingUpdated", market |-> 1]
    <2>1. Emitted(tx, P) = <<b>>
        BY <1>10 DEF Emitted
    <2>2. "name" \in DOMAIN b /\ b.name = "FundingUpdated"
        OBVIOUS
    <2> HIDE DEF b
    <2> QED BY <2>1, <2>2, PlainTells
<1>11. CASE tx = "liquidate" /\ Size(P, "bob") # 0
    <2> DEFINE a == [name |-> "Liquidated", market |-> 1, account |-> "bob"]
               b == Changed(P, "bob", - Size(P, "bob"), -1)
    <2>1. Emitted(tx, P) = <<a, b>>
        BY <1>11 DEF Emitted
    <2>2. "name" \in DOMAIN a /\ a.name = "Liquidated" /\ -1 \in Int
        OBVIOUS
    <2>3. \A Q : Fits(Q, Stamped(b, key, h, k + 2))
        BY <2>2, ChangedAnyway
    <2> HIDE DEF a, b
    <2>4. Fits(P, Stamped(a, key, h, k + 1))
        BY <2>2, PlainBodyFits
    <2>5. Telling(P, <<a, b>>, key, h, k)
        BY <2>3, <2>4, TellTwo
    <2> QED BY <2>1, <2>5
<1>12. CASE tx = "list" /\ MarketCount(P) = 1
    <2> DEFINE b == [name |-> "PriceSet", market |-> 2, price |-> 1]
    <2>1. Emitted(tx, P) = <<b>>
        BY <1>12 DEF Emitted
    <2>2. Telling(P, <<b>>, key, h, k)
        BY <1>12, PriceTells
    <2> QED BY <2>1, <2>2
<1>13. CASE ~ \/ tx = "deposit"
              \/ tx = "withdraw" /\ "ann" \in DOMAIN AccountsOf(P)
              \/ tx = "rest"
              \/ tx = "cross" /\ WithStatus(P, "Open") # {}
              \/ tx = "stop"
              \/ tx = "fire" /\ WithStatus(P, "Pending") # {}
              \/ tx = "cancel" /\ WithStatus(P, "Open") # {}
              \/ tx = "price"
              \/ tx = "status"
              \/ tx = "fund"
              \/ tx = "liquidate" /\ Size(P, "bob") # 0
              \/ tx = "list" /\ MarketCount(P) = 1
    <2>1. Emitted(tx, P) = <<>>
        BY <1>13 DEF Emitted
    <2> QED BY <2>1, TellNone
<1> QED BY <1>1, <1>2, <1>3, <1>4, <1>5, <1>6, <1>7, <1>8, <1>9, <1>10, <1>11, <1>12, <1>13

-----------------------------------------------------------------------------
(***************************************************************************)
(* A block's logs: those of its transactions, each on the ones before.     *)
(***************************************************************************)
Pre(s, n) == {s[j] : j \in 1..n}

\* Logs s of the block at height h, on a chain that logged P before.
Built(P, s, h) ==
    /\ \E S : s \in Seq(S)
    /\ \A i \in 1..Len(s) : s[i].block = h /\ s[i].index = i /\ Legal(P \cup Pre(s, i - 1), s[i])
    /\ \A i \in 0..Len(s) : Sane(P \cup Pre(s, i))

LEMMA BuiltAt ==
    ASSUME NEW P, NEW s, NEW h, Built(P, s, h)
    PROVE  /\ \A i \in 1..Len(s) : s[i].block = h /\ s[i].index = i
           /\ \A i \in 1..Len(s) : Legal(P \cup Pre(s, i - 1), s[i])
           /\ \A i \in 0..Len(s) : Sane(P \cup Pre(s, i))
    BY DEF Built

LEMMA PreIsAll ==
    ASSUME NEW S, NEW s \in Seq(S)
    PROVE  ToSet(s) = Pre(s, Len(s))
    BY LenProperties DEF ToSet, Pre

LEMMA PreGrows ==
    ASSUME NEW s, NEW n \in Nat
    PROVE  Pre(s, n + 1) = Pre(s, n) \cup {s[n + 1]}
<1>1. 1..(n + 1) = (1..n) \cup {n + 1}
    OBVIOUS
<1> QED BY <1>1 DEF Pre

LEMMA StampIs ==
    ASSUME NEW S, NEW B \in Seq(S), NEW key, NEW h, NEW k
    PROVE  LET t == Stamp(B, key, h, k) IN
           /\ \E T : t \in Seq(T)
           /\ Len(t) = Len(B) /\ Len(B) \in Nat
           /\ \A i \in 1..Len(B) : t[i] = Stamped(B[i], key, h, k + i)
<1> DEFINE n == Len(B)
           t == Stamp(B, key, h, k)
           T == {Stamped(B[i], key, h, k + i) : i \in 1..n}
<1>1. n \in Nat
    BY LenProperties
<1>2. t = [i \in 1..n |-> Stamped(B[i], key, h, k + i)]
    BY DEF Stamp
<1>3. \A i \in 1..n : Stamped(B[i], key, h, k + i) \in T
    OBVIOUS
<1> HIDE DEF n, t, T
<1>4. t \in [1..n -> T]
    BY <1>2, <1>3
<1>5. t \in Seq(T) /\ Len(t) = n
    BY <1>1, <1>4, SeqDef
<1> QED BY <1>1, <1>2, <1>5 DEF n, t

\* Legal one after the other, they keep what was logged sane.
LEMMA ToldStaysSane ==
    ASSUME NEW P, Sane(P), NEW h \in Nat \ {0}, NEW k \in Nat, Later(P, h, k),
           NEW key, key[1] = h, NEW B, Telling(P, B, key, h, k), Len(B) \in Nat
    PROVE  /\ \A i \in 0..Len(B) : Sane(Told(P, B, key, h, k, i))
           /\ \A i \in 1..Len(B) : Legal(Told(P, B, key, h, k, i - 1), Stamped(B[i], key, h, k + i))
<1> DEFINE n == Len(B)
           Q(i) == Told(P, B, key, h, k, i)
           Good(i) == /\ Sane(Q(i)) /\ Later(Q(i), h, k + i)
                      /\ i # 0 => Legal(Q(i - 1), Stamped(B[i], key, h, k + i))
           G == {i \in Nat : i \in 0..n => Good(i)}
<1>1. 0 \in G
    <2>1. Q(0) = P /\ k + 0 = k
        BY DEF Told
    <2> QED BY <2>1
<1>2. ASSUME NEW i \in G PROVE i + 1 \in G
    <2>1. SUFFICES ASSUME i + 1 \in 0..n PROVE Good(i + 1)
        OBVIOUS
    <2>2. i \in 0..n /\ i \in Nat /\ i + 1 \in 1..n /\ i + 1 - 1 = i
        BY <2>1
    <2>3. Sane(Q(i)) /\ Later(Q(i), h, k + i)
        BY <2>2
    <2> DEFINE l == Stamped(B[i + 1], key, h, k + (i + 1))
    <2>4. Fits(Q(i), l)
        BY <2>2 DEF Telling
    <2>5. k + (i + 1) = (k + i) + 1 /\ k + i \in Nat
        BY <2>2
    <2>6. Legal(Q(i), l)
        <3>1. PICK X : X = Q(i)
            OBVIOUS
        <3>2. PICK b : b = B[i + 1]
            OBVIOUS
        <3>3. PICK j \in Nat : j = k + i
            BY <2>5
        <3>4. l = Stamped(b, key, h, j + 1)
            BY <3>2, <3>3, <2>5
        <3> HIDE DEF l, Q
        <3>5. Sane(X) /\ Later(X, h, j) /\ Fits(X, Stamped(b, key, h, j + 1))
            BY <3>1, <3>3, <3>4, <2>3, <2>4
        <3>6. Legal(X, Stamped(b, key, h, j + 1))
            BY <3>5, NextLegal
        <3> QED BY <3>1, <3>4, <3>6
    <2>7. Q(i + 1) = Q(i) \cup {l}
        <3>1. PICK m : m = i + 1
            OBVIOUS
        <3>2. Told(P, B, key, h, k, m) = Told(P, B, key, h, k, i) \cup {Stamped(B[m], key, h, k + m)}
            <4>1. 1..m = (1..i) \cup {m}
                BY <2>2, <3>1
            <4> HIDE DEF G, l
            <4> QED BY <4>1 DEF Told
        <3> QED BY <3>1, <3>2
    <2>8. Sane(Q(i + 1))
        <3> HIDE DEF Q, l
        <3> QED BY <2>3, <2>6, <2>7, SaneGrows
    <2>9. Later(Q(i + 1), h, k + (i + 1))
        <3>1. l.block = h /\ l.index = k + (i + 1)
            BY StampedFields
        <3>2. \A x \in Q(i) : x.index \in Nat
            BY <2>3 DEF Sane, Placed_
        <3> HIDE DEF Q, l
        <3> QED BY <2>2, <2>3, <2>7, <3>1, <3>2 DEF Later
    <2> HIDE DEF Q
    <2> QED BY <2>2, <2>6, <2>8, <2>9
<1>3. G = Nat
    <2>1. G \in SUBSET Nat
        OBVIOUS
    <2> HIDE DEF G
    <2> QED BY <2>1, <1>1, <1>2, AllNaturals
<1>4. \A i \in 0..n : Good(i)
    <2>1. \A i \in 0..n : i \in G
        BY <1>3
    <2> HIDE DEF Good
    <2> QED BY <2>1
<1>5. \A i \in 1..n : i \in 0..n /\ i # 0
    OBVIOUS
<1> HIDE DEF Q
<1>6. \A i \in 0..n : Sane(Q(i))
    BY <1>4
<1>7. \A i \in 1..n : Legal(Q(i - 1), Stamped(B[i], key, h, k + i))
    BY <1>4, <1>5
<1>8. \A i \in 0..Len(B) : Sane(Told(P, B, key, h, k, i))
    BY <1>6 DEF Q
<1>9. \A i \in 1..Len(B) : Legal(Told(P, B, key, h, k, i - 1), Stamped(B[i], key, h, k + i))
    BY <1>7, Zenon DEF Q
<1> HIDE DEF n
<1> QED BY <1>8, <1>9, Zenon

LEMMA BuiltGrows ==
    ASSUME NEW P, NEW s, NEW h \in Nat \ {0}, Built(P, s, h), \A x \in P : x.block < h,
           NEW key, key[1] = h, NEW B, Telling(P \cup ToSet(s), B, key, h, Len(s))
    PROVE  Built(P, s \o Stamp(B, key, h, Len(s)), h)
<1> DEFINE m == Len(s)
           t == Stamp(B, key, h, m)
           n == Len(B)
           u == s \o t
           P1 == P \cup ToSet(s)
<1>1. PICK S : s \in Seq(S)
    BY DEF Built
<1>2. m \in Nat /\ ToSet(s) = Pre(s, m)
    BY <1>1, LenProperties, PreIsAll
<1>3. PICK R : B \in Seq(R)
    BY DEF Telling
<1>4. /\ \E T : t \in Seq(T)
      /\ Len(t) = n /\ n \in Nat
      /\ \A i \in 1..n : t[i] = Stamped(B[i], key, h, m + i)
    BY <1>3, StampIs
<1>5. PICK T : t \in Seq(T)
    BY <1>4
<1>6. s \in Seq(S \cup T) /\ t \in Seq(S \cup T)
    BY <1>1, <1>5, SeqMonotonic
<1>7. /\ u \in Seq(S \cup T) /\ Len(u) = m + n
      /\ \A i \in 1..(m + n) : u[i] = IF i <= m THEN s[i] ELSE t[i - m]
    <2> PICK V : V = S \cup T
        OBVIOUS
    <2> HIDE DEF t
    <2>1. s \in Seq(V) /\ t \in Seq(V) /\ Len(t) = n
        BY <1>4, <1>6 DEF t
    <2>2. s \o t \in Seq(V) /\ Len(s \o t) = Len(s) + Len(t)
        BY <2>1, ConcatProperties
    <2>3. \A i \in 1..(Len(s) + Len(t)) : (s \o t)[i] = IF i <= Len(s) THEN s[i] ELSE t[i - Len(s)]
        BY <2>1, ConcatProperties
    <2> QED BY <2>1, <2>2, <2>3
<1>8. Sane(P1)
    BY <1>2 DEF Built
<1>9. Later(P1, h, m)
    <2>0. \A i \in 1..m : s[i].block = h /\ s[i].index = i
        BY BuiltAt
    <2>1. \A i \in 1..m : s[i].block = h /\ s[i].index = i /\ i <= m
        BY <1>2, <2>0
    <2>2. \A x \in Pre(s, m) : x.block = h /\ x.index <= m
        BY <2>1 DEF Pre
    <2> QED BY <2>2, <1>2 DEF Later
<1>10. Telling(P1, B, key, h, m)
    OBVIOUS
<1> HIDE DEF m, t, u, n, P1
<1>11. /\ \A i \in 0..n : Sane(Told(P1, B, key, h, m, i))
       /\ \A i \in 1..n : Legal(Told(P1, B, key, h, m, i - 1), Stamped(B[i], key, h, m + i))
    BY <1>2, <1>4, <1>8, <1>9, <1>10, ToldStaysSane DEF n
<1>12. ASSUME NEW i \in 0..m PROVE Pre(u, i) = Pre(s, i)
    <2>1. \A j \in 1..i : j \in 1..(m + n) /\ j <= m
        BY <1>2, <1>4
    <2> QED BY <2>1, <1>7 DEF Pre
<1>13. ASSUME NEW i \in 0..n PROVE P \cup Pre(u, m + i) = Told(P1, B, key, h, m, i)
    <2>1. \A j \in 1..m : j \in 1..(m + i) /\ u[j] = s[j]
        BY <1>2, <1>4, <1>7
    <2>2. ASSUME NEW j \in 1..i PROVE m + j \in 1..(m + i) /\ u[m + j] = Stamped(B[j], key, h, m + j)
        <3>1. PICK a : a = m + j
            OBVIOUS
        <3>2. a \in 1..(m + n) /\ ~(a <= m) /\ a - m = j /\ j \in 1..n /\ a \in 1..(m + i)
            BY <1>2, <1>4, <3>1
        <3>3. u[a] = t[j]
            BY <1>7, <3>2
        <3> QED BY <1>4, <3>1, <3>2, <3>3
    <2>3. ASSUME NEW a \in 1..(m + i) PROVE a \in 1..m \/ \E j \in 1..i : a = m + j
        <3>1. CASE a <= m
            BY <3>1, <1>2
        <3>2. CASE ~(a <= m)
            <4>1. a - m \in 1..i /\ a = m + (a - m)
                BY <3>2, <1>2
            <4> QED BY <4>1
        <3> QED BY <3>1, <3>2
    <2>4. Pre(u, m + i) = Pre(s, m) \cup {Stamped(B[j], key, h, m + j) : j \in 1..i}
        <3>1. ASSUME NEW x \in Pre(u, m + i)
              PROVE  x \in Pre(s, m) \cup {Stamped(B[j], key, h, m + j) : j \in 1..i}
            <4>1. PICK a \in 1..(m + i) : x = u[a]
                BY DEF Pre
            <4>2. CASE a \in 1..m
                BY <4>1, <4>2, <2>1 DEF Pre
            <4>3. CASE \E j \in 1..i : a = m + j
                BY <4>1, <4>3, <2>2
            <4> QED BY <4>2, <4>3, <2>3
        <3>2. ASSUME NEW x \in Pre(s, m) PROVE x \in Pre(u, m + i)
            BY <2>1 DEF Pre
        <3>3. ASSUME NEW j \in 1..i PROVE Stamped(B[j], key, h, m + j) \in Pre(u, m + i)
            BY <2>2 DEF Pre
        <3> QED BY <3>1, <3>2, <3>3
    <2> QED BY <2>4, <1>2 DEF Told, P1
<1>14. ASSUME NEW i \in 0..(m + n) PROVE Sane(P \cup Pre(u, i))
    <2>1. CASE i <= m
        <3>1. i \in 0..m
            BY <2>1, <1>2
        <3>2. Sane(P \cup Pre(s, i))
            BY <3>1 DEF Built, m
        <3> QED BY <3>1, <3>2, <1>12
    <2>2. CASE ~(i <= m)
        <3>1. PICK j : j = i - m
            OBVIOUS
        <3>2. j \in 0..n /\ m + j = i
            BY <2>2, <3>1, <1>2, <1>4
        <3>3. P \cup Pre(u, i) = Told(P1, B, key, h, m, j)
            BY <3>2, <1>13
        <3> QED BY <3>2, <3>3, <1>11
    <2> QED BY <2>1, <2>2
<1>15. ASSUME NEW i \in 1..(m + n)
       PROVE  u[i].block = h /\ u[i].index = i /\ Legal(P \cup Pre(u, i - 1), u[i])
    <2>1. CASE i <= m
        <3>1. i \in 1..m /\ i - 1 \in 0..m /\ u[i] = s[i]
            BY <2>1, <1>2, <1>7
        <3>2. s[i].block = h /\ s[i].index = i /\ Legal(P \cup Pre(s, i - 1), s[i])
            BY <3>1 DEF Built, m
        <3> QED BY <3>1, <3>2, <1>12
    <2>2. CASE ~(i <= m)
        <3>1. PICK j : j = i - m
            OBVIOUS
        <3>2. j \in 1..n /\ m + j = i /\ j - 1 \in 0..n /\ m + (j - 1) = i - 1
            BY <2>2, <3>1, <1>2, <1>4
        <3>3. P \cup Pre(u, i - 1) = Told(P1, B, key, h, m, j - 1)
            BY <3>2, <1>13
        <3>4. u[i] = Stamped(B[j], key, h, m + j)
            BY <3>1, <3>2, <2>2, <1>4, <1>7
        <3>5. u[i].block = h /\ u[i].index = i
            BY <3>2, <3>4, StampedFields
        <3> QED BY <3>2, <3>3, <3>4, <3>5, <1>11
    <2> QED BY <2>1, <2>2
<1>16. Built(P, u, h)
    BY <1>7, <1>14, <1>15 DEF Built
<1> QED BY <1>16 DEF u, t, m

(* Execute, one transaction at a time *)
Ran(s, txs, logs, height, n) ==
    s \o Stamp(Emitted(txs[n], logs \cup ToSet(s)), <<height, n, txs[n]>>, height, Len(s))
Run(s, txs, logs, height, n) == IF n = 0 THEN <<>> ELSE Ran(s, txs, logs, height, n)
Runs(f, txs, logs, height, n) == f = [i \in 0..n |-> Run(f[i - 1], txs, logs, height, i)]

LEMMA RunsAt ==
    ASSUME NEW f, NEW txs, NEW logs, NEW h, NEW n, Runs(f, txs, logs, h, n)
    PROVE  \A i \in 0..n : f[i] = Run(f[i - 1], txs, logs, h, i)
    BY DEF Runs

LEMMA RunnerExists ==
    ASSUME NEW txs, NEW logs, NEW h, NEW n \in Nat
    PROVE  \E f : Runs(f, txs, logs, h, n)
<1> DEFINE good == {m \in Nat : \E f : Runs(f, txs, logs, h, m)}
<1>1. 0 \in good
    <2> DEFINE f == [i \in 0..0 |-> <<>>]
    <2>1. \A i \in 0..0 : Run(f[i - 1], txs, logs, h, i) = <<>>
        BY DEF Run
    <2>2. f = [i \in 0..0 |-> Run(f[i - 1], txs, logs, h, i)]
        BY <2>1
    <2> QED BY <2>2 DEF Runs
<1>2. ASSUME NEW m \in good PROVE m + 1 \in good
    <2>1. PICK f : Runs(f, txs, logs, h, m)
        OBVIOUS
    <2> DEFINE g == [i \in 0..(m + 1) |-> Run(f[i - 1], txs, logs, h, i)]
    <2>2. \A i \in 0..m : f[i] = Run(f[i - 1], txs, logs, h, i)
        BY <2>1, RunsAt
    <2>3. \A i \in 0..m : i \in 0..(m + 1) /\ g[i] = f[i]
        BY <2>2
    <2>4. ASSUME NEW i \in 0..(m + 1)
          PROVE  Run(f[i - 1], txs, logs, h, i) = Run(g[i - 1], txs, logs, h, i)
        <3>1. CASE i = 0
            BY <3>1 DEF Run
        <3>2. CASE i # 0
            <4>1. i - 1 \in 0..m
                BY <3>2
            <4> HIDE DEF g
            <4> QED BY <4>1, <2>3
        <3> QED BY <3>1, <3>2
    <2>5. g = [i \in 0..(m + 1) |-> Run(g[i - 1], txs, logs, h, i)]
        BY <2>4
    <2>6. Runs(g, txs, logs, h, m + 1)
        BY <2>5 DEF Runs
    <2> QED BY <2>6
<1>3. good = Nat
    <2>1. good \in SUBSET Nat
        OBVIOUS
    <2> HIDE DEF good
    <2> QED BY <2>1, <1>1, <1>2, AllNaturals
<1> QED BY <1>3

LEMMA ExecuteIs ==
    ASSUME NEW txs, Len(txs) \in Nat, NEW logs, NEW h
    PROVE  \E f : Runs(f, txs, logs, h, Len(txs)) /\ Execute(txs, logs, h) = f[Len(txs)]
<1> DEFINE f == CHOOSE f : Runs(f, txs, logs, h, Len(txs))
<1>1. Runs(f, txs, logs, h, Len(txs))
    BY RunnerExists
<1>2. Execute(txs, logs, h) = f[Len(txs)]
    BY DEF Execute, Runs, Run, Ran
<1> QED BY <1>1, <1>2

LEMMA ExecuteBuilds ==
    ASSUME NEW txs, Len(txs) \in Nat, NEW P, Sane(P), NEW h \in Nat \ {0}, \A x \in P : x.block < h
    PROVE  Built(P, Execute(txs, P, h), h)
<1> DEFINE n == Len(txs)
<1>1. PICK f : Runs(f, txs, P, h, n) /\ Execute(txs, P, h) = f[n]
    BY ExecuteIs
<1>2. \A i \in 0..n : f[i] = Run(f[i - 1], txs, P, h, i)
    BY <1>1, RunsAt
<1> DEFINE G == {i \in Nat : i \in 0..n => Built(P, f[i], h)}
<1>3. 0 \in G
    <2>1. f[0] = <<>>
        BY <1>2 DEF Run
    <2>2. <<>> \in Seq({}) /\ Len(<<>>) = 0 /\ P \cup Pre(<<>>, 0) = P
        BY EmptySeq DEF Pre
    <2>3. Built(P, <<>>, h)
        BY <2>2 DEF Built
    <2> QED BY <2>1, <2>3
<1>4. ASSUME NEW i \in G PROVE i + 1 \in G
    <2>1. SUFFICES ASSUME i + 1 \in 0..n PROVE Built(P, f[i + 1], h)
        OBVIOUS
    <2>2. PICK j : j = i + 1
        OBVIOUS
    <2>3. j \in 0..n /\ j # 0 /\ j - 1 = i /\ i \in 0..n
        BY <2>1, <2>2
    <2> DEFINE s == f[i]
               P1 == P \cup ToSet(s)
               key == <<h, j, txs[j]>>
               B == Emitted(txs[j], P1)
    <2>4. Built(P, s, h)
        BY <2>3
    <2>5. f[j] = s \o Stamp(B, key, h, Len(s))
        <3>1. f[j] = Run(f[i], txs, P, h, j)
            BY <1>2, <2>3
        <3> QED BY <3>1, <2>3 DEF Run, Ran
    <2>6. PICK S : s \in Seq(S)
        BY <2>4 DEF Built
    <2>7. Len(s) \in Nat /\ ToSet(s) = Pre(s, Len(s))
        BY <2>6, LenProperties, PreIsAll
    <2>8. Sane(P1) /\ Later(P1, h, Len(s))
        <3> HIDE DEF s
        <3>0. \A a \in 1..Len(s) : s[a].block = h /\ s[a].index = a
            BY <2>4, BuiltAt
        <3>1. \A a \in 1..Len(s) : s[a].block = h /\ s[a].index = a /\ a <= Len(s)
            BY <2>7, <3>0
        <3>2. \A x \in Pre(s, Len(s)) : x.block = h /\ x.index <= Len(s)
            BY <3>1 DEF Pre
        <3> QED BY <3>2, <2>4, <2>7 DEF Later, Built
    <2>9. key[1] = h
        OBVIOUS
    <2> HIDE DEF s, P1, key
    <2>10. Telling(P1, B, key, h, Len(s))
        BY <2>7, <2>8, <2>9, EmittedTells
    <2> HIDE DEF B
    <2>11. Built(P, s \o Stamp(B, key, h, Len(s)), h)
        BY <2>4, <2>9, <2>10, BuiltGrows DEF P1
    <2> QED BY <2>2, <2>5, <2>11
<1>5. G = Nat
    <2>1. G \in SUBSET Nat
        OBVIOUS
    <2> HIDE DEF G
    <2> QED BY <2>1, <1>3, <1>4, AllNaturals
<1>6. n \in G /\ n \in 0..n
    BY <1>5
<1> QED BY <1>1, <1>6

-----------------------------------------------------------------------------
(***************************************************************************)
(* The chain stays lawful as it is mined and reverted.                     *)
(***************************************************************************)
LEMMA LogsSame ==
    ASSUME NEW c, NEW d, NEW h, \A b \in 1..h : d[b].logs = c[b].logs
    PROVE  LogsUpTo(d, h) = LogsUpTo(c, h)
<1>1. ASSUME NEW l PROVE l \in LogsUpTo(d, h) <=> l \in LogsUpTo(c, h)
    <2>1. l \in LogsUpTo(c, h) <=> \E b \in 1..h : \E i \in 1..Len(c[b].logs) : l = c[b].logs[i]
        BY InLogs
    <2>2. l \in LogsUpTo(d, h) <=> \E b \in 1..h : \E i \in 1..Len(d[b].logs) : l = d[b].logs[i]
        BY InLogs
    <2> QED BY <2>1, <2>2
<1> QED BY <1>1

LEMMA LogsNext ==
    ASSUME NEW c, NEW n \in Nat, NEW m, m = n + 1
    PROVE  LogsUpTo(c, m) = LogsUpTo(c, n) \cup Pre(c[m].logs, Len(c[m].logs))
<1>1. 1..m = (1..n) \cup {m}
    OBVIOUS
<1>2. ASSUME NEW l PROVE l \in LogsUpTo(c, m) <=> l \in LogsUpTo(c, n) \/ l \in Pre(c[m].logs, Len(c[m].logs))
    <2>1. l \in LogsUpTo(c, n) <=> \E b \in 1..n : \E i \in 1..Len(c[b].logs) : l = c[b].logs[i]
        BY InLogs
    <2>2. l \in LogsUpTo(c, m) <=> \E b \in 1..m : \E i \in 1..Len(c[b].logs) : l = c[b].logs[i]
        BY InLogs
    <2>3. l \in Pre(c[m].logs, Len(c[m].logs)) <=> \E i \in 1..Len(c[m].logs) : l = c[m].logs[i]
        BY DEF Pre
    <2> QED BY <1>1, <2>1, <2>2, <2>3
<1> QED BY <1>2

LEMMA NothingYet == \A c : LogsUpTo(c, 0) = {}
<1> TAKE c
<1>1. \A l : l \in LogsUpTo(c, 0) <=> \E b \in 1..0 : \E i \in 1..Len(c[b].logs) : l = c[b].logs[i]
    BY InLogs
<1> QED BY <1>1

LEMMA PriorSame ==
    ASSUME NEW c, NEW d, NEW l, \A b \in 1..l.block : d[b].logs = c[b].logs
    PROVE  Prior(d, l) = Prior(c, l)
    BY LogsSame DEF Prior

LEMMA LawfulPrefix ==
    ASSUME NEW S, NEW c \in Seq(S), Lawful(c), NEW h \in 0..Len(c)
    PROVE  LET d == SubSeq(c, 1, h) IN
           /\ Lawful(d) /\ d \in Seq(S) /\ Len(d) = h
           /\ \A b \in 1..h : d[b] = c[b]
           /\ \A g \in 0..h : LogsUpTo(d, g) = LogsUpTo(c, g)
<1> DEFINE d == SubSeq(c, 1, h)
<1>1. Len(c) \in Nat
    BY LenProperties
<1>2. d \in Seq(S) /\ Len(d) = h /\ \A b \in 1..h : d[b] = c[b]
    BY <1>1
<1> HIDE DEF d
<1>3. \A g \in 0..h : LogsUpTo(d, g) = LogsUpTo(c, g)
    <2> TAKE g \in 0..h
    <2>1. \A b \in 1..g : d[b].logs = c[b].logs
        BY <1>2
    <2> QED BY <2>1, LogsSame
<1>4. Numbered(d)
    <2>0. Numbered(c)
        BY DEF Lawful
    <2>1. ASSUME NEW b \in 1..h
          PROVE  /\ \E R : d[b].logs \in Seq(R)
                 /\ \A i \in 1..Len(d[b].logs) : d[b].logs[i].block = b /\ d[b].logs[i].index = i
        <3>1. b \in 1..Len(c) /\ d[b] = c[b]
            BY <1>1, <1>2
        <3>2. /\ \E R : c[b].logs \in Seq(R)
              /\ \A i \in 1..Len(c[b].logs) : c[b].logs[i].block = b /\ c[b].logs[i].index = i
            BY <2>0, <3>1 DEF Numbered
        <3> QED BY <3>1, <3>2
    <2> QED BY <2>1, <1>1, <1>2 DEF Numbered
<1>5. \A g \in 0..h : g \in 0..Len(c)
    BY <1>1
<1>6. \A g \in 0..Len(d) : Sane(LogsUpTo(d, g))
    BY <1>2, <1>3, <1>5 DEF Lawful
<1>7. ASSUME NEW l \in LogsUpTo(d, Len(d)) PROVE Sane(Prior(d, l)) /\ Legal(Prior(d, l), l)
    <2>1. l \in LogsUpTo(c, h) /\ Numbered(c)
        BY <1>1, <1>2, <1>3 DEF Lawful
    <2>2. l.block \in 1..h
        BY <2>1, BlockOf
    <2>3. \A b \in 1..l.block : d[b].logs = c[b].logs
        BY <1>2, <2>2
    <2>4. Prior(d, l) = Prior(c, l)
        BY <2>3, PriorSame
    <2>5. l \in LogsUpTo(c, Len(c))
        <3>1. Len(c) \in 0..Len(c) /\ h \in 0..Len(c)
            BY <1>1
        <3> QED BY <2>1, <3>1, LogsAreByBlock
    <2> QED BY <2>4, <2>5 DEF Lawful
<1>8. Lawful(d)
    BY <1>4, <1>6, <1>7 DEF Lawful
<1> QED BY <1>2, <1>3, <1>8 DEF d

LEMMA LawfulAppend ==
    ASSUME NEW S, NEW c \in Seq(S), Lawful(c), NEW B, NEW n, n = Len(c),
           Built(LogsUpTo(c, n), B.logs, n + 1)
    PROVE  LET d == Append(c, B) IN
           /\ Lawful(d) /\ (\E T : d \in Seq(T)) /\ Len(d) = n + 1 /\ d[n + 1] = B
           /\ \A b \in 1..n : d[b] = c[b]
           /\ \A g \in 0..n : LogsUpTo(d, g) = LogsUpTo(c, g)
<1> DEFINE d == Append(c, B)
           T == S \cup {B}
           D == LogsUpTo(c, n)
           E == B.logs
<1>1. n \in Nat /\ Numbered(c)
    BY LenProperties DEF Lawful
<1> PICK m : m = n + 1
    OBVIOUS
<1>2. d \in Seq(T) /\ Len(d) = m /\ d[m] = B /\ \A b \in 1..n : d[b] = c[b]
    <2>1. c \in Seq(T) /\ B \in T
        BY SeqMonotonic
    <2> HIDE DEF T
    <2> QED BY <2>1, AppendProperties
<1>b. Built(D, E, m)
    OBVIOUS
<1>a. m \in Nat \ {0} /\ \A g \in 0..m : g = m \/ g \in 0..n
    BY <1>1
<1> HIDE DEF d, T
<1>3. \A g \in 0..n : LogsUpTo(d, g) = LogsUpTo(c, g)
    <2> TAKE g \in 0..n
    <2>1. \A b \in 1..g : d[b].logs = c[b].logs
        BY <1>1, <1>2
    <2> QED BY <2>1, LogsSame
<1>4. LogsUpTo(d, m) = D \cup Pre(E, Len(E))
    <2>1. LogsUpTo(d, m) = LogsUpTo(d, n) \cup Pre(d[m].logs, Len(d[m].logs))
        BY <1>1, LogsNext
    <2>2. LogsUpTo(d, n) = D
        BY <1>1, <1>3
    <2> QED BY <1>2, <2>1, <2>2
<1> HIDE DEF E
<1>5. /\ (\E R : E \in Seq(R)) /\ Len(E) \in Nat
      /\ \A i \in 1..Len(E) : E[i].block = m /\ E[i].index = i /\ Legal(D \cup Pre(E, i - 1), E[i])
      /\ \A i \in 0..Len(E) : Sane(D \cup Pre(E, i))
    <2>1. PICK R : E \in Seq(R)
        BY <1>b DEF Built
    <2>2. Len(E) \in Nat
        BY <2>1, LenProperties
    <2> HIDE DEF D
    <2> QED BY <2>1, <2>2, <1>b, BuiltAt
<1>6. Numbered(d)
    <2>1. ASSUME NEW b \in 1..m
          PROVE  /\ \E R : d[b].logs \in Seq(R)
                 /\ \A i \in 1..Len(d[b].logs) : d[b].logs[i].block = b /\ d[b].logs[i].index = i
        <3>1. CASE b \in 1..n
            BY <3>1, <1>1, <1>2 DEF Numbered
        <3>2. CASE b = m
            BY <3>2, <1>2, <1>5 DEF E
        <3> QED BY <3>1, <3>2, <1>1
    <2> QED BY <2>1, <1>1, <1>2 DEF Numbered
<1>7. \A g \in 0..Len(d) : Sane(LogsUpTo(d, g))
    <2> TAKE g \in 0..Len(d)
    <2>1. CASE g = m
        <3>1. Len(E) \in 0..Len(E)
            BY <1>5
        <3> QED BY <2>1, <3>1, <1>4, <1>5
    <2>2. CASE g \in 0..n
        BY <2>2, <1>3 DEF Lawful
    <2> QED BY <2>1, <2>2, <1>2, <1>a
<1>8. ASSUME NEW l \in LogsUpTo(d, Len(d)) PROVE Sane(Prior(d, l)) /\ Legal(Prior(d, l), l)
    <2>1. CASE l \in D
        <3>1. l.block \in 1..n
            <4>1. n \in 0..Len(c)
                BY <1>1
            <4> QED BY <4>1, <2>1, <1>1, BlockOf
        <3>2. \A b \in 1..l.block : d[b].logs = c[b].logs
            BY <1>2, <3>1
        <3>3. Prior(d, l) = Prior(c, l)
            BY <3>2, PriorSame
        <3> QED BY <2>1, <3>3 DEF Lawful
    <2>2. CASE l \in Pre(E, Len(E))
        <3>1. PICK i \in 1..Len(E) : l = E[i]
            BY <2>2 DEF Pre
        <3>2. l.block = m /\ l.index = i /\ Legal(D \cup Pre(E, i - 1), l) /\ i \in Nat
            <4> HIDE DEF D
            <4>1. E[i].block = m /\ E[i].index = i /\ Legal(D \cup Pre(E, i - 1), E[i])
                BY <1>5
            <4> QED BY <3>1, <4>1, <1>5
        <3>3. Sane(D \cup Pre(E, i - 1))
            <4>1. i - 1 \in 0..Len(E)
                BY <1>5
            <4> QED BY <4>1, <1>5
        <3>4. Prior(d, l) = {k \in D \cup Pre(E, Len(E)) : Before(k, l)}
            BY <1>4, <3>2 DEF Prior
        <3>5. \A k \in D : Before(k, l)
            BY <3>2 DEF Legal
        <3>6. ASSUME NEW j \in 1..Len(E) PROVE Before(E[j], l) <=> j \in 1..(i - 1)
            <4>1. E[j].block = m /\ E[j].index = j
                BY <1>5
            <4>2. Before(E[j], l) <=> j < i
                BY <4>1, <3>2, <1>a DEF Before
            <4>3. j < i <=> j \in 1..(i - 1)
                BY <1>5, <3>2
            <4> QED BY <4>2, <4>3
        <3>7. \A j \in 1..(i - 1) : j \in 1..Len(E)
            BY <1>5
        <3>8. {k \in Pre(E, Len(E)) : Before(k, l)} = Pre(E, i - 1)
            BY <3>6, <3>7 DEF Pre
        <3> HIDE DEF D
        <3>9. Prior(d, l) = D \cup Pre(E, i - 1)
            BY <3>4, <3>5, <3>8
        <3> QED BY <3>2, <3>3, <3>9
    <2> QED BY <2>1, <2>2, <1>2, <1>4
<1>9. Lawful(d)
    BY <1>6, <1>7, <1>8 DEF Lawful
<1> QED BY <1>2, <1>3, <1>9 DEF d

\* What is mined on a lawful chain leaves it lawful.
LEMMA MinedIsLawful ==
    ASSUME NEW S, NEW c \in Seq(S), Lawful(c), NEW txs, Len(txs) \in Nat, NEW x
    PROVE  LET n == Len(c)
               d == Append(c, [hash |-> x, logs |-> Execute(txs, LogsUpTo(c, n), n + 1)])
           IN  /\ Lawful(d) /\ (\E T : d \in Seq(T)) /\ Len(d) = n + 1 /\ d[n + 1].hash = x
               /\ \A b \in 1..n : d[b] = c[b]
               /\ \A g \in 0..n : LogsUpTo(d, g) = LogsUpTo(c, g)
<1> DEFINE n == Len(c)
           P == LogsUpTo(c, n)
           B == [hash |-> x, logs |-> Execute(txs, P, n + 1)]
<1>1. n \in Nat /\ Numbered(c) /\ n \in 0..Len(c) /\ n + 1 \in Nat \ {0}
    BY LenProperties DEF Lawful
<1>2. Sane(P)
    BY <1>1 DEF Lawful
<1>3. \A l \in P : l.block < n + 1
    <2>1. \A l \in P : l.block \in 1..n
        BY <1>1, BlockOf
    <2> QED BY <2>1, <1>1
<1>4. Built(P, B.logs, n + 1) /\ B.hash = x
    <2> HIDE DEF P, n
    <2>1. Built(P, Execute(txs, P, n + 1), n + 1)
        BY <1>1, <1>2, <1>3, ExecuteBuilds
    <2> QED BY <2>1
<1> HIDE DEF B
<1>5. LET d == Append(c, B) IN
      /\ Lawful(d) /\ (\E T : d \in Seq(T)) /\ Len(d) = n + 1 /\ d[n + 1] = B
      /\ \A b \in 1..n : d[b] = c[b]
      /\ \A g \in 0..n : LogsUpTo(d, g) = LogsUpTo(c, g)
    BY <1>4, LawfulAppend
<1> QED BY <1>4, <1>5 DEF B

LEMMA GenesisIsLawful ==
    LET d == <<Genesis>> IN Lawful(d) /\ (\E T : d \in Seq(T)) /\ Len(d) = 1 /\ d[1].hash = 1
<1>1. <<>> \in Seq({}) /\ Len(<<>>) = 0
    BY EmptySeq
<1>2. LogsUpTo(<<>>, 0) = {}
    BY NothingYet
<1>3. Lawful(<<>>)
    BY <1>1, <1>2, SaneEmpty DEF Lawful, Numbered
<1>4. Len(<<"price">>) = 1
    OBVIOUS
<1>5. Append(<<>>, Genesis) = <<Genesis>>
    OBVIOUS
<1>6. Genesis.hash = 1 /\ Built({}, Genesis.logs, 1)
    <2>1. PICK txs : txs = <<"price">>
        OBVIOUS
    <2>2. Len(txs) \in Nat /\ 1 \in Nat \ {0} /\ \A x \in {} : x.block < 1
        BY <1>4, <2>1
    <2>3. Built({}, Execute(txs, {}, 1), 1)
        BY <2>2, SaneEmpty, ExecuteBuilds
    <2>4. Genesis.logs = Execute(txs, {}, 1) /\ Genesis.hash = 1
        BY <2>1 DEF Genesis
    <2> HIDE DEF Genesis
    <2> QED BY <2>3, <2>4
<1> HIDE DEF Genesis
<1>7. PICK c : c = <<>>
    OBVIOUS
<1>8. PICK n : n = Len(c)
    OBVIOUS
<1>9. n = 0 /\ n + 1 = 1 /\ c \in Seq({}) /\ Lawful(c) /\ Built(LogsUpTo(c, n), Genesis.logs, n + 1)
    <2>1. n = 0 /\ n + 1 = 1
        BY <1>1, <1>7, <1>8
    <2>2. LogsUpTo(c, n) = {} /\ c \in Seq({}) /\ Lawful(c)
        BY <1>1, <1>2, <1>3, <1>7, <2>1
    <2> QED BY <2>1, <2>2, <1>6
<1>10. LET d == Append(c, Genesis) IN Lawful(d) /\ (\E T : d \in Seq(T)) /\ Len(d) = n + 1 /\ d[n + 1] = Genesis
    BY <1>8, <1>9, LawfulAppend
<1>11. Append(c, Genesis) = <<Genesis>>
    BY <1>5, <1>7
<1> QED BY <1>6, <1>9, <1>10, <1>11

-----------------------------------------------------------------------------
(***************************************************************************)
(* Stores beside the chain.                                                *)
(***************************************************************************)
LEMMA LogsWithin ==
    ASSUME NEW c, Numbered(c), NEW h \in 0..Len(c), NEW g \in 0..h
    PROVE  LogsUpTo(c, g) \subseteq LogsUpTo(c, h)
    BY LogsAreByBlock

LEMMA CutWider ==
    ASSUME NEW c, Numbered(c), NEW h \in 0..Len(c), NEW g \in 0..h, NEW Q, Cut(Q, LogsUpTo(c, g))
    PROVE  Cut(Q, LogsUpTo(c, h))
<1>1. LogsUpTo(c, g) = {l \in LogsUpTo(c, h) : l.block <= g}
    BY LogsAreByBlock
<1>2. \A l \in LogsUpTo(c, h) : l.block \in 1..h
    BY BlockOf
<1>3. g \in Nat /\ h \in Nat
    BY DEF Numbered
<1>4. ASSUME NEW k \in Q, NEW j \in LogsUpTo(c, h), Before(j, k) PROVE j \in Q
    <2>1. k \in LogsUpTo(c, h) /\ k.block <= g /\ k \in LogsUpTo(c, g)
        BY <1>1 DEF Cut
    <2>2. j.block <= g
        BY <1>2, <1>3, <1>4, <2>1 DEF Before
    <2> QED BY <1>1, <1>4, <2>1, <2>2 DEF Cut
<1>5. Q \subseteq LogsUpTo(c, h)
    BY <1>1 DEF Cut
<1> QED BY <1>4, <1>5 DEF Cut

LEMMA AgreeWider ==
    ASSUME NEW c, Numbered(c), NEW h \in 0..Len(c), NEW g \in 0..h, NEW s, NEW P, Agree(s, P, LogsUpTo(c, g))
    PROVE  Agree(s, P, LogsUpTo(c, h))
<1>1. \A Q : Cut(Q, LogsUpTo(c, g)) => Cut(Q, LogsUpTo(c, h))
    BY CutWider
<1>2. Priced(s, P, LogsUpTo(c, h))
    BY <1>1 DEF Agree, Priced
<1>3. Tracked(s, P, LogsUpTo(c, h))
    BY <1>1 DEF Agree, Tracked
<1> QED BY <1>2, <1>3 DEF Agree

LEMMA AgreeEmpty == Agree(NoRows, {}, {})
<1>1. \A name : Named({}, name) = {}
    BY NamedEmpty
<1>2. OrdersOf({}) = <<>> /\ PositionsOf({}) = <<>> /\ AccountsOf({}) = <<>>
    BY <1>1 DEF OrdersOf, PositionsOf, AccountsOf
<1>3. RowsOf({}) = {} /\ Keys({}) = {}
    BY DEF RowsOf, Keys
<1>4. /\ NoRows.applied = {} /\ NoRows.orders = <<>> /\ NoRows.positions = <<>>
      /\ NoRows.accounts = <<>> /\ NoRows.rows = {} /\ NoRows.price = <<>> /\ NoRows.markets = <<>>
    BY DEF NoRows
<1>5. Mirrors(NoRows, {})
    BY <1>2, <1>3, <1>4 DEF Mirrors
<1>6. DOMAIN <<>> = {} /\ <<>> = [m \in {} |-> <<>>[m]]
    OBVIOUS
<1>7. Priced(NoRows, {}, {})
    <2>1. NoRows.price = [m \in DOMAIN NoRows.price |-> NoRows.price[m]] /\ DOMAIN NoRows.price = {}
        BY <1>4, <1>6
    <2> QED BY <1>1, <2>1 DEF Priced
<1>8. Tracked(NoRows, {}, {})
    BY <1>4, <1>6 DEF Tracked
<1> QED BY <1>5, <1>7, <1>8 DEF Agree

\* The whole of what was logged is a cut of it.
LEMMA AllIsCut == \A D : Cut(D, D)
    BY DEF Cut

LEMMA SeedStatus ==
    ASSUME NEW c, Numbered(c), NEW g \in 0..Len(c), NEW T \in 0..g, NEW s,
           Agree(s, LogsUpTo(c, T), LogsUpTo(c, g)), NEW m
    PROVE  LET D == LogsUpTo(c, Len(c)) IN
           Agree([s EXCEPT !.markets = Put(@, m, StatusOf(D, m))], LogsUpTo(c, T), D)
<1> DEFINE D == LogsUpTo(c, Len(c))
           P == LogsUpTo(c, T)
           t == [s EXCEPT !.markets = Put(@, m, StatusOf(D, m))]
<1>1. Len(c) \in Nat /\ Len(c) \in 0..Len(c) /\ g \in 0..Len(c) /\ T \in 0..Len(c)
    BY DEF Numbered
<1>2. Agree(s, P, D)
    BY <1>1, AgreeWider
<1>3. P \subseteq D
    BY <1>1, LogsWithin
<1>4. DOMAIN s = DOMAIN NoRows
    BY <1>2 DEF Agree, Mirrors
<1>5. DOMAIN t = DOMAIN NoRows /\ t.markets = Put(s.markets, m, StatusOf(D, m))
    BY <1>4, ColumnsAre
<1>6. /\ t.applied = s.applied /\ t.orders = s.orders /\ t.positions = s.positions
      /\ t.accounts = s.accounts /\ t.rows = s.rows /\ t.price = s.price
    BY <1>4, ColumnsAre
<1> HIDE DEF t, D, P
<1>7. Mirrors(t, P)
    BY <1>2, <1>5, <1>6 DEF Agree, Mirrors
<1>8. Priced(t, P, D)
    BY <1>2, <1>6 DEF Agree, Priced
<1>9. ASSUME NEW a \in DOMAIN t.markets
      PROVE  \E Q : Cut(Q, D) /\ P \subseteq Q /\ t.markets[a] = StatusOf(Q, a)
    <2>1. CASE a = m
        <3>1. t.markets[a] = StatusOf(D, a)
            BY <1>5, <2>1 DEF Put
        <3> QED BY <1>3, <3>1, AllIsCut
    <2>2. CASE a # m
        <3>1. a \in DOMAIN s.markets /\ t.markets[a] = s.markets[a]
            BY <1>5, <2>2 DEF Put
        <3> QED BY <1>2, <3>1 DEF Agree, Tracked
    <2> QED BY <2>1, <2>2
<1>10. Tracked(t, P, D)
    BY <1>9 DEF Tracked
<1>11. Agree(t, P, D)
    BY <1>7, <1>8, <1>10 DEF Agree
<1> QED BY <1>11 DEF t, D, P

LEMMA SeedPrice ==
    ASSUME NEW c, Numbered(c), NEW g \in 0..Len(c), NEW T \in 0..g, NEW s,
           Agree(s, LogsUpTo(c, T), LogsUpTo(c, g)),
           Sane(LogsUpTo(c, Len(c))), NEW m \in Nat \ {0}, m <= MarketCount(LogsUpTo(c, Len(c)))
    PROVE  LET D == LogsUpTo(c, Len(c)) IN
           Agree([s EXCEPT !.price = Put(@, m, PricesOf(D)[m])], LogsUpTo(c, T), D)
<1> DEFINE D == LogsUpTo(c, Len(c))
           P == LogsUpTo(c, T)
           t == [s EXCEPT !.price = Put(@, m, PricesOf(D)[m])]
<1>1. Len(c) \in Nat /\ Len(c) \in 0..Len(c) /\ g \in 0..Len(c) /\ T \in 0..Len(c)
    BY DEF Numbered
<1>2. Agree(s, P, D)
    BY <1>1, AgreeWider
<1>3. P \subseteq D
    BY <1>1, LogsWithin
<1>4. DOMAIN s = DOMAIN NoRows
    BY <1>2 DEF Agree, Mirrors
<1>5. DOMAIN t = DOMAIN NoRows /\ t.price = Put(s.price, m, PricesOf(D)[m])
    BY <1>4, ColumnsAre
<1>6. /\ t.applied = s.applied /\ t.orders = s.orders /\ t.positions = s.positions
      /\ t.accounts = s.accounts /\ t.rows = s.rows /\ t.markets = s.markets
    BY <1>4, ColumnsAre
<1>7. Sane(D) /\ m <= MarketCount(D)
    OBVIOUS
<1> HIDE DEF t, D, P
<1>8. PriceLogs(D, m) # {} /\ PricesOf(D)[m] = Latest(PriceLogs(D, m)).price
    <2>1. PICK n \in Nat : Markets(D) = 1 .. n /\ Cardinality(Markets(D)) = n
        BY <1>7, NextMarket DEF Sane
    <2>2. MarketCount(D) = n /\ PricesOf(D) = [a \in Markets(D) |-> Latest(PriceLogs(D, a)).price]
        BY <2>1 DEF MarketCount, PricesOf, Markets, PriceLogs
    <2>3. m \in Markets(D)
        BY <1>7, <2>1, <2>2
    <2> QED BY <2>2, <2>3 DEF Markets, PriceLogs
<1>9. Mirrors(t, P)
    BY <1>2, <1>5, <1>6 DEF Agree, Mirrors
<1>10. Tracked(t, P, D)
    BY <1>2, <1>6 DEF Agree, Tracked
<1>11. ASSUME NEW a \in DOMAIN t.price
       PROVE  \E Q : Cut(Q, D) /\ P \subseteq Q /\ PriceLogs(Q, a) # {}
                     /\ t.price[a] = Latest(PriceLogs(Q, a)).price
    <2>1. CASE a = m
        <3>1. t.price[a] = PricesOf(D)[a]
            BY <1>5, <2>1 DEF Put
        <3> QED BY <1>3, <1>8, <2>1, <3>1, AllIsCut
    <2>2. CASE a # m
        <3>1. a \in DOMAIN s.price /\ t.price[a] = s.price[a]
            BY <1>5, <2>2 DEF Put
        <3> QED BY <1>2, <3>1 DEF Agree, Priced
    <2> QED BY <2>1, <2>2
<1>12. \A l \in Named(P, "PriceSet") : l.market \in DOMAIN t.price
    BY <1>2, <1>5 DEF Agree, Priced, Put
<1>13. t.price = [a \in DOMAIN t.price |-> t.price[a]]
    BY <1>5 DEF Put
<1>14. Priced(t, P, D)
    BY <1>11, <1>12, <1>13 DEF Priced
<1>15. Agree(t, P, D)
    BY <1>9, <1>10, <1>14 DEF Agree
<1> QED BY <1>15 DEF t, D, P

\* A store that agrees with all there is, is it.
LEMMA AgreeIsExact ==
    ASSUME NEW s, NEW D, Agree(s, D, D)
    PROVE  /\ s.orders = OrdersOf(D) /\ s.positions = PositionsOf(D)
           /\ s.accounts = AccountsOf(D) /\ s.rows = RowsOf(D) /\ s.price = PricesOf(D)
           /\ \A m \in DOMAIN s.markets : s.markets[m] = StatusOf(D, m)
<1>1. \A Q : Cut(Q, D) /\ D \subseteq Q => Q = D
    BY DEF Cut
<1>2. \A m \in DOMAIN s.price : PriceLogs(D, m) # {} /\ s.price[m] = Latest(PriceLogs(D, m)).price
    BY <1>1 DEF Agree, Priced
<1>3. PricesOf(D) = [m \in Markets(D) |-> Latest(PriceLogs(D, m)).price]
    BY DEF PricesOf, Markets, PriceLogs
<1>4. DOMAIN s.price = Markets(D)
    <2>1. \A m \in DOMAIN s.price : m \in Markets(D)
        BY <1>2 DEF PriceLogs, Markets
    <2>2. \A m \in Markets(D) : m \in DOMAIN s.price
        BY DEF Agree, Priced, Markets
    <2> QED BY <2>1, <2>2
<1>5. s.price = [m \in DOMAIN s.price |-> s.price[m]]
    BY DEF Agree, Priced
<1>6. s.price = PricesOf(D)
    BY <1>2, <1>3, <1>4, <1>5
<1>7. \A m \in DOMAIN s.markets : s.markets[m] = StatusOf(D, m)
    BY <1>1 DEF Agree, Tracked
<1> QED BY <1>6, <1>7 DEF Agree, Mirrors

\* A store that agrees with the chain up to some height, at least as high as the
\* floors, and was read from no higher than r.
Holds(tb, c, r, floors) ==
    \E T \in 0..r : Agree(tb, LogsUpTo(c, T), LogsUpTo(c, r)) /\ \A x \in floors : x <= T

LEMMA HoldsLower ==
    ASSUME NEW tb, NEW c, NEW r \in Nat, NEW F, Holds(tb, c, r, F), NEW G,
           F \subseteq Nat, G \subseteq Nat, \A y \in G : \E x \in F : y <= x
    PROVE  Holds(tb, c, r, G)
<1>1. PICK T \in 0..r : Agree(tb, LogsUpTo(c, T), LogsUpTo(c, r)) /\ \A x \in F : x <= T
    BY DEF Holds
<1>2. \A y \in G : y <= T
    BY <1>1
<1> QED BY <1>1, <1>2 DEF Holds

LEMMA HoldsElsewhere ==
    ASSUME NEW tb, NEW c, NEW d, NEW r \in Nat, NEW F, Holds(tb, c, r, F),
           \A g \in 0..r : LogsUpTo(d, g) = LogsUpTo(c, g)
    PROVE  Holds(tb, d, r, F)
<1>1. PICK T \in 0..r : Agree(tb, LogsUpTo(c, T), LogsUpTo(c, r)) /\ \A x \in F : x <= T
    BY DEF Holds
<1>2. LogsUpTo(d, T) = LogsUpTo(c, T) /\ LogsUpTo(d, r) = LogsUpTo(c, r)
    OBVIOUS
<1>3. Agree(tb, LogsUpTo(d, T), LogsUpTo(d, r))
    BY <1>1, <1>2
<1> QED BY <1>1, <1>3 DEF Holds

LEMMA HoldsWider ==
    ASSUME NEW tb, NEW c, Numbered(c), NEW h \in 0..Len(c), NEW r \in 0..h, NEW F, Holds(tb, c, r, F)
    PROVE  Holds(tb, c, h, F)
<1>1. PICK T \in 0..r : Agree(tb, LogsUpTo(c, T), LogsUpTo(c, r)) /\ \A x \in F : x <= T
    BY DEF Holds
<1>2. T \in 0..h
    BY DEF Numbered
<1>3. Agree(tb, LogsUpTo(c, T), LogsUpTo(c, h))
    BY <1>1, AgreeWider
<1> QED BY <1>1, <1>2, <1>3 DEF Holds

LEMMA HoldsEmpty ==
    ASSUME NEW c
    PROVE  Holds(NoRows, c, 0, {0})
<1>1. LogsUpTo(c, 0) = {}
    BY NothingYet
<1>2. Agree(NoRows, LogsUpTo(c, 0), LogsUpTo(c, 0))
    BY <1>1, AgreeEmpty
<1> QED BY <1>2 DEF Holds

\* Seeding keeps what is held, and reads as far as the chain goes.
LEMMA HoldsSeedStatus ==
    ASSUME NEW tb, NEW c, Lawful(c), NEW r \in 0..Len(c), NEW F, Holds(tb, c, r, F), NEW m
    PROVE  Holds([tb EXCEPT !.markets = Put(@, m, StatusOf(LogsUpTo(c, Len(c)), m))], c, Len(c), F)
<1>0. Numbered(c) /\ Len(c) \in Nat
    BY DEF Lawful, Numbered
<1>1. PICK T \in 0..r : Agree(tb, LogsUpTo(c, T), LogsUpTo(c, r)) /\ \A x \in F : x <= T
    BY DEF Holds
<1>2. T \in 0..Len(c)
    BY <1>0
<1>3. Agree([tb EXCEPT !.markets = Put(@, m, StatusOf(LogsUpTo(c, Len(c)), m))], LogsUpTo(c, T), LogsUpTo(c, Len(c)))
    BY <1>0, <1>1, SeedStatus
<1> QED BY <1>1, <1>2, <1>3 DEF Holds

LEMMA HoldsSeedPrice ==
    ASSUME NEW tb, NEW c, Lawful(c), NEW r \in 0..Len(c), NEW F, Holds(tb, c, r, F),
           NEW m \in Nat \ {0}, m <= MarketCount(LogsUpTo(c, Len(c)))
    PROVE  Holds([tb EXCEPT !.price = Put(@, m, PricesOf(LogsUpTo(c, Len(c)))[m])], c, Len(c), F)
<1>0. Numbered(c) /\ Len(c) \in Nat /\ Len(c) \in 0..Len(c)
    BY DEF Lawful, Numbered
<1>a. Sane(LogsUpTo(c, Len(c)))
    BY <1>0 DEF Lawful
<1>1. PICK T \in 0..r : Agree(tb, LogsUpTo(c, T), LogsUpTo(c, r)) /\ \A x \in F : x <= T
    BY DEF Holds
<1>2. T \in 0..Len(c)
    BY <1>0
<1>3. Agree([tb EXCEPT !.price = Put(@, m, PricesOf(LogsUpTo(c, Len(c)))[m])], LogsUpTo(c, T), LogsUpTo(c, Len(c)))
    BY <1>0, <1>a, <1>1, SeedPrice
<1> QED BY <1>1, <1>2, <1>3 DEF Holds

\* So does a range: with it the store holds what the range says too.
LEMMA HoldsRange ==
    ASSUME NEW tb, NEW c, Lawful(c), NEW r \in 0..Len(c), NEW F, F \subseteq Nat, Holds(tb, c, r, F),
           NEW from \in F, NEW to \in 0..Len(c), from < to, NEW after \in applyAll(tb, LogsAfter(c, from, to))
    PROVE  Holds(after, c, Greater(r, to), F \cup {to})
<1>0. Numbered(c) /\ Len(c) \in Nat
    BY DEF Lawful, Numbered
<1>1. PICK T \in 0..r : Agree(tb, LogsUpTo(c, T), LogsUpTo(c, r)) /\ \A x \in F : x <= T
    BY DEF Holds
<1>2. PICK h : h = Greater(r, to)
    OBVIOUS
<1>3. h \in 0..Len(c) /\ r \in 0..h /\ T \in 0..h /\ to \in from..h /\ from \in 0..T
    BY <1>0, <1>1, <1>2 DEF Greater
<1>4. Agree(tb, LogsUpTo(c, T), LogsUpTo(c, h))
    BY <1>0, <1>1, <1>3, AgreeWider
<1>5. PICK U : U = Greater(T, to)
    OBVIOUS
<1>6. Agree(after, LogsUpTo(c, U), LogsUpTo(c, h))
    BY <1>3, <1>4, <1>5, ApplyAgrees
<1>7. U \in 0..h /\ \A x \in F \cup {to} : x <= U
    BY <1>0, <1>1, <1>2, <1>3, <1>5 DEF Greater
<1> QED BY <1>2, <1>6, <1>7 DEF Holds

-----------------------------------------------------------------------------
(***************************************************************************)
(* The service beside the chain.                                           *)
(***************************************************************************)
States == [last : Nat, hash : Nat, paused : BOOLEAN]
Columns == {"last", "hash", "head", "boot", "to", "market", "markets"}
Reads(y) ==
    /\ DOMAIN y = Columns
    /\ y.last \in Nat /\ y.hash \in Nat /\ y.head \in Nat /\ y.to \in Nat /\ y.boot \in BOOLEAN

\* Blocks are never mined twice under one hash.
ChainLaw ==
    /\ Lawful(chain) /\ (\E S : chain \in Seq(S))
    /\ \A b \in 1..Len(chain) : chain[b].hash \in 1..(spent.mined + 1)
Typed ==
    /\ spent \in [{"mined", "reverts", "faults"} -> Nat]
    /\ state \in States /\ disk.state \in States
    /\ Reads(sy) /\ seen \in Nat
Hashed(s, n) == s.hash <= n + 1 /\ (s.hash # NoHash => s.last > 0)
\* What the service is waiting for, and what it knows then.
Places ==
    /\ pc # "tip" => disk.state = state /\ disk.tables = tables
    /\ pc \in {"head", "check"} /\ state.hash # NoHash => sy.last = state.last /\ sy.hash = state.hash
    /\ pc \in {"idle", "down"} => sy = NoRead
    /\ pc \in {"market", "index"} => sy.market \in Nat \ {0}
Base == ChainLaw /\ Typed /\ Hashed(state, spent.mined) /\ Hashed(disk.state, spent.mined) /\ Places

\* A reversion not noticed yet: the next pass compares a stored hash.
Mismatch ==
    /\ state.hash # NoHash /\ HashAt(state.last) # state.hash
    /\ \/ pc \in {"down", "idle", "head", "check"}
       \/ pc \in {"count", "market", "index"} /\ sy.boot

\* How far the rows in sight were read, and the heights they must reach at least.
Reach == IF pc = "tip" THEN Greater(seen, sy.to) ELSE seen
Floors ==
    {state.last} \cup (IF pc \in {"head", "check", "logs"} THEN {sy.last} ELSE {})
                 \cup (IF pc = "tip" THEN {sy.to} ELSE {})
Faithful ==
    /\ Depth <= Len(chain)
    /\ pc \in {"logs", "tip"} => sy.last < sy.to /\ sy.to <= sy.head
    /\ Holds(disk.tables, chain, seen, {disk.state.last})
    /\ Holds(tables, chain, Reach, Floors)

Sound == Base /\ (lost \/ Mismatch \/ Faithful)

LEMMA NoReadIs ==
    /\ Reads(NoRead) /\ NoRead.last = 0 /\ NoRead.hash = 0 /\ NoRead.head = 0 /\ NoRead.to = 0 /\ NoRead.boot = FALSE
    BY DEF NoRead, NoHash, Reads, Columns

LEMMA MaxRangeNat == MaxRange \in Nat /\ MaxRange > 0
    BY IndexerAssumption DEF IndexerAssumption

LEMMA Asked ==
    ASSUME NEW r, Reads(r), AskForLogs(r)
    PROVE  \/ pc' = "idle" /\ sy' = NoRead /\ r.head <= r.last
           \/ /\ pc' = "logs" /\ Reads(sy') /\ sy'.last = r.last /\ sy'.head = r.head /\ sy'.boot = r.boot
              /\ sy'.last < sy'.to /\ sy'.to <= sy'.head
<1>1. CASE r.head <= r.last
    BY <1>1 DEF AskForLogs
<1>2. CASE ~(r.head <= r.last)
    <2>1. PICK n : n = Lesser(r.head, r.last + MaxRange)
        OBVIOUS
    <2>2. r.last \in Nat /\ r.head \in Nat
        BY DEF Reads
    <2>3. n \in Nat /\ r.last < n /\ n <= r.head
        BY <1>2, <2>1, <2>2, MaxRangeNat DEF Lesser
    <2>4. pc' = "logs" /\ sy' = [r EXCEPT !.to = n]
        BY <1>2, <2>1 DEF AskForLogs
    <2>5. Reads(sy') /\ sy'.last = r.last /\ sy'.head = r.head /\ sy'.boot = r.boot /\ sy'.to = n
        BY <2>3, <2>4 DEF Reads, Columns
    <2> QED BY <2>3, <2>4, <2>5
<1> QED BY <1>1, <1>2

LEMMA HashThere ==
    ASSUME ChainLaw, NEW h
    PROVE  HashAt(h) # NoHash => h \in 1..Len(chain) /\ HashAt(h) = chain[h].hash /\ HashAt(h) \in 1..(spent.mined + 1)
    BY DEF HashAt, ChainLaw

LEMMA ChainLen == ChainLaw => Len(chain) \in Nat /\ Numbered(chain)
    BY DEF ChainLaw, Lawful, Numbered

LEMMA SpendIs ==
    ASSUME Typed, NEW what \in {"mined", "reverts", "faults"}, Spend(what)
    PROVE  /\ spent' \in [{"mined", "reverts", "faults"} -> Nat]
           /\ spent'.mined = IF what = "mined" THEN spent.mined + 1 ELSE spent.mined
           /\ spent.mined \in Nat
    BY DEF Spend, Typed

\* Away from the chain the law of the chain is kept, and no hash is forgotten.
LEMMA ChainKept ==
    ASSUME ChainLaw, Typed, chain' = chain, UNCHANGED spent \/ Spend("faults")
    PROVE  ChainLaw' /\ spent' \in [{"mined", "reverts", "faults"} -> Nat] /\ spent'.mined = spent.mined
<1>1. spent' \in [{"mined", "reverts", "faults"} -> Nat] /\ spent'.mined = spent.mined
    BY SpendIs DEF Typed
<1> QED BY <1>1 DEF ChainLaw

LEMMA WriteIs ==
    ASSUME NEW s, NEW t, Write(s, t)
    PROVE  /\ state' = s /\ tables' = t
           /\ pc = "tip" => disk' = disk
           /\ pc # "tip" => disk'.state = s /\ disk'.tables = t
    BY DEF Write

-----------------------------------------------------------------------------
(* The chain moves *)

LEMMA MineBase ==
    ASSUME Base, NEW txs \in Blocks, Mine(txs)
    PROVE  /\ Base' /\ chain' # chain
           /\ Len(chain') = Len(chain) + 1
           /\ \A g \in 0..Len(chain) : LogsUpTo(chain', g) = LogsUpTo(chain, g)
           /\ \A h : HashAt(h)' = HashAt(h) \/ HashAt(h)' = spent.mined + 2
<1>1. /\ Spend("mined") /\ UNCHANGED <<state, tables, disk, pc, sy, seen, lost, pause>>
      /\ chain' = Append(chain, [hash |-> spent.mined + 2, logs |-> Execute(txs, ChainLogs, Len(chain) + 1)])
    BY DEF Mine
<1>2. Lawful(chain) /\ Len(chain) \in Nat
    BY ChainLen DEF Base, ChainLaw
<1>3. PICK S : chain \in Seq(S)
    BY DEF Base, ChainLaw
<1>4. Len(txs) \in Nat
    BY IndexerAssumption, LenProperties DEF IndexerAssumption
<1>5. PICK x : x = spent.mined + 2
    OBVIOUS
<1>6. PICK n : n = Len(chain)
    OBVIOUS
<1>7. chain' = Append(chain, [hash |-> x, logs |-> Execute(txs, LogsUpTo(chain, n), n + 1)])
    BY <1>1, <1>5, <1>6 DEF ChainLogs
<1>8. LET d == Append(chain, [hash |-> x, logs |-> Execute(txs, LogsUpTo(chain, n), n + 1)])
      IN  /\ Lawful(d) /\ (\E T : d \in Seq(T)) /\ Len(d) = n + 1 /\ d[n + 1].hash = x
          /\ \A b \in 1..n : d[b] = chain[b]
          /\ \A g \in 0..n : LogsUpTo(d, g) = LogsUpTo(chain, g)
    BY <1>2, <1>3, <1>4, <1>6, MinedIsLawful
<1>9. /\ Lawful(chain') /\ (\E T : chain' \in Seq(T)) /\ Len(chain') = n + 1 /\ chain'[n + 1].hash = x
      /\ \A b \in 1..n : chain'[b] = chain[b]
      /\ \A g \in 0..n : LogsUpTo(chain', g) = LogsUpTo(chain, g)
    BY <1>7, <1>8
<1>10. /\ spent' \in [{"mined", "reverts", "faults"} -> Nat] /\ spent'.mined = spent.mined + 1
       /\ spent.mined \in Nat
    BY <1>1, SpendIs DEF Base
<1>11. ASSUME NEW b \in 1..Len(chain') PROVE chain'[b].hash \in 1..(spent'.mined + 1)
    <2>1. CASE b = n + 1
        BY <2>1, <1>5, <1>9, <1>10
    <2>2. CASE b # n + 1
        <3>1. b \in 1..n
            BY <2>2, <1>2, <1>6, <1>9
        <3>2. chain[b].hash \in 1..(spent.mined + 1)
            BY <3>1, <1>6 DEF Base, ChainLaw
        <3> QED BY <3>1, <3>2, <1>9, <1>10
    <2> QED BY <2>1, <2>2
<1>12. ChainLaw'
    BY <1>9, <1>11 DEF ChainLaw
<1>13. Typed' /\ Places'
    BY <1>1, <1>10 DEF Base, Typed, Places
<1>14. Hashed(state', spent'.mined) /\ Hashed(disk'.state, spent'.mined)
    <2>1. state.hash \in Nat /\ disk.state.hash \in Nat
        BY DEF Base, Typed, States
    <2> QED BY <1>1, <1>10, <2>1 DEF Base, Hashed
<1>15. ASSUME NEW h PROVE HashAt(h)' = HashAt(h) \/ HashAt(h)' = spent.mined + 2
    <2>1. CASE h \in 1..n
        <3>1. h \in 1..Len(chain')
            BY <2>1, <1>2, <1>6, <1>9
        <3> QED BY <2>1, <3>1, <1>6, <1>9 DEF HashAt
    <2>2. CASE h \notin 1..n /\ h \in 1..Len(chain')
        <3>1. h = n + 1
            BY <2>2, <1>2, <1>6, <1>9
        <3> QED BY <2>2, <3>1, <1>5, <1>9 DEF HashAt
    <2>3. CASE h \notin 1..n /\ h \notin 1..Len(chain')
        BY <2>3, <1>6 DEF HashAt
    <2> QED BY <2>1, <2>2, <2>3
<1>16. chain' # chain
    BY <1>2, <1>6, <1>9
<1>17. Base'
    BY <1>12, <1>13, <1>14 DEF Base
<1> QED BY <1>6, <1>9, <1>15, <1>16, <1>17

LEMMA RevertBase ==
    ASSUME Base, NEW h \in 1..Len(chain), Revert(h)
    PROVE  /\ Base'
           /\ Len(chain') = h /\ h <= Len(chain)
           /\ \A g \in 0..h : LogsUpTo(chain', g) = LogsUpTo(chain, g)
           /\ \A x : HashAt(x)' = IF x \in 1..h THEN HashAt(x) ELSE NoHash
<1>1. /\ Spend("reverts") /\ UNCHANGED <<state, tables, disk, pc, sy, seen, pause>>
      /\ chain' = SubSeq(chain, 1, h)
    BY DEF Revert
<1>2. Lawful(chain) /\ Len(chain) \in Nat /\ h \in 0..Len(chain)
    BY ChainLen DEF Base, ChainLaw
<1>3. PICK S : chain \in Seq(S)
    BY DEF Base, ChainLaw
<1>4. /\ Lawful(chain') /\ chain' \in Seq(S) /\ Len(chain') = h
      /\ \A b \in 1..h : chain'[b] = chain[b]
      /\ \A g \in 0..h : LogsUpTo(chain', g) = LogsUpTo(chain, g)
    BY <1>1, <1>2, <1>3, LawfulPrefix
<1>5. spent' \in [{"mined", "reverts", "faults"} -> Nat] /\ spent'.mined = spent.mined
    BY <1>1, SpendIs DEF Base
<1>6. ASSUME NEW b \in 1..Len(chain') PROVE chain'[b].hash \in 1..(spent'.mined + 1)
    <2>1. b \in 1..h /\ b \in 1..Len(chain)
        BY <1>2, <1>4
    <2>2. chain[b].hash \in 1..(spent.mined + 1)
        BY <2>1 DEF Base, ChainLaw
    <2> QED BY <2>1, <2>2, <1>4, <1>5
<1>7. ChainLaw'
    BY <1>4, <1>6 DEF ChainLaw
<1>8. Typed' /\ Places'
    BY <1>1, <1>5 DEF Base, Typed, Places
<1>9. Hashed(state', spent'.mined) /\ Hashed(disk'.state, spent'.mined)
    BY <1>1, <1>5 DEF Base
<1>10. Base'
    BY <1>7, <1>8, <1>9 DEF Base
<1>11. ASSUME NEW x PROVE HashAt(x)' = IF x \in 1..h THEN HashAt(x) ELSE NoHash
    <2>1. x \in 1..h => x \in 1..Len(chain)
        BY <1>2
    <2> QED BY <2>1, <1>4 DEF HashAt
<1> QED BY <1>2, <1>4, <1>10, <1>11

-----------------------------------------------------------------------------
(* The service's own steps leave the chain as it was *)
LEMMA BaseKept ==
    ASSUME Base, chain' = chain, UNCHANGED spent \/ Spend("faults"),
           state' \in States, disk'.state \in States, Reads(sy'), seen' \in Nat,
           Hashed(state', spent.mined), Hashed(disk'.state, spent.mined), Places'
    PROVE  Base'
<1>1. ChainLaw' /\ spent' \in [{"mined", "reverts", "faults"} -> Nat] /\ spent'.mined = spent.mined
    BY ChainKept DEF Base
<1>2. Typed'
    BY <1>1 DEF Typed
<1> QED BY <1>1, <1>2 DEF Base

LEMMA TypedIs ==
    ASSUME Base
    PROVE  /\ Reads(sy) /\ state \in States /\ disk.state \in States /\ seen \in Nat
           /\ Hashed(state, spent.mined) /\ Hashed(disk.state, spent.mined)
    BY DEF Base, Typed

LEMMA MismatchKept ==
    ASSUME Mismatch, chain' = chain, state'.last = state.last, state'.hash = state.hash,
           \/ pc' \in {"down", "idle", "head", "check"}
           \/ pc' \in {"count", "market", "index"} /\ sy'.boot
    PROVE  Mismatch'
<1>1. HashAt(state.last)' = HashAt(state.last)
    BY DEF HashAt
<1> QED BY <1>1 DEF Mismatch

LEMMA FloorsNat == ASSUME Base PROVE Floors \subseteq Nat /\ Reach \in Nat /\ seen \in 0..Reach /\ state.last \in Floors
<1>1. state.last \in Nat /\ sy.last \in Nat /\ sy.to \in Nat /\ seen \in Nat
    BY TypedIs DEF States, Reads
<1>2. Reach \in Nat /\ seen \in 0..Reach
    BY <1>1 DEF Reach, Greater
<1> QED BY <1>1, <1>2 DEF Floors

\* Between two awaits nothing is written: what is held is held.
LEMMA QuietFaith ==
    ASSUME Base, Faithful, UNCHANGED <<chain, state, tables, disk, seen>>, Base',
           pc # "tip", pc' # "tip",
           pc' \in {"head", "check", "logs"} =>
               sy'.last = state.last \/ (pc \in {"head", "check", "logs"} /\ sy'.last = sy.last),
           sy'.head <= Len(chain),
           pc' = "logs" => sy'.last < sy'.to /\ sy'.to <= sy'.head
    PROVE  Faithful'
<1>1. Floors \subseteq Nat /\ Reach = seen /\ seen \in Nat
    BY FloorsNat, TypedIs DEF Reach
<1>2. Reach' = seen /\ Floors' \subseteq Floors
    BY DEF Reach, Floors
<1>3. Holds(tables, chain, seen, Floors)
    BY <1>1 DEF Faithful
<1>4. Floors' \subseteq Nat
    BY <1>1, <1>2
<1>5. \A y \in Floors' : \E x \in Floors : y <= x
    BY <1>1, <1>2
<1>6. Holds(tables, chain, seen, Floors')
    <2> PICK F : F = Floors'
        OBVIOUS
    <2>1. F \subseteq Nat /\ \A y \in F : \E x \in Floors : y <= x
        BY <1>4, <1>5
    <2> QED BY <2>1, <1>1, <1>3, HoldsLower
<1>7. Depth' <= Len(chain')
    <2>1. seen <= Len(chain)
        <3>1. sy.head \in Nat /\ Len(chain) \in Nat
            BY TypedIs, ChainLen DEF Reads, Base
        <3> QED BY <3>1, <1>1 DEF Faithful, Depth, Greater
    <2> QED BY <2>1 DEF Depth, Greater
<1> QED BY <1>2, <1>6, <1>7 DEF Faithful

LEMMA DepthIs ==
    ASSUME Base, Faithful
    PROVE  /\ seen <= Len(chain) /\ sy.head <= Len(chain) /\ Len(chain) \in Nat /\ sy.head \in Nat /\ seen \in Nat
           /\ Lawful(chain) /\ Numbered(chain) /\ seen \in 0..Len(chain)
<1>1. sy.head \in Nat /\ Len(chain) \in Nat /\ seen \in Nat /\ Lawful(chain) /\ Numbered(chain)
    BY TypedIs, ChainLen DEF Reads, Base, ChainLaw
<1> QED BY <1>1 DEF Faithful, Depth, Greater

-----------------------------------------------------------------------------
LEMMA SoundBecomes ==
    ASSUME Base', lost' \/ Mismatch' \/ Faithful'
    PROVE  Sound'
    BY DEF Sound

LEMMA MineStep ==
    ASSUME Sound, NEW txs \in Blocks, Mine(txs)
    PROVE  Sound'
<1>0. Base /\ UNCHANGED <<state, tables, disk, pc, sy, seen, lost, pause>>
    BY DEF Sound, Mine
<1>1. /\ Base' /\ Len(chain') = Len(chain) + 1
      /\ \A g \in 0..Len(chain) : LogsUpTo(chain', g) = LogsUpTo(chain, g)
      /\ \A h : HashAt(h)' = HashAt(h) \/ HashAt(h)' = spent.mined + 2
    BY <1>0, MineBase
<1>2. CASE lost
    BY <1>0, <1>1, <1>2, SoundBecomes
<1>3. CASE Mismatch
    <2>1. HashAt(state.last)' = HashAt(state.last) \/ HashAt(state.last)' = spent.mined + 2
        <3>1. PICK x : x = state.last
            OBVIOUS
        <3>2. HashAt(x)' = HashAt(x) \/ HashAt(x)' = spent.mined + 2
            BY <1>1
        <3> QED BY <1>0, <3>1, <3>2 DEF HashAt
    <2>2. state.hash <= spent.mined + 1 /\ state.hash \in Nat /\ spent.mined \in Nat
        BY <1>0 DEF Base, Typed, Hashed, States
    <2>3. HashAt(state.last)' # state'.hash
        BY <1>0, <1>3, <2>1, <2>2 DEF Mismatch
    <2>4. Mismatch'
        BY <1>0, <1>3, <2>3 DEF Mismatch
    <2> QED BY <1>1, <2>4, SoundBecomes
<1>4. CASE Faithful
    <2>1. /\ seen <= Len(chain) /\ sy.head <= Len(chain) /\ Len(chain) \in Nat /\ seen \in Nat /\ seen \in 0..Len(chain)
        BY <1>0, <1>4, DepthIs
    <2>2. Depth' = Depth /\ Reach' = Reach /\ Floors' = Floors
        BY <1>0 DEF Depth, Reach, Floors
    <2>3. Depth' <= Len(chain')
        <3>1. sy.head \in Nat
            BY <1>0, <1>4, DepthIs
        <3>2. Depth <= Len(chain) /\ Depth \in Nat
            BY <2>1, <3>1 DEF Depth, Greater
        <3> QED BY <1>1, <2>1, <2>2, <3>2
    <2>4. Reach \in 0..Len(chain)
        <3>1. sy.to \in Nat
            BY <1>0, TypedIs DEF Reads
        <3>2. pc = "tip" => sy.to <= sy.head
            BY <1>4 DEF Faithful
        <3>3. sy.head \in Nat
            BY <1>0, TypedIs DEF Reads
        <3> QED BY <2>1, <3>1, <3>2, <3>3 DEF Reach, Greater
    <2>5. Holds(tables, chain', Reach, Floors)
        <3>1. \A g \in 0..Reach : LogsUpTo(chain', g) = LogsUpTo(chain, g)
            BY <1>1, <2>1, <2>4
        <3>2. Holds(tables, chain, Reach, Floors) /\ Reach \in Nat
            BY <1>4, <2>4 DEF Faithful
        <3> QED BY <3>1, <3>2, HoldsElsewhere
    <2>6. Holds(disk.tables, chain', seen, {disk.state.last})
        <3>1. \A g \in 0..seen : LogsUpTo(chain', g) = LogsUpTo(chain, g)
            BY <1>1, <2>1
        <3>2. Holds(disk.tables, chain, seen, {disk.state.last}) /\ seen \in Nat
            BY <1>4, <2>1 DEF Faithful
        <3> QED BY <3>1, <3>2, HoldsElsewhere
    <2>7. Faithful'
        BY <1>0, <1>4, <2>2, <2>3, <2>5, <2>6 DEF Faithful
    <2> QED BY <1>1, <2>7, SoundBecomes
<1> QED BY <1>2, <1>3, <1>4 DEF Sound

\* A reversion is below what was read, and then noticed or not, or it is not.
LEMMA RevertStep ==
    ASSUME Sound, NEW h \in 1..Len(chain), Revert(h)
    PROVE  Sound'
<1>0. /\ Base /\ UNCHANGED <<state, tables, disk, pc, sy, seen, pause>>
      /\ lost' = (lost \/ (h < Depth /\ ~Noticed(h)))
    BY DEF Sound, Revert
<1>1. /\ Base' /\ Len(chain') = h /\ h <= Len(chain)
      /\ \A g \in 0..h : LogsUpTo(chain', g) = LogsUpTo(chain, g)
      /\ \A x : HashAt(x)' = IF x \in 1..h THEN HashAt(x) ELSE NoHash
    BY <1>0, RevertBase
<1>2. CASE lost'
    BY <1>1, <1>2, SoundBecomes
<1>3. CASE Mismatch
    <2>1. HashAt(state.last)' = HashAt(state.last) \/ HashAt(state.last)' = NoHash
        <3>1. PICK x : x = state.last
            OBVIOUS
        <3>2. HashAt(x)' = HashAt(x) \/ HashAt(x)' = NoHash
            BY <1>1
        <3> QED BY <1>0, <3>1, <3>2 DEF HashAt
    <2>2. HashAt(state.last)' # state'.hash
        BY <1>0, <1>3, <2>1 DEF Mismatch
    <2>3. Mismatch'
        BY <1>0, <1>3, <2>2 DEF Mismatch
    <2> QED BY <1>1, <2>3, SoundBecomes
<1>4. CASE Faithful /\ h < Depth /\ Noticed(h)
    <2>1. state.last \notin 1..h
        <3>1. state.last \in Nat /\ state.last > h
            BY <1>0, <1>4, TypedIs DEF Noticed, States
        <3> QED BY <3>1
    <2>2. HashAt(state.last)' = NoHash
        <3>1. PICK x : x = state.last
            OBVIOUS
        <3>2. HashAt(x)' = NoHash
            BY <1>1, <2>1, <3>1
        <3> QED BY <1>0, <3>1, <3>2 DEF HashAt
    <2>3. Mismatch'
        BY <1>0, <1>4, <2>2 DEF Mismatch, Noticed
    <2> QED BY <1>1, <2>3, SoundBecomes
<1>5. CASE Faithful /\ ~(h < Depth)
    <2>1. /\ seen <= Len(chain) /\ sy.head \in Nat /\ Len(chain) \in Nat /\ seen \in Nat
        BY <1>0, <1>5, DepthIs
    <2>2. Depth' = Depth /\ Reach' = Reach /\ Floors' = Floors
        BY <1>0 DEF Depth, Reach, Floors
    <2>3. Depth \in Nat /\ Depth <= h /\ seen <= h /\ sy.head <= h
        BY <1>5, <2>1 DEF Depth, Greater
    <2>4. Reach \in 0..h
        <3>1. sy.to \in Nat
            BY <1>0, TypedIs DEF Reads
        <3>2. pc = "tip" => sy.to <= sy.head
            BY <1>5 DEF Faithful
        <3> QED BY <2>1, <2>3, <3>1, <3>2 DEF Reach, Greater
    <2>5. Holds(tables, chain', Reach, Floors)
        <3>1. \A g \in 0..Reach : LogsUpTo(chain', g) = LogsUpTo(chain, g)
            BY <1>1, <2>4
        <3>2. Holds(tables, chain, Reach, Floors) /\ Reach \in Nat
            BY <1>5, <2>4 DEF Faithful
        <3> QED BY <3>1, <3>2, HoldsElsewhere
    <2>6. Holds(disk.tables, chain', seen, {disk.state.last})
        <3>1. \A g \in 0..seen : LogsUpTo(chain', g) = LogsUpTo(chain, g)
            BY <1>1, <2>1, <2>3
        <3>2. Holds(disk.tables, chain, seen, {disk.state.last}) /\ seen \in Nat
            BY <1>5, <2>1 DEF Faithful
        <3> QED BY <3>1, <3>2, HoldsElsewhere
    <2>7. Faithful'
        BY <1>0, <1>1, <1>5, <2>2, <2>3, <2>5, <2>6 DEF Faithful
    <2> QED BY <1>1, <2>7, SoundBecomes
<1> QED BY <1>0, <1>2, <1>3, <1>4, <1>5 DEF Sound

-----------------------------------------------------------------------------
LEMMA TickStep ==
    ASSUME Sound, tick
    PROVE  Sound'
<1>0. /\ Base /\ pc = "idle" /\ pc' = "head"
      /\ sy' = [NoRead EXCEPT !.last = state.last, !.hash = state.hash]
      /\ UNCHANGED <<chain, spent, state, tables, disk, seen, lost, pause>>
    BY DEF Sound, tick
<1>1. state.last \in Nat /\ state.hash \in Nat
    BY <1>0, TypedIs DEF States
<1>2. Reads(sy') /\ sy'.last = state.last /\ sy'.hash = state.hash /\ sy'.head = 0
    BY <1>0, <1>1, NoReadIs DEF Reads, Columns
<1>3. Places'
    BY <1>0, <1>2 DEF Base, Places
<1>4. Base'
    BY <1>0, <1>2, <1>3, BaseKept, TypedIs
<1>5. Mismatch => Mismatch'
    BY <1>0, MismatchKept
<1>6. ASSUME Faithful PROVE Faithful'
    <2>1. 0 <= Len(chain)
        BY <1>0, <1>6, DepthIs
    <2> QED BY <1>0, <1>2, <1>4, <1>6, <2>1, QuietFaith
<1> QED BY <1>0, <1>4, <1>5, <1>6 DEF Sound

LEMMA StartStep ==
    ASSUME Sound, start
    PROVE  Sound'
<1>0. /\ Base /\ pc = "down" /\ pc' = "count" /\ sy' = [NoRead EXCEPT !.boot = TRUE]
      /\ UNCHANGED <<chain, spent, state, tables, disk, seen, lost, pause>>
    BY DEF Sound, start
<1>2. Reads(sy') /\ sy'.head = 0 /\ sy'.boot
    BY <1>0, NoReadIs DEF Reads, Columns
<1>3. Places'
    BY <1>0, <1>2 DEF Base, Places
<1>4. Base'
    BY <1>0, <1>2, <1>3, BaseKept, TypedIs
<1>5. Mismatch => Mismatch'
    BY <1>0, <1>2, MismatchKept
<1>6. ASSUME Faithful PROVE Faithful'
    <2>1. 0 <= Len(chain)
        BY <1>0, <1>6, DepthIs
    <2> QED BY <1>0, <1>2, <1>4, <1>6, <2>1, QuietFaith
<1> QED BY <1>0, <1>4, <1>5, <1>6 DEF Sound

LEMMA CountStep ==
    ASSUME Sound, marketCount
    PROVE  Sound'
<1>0. /\ Base /\ pc = "count" /\ pc' = "market"
      /\ sy' = [sy EXCEPT !.market = 1, !.markets = MarketCount(ChainLogs)]
      /\ UNCHANGED <<chain, spent, state, tables, disk, seen, lost, pause>>
    BY DEF Sound, marketCount
<1>1. Reads(sy)
    BY <1>0, TypedIs
<1>2. Reads(sy') /\ sy'.head = sy.head /\ sy'.boot = sy.boot /\ sy'.market = 1
    <2> PICK n : n = MarketCount(ChainLogs)
        OBVIOUS
    <2>1. sy' = [sy EXCEPT !.market = 1, !.markets = n]
        BY <1>0
    <2> QED BY <1>1, <2>1 DEF Reads, Columns
<1>3. Places'
    BY <1>0, <1>2 DEF Base, Places
<1>4. Base'
    BY <1>0, <1>2, <1>3, BaseKept, TypedIs
<1>5. Mismatch => Mismatch'
    <2>1. Mismatch => sy.boot
        BY <1>0 DEF Mismatch
    <2> QED BY <1>0, <1>2, <2>1, MismatchKept
<1>6. ASSUME Faithful PROVE Faithful'
    <2>1. sy.head <= Len(chain)
        BY <1>0, <1>6, DepthIs
    <2> QED BY <1>0, <1>2, <1>4, <1>6, <2>1, QuietFaith
<1> QED BY <1>0, <1>4, <1>5, <1>6 DEF Sound

\* The pass goes on to the logs, or ends, knowing the head.
LEMMA AskStep ==
    ASSUME Sound, ~Mismatch, pc \in {"head", "check"}, NEW r, Reads(r), r.last = sy.last,
           Faithful => r.head <= Len(chain),
           AskForLogs(r), UNCHANGED <<chain, spent, state, tables, disk, seen, lost, pause>>
    PROVE  Sound'
<1>0. Base
    BY DEF Sound
<1>1. \/ pc' = "idle" /\ sy' = NoRead /\ r.head <= r.last
      \/ /\ pc' = "logs" /\ Reads(sy') /\ sy'.last = r.last /\ sy'.head = r.head /\ sy'.boot = r.boot
         /\ sy'.last < sy'.to /\ sy'.to <= sy'.head
    BY Asked
<1>2. Reads(sy')
    BY <1>1, NoReadIs
<1>3. Places'
    BY <1>0, <1>1 DEF Base, Places
<1>4. Base'
    BY <1>0, <1>2, <1>3, BaseKept, TypedIs
<1>6. ASSUME Faithful PROVE Faithful'
    <2>1. sy'.head <= Len(chain)
        <3>1. 0 <= Len(chain)
            BY <1>0, <1>6, DepthIs
        <3> QED BY <1>1, <1>6, <3>1, NoReadIs
    <2> QED BY <1>0, <1>1, <1>4, <1>6, <2>1, QuietFaith
<1> QED BY <1>4, <1>6 DEF Sound

LEMMA HeadStep ==
    ASSUME Sound, readHead
    PROVE  Sound'
<1> DEFINE r == [sy EXCEPT !.head = Len(chain)]
<1>0. /\ Base /\ pc = "head"
      /\ IF r.last > 0 /\ r.hash # NoHash THEN pc' = "check" /\ sy' = r ELSE AskForLogs(r)
      /\ UNCHANGED <<chain, spent, state, tables, disk, seen, lost, pause>>
    BY DEF Sound, readHead
<1>1. Len(chain) \in Nat /\ Reads(sy)
    BY <1>0, TypedIs, ChainLen DEF Base
<1>2. Reads(r) /\ r.head = Len(chain) /\ r.last = sy.last /\ r.hash = sy.hash /\ r.boot = sy.boot
    BY <1>1 DEF Reads, Columns
<1> HIDE DEF r
<1>3. CASE r.last > 0 /\ r.hash # NoHash
    <2>1. pc' = "check" /\ sy' = r
        BY <1>0, <1>3
    <2>2. Places'
        BY <1>0, <1>2, <2>1 DEF Base, Places
    <2>3. Base'
        BY <1>0, <1>2, <2>1, <2>2, BaseKept, TypedIs
    <2>4. Mismatch => Mismatch'
        BY <1>0, <2>1, MismatchKept
    <2>5. ASSUME Faithful PROVE Faithful'
        <3>1. sy'.head <= Len(chain)
            BY <1>1, <1>2, <2>1
        <3> QED BY <1>0, <1>2, <2>1, <2>3, <2>5, <3>1, QuietFaith
    <2> QED BY <1>0, <2>3, <2>4, <2>5 DEF Sound
<1>4. CASE ~(r.last > 0 /\ r.hash # NoHash)
    <2>1. AskForLogs(r)
        BY <1>0, <1>4
    <2>2. ~Mismatch
        <3>1. state.hash # NoHash => sy.last = state.last /\ sy.hash = state.hash /\ state.last > 0
            BY <1>0 DEF Base, Places, Hashed
        <3> QED BY <1>2, <1>4, <3>1 DEF Mismatch
    <2>3. r.head <= Len(chain)
        BY <1>1, <1>2
    <2> QED BY <1>0, <1>2, <2>1, <2>2, <2>3, AskStep
<1> QED BY <1>3, <1>4

LEMMA SameStep ==
    ASSUME Sound, sameBlock
    PROVE  Sound'
<1>0. /\ Base /\ pc = "check" /\ HashAt(sy.last) = sy.hash /\ AskForLogs(sy)
      /\ UNCHANGED <<chain, spent, state, tables, disk, seen, lost, pause>>
    BY DEF Sound, sameBlock
<1>1. ~Mismatch
    BY <1>0 DEF Base, Places, Mismatch
<1>2. Reads(sy) /\ (Faithful => sy.head <= Len(chain))
    BY <1>0, TypedIs, DepthIs
<1>3. PICK r : r = sy
    OBVIOUS
<1>4. Reads(r) /\ r.last = sy.last /\ (Faithful => r.head <= Len(chain)) /\ AskForLogs(r)
    BY <1>0, <1>2, <1>3
<1> QED BY <1>0, <1>1, <1>4, AskStep

\* A rebuild starts over, whatever there was.
LEMMA RebuildStep ==
    ASSUME Sound, rebuild
    PROVE  Sound'
<1> DEFINE s == [last |-> 0, hash |-> NoHash, paused |-> state.paused]
<1>0. /\ Base /\ pc = "check" /\ pc' = "count" /\ seen' = 0 /\ lost' = (sy.head > Len(chain))
      /\ Write(s, NoRows) /\ UNCHANGED <<chain, spent, sy, pause>>
    BY DEF Sound, rebuild
<1>1. s \in States /\ s.last = 0 /\ s.hash = NoHash
    BY <1>0, TypedIs DEF States, NoHash
<1> HIDE DEF s
<1>2. state' = s /\ tables' = NoRows /\ disk'.state = s /\ disk'.tables = NoRows
    BY <1>0, WriteIs
<1>3. Places'
    BY <1>0, <1>2 DEF Places
<1>4. Hashed(s, spent.mined)
    <2>1. spent.mined \in Nat
        BY <1>0 DEF Base, Typed
    <2> QED BY <1>1, <2>1 DEF Hashed, NoHash
<1>5. Base'
    BY <1>0, <1>1, <1>2, <1>3, <1>4, BaseKept, TypedIs
<1>6. ASSUME ~lost' PROVE Faithful'
    <2>1. sy.head \in Nat /\ Len(chain) \in Nat /\ sy.head <= Len(chain)
        <3>1. sy.head \in Nat
            BY <1>0, TypedIs DEF Reads
        <3>2. Len(chain) \in Nat
            BY <1>0, ChainLen DEF Base
        <3>3. ~(sy.head > Len(chain))
            BY <1>0, <1>6
        <3> QED BY <3>1, <3>2, <3>3
    <2>2. Depth' <= Len(chain')
        BY <1>0, <2>1 DEF Depth, Greater
    <2>3. Floors' = {0} /\ Reach' = 0
        BY <1>0, <1>1, <1>2 DEF Floors, Reach
    <2>4. Holds(NoRows, chain, 0, {0})
        BY HoldsEmpty
    <2>5. Holds(tables, chain, Reach, Floors)'
        BY <1>0, <1>2, <2>3, <2>4
    <2>6. Holds(disk.tables, chain, seen, {disk.state.last})'
        BY <1>0, <1>1, <1>2, <2>4
    <2> QED BY <1>0, <2>2, <2>5, <2>6 DEF Faithful
<1> QED BY <1>5, <1>6 DEF Sound

-----------------------------------------------------------------------------
(* Seeding *)
LEMMA SeedIs ==
    ASSUME Base, NEW t, Seed(t), pc # "tip"
    PROVE  /\ state' = state /\ tables' = t /\ disk'.state = state /\ disk'.tables = t
           /\ seen' = Len(chain) \/ seen' = seen
           /\ seen' \in Nat /\ (seen <= Len(chain) => seen' = Len(chain))
<1>1. seen \in Nat /\ Len(chain) \in Nat
    BY TypedIs, ChainLen DEF Base
<1>2. Write(state, t) /\ seen' = Greater(seen, Len(chain))
    BY DEF Seed
<1>3. state' = state /\ tables' = t /\ disk'.state = state /\ disk'.tables = t
    BY <1>2, WriteIs
<1> QED BY <1>1, <1>2, <1>3 DEF Greater

LEMMA SeedFaith ==
    ASSUME Base, Faithful, pc \in {"market", "index"}, NEW t, Seed(t), chain' = chain,
           Holds(t, chain, Len(chain), {state.last}),
           pc' \in {"market", "index", "idle", "logs"}, sy'.head \in Nat, sy'.head <= Len(chain),
           pc' = "logs" => sy'.last = state.last /\ sy'.last < sy'.to /\ sy'.to <= sy'.head
    PROVE  Faithful'
<1>1. Len(chain) \in Nat /\ seen <= Len(chain)
    BY DepthIs
<1>2. /\ state' = state /\ tables' = t /\ disk'.state = state /\ disk'.tables = t /\ seen' = Len(chain)
    BY <1>1, SeedIs
<1>3. Depth' <= Len(chain')
    BY <1>1, <1>2 DEF Depth, Greater
<1>4. Reach' = Len(chain) /\ Floors' = {state.last}
    BY <1>2 DEF Reach, Floors
<1>5. Holds(tables, chain, Reach, Floors)'
    BY <1>2, <1>4
<1>6. Holds(disk.tables, chain, seen, {disk.state.last})'
    BY <1>2
<1> QED BY <1>3, <1>5, <1>6 DEF Faithful

LEMMA HeldNow ==
    ASSUME Base, Faithful, pc \in {"market", "index"}
    PROVE  Holds(tables, chain, seen, {state.last}) /\ seen \in 0..Len(chain) /\ Lawful(chain)
<1>1. Reach = seen /\ Floors = {state.last}
    BY DEF Reach, Floors
<1>2. Holds(tables, chain, seen, {state.last})
    BY <1>1 DEF Faithful
<1> QED BY <1>2, DepthIs

LEMMA SeedMarketStep ==
    ASSUME Sound, seedMarket
    PROVE  Sound'
<1> PICK t : t = [tables EXCEPT !.markets = Put(@, sy.market, StatusOf(ChainLogs, sy.market))]
    OBVIOUS
<1>0. /\ Base /\ pc = "market" /\ pc' = "index" /\ Seed(t)
      /\ UNCHANGED <<chain, spent, sy, lost, pause>>
    BY DEF Sound, seedMarket
<1>1. /\ state' = state /\ tables' = t /\ disk'.state = state /\ disk'.tables = t /\ seen' \in Nat
    BY <1>0, SeedIs
<1>2. Places'
    BY <1>0, <1>1 DEF Base, Places
<1>3. Base'
    BY <1>0, <1>1, <1>2, BaseKept, TypedIs
<1>4. Mismatch => Mismatch'
    <2>1. Mismatch => sy.boot
        BY <1>0 DEF Mismatch
    <2> QED BY <1>0, <1>1, <2>1, MismatchKept
<1>5. ASSUME Faithful PROVE Faithful'
    <2>1. Holds(tables, chain, seen, {state.last}) /\ seen \in 0..Len(chain) /\ Lawful(chain)
        BY <1>0, <1>5, HeldNow
    <2>2. PICK m : m = sy.market
        OBVIOUS
    <2>3. PICK tb : tb = tables
        OBVIOUS
    <2>4. Holds([tb EXCEPT !.markets = Put(@, m, StatusOf(LogsUpTo(chain, Len(chain)), m))], chain, Len(chain), {state.last})
        BY <2>1, <2>3, HoldsSeedStatus
    <2>5. Holds(t, chain, Len(chain), {state.last})
        BY <2>2, <2>3, <2>4 DEF ChainLogs
    <2>6. sy'.head \in Nat /\ sy'.head <= Len(chain)
        BY <1>0, <1>5, DepthIs
    <2> QED BY <1>0, <1>5, <2>5, <2>6, SeedFaith
<1> QED BY <1>0, <1>3, <1>4, <1>5 DEF Sound

\* What follows the last market: the next pass, the range, or nothing yet.
LEMMA IndexEnds ==
    ASSUME Base, seedIndex
    PROVE  /\ Reads(sy') /\ sy'.head \in Nat /\ (sy'.head = sy.head \/ sy'.head = 0)
           /\ \/ pc' = "market" /\ sy'.boot = sy.boot /\ sy'.market \in Nat \ {0}
              \/ pc' = "idle" /\ sy' = NoRead
              \/ pc' = "logs" /\ ~sy.boot /\ sy'.last = state.last /\ sy'.last < sy'.to /\ sy'.to <= sy'.head
<1>1. Reads(sy) /\ sy.market \in Nat \ {0} /\ state.last \in Nat /\ state.hash \in Nat
    BY TypedIs DEF seedIndex, Base, Places, States
<1>2. CASE sy.market < sy.markets
    <2> PICK n : n = sy.market + 1
        OBVIOUS
    <2>1. pc' = "market" /\ sy' = [sy EXCEPT !.market = n] /\ n \in Nat \ {0}
        BY <1>1, <1>2 DEF seedIndex
    <2>2. Reads(sy') /\ sy'.head = sy.head /\ sy'.boot = sy.boot /\ sy'.market = n
        BY <1>1, <2>1 DEF Reads, Columns
    <2> QED BY <2>1, <2>2 DEF Reads
<1>3. CASE ~(sy.market < sy.markets) /\ sy.boot
    <2>1. pc' = "idle" /\ sy' = NoRead
        BY <1>3 DEF seedIndex
    <2> QED BY <2>1, NoReadIs
<1>4. CASE ~(sy.market < sy.markets) /\ ~sy.boot
    <2> PICK r : r = [sy EXCEPT !.last = state.last, !.hash = state.hash]
        OBVIOUS
    <2>1. Reads(r) /\ r.last = state.last /\ r.head = sy.head
        BY <1>1 DEF Reads, Columns
    <2>2. AskForLogs(r)
        BY <1>4 DEF seedIndex
    <2>3. \/ pc' = "idle" /\ sy' = NoRead
          \/ /\ pc' = "logs" /\ Reads(sy') /\ sy'.last = r.last /\ sy'.head = r.head
             /\ sy'.last < sy'.to /\ sy'.to <= sy'.head
        BY <2>1, <2>2, Asked
    <2> QED BY <1>4, <2>1, <2>3, NoReadIs DEF Reads
<1> QED BY <1>2, <1>3, <1>4

LEMMA SeedIndexStep ==
    ASSUME Sound, seedIndex
    PROVE  Sound'
<1> PICK t : t = [tables EXCEPT !.price = Put(@, sy.market, PricesOf(ChainLogs)[sy.market])]
    OBVIOUS
<1>0. /\ Base /\ pc = "index" /\ Seed(t) /\ sy.market <= MarketCount(ChainLogs)
      /\ UNCHANGED <<chain, spent, lost, pause>>
    BY DEF Sound, seedIndex
<1>1. /\ state' = state /\ tables' = t /\ disk'.state = state /\ disk'.tables = t /\ seen' \in Nat
    BY <1>0, SeedIs
<1>2. /\ Reads(sy') /\ sy'.head \in Nat /\ (sy'.head = sy.head \/ sy'.head = 0)
      /\ \/ pc' = "market" /\ sy'.boot = sy.boot /\ sy'.market \in Nat \ {0}
         \/ pc' = "idle" /\ sy' = NoRead
         \/ pc' = "logs" /\ ~sy.boot /\ sy'.last = state.last /\ sy'.last < sy'.to /\ sy'.to <= sy'.head
    BY <1>0, IndexEnds
<1>3. Places'
    BY <1>0, <1>1, <1>2 DEF Places
<1>4. Base'
    BY <1>0, <1>1, <1>2, <1>3, BaseKept, TypedIs
<1>5. Mismatch => Mismatch'
    <2>1. Mismatch => sy.boot
        BY <1>0 DEF Mismatch
    <2>2. Mismatch => pc' = "idle" \/ (pc' = "market" /\ sy'.boot)
        BY <1>2, <2>1
    <2> QED BY <1>0, <1>1, <2>2, MismatchKept
<1>6. ASSUME Faithful PROVE Faithful'
    <2>1. Holds(tables, chain, seen, {state.last}) /\ seen \in 0..Len(chain) /\ Lawful(chain)
        BY <1>0, <1>6, HeldNow
    <2>2. PICK m : m = sy.market
        OBVIOUS
    <2>3. PICK tb : tb = tables
        OBVIOUS
    <2>4. m \in Nat \ {0} /\ m <= MarketCount(LogsUpTo(chain, Len(chain)))
        BY <1>0, <2>2 DEF Base, Places, ChainLogs
    <2>5. Holds([tb EXCEPT !.price = Put(@, m, PricesOf(LogsUpTo(chain, Len(chain)))[m])], chain, Len(chain), {state.last})
        BY <2>1, <2>3, <2>4, HoldsSeedPrice
    <2>6. Holds(t, chain, Len(chain), {state.last})
        BY <2>2, <2>3, <2>5 DEF ChainLogs
    <2>7. sy'.head <= Len(chain)
        BY <1>0, <1>2, <1>6, DepthIs
    <2> QED BY <1>0, <1>2, <1>6, <2>6, <2>7, SeedFaith
<1> QED BY <1>0, <1>4, <1>5, <1>6 DEF Sound

-----------------------------------------------------------------------------
(* A range is applied, and committed *)
LEMMA ApplyStep ==
    ASSUME Sound, applyRange
    PROVE  Sound'
<1>0. /\ Base /\ pc = "logs" /\ pc' = "tip" /\ tables' \in applyAll(tables, RangeLogs)
      /\ UNCHANGED <<chain, spent, state, disk, sy, seen, lost, pause>>
    BY DEF Sound, applyRange
<1>1. Places'
    BY <1>0 DEF Base, Places
<1>2. Base'
    BY <1>0, <1>1, BaseKept, TypedIs
<1>3. ~Mismatch
    BY <1>0 DEF Mismatch
<1>4. ASSUME Faithful PROVE Faithful'
    <2>1. /\ seen \in 0..Len(chain) /\ sy.head <= Len(chain) /\ sy.head \in Nat /\ Len(chain) \in Nat
          /\ Lawful(chain)
        BY <1>0, <1>4, DepthIs
    <2>2. sy.to \in Nat /\ sy.last \in Nat /\ state.last \in Nat
        BY <1>0, TypedIs DEF Reads, States
    <2>3. sy.last < sy.to /\ sy.to <= sy.head
        BY <1>0, <1>4 DEF Faithful
    <2>4. sy.to \in 0..Len(chain) /\ Lesser(sy.to, Len(chain)) = sy.to
        BY <2>1, <2>2, <2>3 DEF Lesser
    <2>5. RangeLogs = LogsAfter(chain, sy.last, sy.to)
        BY <2>4 DEF RangeLogs
    <2>6. Reach = seen /\ Floors = {state.last, sy.last}
        BY <1>0 DEF Reach, Floors
    <2>7. PICK c, r, from, to, tb, after, F :
             /\ c = chain /\ r = seen /\ from = sy.last /\ to = sy.to /\ tb = tables /\ after = tables'
             /\ F = {state.last, sy.last}
        OBVIOUS
    <2>8. Holds(tb, c, r, F)
        BY <1>4, <2>6, <2>7 DEF Faithful
    <2>9. after \in applyAll(tb, LogsAfter(c, from, to))
        BY <1>0, <2>5, <2>7
    <2>10. /\ Lawful(c) /\ r \in 0..Len(c) /\ F \subseteq Nat /\ from \in F /\ to \in 0..Len(c) /\ from < to
        BY <2>1, <2>2, <2>3, <2>4, <2>7
    <2>11. Holds(after, c, Greater(r, to), F \cup {to})
        BY <2>8, <2>9, <2>10, HoldsRange
    <2>12. Reach' = Greater(seen, sy.to) /\ Floors' = {state.last, sy.to}
        BY <1>0 DEF Reach, Floors
    <2>13. Holds(after, c, Greater(r, to), {state.last, sy.to})
        <3> PICK G : G = {state.last, sy.to}
            OBVIOUS
        <3>1. /\ G \subseteq Nat /\ F \cup {to} \subseteq Nat
              /\ \A y \in G : \E x \in F \cup {to} : y <= x
            BY <2>2, <2>7
        <3>2. Greater(r, to) \in Nat
            BY <2>10 DEF Greater
        <3> QED BY <3>1, <3>2, <2>11, HoldsLower
    <2>14. Holds(tables, chain, Reach, Floors)'
        BY <1>0, <2>7, <2>12, <2>13
    <2>15. Depth' <= Len(chain')
        BY <1>0, <1>4 DEF Faithful, Depth
    <2>16. Holds(disk.tables, chain, seen, {disk.state.last})'
        BY <1>0, <1>4 DEF Faithful
    <2> QED BY <1>0, <2>3, <2>14, <2>15, <2>16 DEF Faithful
<1> QED BY <1>0, <1>2, <1>3, <1>4 DEF Sound

LEMMA CommittedStep ==
    ASSUME Sound, commit
    PROVE  Sound'
<1> PICK h : h = HashAt(sy.to)
    OBVIOUS
<1> PICK to : to = sy.to
    OBVIOUS
<1>0. /\ Base /\ pc = "tip" /\ pc' = "idle" /\ sy' = NoRead
      /\ state' = [state EXCEPT !.last = to, !.hash = h] /\ tables' = tables
      /\ disk'.state = state' /\ disk'.tables = tables /\ seen' = Greater(seen, to)
      /\ UNCHANGED <<chain, spent, lost>>
    BY DEF Sound, commit
<1>1. state \in States /\ to \in Nat /\ seen \in Nat /\ Reads(sy) /\ spent.mined \in Nat
    BY <1>0, TypedIs DEF Reads, Base, Typed
<1>2. h \in Nat /\ h <= spent.mined + 1 /\ (h # NoHash => to > 0)
    <2>1. HashAt(sy.to) # NoHash => sy.to \in 1..Len(chain) /\ HashAt(sy.to) \in 1..(spent.mined + 1)
        BY <1>0, HashThere DEF Base
    <2>2. CASE h = NoHash
        BY <1>1, <2>2 DEF NoHash
    <2>3. CASE h # NoHash
        BY <1>1, <2>1, <2>3
    <2> QED BY <2>2, <2>3
<1>3. state' \in States /\ state'.last = to /\ state'.hash = h
    BY <1>0, <1>1, <1>2 DEF States
<1>4. seen' \in Nat
    BY <1>0, <1>1 DEF Greater
<1>5. Hashed(state', spent.mined)
    BY <1>2, <1>3 DEF Hashed
<1>6. Places'
    BY <1>0 DEF Places
<1>7. Base'
    BY <1>0, <1>3, <1>4, <1>5, <1>6, NoReadIs, BaseKept
<1>8. ~Mismatch
    BY <1>0 DEF Mismatch
<1>9. ASSUME Faithful PROVE Faithful'
    <2>1. seen <= Len(chain) /\ sy.head <= Len(chain) /\ sy.head \in Nat /\ Len(chain) \in Nat
        BY <1>0, <1>9, DepthIs
    <2>2. to <= sy.head
        BY <1>0, <1>9 DEF Faithful
    <2>3. Depth' <= Len(chain')
        BY <1>0, <1>1, <2>1, <2>2, NoReadIs DEF Depth, Greater
    <2>4. Reach = Greater(seen, to) /\ to \in Floors /\ Floors \subseteq Nat
        BY <1>0, FloorsNat DEF Reach, Floors
    <2>5. Reach' = Greater(seen, to) /\ Floors' = {to}
        BY <1>0, <1>3 DEF Reach, Floors
    <2>6. Holds(tables, chain, Reach, Floors) /\ Reach \in Nat
        BY <1>0, <1>9, FloorsNat DEF Faithful
    <2>7. \A y \in {to} : \E x \in Floors : y <= x
        BY <1>1, <2>4
    <2>8. Holds(tables, chain, Reach, {to})
        BY <1>1, <2>4, <2>6, <2>7, HoldsLower
    <2>9. Holds(tables, chain, Reach, Floors)'
        BY <1>0, <2>4, <2>5, <2>8
    <2>10. Holds(disk.tables, chain, seen, {disk.state.last})'
        BY <1>0, <1>3, <2>4, <2>8
    <2> QED BY <1>0, <2>3, <2>9, <2>10 DEF Faithful
<1> QED BY <1>0, <1>7, <1>8, <1>9 DEF Sound

-----------------------------------------------------------------------------
(* Back to what is committed *)
LEMMA BackStep ==
    ASSUME Sound, UNCHANGED spent \/ Spend("faults"), pc' \in {"idle", "down"}, sy' = NoRead,
           state' = disk.state, tables' = disk.tables, UNCHANGED <<chain, disk, seen, lost>>
    PROVE  Sound'
<1>0. Base
    BY DEF Sound
<1>1. Places'
    BY DEF Places
<1>2. Base'
    BY <1>0, <1>1, BaseKept, TypedIs, NoReadIs
<1>3. Mismatch => Mismatch'
    <2>1. Mismatch => disk.state = state
        BY <1>0 DEF Mismatch, Base, Places
    <2> QED BY <2>1, MismatchKept
<1>4. ASSUME Faithful PROVE Faithful'
    <2>1. /\ seen <= Len(chain) /\ seen \in Nat /\ Len(chain) \in Nat
        BY <1>0, <1>4, DepthIs
    <2>2. Depth' <= Len(chain')
        BY <2>1, NoReadIs DEF Depth, Greater
    <2>3. Reach' = seen /\ Floors' = {disk.state.last}
        BY DEF Reach, Floors
    <2>4. Holds(disk.tables, chain, seen, {disk.state.last})
        BY <1>4 DEF Faithful
    <2>5. Holds(tables, chain, Reach, Floors)'
        BY <2>3, <2>4
    <2>6. Holds(disk.tables, chain, seen, {disk.state.last})'
        BY <2>4
    <2> QED BY <2>2, <2>5, <2>6 DEF Faithful
<1> QED BY <1>2, <1>3, <1>4 DEF Sound

LEMMA ThrownStep ==
    ASSUME Sound, requestFails \/ marketGone \/ statementFails \/ crash
    PROVE  Sound'
<1>1. /\ UNCHANGED spent \/ Spend("faults")
      /\ pc' \in {"idle", "down"} /\ sy' = NoRead /\ state' = disk.state /\ tables' = disk.tables
      /\ UNCHANGED <<chain, disk, seen, lost>>
    BY DEF requestFails, marketGone, statementFails, crash, Throw
<1> QED BY <1>1, BackStep

(* The administrator *)
LEMMA PausedStep ==
    ASSUME Sound, NEW flag \in BOOLEAN, setPaused(flag)
    PROVE  Sound'
<1> PICK s : s = [state EXCEPT !.paused = flag]
    OBVIOUS
<1>0. /\ Base /\ Serving /\ Spend("faults") /\ Write(s, tables)
      /\ UNCHANGED <<chain, pc, sy, seen, lost>>
    BY DEF Sound, setPaused
<1>1. s \in States /\ s.last = state.last /\ s.hash = state.hash
    BY <1>0, TypedIs DEF States
<1>2. /\ state' = s /\ tables' = tables
      /\ pc = "tip" => disk' = disk
      /\ pc # "tip" => disk'.state = s /\ disk'.tables = tables
    BY <1>0, WriteIs
<1>3. Hashed(s, spent.mined) /\ disk'.state \in States /\ Hashed(disk'.state, spent.mined)
    BY <1>0, <1>1, <1>2, TypedIs DEF Hashed
<1>4. Places'
    BY <1>0, <1>1, <1>2 DEF Base, Places
<1>5. Base'
    BY <1>0, <1>1, <1>2, <1>3, <1>4, BaseKept, TypedIs
<1>6. Mismatch => Mismatch'
    <2>1. Mismatch => pc \in {"down", "idle", "head", "check"} \/ (pc \in {"count", "market", "index"} /\ sy.boot)
        BY DEF Mismatch
    <2> QED BY <1>0, <1>1, <1>2, <2>1, MismatchKept
<1>7. ASSUME Faithful PROVE Faithful'
    <2>1. Depth' = Depth /\ Reach' = Reach /\ Floors' = Floors
        BY <1>0, <1>1, <1>2 DEF Depth, Reach, Floors
    <2>2. disk'.tables = disk.tables /\ disk'.state.last = disk.state.last
        BY <1>0, <1>1, <1>2 DEF Base, Places
    <2>3. Holds(tables, chain, Reach, Floors)'
        BY <1>0, <1>2, <1>7, <2>1 DEF Faithful
    <2>4. Holds(disk.tables, chain, seen, {disk.state.last})'
        BY <1>0, <1>7, <2>2 DEF Faithful
    <2>5. Depth' <= Len(chain') /\ (pc' \in {"logs", "tip"} => sy'.last < sy'.to /\ sy'.to <= sy'.head)
        BY <1>0, <1>7, <2>1 DEF Faithful
    <2> QED BY <2>3, <2>4, <2>5 DEF Faithful
<1> QED BY <1>0, <1>5, <1>6, <1>7 DEF Sound

LEMMA RewoundStep ==
    ASSUME Sound, NEW h \in 0..MaxHeight, rewindTo(h)
    PROVE  Sound'
<1> PICK s : s = [state EXCEPT !.last = h, !.hash = NoHash]
    OBVIOUS
<1>0. /\ Base /\ Serving /\ Spend("faults") /\ Write(s, tables)
      /\ lost' = (lost \/ h > state.last \/ (state.hash # NoHash /\ HashAt(state.last) # state.hash))
      /\ UNCHANGED <<chain, pc, sy, seen, pause>>
    BY DEF Sound, rewindTo
<1>1. s \in States /\ s.last = h /\ s.hash = NoHash /\ h \in Nat /\ state.last \in Nat
    <2>1. h \in Nat
        BY IndexerAssumption DEF IndexerAssumption
    <2> QED BY <1>0, <2>1, TypedIs DEF States, NoHash
<1>2. /\ state' = s /\ tables' = tables
      /\ pc = "tip" => disk' = disk
      /\ pc # "tip" => disk'.state = s /\ disk'.tables = tables
    BY <1>0, WriteIs
<1>3. Hashed(s, spent.mined) /\ disk'.state \in States /\ Hashed(disk'.state, spent.mined)
    <2>1. spent.mined \in Nat
        BY <1>0 DEF Base, Typed
    <2>2. Hashed(s, spent.mined)
        BY <1>1, <2>1 DEF Hashed, NoHash
    <2> QED BY <1>0, <1>1, <1>2, <2>2, TypedIs
<1>4. Places'
    BY <1>0, <1>1, <1>2 DEF Base, Places
<1>5. Base'
    BY <1>0, <1>1, <1>2, <1>3, <1>4, BaseKept, TypedIs
<1>6. Mismatch => lost'
    BY <1>0 DEF Mismatch
<1>7. ASSUME Faithful, ~lost' PROVE Faithful'
    <2>1. h <= state.last
        <3>1. ~(h > state.last)
            BY <1>0, <1>7, Zenon
        <3> QED BY <1>1, <3>1
    <2>2. Floors \subseteq Nat /\ Reach \in Nat /\ state.last \in Floors
        BY <1>0, FloorsNat
    <2>3. Depth' = Depth /\ Reach' = Reach /\ Floors' \subseteq Floors \cup {h}
        BY <1>0, <1>1, <1>2 DEF Depth, Reach, Floors
    <2>4. Holds(tables, chain, Reach, Floors')
        <3> PICK G : G = Floors'
            OBVIOUS
        <3>1. G \subseteq Nat
            BY <1>1, <2>2, <2>3
        <3>2. \A y \in G : \E x \in Floors : y <= x
            <4> TAKE y \in G
            <4>1. CASE y \in Floors
                <5>1. y <= y
                    BY <2>2, <4>1
                <5> QED BY <4>1, <5>1
            <4>2. CASE y \notin Floors
                BY <2>1, <2>2, <2>3, <4>2
            <4> QED BY <4>1, <4>2
        <3>3. Holds(tables, chain, Reach, Floors)
            BY <1>7 DEF Faithful
        <3> QED BY <2>2, <3>1, <3>2, <3>3, HoldsLower
    <2>5. Holds(tables, chain, Reach, Floors)'
        BY <1>0, <1>2, <2>3, <2>4
    <2>6. Holds(disk.tables, chain, seen, {disk.state.last})'
        <3>1. CASE pc = "tip"
            BY <1>0, <1>2, <1>7, <3>1 DEF Faithful
        <3>2. CASE pc # "tip"
            <4>1. disk'.tables = disk.tables /\ disk'.state.last = h /\ disk.state.last = state.last
                BY <1>0, <1>1, <1>2, <3>2 DEF Base, Places
            <4>2. Holds(disk.tables, chain, seen, {state.last}) /\ seen \in Nat
                BY <1>0, <1>7, <4>1, TypedIs DEF Faithful
            <4> PICK x : x = state.last
                OBVIOUS
            <4>3. {x} \subseteq Nat /\ {h} \subseteq Nat /\ \A y \in {h} : \E z \in {x} : y <= z
                BY <1>1, <2>1
            <4>4. Holds(disk.tables, chain, seen, {h})
                BY <4>2, <4>3, HoldsLower
            <4> QED BY <1>0, <4>1, <4>4
        <3> QED BY <3>1, <3>2
    <2>7. Depth' <= Len(chain') /\ (pc' \in {"logs", "tip"} => sy'.last < sy'.to /\ sy'.to <= sy'.head)
        BY <1>0, <1>7, <2>3 DEF Faithful
    <2> QED BY <2>5, <2>6, <2>7 DEF Faithful
<1> QED BY <1>0, <1>5, <1>6, <1>7 DEF Sound

-----------------------------------------------------------------------------
LEMMA IdleStep ==
    ASSUME Sound, UNCHANGED vars
    PROVE  Sound'
<1>1. UNCHANGED <<chain, spent, state, tables, disk, pc, sy, seen, lost, pause>>
    BY DEF vars
<1>2. Base'
    BY <1>1 DEF Sound, Base, ChainLaw, Typed, Places
<1>3. Mismatch => Mismatch'
    BY <1>1 DEF Mismatch, HashAt
<1>4. Faithful => Faithful'
    BY <1>1 DEF Faithful, Depth, Reach, Floors
<1> QED BY <1>1, <1>2, <1>3, <1>4 DEF Sound

LEMMA SoundInit == Init => Sound
<1> SUFFICES ASSUME Init PROVE Sound
    OBVIOUS
<1>1. /\ chain = <<Genesis>> /\ spent = [b \in DOMAIN Budget |-> 0]
      /\ state = [last |-> 0, hash |-> NoHash, paused |-> FALSE] /\ tables = NoRows
      /\ disk.state = state /\ disk.tables = tables
      /\ pc = "down" /\ sy = NoRead /\ seen = 0
    BY DEF Init
<1>2. Lawful(chain) /\ (\E T : chain \in Seq(T)) /\ Len(chain) = 1 /\ chain[1].hash = 1
    BY <1>1, GenesisIsLawful
<1>3. spent \in [{"mined", "reverts", "faults"} -> Nat] /\ spent.mined = 0
    BY <1>1 DEF Budget
<1>4. ChainLaw
    BY <1>2, <1>3 DEF ChainLaw
<1>5. state \in States /\ disk.state \in States /\ state.hash = 0 /\ state.last = 0
    BY <1>1 DEF States, NoHash
<1>6. Typed /\ Hashed(state, spent.mined) /\ Hashed(disk.state, spent.mined)
    BY <1>1, <1>3, <1>5, NoReadIs DEF Typed, Hashed, NoHash
<1>7. Places
    BY <1>1 DEF Places
<1>8. Depth <= Len(chain)
    BY <1>1, <1>2, NoReadIs DEF Depth, Greater
<1>9. Floors = {0} /\ Reach = 0
    BY <1>1, <1>5 DEF Floors, Reach
<1>10. Holds(NoRows, chain, 0, {0})
    BY HoldsEmpty
<1>11. Faithful
    BY <1>1, <1>5, <1>8, <1>9, <1>10 DEF Faithful
<1> QED BY <1>4, <1>6, <1>7, <1>11 DEF Sound, Base

LEMMA SoundStep == Sound /\ [Next]_vars => Sound'
<1> SUFFICES ASSUME Sound, [Next]_vars PROVE Sound'
    OBVIOUS
<1>1. CASE \E txs \in Blocks : Mine(txs)
    BY <1>1, MineStep
<1>2. CASE \E h \in 1..Len(chain) : Revert(h)
    <2>1. PICK n : n = Len(chain)
        OBVIOUS
    <2>2. PICK h \in 1..n : Revert(h)
        BY <1>2, <2>1
    <2> QED BY <2>1, <2>2, RevertStep
<1>3. CASE Pass
    BY <1>3, TickStep, HeadStep, SameStep, RebuildStep, CountStep, SeedMarketStep, SeedIndexStep,
       ApplyStep, CommittedStep, ThrownStep DEF Pass
<1>4. CASE requestFails \/ crash
    BY <1>4, ThrownStep
<1>5. CASE \E flag \in BOOLEAN : setPaused(flag)
    BY <1>5, PausedStep
<1>6. CASE \E h \in 0..MaxHeight : rewindTo(h)
    BY <1>6, RewoundStep
<1>7. CASE start
    BY <1>7, StartStep
<1>8. CASE UNCHANGED vars
    BY <1>8, IdleStep
<1> QED BY <1>1, <1>2, <1>3, <1>4, <1>5, <1>6, <1>7, <1>8 DEF Next

\* Caught up means that no reversion is waiting to be noticed: what is held reaches the head.
LEMMA SoundIsExact == Sound => CaughtUpIsExact
<1> SUFFICES ASSUME Sound, CaughtUp, ~lost
             PROVE  /\ disk.tables.orders = OrdersOf(ChainLogs)
                    /\ disk.tables.positions = PositionsOf(ChainLogs)
                    /\ disk.tables.accounts = AccountsOf(ChainLogs)
                    /\ disk.tables.price = PricesOf(ChainLogs)
                    /\ disk.tables.rows = RowsOf(ChainLogs)
                    /\ \A m \in DOMAIN disk.tables.markets : disk.tables.markets[m] = StatusOf(ChainLogs, m)
    BY DEF CaughtUpIsExact
<1>1. Base /\ (Mismatch \/ Faithful)
    BY DEF Sound
<1>2. ~Mismatch
    BY <1>1 DEF Mismatch, Base, Places, CaughtUp
<1>3. Faithful
    BY <1>1, <1>2
<1>4. seen <= Len(chain) /\ Len(chain) \in Nat /\ seen \in Nat
    BY <1>1, <1>3, DepthIs
<1>5. PICK T \in 0..seen : /\ Agree(disk.tables, LogsUpTo(chain, T), LogsUpTo(chain, seen))
                           /\ \A x \in {disk.state.last} : x <= T
    BY <1>3 DEF Faithful, Holds
<1>6. T = Len(chain) /\ seen = Len(chain)
    BY <1>4, <1>5 DEF CaughtUp
<1>7. Agree(disk.tables, ChainLogs, ChainLogs)
    BY <1>5, <1>6 DEF ChainLogs
<1> QED BY <1>7, AgreeIsExact

\* Whatever the chain and its transactions, however passes, reversions, failed
\* requests, crashes, rebuilds and an administrator's writes interleave: a store that
\* says it has caught up holds, row for row, what the chain's logs say, unless the
\* chain was moved under it where no stored hash could tell (runRange, rebuildFromChain,
\* seedMarkets and every handler of apply, in indexer.js).
THEOREM StoreIsTheChain == Spec => []CaughtUpIsExact
<1>1. Spec => []Sound
    BY SoundInit, SoundStep, PTL DEF Spec
<1>2. Sound => CaughtUpIsExact
    BY SoundIsExact
<1> QED BY <1>1, <1>2, PTL
=============================================================================
