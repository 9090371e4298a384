------------------------------ MODULE Bot_proofs ------------------------------
(* What the bot's calls promise, for any orders, limits, tries and faults: an *)
(* order is on the chain once per user order id, and once more per attempt    *)
(* given up after the node had taken it; the position keeps inside the cap    *)
(* the gate checks; and an account flatten calls flat is flat.                *)
EXTENDS Bot, FiniteSetTheorems, FunctionTheorems, SequenceTheorems, TLAPS

OrderForms ==
    [market : {TheMarket}, side : {"Buy", "Sell"}, size : Int, price : Int,
     type : PricedTypes \cup {"Market"}, reduceOnly : BOOLEAN, uid : Nat]
Txs == [kind : {"place"}, order : OrderForms, id : Nat]
       \cup [kind : {"cancel", "cancelAll"}, order : {<<>>}, id : Nat]
PoolTxs == [kind : {"place"}, order : OrderForms, id : Nat, nonce : Nat]
           \cup [kind : {"cancel", "cancelAll"}, order : {<<>>}, id : Nat, nonce : Nat]
RestForms == [id : Nat, uid : Nat, size : Int]
Awaits == {"read", "plan", "nonce", "simulate", "send", "receipt", "reread", "size",
           "after", "account"}
Tasks == [call : {"place", "cancel", "cancelAll", "flatten"}, at : Awaits, tx : Txs,
          tries : 1 .. MaxTries, have : Int, live : BOOLEAN, nonce : Nat,
          receipt : {"none", "ok", "failed"}]
Engines == [specs : {Specs}, maxOrderSize : Nat, maxPositionSize : Nat,
            killSwitch : BOOLEAN, dryRun : BOOLEAN, seen : SUBSET Nat]

Idling == task.at = "idle"

Shapes ==
    /\ engine \in Engines
    /\ Idling \/ task \in Tasks
    /\ task.at \in {"read", "plan"} => task.tx.kind = "place"
    /\ position \in Int /\ resting \in Seq(RestForms)
    /\ pool \in Seq(PoolTxs) /\ sent \in Nat
    /\ placed \in [Uids -> Nat] /\ unanswered \in Nat

\* The id a transaction places an order under.
UidOf(tx) == IF tx.kind = "place" THEN tx.order.uid ELSE NoUid
Under(s, u) == {k \in 1 .. Len(s) : UidOf(s[k]) = u}

\* Orders under an id that are on the chain or may still get there without
\* the bot's doing anything.
Total(u) == placed[u] + Cardinality(Under(pool, u))

\* The write under way may still send an order under the id, or waits for one.
Writing(u) == task.at \in {"nonce", "simulate", "send", "receipt"} /\ UidOf(task.tx) = u
\* The try under way is in the node's hands, or mined.
Trying == IF task.at = "receipt" /\ task.receipt # "failed" THEN 1 ELSE 0

\* The transaction a receipt is waited for is the one that was sent.
PoolIsOurs == \A k \in 1 .. Len(pool) :
    /\ pool[k].nonce <= sent
    /\ task.at = "receipt" /\ pool[k].nonce = task.nonce => UidOf(pool[k]) = UidOf(task.tx)

UnseenIsUnsent == \A u \in Uids \ {NoUid} :
    u \notin engine.seen => Total(u) = 0 /\ ~Writing(u)

TriesCover == \A u \in Uids \ {NoUid} :
    Writing(u) => Total(u) <= task.tries - 1 + Trying /\ Total(u) <= unanswered + Trying

TotalBounded == \A u \in Uids \ {NoUid} :
    Total(u) <= MaxTries /\ Total(u) <= unanswered + 1

IInv == Shapes /\ PoolIsOurs /\ UnseenIsUnsent /\ TriesCover /\ TotalBounded

(***************************************************************************)
(* Counting the transactions of an id in the node's pool.                  *)
(***************************************************************************)
LEMMA UnderFinite ==
    ASSUME NEW s \in Seq(PoolTxs), NEW u
    PROVE  IsFiniteSet(Under(s, u)) /\ Cardinality(Under(s, u)) \in Nat
<1>1. IsFiniteSet(1 .. Len(s)) /\ Under(s, u) \subseteq 1 .. Len(s)
    BY FS_Interval DEF Under
<1> QED BY <1>1, FS_Subset, FS_CardinalityType

LEMMA AppendCounts ==
    ASSUME NEW s \in Seq(PoolTxs), NEW tx \in PoolTxs, NEW u
    PROVE  Cardinality(Under(Append(s, tx), u))
             = Cardinality(Under(s, u)) + (IF UidOf(tx) = u THEN 1 ELSE 0)
<1> DEFINE n == Len(s) + 1
<1>1. /\ n \in Nat /\ Len(Append(s, tx)) = n
      /\ Append(s, tx)[n] = tx
      /\ \A k \in 1 .. Len(s) : Append(s, tx)[k] = s[k]
    OBVIOUS
<1>2. Under(Append(s, tx), u) = IF UidOf(tx) = u THEN Under(s, u) \cup {n} ELSE Under(s, u)
    <2> HIDE DEF n
    <2>1. 1 .. n = (1 .. Len(s)) \cup {n} /\ n \notin 1 .. Len(s)
        BY <1>1 DEF n
    <2> QED BY <1>1, <2>1 DEF Under
<1>3. n \notin Under(s, u)
    BY DEF Under
<1>4. IsFiniteSet(Under(s, u)) /\ Cardinality(Under(s, u)) \in Nat
    BY UnderFinite
<1>5. Cardinality(Under(s, u) \cup {n}) = Cardinality(Under(s, u)) + 1
    BY <1>3, <1>4, FS_AddElement
<1> HIDE DEF n
<1> QED BY <1>2, <1>4, <1>5

LEMMA TailCounts ==
    ASSUME NEW s \in Seq(PoolTxs), s # <<>>, NEW u
    PROVE  Cardinality(Under(s, u))
             = Cardinality(Under(Tail(s), u)) + (IF UidOf(Head(s)) = u THEN 1 ELSE 0)
<1> DEFINE A == Under(s, u) \ {1}
           B == Under(Tail(s), u)
           f == [k \in A |-> k - 1]
<1>1. /\ Tail(s) \in Seq(PoolTxs) /\ Len(Tail(s)) = Len(s) - 1 /\ Len(s) \in Nat \ {0}
      /\ \A k \in 1 .. Len(s) - 1 : Tail(s)[k] = s[k + 1]
      /\ Head(s) = s[1]
    OBVIOUS
<1>2. A \subseteq 2 .. Len(s)
    BY <1>1 DEF Under
<1>3. f \in Bijection(A, B)
    <2>1. f \in [A -> B]
        BY <1>1, <1>2 DEF Under
    <2>2. \A x, y \in A : f[x] = f[y] => x = y
        BY <1>2
    <2>3. \A t \in B : \E x \in A : f[x] = t
        <3> TAKE t \in B
        <3>1. t \in 1 .. Len(s) - 1 /\ UidOf(s[t + 1]) = u
            BY <1>1 DEF Under
        <3>2. t + 1 \in A /\ f[t + 1] = t
            BY <3>1, <1>1 DEF Under
        <3> QED BY <3>2
    <2> QED BY <2>1, <2>2, <2>3 DEF Bijection, Injection, Surjection, IsInjective
<1>4. Cardinality(B) = Cardinality(A)
    <2>1. IsFiniteSet(A)
        BY UnderFinite, FS_RemoveElement
    <2>2. ExistsBijection(A, B)
        BY <1>3 DEF ExistsBijection
    <2> QED BY <2>1, <2>2, FS_Bijection
<1>5. 1 \in Under(s, u) <=> UidOf(Head(s)) = u
    BY <1>1 DEF Under
<1>6. Cardinality(A) = IF 1 \in Under(s, u) THEN Cardinality(Under(s, u)) - 1
                                             ELSE Cardinality(Under(s, u))
    BY UnderFinite, FS_RemoveElement
<1>7. Cardinality(Under(s, u)) \in Nat
    BY UnderFinite
<1> HIDE DEF A, B
<1> QED BY <1>4, <1>5, <1>6, <1>7 DEF B

LEMMA TotalType ==
    ASSUME Shapes, NEW u \in Uids
    PROVE  Total(u) \in Nat /\ placed[u] \in Nat /\ placed[u] <= Total(u)
<1>1. placed[u] \in Nat /\ Cardinality(Under(pool, u)) \in Nat
    BY UnderFinite DEF Shapes
<1> QED BY <1>1 DEF Total

(***************************************************************************)
(* Steps that send nothing and mine nothing: the write under way loses no  *)
(* try it has paid for.                                                    *)
(***************************************************************************)
QuietTask ==
    /\ \A u \in Uids \ {NoUid} : Writing(u)' =>
         /\ Writing(u)
         /\ task'.tries + Trying' >= task.tries + Trying
         /\ unanswered' + Trying' >= unanswered + Trying
    /\ task'.at = "receipt" => task.at = "receipt" /\ task'.nonce = task.nonce /\ task'.tx = task.tx

LEMMA QuietKeeps ==
    ASSUME IInv, Shapes', QuietTask, UNCHANGED <<pool, sent, placed>>,
           unanswered' >= unanswered, engine'.seen = engine.seen
    PROVE  IInv'
<1>1. \A u \in Uids : Total(u)' = Total(u) /\ Total(u) \in Nat
    BY TotalType DEF IInv, Total
<1>2. PoolIsOurs'
    BY DEF IInv, PoolIsOurs, QuietTask
<1>3. UnseenIsUnsent'
    BY <1>1 DEF IInv, UnseenIsUnsent, QuietTask
<1>4. TotalBounded'
    BY <1>1 DEF IInv, TotalBounded, Shapes
<1>5. TriesCover'
    <2> SUFFICES ASSUME NEW u \in Uids \ {NoUid}, Writing(u)'
                 PROVE  Total(u)' <= (task.tries - 1 + Trying)' /\ Total(u)' <= (unanswered + Trying)'
        BY DEF TriesCover
    <2>1. /\ Total(u) <= task.tries - 1 + Trying /\ Total(u) <= unanswered + Trying
          /\ task'.tries + Trying' >= task.tries + Trying
          /\ unanswered' + Trying' >= unanswered + Trying
        BY DEF IInv, TriesCover, QuietTask
    <2>2. /\ task.tries \in Int /\ task'.tries \in Int /\ Trying \in Int /\ Trying' \in Int
          /\ unanswered \in Int /\ unanswered' \in Int
        <3>1. ~Idling /\ ~Idling'
            BY DEF Writing, Idling, QuietTask
        <3>2. task \in Tasks /\ task' \in Tasks /\ unanswered \in Nat /\ unanswered' \in Nat
            BY <3>1 DEF IInv, Shapes, Idling
        <3>3. task.tries \in 1 .. MaxTries /\ task'.tries \in 1 .. MaxTries
            BY <3>2 DEF Tasks
        <3>4. Trying \in {0, 1} /\ Trying' \in {0, 1}
            BY DEF Trying
        <3> QED BY <3>2, <3>3, <3>4, BotAssumption
    <2>3. Total(u)' = Total(u) /\ Total(u) \in Nat
        BY <1>1
    <2>4. Total(u) <= task'.tries - 1 + Trying' /\ Total(u) <= unanswered' + Trying'
        <3>1. \A a, b, c, d, e \in Int : a <= b - 1 + c /\ d + e >= b + c => a <= d - 1 + e
            OBVIOUS
        <3>2. \A a, b, c \in Int : a <= b /\ c >= b => a <= c
            OBVIOUS
        <3>3. Total(u) \in Int /\ unanswered + Trying \in Int /\ unanswered' + Trying' \in Int
            BY <2>2, <2>3
        <3>4. Total(u) <= task'.tries - 1 + Trying'
            BY <3>1, <3>3, <2>1, <2>2
        <3> QED BY <3>2, <3>3, <3>4, <2>1
    <2> QED BY <2>3, <2>4
<1> QED BY <1>2, <1>3, <1>4, <1>5 DEF IInv

LEMMA CallsKeep ==
    ASSUME IInv, Place \/ Cancel \/ CancelAll \/ Flatten
    PROVE  IInv'
<1>1. PICK t \in Tasks :
        /\ Call(t)
        /\ t.at \in {"read", "plan"} => t.tx.kind = "place"
        /\ t.at # "receipt"
        /\ t.at \in {"nonce", "simulate", "send", "receipt"} => UidOf(t.tx) = NoUid
    <2>1. CASE Place
        <3>1. PICK o \in Orders : Call(Start("place", "read", PlaceTx(o)))
            BY <2>1 DEF Place
        <3>2. PlaceTx(o) \in Txs
            BY BotAssumption DEF PlaceTx, Txs, OrderForms
        <3>3. Start("place", "read", PlaceTx(o)) \in Tasks
            BY <3>2, BotAssumption DEF Start, Tasks, Awaits
        <3>4. /\ Start("place", "read", PlaceTx(o)).at = "read"
              /\ Start("place", "read", PlaceTx(o)).tx.kind = "place"
            BY DEF Start, PlaceTx
        <3> HIDE DEF Start, PlaceTx
        <3> WITNESS Start("place", "read", PlaceTx(o)) \in Tasks
        <3> QED BY <3>1, <3>4
    <2>2. CASE Cancel
        <3>1. PICK k \in DOMAIN resting : Call(Start("cancel", "simulate", CancelTx(resting[k].id)))
            BY <2>2 DEF Cancel
        <3>2. CancelTx(resting[k].id) \in Txs
            <4>1. resting \in Seq(RestForms)
                BY DEF IInv, Shapes
            <4>2. resting[k].id \in Nat
                <5>1. resting[k] \in RestForms
                    BY <4>1
                <5> QED BY <5>1 DEF RestForms
            <4> QED BY <4>2 DEF CancelTx, Txs
        <3>3. Start("cancel", "simulate", CancelTx(resting[k].id)) \in Tasks
            BY <3>2, BotAssumption DEF Start, Tasks, Awaits
        <3> QED BY <3>1, <3>3 DEF Start, CancelTx, UidOf
    <2>3. CASE CancelAll \/ Flatten
        <3>1. PICK c \in {"cancelAll", "flatten"} : Call(Start(c, "simulate", CancelAllTx))
            BY <2>3 DEF CancelAll, Flatten
        <3>2. CancelAllTx \in Txs
            BY DEF CancelAllTx, Txs
        <3>3. Start(c, "simulate", CancelAllTx) \in Tasks
            BY <3>2, BotAssumption DEF Start, Tasks, Awaits
        <3>4. /\ Start(c, "simulate", CancelAllTx).at = "simulate"
              /\ UidOf(Start(c, "simulate", CancelAllTx).tx) = NoUid
            BY DEF Start, CancelAllTx, UidOf
        <3> QED BY <3>1, <3>3, <3>4
    <2> QED BY <2>1, <2>2, <2>3
<1>2. Shapes'
    BY <1>1 DEF Call, chain, IInv, Shapes, Idling
<1>3. QuietTask
    BY <1>1 DEF Call, QuietTask, Writing
<1> QED BY <1>1, <1>2, <1>3, QuietKeeps DEF Call, chain, IInv, Shapes

LEMMA SetSwitchKeeps ==
    ASSUME IInv, SetSwitch
    PROVE  IInv'
<1>1. PICK on \in BOOLEAN : engine' = [engine EXCEPT !.killSwitch = on]
    BY DEF SetSwitch, SetKillSwitch
<1>2. engine' \in Engines /\ engine'.seen = engine.seen
    BY <1>1 DEF IInv, Shapes, Engines
<1>3. Shapes' /\ unanswered' >= unanswered
    BY <1>2 DEF SetSwitch, chain, IInv, Shapes, Idling
<1>4. QuietTask
    <2>1. task' = task /\ unanswered' = unanswered
        BY DEF SetSwitch
    <2>2. \A u \in Uids \ {NoUid} : Writing(u)' => task.tries \in Int
        BY <2>1, BotAssumption DEF Writing, IInv, Shapes, Idling, Tasks
    <2> QED BY <2>1, <2>2 DEF QuietTask, Writing, Trying, IInv, Shapes
<1> QED BY <1>2, <1>3, <1>4, QuietKeeps DEF SetSwitch, chain

\* A task that goes on to another await, or ends.
LEMMA MovesKeep ==
    ASSUME IInv, engine' \in Engines, engine'.seen = engine.seen, UNCHANGED chain,
           unanswered' \in {unanswered, unanswered + 1},
           \/ task'.at = "idle"
           \/ task' \in Tasks /\ task'.at \notin {"read", "nonce", "simulate", "send", "receipt"}
              /\ (task'.at = "plan" => task'.tx.kind = "place")
           \/ task' \in Tasks /\ task'.at \notin {"read", "plan", "receipt"} /\ UidOf(task'.tx) = NoUid
    PROVE  IInv'
<1>1. Shapes' /\ unanswered' >= unanswered
    BY DEF chain, IInv, Shapes, Idling
<1>2. QuietTask
    BY DEF QuietTask, Writing
<1> QED BY <1>1, <1>2, QuietKeeps DEF chain

LEMMA TaskTyped ==
    ASSUME Shapes, task.at # "idle"
    PROVE  /\ task \in Tasks /\ task.tries \in 1 .. MaxTries /\ task.tx \in Txs
           /\ task.have \in Int /\ task.nonce \in Nat /\ MaxTries \in Nat \ {0}
<1>1. task \in Tasks
    BY DEF Shapes, Idling
<1> QED BY <1>1, BotAssumption DEF Tasks

\* The write is tried again: what its try has cost is in the count of tries.
LEMMA RetryKeeps ==
    ASSUME IInv, task.at \in {"simulate", "send", "receipt"}, Unreachable,
           engine' = engine, UNCHANGED chain,
           unanswered' \in {unanswered, unanswered + 1}, unanswered' >= unanswered + Trying
    PROVE  IInv'
<1>0. Trying \in {0, 1} /\ unanswered \in Nat
    BY DEF Trying, IInv, Shapes
<1>1. CASE LastTry(task.tries)
    <2>1. task'.at = "idle"
        BY <1>1 DEF Unreachable, Return, Idle
    <2> QED BY <2>1, <1>0, MovesKeep DEF IInv, Shapes
<1>2. CASE ~LastTry(task.tries)
    <2>1. task' = [task EXCEPT !.at = "simulate", !.tries = @ + 1, !.receipt = "none"]
        BY <1>2 DEF Unreachable
    <2>2. task \in Tasks /\ task.tries \in 1 .. MaxTries /\ task.tries # MaxTries
        BY <1>2, TaskTyped DEF IInv, LastTry
    <2>3. /\ task' \in Tasks /\ task'.at = "simulate" /\ task'.tx = task.tx
          /\ task'.tries = task.tries + 1
        <3>1. task.tries + 1 \in 1 .. MaxTries
            BY <2>2, BotAssumption
        <3> QED BY <2>1, <2>2, <3>1 DEF Tasks, Awaits
    <2>4. Shapes'
        BY <2>3, <1>0 DEF IInv, Shapes, chain, Idling
    <2>5. Trying' = 0
        BY <2>3 DEF Trying
    <2>6. QuietTask
        <3>1. task'.tries + Trying' >= task.tries + Trying
            BY <2>3, <2>2, <2>5, <1>0
        <3>2. unanswered' + Trying' >= unanswered + Trying
            <4>1. unanswered' \in Nat
                BY <1>0
            <4>2. \A a, b, c \in Int : b = 0 /\ a >= c => a + b >= c
                OBVIOUS
            <4>3. unanswered' \in Int /\ Trying' \in Int /\ unanswered + Trying \in Int
                BY <4>1, <2>5, <1>0
            <4> QED BY <4>2, <4>3, <2>5
        <3> QED BY <2>3, <3>1, <3>2 DEF QuietTask, Writing
    <2> QED BY <2>4, <2>6, <1>0, QuietKeeps DEF chain
<1> QED BY <1>1, <1>2

LEMMA EngineStays ==
    ASSUME IInv, engine' = engine
    PROVE  engine' \in Engines /\ engine'.seen = engine.seen /\ unanswered \in Nat
BY DEF IInv, Shapes

LEMMA ReturnIdles == \A r : Return(r) => task'.at = "idle"
BY DEF Return, Idle

LEMMA ReadsKeep ==
    ASSUME IInv, ReadPosition \/ NoReferencePrice \/ ReadNonce \/ RereadOrder
                 \/ FlattenAfter \/ FlattenReport
    PROVE  IInv'
<1>1. engine' = engine /\ UNCHANGED chain /\ unanswered' = unanswered
    BY DEF ReadPosition, NoReferencePrice, ReadNonce, RereadOrder, FlattenAfter, FlattenReport
<1>2. CASE task'.at = "idle"
    BY <1>1, <1>2, EngineStays, MovesKeep
<1>3. CASE task.at = "nonce" /\ task' = [task EXCEPT !.at = "simulate"]
    <2>1. /\ task' \in Tasks /\ task'.at = "simulate" /\ task'.tx = task.tx
          /\ task'.tries = task.tries /\ task.tries \in Int
        BY <1>3, TaskTyped DEF Tasks, Awaits, IInv
    <2>2. Shapes' /\ Trying = 0 /\ Trying' = 0
        BY <2>1, <1>1, <1>3 DEF IInv, Shapes, chain, Idling, Trying
    <2>3. QuietTask
        BY <2>1, <2>2, <1>1, <1>3, EngineStays DEF QuietTask, Writing
    <2> QED BY <2>2, <2>3, <1>1, EngineStays, QuietKeeps DEF chain
<1>4. CASE task.at \in {"read", "after"} /\ task'.at \in {"plan", "account"}
    <2>1. PICK at \in {"plan", "account"}, live \in BOOLEAN :
            /\ task' = [task EXCEPT !.at = at, !.have = position, !.live = live]
            /\ at = "plan" => task.at = "read"
        <3>1. CASE ReadPosition
            <4>1. task' = [task EXCEPT !.at = "plan", !.have = position, !.live = Live]
                BY <3>1, <1>4, ReturnIdles DEF ReadPosition
            <4>2. Live \in BOOLEAN /\ task.at = "read"
                BY <3>1 DEF ReadPosition, Live
            <4> QED BY <4>1, <4>2
        <3>2. CASE FlattenAfter
            <4>1. task' = [task EXCEPT !.at = "account", !.have = position]
                BY <3>2, <1>4 DEF FlattenAfter, Return, Idle
            <4>2. task \in Tasks
                BY <1>4, TaskTyped DEF IInv
            <4>3. task.live \in BOOLEAN /\ task = [task EXCEPT !.live = task.live]
                BY <4>2 DEF Tasks
            <4>4. task' = [task EXCEPT !.at = "account", !.have = position, !.live = task.live]
                BY <4>1, <4>2 DEF Tasks
            <4> QED BY <4>3, <4>4
        <3>3. ~NoReferencePrice
            BY <1>4 DEF NoReferencePrice
        <3>4. ~ReadNonce
            BY <1>4 DEF ReadNonce
        <3>5. ~RereadOrder /\ ~FlattenReport
            BY <1>4 DEF RereadOrder, FlattenReport
        <3> QED BY <3>1, <3>2, <3>3, <3>4, <3>5
    <2>2. task \in Tasks /\ position \in Int
        BY <1>4, TaskTyped DEF IInv, Shapes
    <2>3. task' \in Tasks /\ task'.tx = task.tx /\ task'.at = at
        BY <2>1, <2>2 DEF Tasks, Awaits
    <2>4. task'.at = "plan" => task'.tx.kind = "place"
        BY <2>1, <2>3 DEF IInv, Shapes
    <2> QED BY <2>3, <2>4, <1>1, EngineStays, MovesKeep
<1>5. CASE NoReferencePrice \/ RereadOrder \/ FlattenReport
    <2>1. task'.at = "idle"
        <3>1. CASE NoReferencePrice
            BY <3>1, ReturnIdles DEF NoReferencePrice
        <3>2. CASE RereadOrder
            BY <3>2, ReturnIdles DEF RereadOrder
        <3>3. CASE FlattenReport
            BY <3>3, ReturnIdles DEF FlattenReport
        <3> QED BY <3>1, <3>2, <3>3, <1>5
    <2> QED BY <2>1, <1>2
<1>6. CASE ReadNonce
    BY <1>6, <1>2, <1>3 DEF ReadNonce, Return, Idle, GoTo
<1>7. CASE ReadPosition \/ FlattenAfter
    <2>1. task.at \in {"read", "after"} /\ task \in Tasks
        BY <1>7, TaskTyped DEF ReadPosition, FlattenAfter, IInv
    <2>2. task'.at = "idle" \/ task'.at \in {"plan", "account"}
        <3>1. CASE ReadPosition
            BY <3>1, <2>1, ReturnIdles DEF ReadPosition, Tasks
        <3>2. CASE FlattenAfter
            BY <3>2, <2>1, ReturnIdles DEF FlattenAfter, Tasks
        <3> QED BY <3>1, <3>2, <1>7
    <2> QED BY <2>1, <2>2, <1>2, <1>4
<1> QED BY <1>5, <1>6, <1>7

LEMMA SimulateKeeps ==
    ASSUME IInv, Simulate
    PROVE  IInv'
<1>1. engine' = engine /\ UNCHANGED chain /\ unanswered' = unanswered /\ task.at = "simulate"
    BY DEF Simulate
<1>2. CASE Unreachable
    <2>1. Trying = 0 /\ unanswered \in Nat
        BY <1>1 DEF Trying, IInv, Shapes
    <2> QED BY <1>1, <1>2, <2>1, RetryKeeps
<1>3. CASE task'.at = "idle"
    BY <1>1, <1>3, EngineStays, MovesKeep
<1>4. CASE GoTo("send")
    <2>1. /\ task' \in Tasks /\ task'.at = "send" /\ task'.tx = task.tx
          /\ task'.tries = task.tries /\ task.tries \in Int
        BY <1>1, <1>4, TaskTyped DEF Tasks, Awaits, IInv, GoTo
    <2>2. Shapes' /\ Trying = 0 /\ Trying' = 0
        BY <2>1, <1>1 DEF IInv, Shapes, chain, Idling, Trying
    <2>3. QuietTask
        BY <2>1, <2>2, <1>1, EngineStays DEF QuietTask, Writing
    <2> QED BY <2>2, <2>3, <1>1, EngineStays, QuietKeeps DEF chain
<1>5. Unreachable \/ task'.at = "idle" \/ GoTo("send")
    BY ReturnIdles DEF Simulate
<1> QED BY <1>2, <1>3, <1>4, <1>5

LEMMA ReadReceiptKeeps ==
    ASSUME IInv, ReadReceipt
    PROVE  IInv'
<1>1. engine' = engine /\ UNCHANGED chain /\ unanswered' = unanswered /\ task.at = "receipt"
    BY DEF ReadReceipt
<1>2. CASE task.receipt = "failed" /\ Unreachable
    <2>1. Trying = 0 /\ unanswered \in Nat
        BY <1>2 DEF Trying, IInv, Shapes
    <2> QED BY <1>1, <1>2, <2>1, RetryKeeps
<1>3. CASE task'.at = "idle"
    BY <1>1, <1>3, EngineStays, MovesKeep
<1>4. ASSUME NEW at \in {"reread", "size", "after"}, GoTo(at)
      PROVE  IInv'
    <2>1. task' \in Tasks /\ task'.at = at
        BY <1>1, <1>4, TaskTyped DEF Tasks, Awaits, IInv, GoTo
    <2> QED BY <2>1, <1>1, EngineStays, MovesKeep
<1>5. \/ task.receipt = "failed" /\ Unreachable
      \/ task'.at = "idle"
      \/ \E at \in {"reread", "size", "after"} : GoTo(at)
    <2>1. Written => task'.at = "idle" \/ \E at \in {"reread", "size", "after"} : GoTo(at)
        BY ReturnIdles DEF Written
    <2> QED BY <2>1, ReturnIdles DEF ReadReceipt
<1> QED BY <1>2, <1>3, <1>4, <1>5

LEMMA ReceiptTimeoutKeeps ==
    ASSUME IInv, ReceiptTimeout
    PROVE  IInv'
<1>1. /\ engine' = engine /\ UNCHANGED chain /\ unanswered' = unanswered + 1
      /\ task.at = "receipt" /\ Unreachable
    BY DEF ReceiptTimeout
<1>2. unanswered' >= unanswered + Trying
    BY <1>1 DEF Trying, IInv, Shapes
<1> QED BY <1>1, <1>2, RetryKeeps

(***************************************************************************)
(* Steps that put a transaction in the pool or take one out.               *)
(***************************************************************************)

LEMMA TakeAdds ==
    ASSUME Shapes, task.at = "send", Take(task.tx)
    PROVE  /\ pool' \in Seq(PoolTxs) /\ sent' \in Nat /\ Len(pool') = Len(pool) + 1
           /\ \A k \in 1 .. Len(pool) : pool'[k] = pool[k]
           /\ pool'[Len(pool')].nonce = sent' /\ sent' = sent + 1
           /\ UidOf(pool'[Len(pool')]) = UidOf(task.tx)
           /\ \A u \in Uids : Total(u)' = Total(u) + (IF UidOf(task.tx) = u THEN 1 ELSE 0)
           /\ UNCHANGED <<position, resting, placed>>
<1> DEFINE tx == task.tx
           new == [kind |-> tx.kind, order |-> tx.order, nonce |-> sent + 1,
                   id |-> IF tx.kind = "cancel" THEN tx.id ELSE sent + 1]
<1>1. tx \in Txs /\ sent \in Nat /\ pool \in Seq(PoolTxs) /\ placed \in [Uids -> Nat]
    BY TaskTyped DEF Shapes
<1>2. new \in PoolTxs
    BY <1>1 DEF Txs, PoolTxs
<1>3. pool' = Append(pool, new) /\ sent' = sent + 1 /\ UNCHANGED <<position, resting, placed>>
    BY DEF Take
<1>4. UidOf(new) = UidOf(tx) /\ new.nonce = sent + 1
    BY DEF UidOf
<1> HIDE DEF new, tx
<1>5. /\ pool' \in Seq(PoolTxs) /\ Len(pool') = Len(pool) + 1 /\ Len(pool) \in Nat
      /\ pool'[Len(pool) + 1] = new
      /\ \A k \in 1 .. Len(pool) : pool'[k] = pool[k]
    BY <1>1, <1>2, <1>3
<1>6. ASSUME NEW u \in Uids
      PROVE  Total(u)' = Total(u) + (IF UidOf(tx) = u THEN 1 ELSE 0)
    <2>1. /\ Cardinality(Under(pool', u))
               = Cardinality(Under(pool, u)) + (IF UidOf(tx) = u THEN 1 ELSE 0)
          /\ Cardinality(Under(pool, u)) \in Nat /\ placed[u] \in Nat
        BY <1>1, <1>2, <1>3, <1>4, AppendCounts, UnderFinite
    <2> QED BY <2>1, <1>3 DEF Total
<1> QED BY <1>1, <1>3, <1>4, <1>5, <1>6 DEF tx

\* The node has the transaction: the try it was sent in is spent.
LEMMA TakenKeeps ==
    ASSUME IInv, task.at = "send", Take(task.tx), engine' = engine, Shapes',
           unanswered' + Trying' >= unanswered + 1, Trying' \in {0, 1},
           unanswered' \in {unanswered, unanswered + 1},
           \A u \in Uids \ {NoUid} : Writing(u)' =>
               Writing(u) /\ task'.tries + Trying' >= task.tries + 1 /\ task'.tries \in Nat,
           task'.at = "receipt" => task'.nonce = sent + 1 /\ task'.tx = task.tx
    PROVE  IInv'
<1>1. task \in Tasks /\ task.tries \in 1 .. MaxTries /\ MaxTries \in Nat /\ unanswered \in Nat
    BY TaskTyped DEF IInv, Shapes
<1>2. ASSUME NEW u \in Uids \ {NoUid}
      PROVE  /\ Total(u) \in Nat
             /\ Total(u)' = Total(u) + (IF UidOf(task.tx) = u THEN 1 ELSE 0)
             /\ Writing(u) <=> UidOf(task.tx) = u
             /\ Writing(u) => Total(u) <= task.tries - 1 /\ Total(u) <= unanswered
    <2>1. Total(u) \in Nat /\ Total(u)' = Total(u) + (IF UidOf(task.tx) = u THEN 1 ELSE 0)
        BY TakeAdds, TotalType DEF IInv
    <2>2. Trying = 0
        BY DEF Trying
    <2>3. Writing(u) <=> UidOf(task.tx) = u
        BY DEF Writing
    <2>4. Writing(u) => Total(u) <= task.tries - 1 + Trying /\ Total(u) <= unanswered + Trying
        BY DEF IInv, TriesCover
    <2> QED BY <2>1, <2>2, <2>3, <2>4, <1>1
<1>3. PoolIsOurs'
    <2> SUFFICES ASSUME NEW k \in 1 .. Len(pool')
                 PROVE  /\ pool'[k].nonce <= sent'
                        /\ task'.at = "receipt" /\ pool'[k].nonce = task'.nonce
                             => UidOf(pool'[k]) = UidOf(task'.tx)
        BY DEF PoolIsOurs, UidOf
    <2>1. k = Len(pool') \/ k \in 1 .. Len(pool)
        BY TakeAdds DEF IInv, Shapes
    <2>2. CASE k = Len(pool')
        BY <2>2, TakeAdds DEF IInv
    <2>3. CASE k \in 1 .. Len(pool)
        <3>1. pool'[k] = pool[k] /\ pool[k].nonce <= sent /\ sent' = sent + 1 /\ sent \in Nat
            BY <2>3, TakeAdds DEF IInv, PoolIsOurs, Shapes
        <3>2. pool[k].nonce \in Nat
            <4>1. pool[k] \in PoolTxs
                BY <2>3 DEF IInv, Shapes
            <4> QED BY <4>1 DEF PoolTxs
        <3> QED BY <3>1, <3>2
    <2> QED BY <2>1, <2>2, <2>3
<1>4. UnseenIsUnsent'
    BY <1>2 DEF IInv, UnseenIsUnsent
<1>5. TotalBounded'
    <2> SUFFICES ASSUME NEW u \in Uids \ {NoUid}
                 PROVE  Total(u)' <= MaxTries /\ Total(u)' <= unanswered' + 1
        BY DEF TotalBounded
    <2>1. Total(u) <= MaxTries /\ Total(u) <= unanswered + 1
        BY DEF IInv, TotalBounded
    <2> QED BY <2>1, <1>1, <1>2
<1>6. TriesCover'
    <2> SUFFICES ASSUME NEW u \in Uids \ {NoUid}, Writing(u)'
                 PROVE  Total(u)' <= task'.tries - 1 + Trying' /\ Total(u)' <= unanswered' + Trying'
        BY DEF TriesCover
    <2>1. Writing(u) /\ task'.tries + Trying' >= task.tries + 1 /\ task'.tries \in Nat
        OBVIOUS
    <2>2. /\ Total(u)' = Total(u) + 1 /\ Total(u) \in Nat
          /\ Total(u) <= task.tries - 1 /\ Total(u) <= unanswered
        BY <2>1, <1>2
    <2>3. \A a, b, c, d \in Int : a <= b - 1 /\ c + d >= b + 1 => a + 1 <= c - 1 + d
        OBVIOUS
    <2>4. Total(u) + 1 <= task'.tries - 1 + Trying'
        <3>1. Total(u) \in Int /\ task.tries \in Int /\ task'.tries \in Int /\ Trying' \in Int
            BY <2>1, <2>2, <1>1
        <3> QED BY <3>1, <2>1, <2>2, <2>3
    <2>5. Total(u) + 1 <= unanswered' + Trying'
        <3>1. Total(u) \in Int /\ unanswered \in Int /\ unanswered' \in Int /\ Trying' \in Int
            BY <2>2, <1>1
        <3>2. unanswered' + Trying' \in Int /\ unanswered' + Trying' >= unanswered + 1
            BY <3>1
        <3>3. \A a, b, c \in Int : a <= b /\ c >= b + 1 => a + 1 <= c
            OBVIOUS
        <3> QED BY <3>1, <3>2, <3>3, <2>2
    <2> QED BY <2>2, <2>4, <2>5
<1> QED BY <1>3, <1>4, <1>5, <1>6 DEF IInv

LEMMA SendKeeps ==
    ASSUME IInv, SendTransaction
    PROVE  IInv'
<1>1. engine' = engine /\ task.at = "send" /\ task \in Tasks /\ task.tries \in 1 .. MaxTries
      /\ MaxTries \in Nat \ {0} /\ unanswered \in Nat
    BY TaskTyped DEF SendTransaction, IInv, Shapes
<1>2. CASE Take(task.tx) /\ unanswered' = unanswered
           /\ task' = [task EXCEPT !.at = "receipt", !.nonce = sent + 1, !.receipt = "none"]
    <2>1. /\ task' \in Tasks /\ task'.at = "receipt" /\ task'.tx = task.tx
          /\ task'.tries = task.tries /\ task'.nonce = sent + 1 /\ task'.receipt = "none"
        <3>1. sent + 1 \in Nat
            BY DEF IInv, Shapes
        <3> QED BY <3>1, <1>1, <1>2 DEF Tasks, Awaits
    <2>2. Trying' = 1
        BY <2>1 DEF Trying
    <2>3. Shapes'
        BY <2>1, <1>1, <1>2, TakeAdds DEF IInv, Shapes, Idling
    <2>4. \A u \in Uids \ {NoUid} : Writing(u)' => Writing(u)
        BY <2>1, <1>1 DEF Writing
    <2>5. task'.tries + Trying' >= task.tries + 1 /\ task'.tries \in Nat
          /\ unanswered' + Trying' >= unanswered + 1
        BY <2>1, <2>2, <1>1, <1>2
    <2> QED BY <2>1, <2>2, <2>3, <2>4, <2>5, <1>1, <1>2, TakenKeeps
<1>3. CASE Unreachable /\ UNCHANGED <<chain, unanswered>>
    <2>1. Trying = 0
        BY <1>1 DEF Trying
    <2>2. unanswered' >= unanswered + Trying
        BY <2>1, <1>1, <1>3
    <2> QED BY <2>2, <1>1, <1>3, RetryKeeps
<1>4. CASE Take(task.tx) /\ Unreachable /\ unanswered' = unanswered + 1
    <2>1. \/ task'.at = "idle"
          \/ /\ task' \in Tasks /\ task'.at = "simulate" /\ task'.tx = task.tx
             /\ task'.tries = task.tries + 1
        <3>1. CASE LastTry(task.tries)
            BY <3>1, <1>4, ReturnIdles DEF Unreachable
        <3>2. CASE ~LastTry(task.tries)
            <4>1. task.tries + 1 \in 1 .. MaxTries
                BY <3>2, <1>1 DEF LastTry
            <4>2. task' = [task EXCEPT !.at = "simulate", !.tries = task.tries + 1, !.receipt = "none"]
                BY <3>2, <1>4, <1>1 DEF Unreachable, Tasks
            <4> QED BY <4>1, <4>2, <1>1 DEF Tasks, Awaits
        <3> QED BY <3>1, <3>2
    <2>2. Trying' = 0
        BY <2>1 DEF Trying
    <2>3. Shapes'
        BY <2>1, <1>1, <1>4, TakeAdds DEF IInv, Shapes, Idling
    <2>4. \A u \in Uids \ {NoUid} : Writing(u)' =>
              Writing(u) /\ task'.tries = task.tries + 1
        BY <2>1, <1>1 DEF Writing
    <2>5. unanswered' + Trying' >= unanswered + 1
        BY <2>2, <1>1, <1>4
    <2>6. \A u \in Uids \ {NoUid} : Writing(u)' =>
              Writing(u) /\ task'.tries + Trying' >= task.tries + 1 /\ task'.tries \in Nat
        BY <2>4, <2>2, <1>1
    <2> QED BY <2>1, <2>2, <2>3, <2>5, <2>6, <1>1, <1>4, TakenKeeps
<1> QED BY <1>2, <1>3, <1>4 DEF SendTransaction

LEMMA FlattenSizeKeeps ==
    ASSUME IInv, FlattenSize
    PROVE  IInv'
<1>1. engine' = engine /\ UNCHANGED chain /\ unanswered' = unanswered /\ task.at = "size"
    BY DEF FlattenSize
<1>2. task \in Tasks /\ position \in Int
    BY <1>1, TaskTyped DEF IInv, Shapes
<1>3. CASE task'.at = "idle"
    BY <1>1, <1>3, EngineStays, MovesKeep
<1>4. CASE GoTo("after")
    <2>1. task' \in Tasks /\ task'.at = "after"
        BY <1>2, <1>4 DEF GoTo, Tasks, Awaits
    <2> QED BY <2>1, <1>1, EngineStays, MovesKeep
<1>5. CASE task' = [task EXCEPT !.at = "simulate", !.tries = 1, !.receipt = "none",
                                !.tx = PlaceTx(CloseOrder(position))]
    <2>1. CloseOrder(position) \in OrderForms /\ CloseOrder(position).uid = NoUid
        <3>1. Magnitude(position) \in Int /\ NoUid \in Nat
            BY <1>2 DEF Magnitude, NoUid
        <3>2. (IF position > 0 THEN "Sell" ELSE "Buy") \in {"Buy", "Sell"}
            OBVIOUS
        <3>3. ASSUME NEW side \in {"Buy", "Sell"}, NEW size \in Int, NEW uid \in Nat
              PROVE  [market |-> TheMarket, side |-> side, size |-> size, price |-> 0,
                      type |-> "Market", reduceOnly |-> TRUE, uid |-> uid] \in OrderForms
            BY DEF OrderForms
        <3>4. CloseOrder(position).uid = NoUid
            BY DEF CloseOrder
        <3> HIDE DEF OrderForms
        <3> QED BY <3>1, <3>2, <3>3, <3>4 DEF CloseOrder
    <2>2. PlaceTx(CloseOrder(position)) \in Txs /\ UidOf(PlaceTx(CloseOrder(position))) = NoUid
        BY <2>1 DEF PlaceTx, Txs, UidOf
    <2>3. 1 \in 1 .. MaxTries
        BY BotAssumption
    <2>4. task' \in Tasks /\ task'.at = "simulate" /\ UidOf(task'.tx) = NoUid
        <3> HIDE DEF PlaceTx, CloseOrder
        <3> QED BY <2>2, <2>3, <1>2, <1>5 DEF Tasks, Awaits
    <2> QED BY <2>4, <1>1, EngineStays, MovesKeep
<1> QED BY <1>3, <1>4, <1>5, ReturnIdles DEF FlattenSize

\* The gate lets an order through only under an id it has not kept, and keeps it.
LEMMA PlanKeeps ==
    ASSUME IInv, PlanOrder
    PROVE  IInv'
<1> DEFINE order    == task.tx.order
           decision == Plan(engine, order, [positionSize |-> task.have, refPrice |-> 1])
           sends    == decision.ok /\ decision.answer = "send"
<1>1. /\ task \in Tasks /\ order \in OrderForms /\ engine \in Engines /\ task.at = "plan"
      /\ task.tx.kind = "place" /\ UidOf(task.tx) = order.uid
    <2>1. task.at = "plan" /\ task \in Tasks /\ task.tx \in Txs /\ engine \in Engines
        BY TaskTyped DEF PlanOrder, IInv, Shapes
    <2>2. task.tx.kind = "place"
        BY <2>1 DEF IInv, Shapes
    <2> QED BY <2>1, <2>2 DEF Txs, UidOf
<1>2. /\ decision.size \in Int /\ decision.price \in Int /\ decision.ok \in BOOLEAN
      /\ sends => decision.ok
      /\ sends /\ order.uid # NoUid => order.uid \notin engine.seen
    <2> DEFINE spec == engine.specs[order.market]
    <2>1. order.market \in DOMAIN engine.specs =>
            spec.tick = 1 /\ spec.step = 1 /\ spec.minNotional = 1
        BY <1>1 DEF Engines, Specs
    <2>2. order.market \in DOMAIN engine.specs =>
            RoundedSize(spec, order) \in Int /\ RoundedPrice(spec, order) \in Int
        <3>1. order.size \in Int /\ order.price \in Int
            BY <1>1 DEF OrderForms
        <3>2. \A n \in Int : FloorTo(n, 1) \in Int
            BY DEF FloorTo
        <3> HIDE DEF spec, order
        <3> QED BY <2>1, <3>1, <3>2 DEF RoundedSize, RoundedPrice
    <2> HIDE DEF order, spec
    <2>3. CASE order.market \in DOMAIN engine.specs
        BY <2>2, <2>3 DEF Plan, Refused, Cleared, spec
    <2>4. CASE order.market \notin DOMAIN engine.specs
        BY <2>4 DEF Plan, Refused
    <2> QED BY <2>3, <2>4
<1>3. /\ engine' = Remember(engine, order, decision)
      /\ IF sends
           THEN task' = [task EXCEPT !.at = "nonce", !.tx.order.size = decision.size,
                                     !.tx.order.price = decision.price]
           ELSE task'.at = "idle"
      /\ UNCHANGED <<chain, calls, unanswered>>
    BY ReturnIdles DEF PlanOrder
<1> HIDE DEF decision
<1>4. /\ engine' \in Engines /\ engine.seen \subseteq engine'.seen
      /\ sends /\ order.uid # NoUid => order.uid \in engine'.seen
    <2>1. order.uid \in Nat
        BY <1>1 DEF OrderForms
    <2> HIDE DEF order
    <2>2. engine' \in {engine, [engine EXCEPT !.seen = @ \cup {order.uid}]}
        BY <1>3 DEF Remember
    <2>3. sends /\ order.uid # NoUid => engine' = [engine EXCEPT !.seen = @ \cup {order.uid}]
        BY <1>2, <1>3 DEF Remember
    <2> QED BY <1>1, <2>1, <2>2, <2>3 DEF Engines
<1>5. sends => /\ task' \in Tasks /\ task'.at = "nonce" /\ UidOf(task'.tx) = order.uid
               /\ task'.tries = task.tries
    <2>1. order.uid \in Nat
        BY <1>1 DEF OrderForms
    <2>2. task.tx \in [kind : {"place"}, order : OrderForms, id : Nat]
        BY <1>1 DEF Tasks, Txs
    <2> DEFINE tx == [task.tx EXCEPT !.order.size = decision.size, !.order.price = decision.price]
    <2>3. tx \in Txs /\ UidOf(tx) = order.uid
        BY <1>2, <2>2 DEF OrderForms, Txs, UidOf
    <2>4. [task EXCEPT !.at = "nonce", !.tx.order.size = decision.size,
                       !.tx.order.price = decision.price]
            = [task EXCEPT !.at = "nonce", !.tx = tx]
        BY <1>1, <2>2 DEF Tasks
    <2>5. sends => task' = [task EXCEPT !.at = "nonce", !.tx = tx]
        BY <1>3, <2>4
    <2> HIDE DEF tx, sends, order
    <2> QED BY <1>1, <2>3, <2>5 DEF Tasks, Awaits
<1>6. Shapes'
    <2>1. task'.at = "idle" \/ (task' \in Tasks /\ task'.at = "nonce")
        BY <1>3, <1>5
    <2> QED BY <2>1, <1>3, <1>4 DEF IInv, Shapes, chain, Idling
<1>7. ASSUME NEW u \in Uids \ {NoUid}
      PROVE  /\ Total(u)' = Total(u) /\ Total(u) \in Nat
             /\ Writing(u)' => sends /\ order.uid = u
    <2>1. Total(u)' = Total(u) /\ Total(u) \in Nat
        BY <1>3, TotalType DEF chain, Total, IInv
    <2>2. Writing(u)' => sends
        BY <1>3 DEF Writing
    <2>3. Writing(u)' /\ sends => order.uid = u
        BY <1>5 DEF Writing
    <2> QED BY <2>1, <2>2, <2>3
<1>8. PoolIsOurs'
    <2>1. task'.at # "receipt"
        BY <1>3, <1>5
    <2> QED BY <2>1, <1>3 DEF IInv, PoolIsOurs, chain
<1>9. UnseenIsUnsent'
    BY <1>4, <1>7 DEF IInv, UnseenIsUnsent
<1>10. TotalBounded'
    BY <1>3, <1>7 DEF IInv, TotalBounded
<1>11. TriesCover'
    <2> SUFFICES ASSUME NEW u \in Uids \ {NoUid}, Writing(u)'
                 PROVE  Total(u)' <= task'.tries - 1 + Trying' /\ Total(u)' <= unanswered' + Trying'
        BY DEF TriesCover
    <2>1. Total(u)' = 0
        BY <1>2, <1>7 DEF IInv, UnseenIsUnsent
    <2>2. Trying' = 0 /\ task'.tries \in 1 .. MaxTries /\ MaxTries \in Nat
        BY <1>5, <1>7, <1>1, BotAssumption DEF Trying, Tasks
    <2>3. unanswered' \in Nat
        BY <1>6 DEF Shapes
    <2>4. task'.tries \in Int /\ task'.tries >= 1
        BY <2>2
    <2>5. \A t, n, b \in Int : b = 0 /\ t >= 1 /\ n >= 0 => 0 <= t - 1 + b /\ 0 <= n + b
        OBVIOUS
    <2>6. Trying' \in Int /\ unanswered' \in Int /\ unanswered' >= 0
        BY <2>2, <2>3
    <2> QED BY <2>1, <2>2, <2>4, <2>5, <2>6
<1> QED BY <1>6, <1>8, <1>9, <1>10, <1>11 DEF IInv

LEMMA RemoveAtType ==
    ASSUME NEW S, NEW s \in Seq(S), NEW k \in 1 .. Len(s)
    PROVE  RemoveAt(s, k) \in Seq(S)
<1>1. SubSeq(s, 1, k - 1) \in Seq(S)
    <2>1. \A i \in 1 .. k - 1 : s[i] \in S
        OBVIOUS
    <2> QED BY <2>1, SubSeqProperties
<1>2. SubSeq(s, k + 1, Len(s)) \in Seq(S)
    <2>1. \A i \in k + 1 .. Len(s) : s[i] \in S
        OBVIOUS
    <2> QED BY <2>1, SubSeqProperties
<1> QED BY <1>1, <1>2, ConcatProperties DEF RemoveAt

LEMMA SignType ==
    ASSUME NEW n \in Int
    PROVE  Sign(n) \in {1, -1} /\ Magnitude(n) \in Nat
BY DEF Sign, Magnitude

LEMMA SignTimes == \A s \in {1, -1}, n \in Int : s * n \in Int
OBVIOUS

LEMMA MatchKeeps ==
    ASSUME IInv, Match
    PROVE  IInv'
<1>1. PICK k \in DOMAIN resting : \E n \in 1 .. Magnitude(resting[k].size) :
        LET left == resting[k].size - Sign(resting[k].size) * n
        IN  /\ position' = position + Sign(resting[k].size) * n
            /\ resting' = IF left = 0 THEN RemoveAt(resting, k)
                          ELSE [resting EXCEPT ![k].size = left]
            /\ UNCHANGED <<engine, task, pool, sent, calls, faults, placed, unanswered, overlapped>>
    BY DEF Match
<1>2. resting \in Seq(RestForms) /\ position \in Int /\ k \in 1 .. Len(resting)
      /\ resting[k] \in RestForms /\ resting[k].size \in Int
    <2>1. resting \in Seq(RestForms) /\ position \in Int
        BY DEF IInv, Shapes
    <2>2. resting[k] \in RestForms /\ k \in 1 .. Len(resting)
        BY <2>1
    <2> QED BY <2>1, <2>2 DEF RestForms
<1> DEFINE size == resting[k].size
<1>3. PICK n \in 1 .. Magnitude(size) :
        LET left == size - Sign(size) * n
        IN  /\ position' = position + Sign(size) * n
            /\ resting' = IF left = 0 THEN RemoveAt(resting, k)
                          ELSE [resting EXCEPT ![k].size = left]
            /\ UNCHANGED <<engine, task, pool, sent, calls, faults, placed, unanswered, overlapped>>
    BY <1>1
<1>4. Sign(size) * n \in Int
    <2>1. Sign(size) \in {1, -1} /\ Magnitude(size) \in Nat
        BY <1>2, SignType
    <2> QED BY <2>1, SignTimes
<1> DEFINE left == size - Sign(size) * n
<1>5. left \in Int
    BY <1>2, <1>4
<1>6. [resting EXCEPT ![k].size = left] \in Seq(RestForms)
    <2> HIDE DEF left
    <2>1. [resting[k] EXCEPT !.size = left] \in RestForms
        BY <1>2, <1>5 DEF RestForms
    <2> QED BY <1>2, <2>1
<1>7. resting' \in Seq(RestForms) /\ position' \in Int
    <2> HIDE DEF left, size
    <2>1. position' \in Int
        BY <1>2, <1>3, <1>4
    <2>2. resting' \in {RemoveAt(resting, k), [resting EXCEPT ![k].size = left]}
        BY <1>3 DEF left
    <2> QED BY <2>1, <2>2, <1>2, <1>6, RemoveAtType
<1>8. Shapes'
    BY <1>3, <1>7 DEF IInv, Shapes, Idling
<1>9. QuietTask
    <2>1. task' = task /\ unanswered' = unanswered
        BY <1>3
    <2>2. \A u \in Uids \ {NoUid} : Writing(u)' => task.tries \in Int
        BY <2>1, TaskTyped DEF Writing, IInv
    <2> QED BY <2>1, <2>2 DEF QuietTask, Writing, Trying, IInv, Shapes
<1> QED BY <1>3, <1>8, <1>9, QuietKeeps DEF IInv, Shapes

\* What mining a transaction does to the account.
LEMMA ApplyIs ==
    ASSUME Shapes, NEW tx \in PoolTxs, Apply(tx)
    PROVE  /\ position' \in Int /\ resting' \in Seq(RestForms) /\ placed' \in [Uids -> Nat]
           /\ \A u \in Uids \ {NoUid} :
                placed'[u] = placed[u] + (IF UidOf(tx) = u THEN 1 ELSE 0)
<1>0. position \in Int /\ resting \in Seq(RestForms) /\ placed \in [Uids -> Nat]
    BY DEF Shapes
<1>1. CASE tx.kind = "place"
    <2>1. PICK filled \in 0 .. tx.order.size :
            LET rest == tx.order.size - filled
            IN  /\ position' = position + Sign(Signed(tx.order)) * filled
                /\ resting' = IF rest > 0 /\ tx.order.type = "Limit"
                      THEN Append(resting, [id |-> tx.id, uid |-> tx.order.uid,
                                            size |-> Sign(Signed(tx.order)) * rest])
                      ELSE resting
                /\ placed' = [placed EXCEPT ![tx.order.uid] =
                                IF tx.order.uid = NoUid THEN @ ELSE @ + 1]
        BY <1>1 DEF Apply, Trade
    <2>2. tx.order \in OrderForms /\ tx.id \in Nat /\ UidOf(tx) = tx.order.uid
        BY <1>1 DEF PoolTxs, UidOf
    <2>3. tx.order.uid \in Nat /\ tx.order.size \in Int
        BY <2>2 DEF OrderForms
    <2>4. Sign(Signed(tx.order)) \in {1, -1}
        <3>1. Signed(tx.order) \in Int
            BY <2>3 DEF Signed
        <3> QED BY <3>1, SignType
    <2> DEFINE rest == tx.order.size - filled
               sign == Sign(Signed(tx.order))
    <2>5. sign * filled \in Int /\ sign * rest \in Int
        <3> HIDE DEF sign
        <3>1. filled \in Int /\ rest \in Int
            BY <2>3
        <3> HIDE DEF rest
        <3> QED BY <2>4, <3>1, SignTimes DEF sign
    <2>6. [id |-> tx.id, uid |-> tx.order.uid, size |-> sign * rest] \in RestForms
        BY <2>2, <2>3, <2>5 DEF RestForms
    <2> HIDE DEF rest, sign
    <2>7. position' \in Int /\ resting' \in Seq(RestForms)
        <3>1. position' = position + sign * filled
            BY <2>1 DEF sign
        <3>2. resting' \in {resting, Append(resting, [id |-> tx.id, uid |-> tx.order.uid,
                                                      size |-> sign * rest])}
            BY <2>1 DEF sign, rest
        <3>3. position' \in Int
            BY <3>1, <2>5, <1>0
        <3>4. resting' \in Seq(RestForms)
            BY SMTT(60), <3>2, <2>6, <1>0
        <3> QED BY <3>3, <3>4
    <2>8. /\ placed' \in [Uids -> Nat]
          /\ \A u \in Uids \ {NoUid} :
               placed'[u] = placed[u] + (IF tx.order.uid = u THEN 1 ELSE 0)
        <3>1. placed' = [placed EXCEPT ![tx.order.uid] =
                                IF tx.order.uid = NoUid THEN @ ELSE @ + 1]
            BY <2>1
        <3>2. CASE tx.order.uid \in Uids /\ tx.order.uid # NoUid
            <4>1. placed[tx.order.uid] + 1 \in Nat
                BY <3>2, <1>0
            <4> QED BY <3>1, <3>2, <4>1, <1>0
        <3>3. CASE ~(tx.order.uid \in Uids /\ tx.order.uid # NoUid)
            <4>1. placed' = placed
                BY <3>1, <3>3, <1>0
            <4>2. \A u \in Uids \ {NoUid} : tx.order.uid # u /\ placed[u] \in Nat
                BY <3>3, <1>0
            <4> QED BY <4>1, <4>2, <1>0
        <3> QED BY <3>2, <3>3
    <2> QED BY <2>2, <2>7, <2>8
<1>2. CASE tx.kind # "place"
    <2>1. UidOf(tx) = NoUid /\ placed' = placed /\ position' = position
        BY <1>2 DEF Apply, UidOf
    <2>2. resting' \in Seq(RestForms)
        <3>1. CASE tx.kind = "cancel"
            <4>1. PICK k \in DOMAIN resting : resting' = RemoveAt(resting, k)
                BY <3>1 DEF Apply
            <4>2. k \in 1 .. Len(resting)
                BY <1>0
            <4> QED BY <4>1, <4>2, <1>0, RemoveAtType
        <3>2. CASE tx.kind # "cancel"
            <4>1. resting' = <<>>
                BY <1>2, <3>2 DEF Apply
            <4> QED BY <4>1
        <3> QED BY <3>1, <3>2
    <2>3. \A u \in Uids \ {NoUid} : placed[u] \in Nat
        BY <1>0
    <2> QED BY <2>1, <2>2, <2>3, <1>0
<1> QED BY <1>1, <1>2

LEMMA MineKeeps ==
    ASSUME IInv, Mine
    PROVE  IInv'
<1>1. PICK failed \in BOOLEAN :
        /\ IF failed THEN UNCHANGED <<position, resting, placed>> ELSE Apply(Head(pool))
        /\ task' = IF task.at = "receipt" /\ task.nonce = Head(pool).nonce
                   THEN [task EXCEPT !.receipt = IF failed THEN "failed" ELSE "ok"]
                   ELSE task
    <2>1. PICK failed \in Outcomes(Head(pool)) :
            /\ IF failed THEN UNCHANGED <<position, resting, placed>> ELSE Apply(Head(pool))
            /\ task' = IF task.at = "receipt" /\ task.nonce = Head(pool).nonce
                       THEN [task EXCEPT !.receipt = IF failed THEN "failed" ELSE "ok"]
                       ELSE task
        BY DEF Mine
    <2>2. CASE failed
        BY <2>1, <2>2
    <2>3. CASE ~failed
        BY <2>1, <2>3
    <2> QED BY <2>2, <2>3
<1> DEFINE tx == Head(pool)
           ours == task.at = "receipt" /\ task.nonce = tx.nonce
<1>2. /\ pool \in Seq(PoolTxs) /\ pool # <<>> /\ tx \in PoolTxs /\ tx = pool[1]
      /\ Len(pool) \in Nat \ {0} /\ pool' = Tail(pool) /\ pool' \in Seq(PoolTxs)
      /\ Len(pool') = Len(pool) - 1 /\ \A k \in 1 .. Len(pool') : pool'[k] = pool[k + 1]
      /\ UNCHANGED <<engine, sent, unanswered>> /\ unanswered \in Nat
    <2>1. pool \in Seq(PoolTxs) /\ pool # <<>> /\ pool' = Tail(pool)
          /\ UNCHANGED <<engine, sent, unanswered>> /\ unanswered \in Nat
        BY DEF Mine, IInv, Shapes
    <2> QED BY <2>1
<1> HIDE DEF tx
<1>3. ours => /\ task \in Tasks /\ task' \in Tasks /\ task' = [task EXCEPT !.receipt = task'.receipt]
              /\ task'.receipt = IF failed THEN "failed" ELSE "ok"
              /\ UidOf(tx) = UidOf(task.tx)
    <2>1. ours => task \in Tasks
        BY TaskTyped DEF IInv
    <2>2. ours => UidOf(tx) = UidOf(task.tx)
        BY <1>2 DEF IInv, PoolIsOurs
    <2>3. ours => task' = [task EXCEPT !.receipt = IF failed THEN "failed" ELSE "ok"]
        BY <1>1 DEF tx
    <2> HIDE DEF ours
    <2> QED BY <2>1, <2>2, <2>3 DEF Tasks
<1>4. ~ours => task' = task
    BY <1>1 DEF tx
<1>5. task'.at = task.at /\ (task.at # "idle" => task'.tx = task.tx /\ task'.tries = task.tries
                                                 /\ task'.nonce = task.nonce)
    BY <1>3, <1>4 DEF Tasks
<1>6. /\ position' \in Int /\ resting' \in Seq(RestForms) /\ placed' \in [Uids -> Nat]
      /\ \A u \in Uids \ {NoUid} :
           placed'[u] = placed[u] + (IF ~failed /\ UidOf(tx) = u THEN 1 ELSE 0)
    <2>1. CASE failed
        <3>1. position \in Int /\ resting \in Seq(RestForms) /\ placed \in [Uids -> Nat]
              /\ UNCHANGED <<position, resting, placed>>
            BY <1>1, <2>1 DEF IInv, Shapes
        <3>2. \A u \in Uids : placed[u] \in Nat
            BY <3>1
        <3> QED BY <2>1, <3>1, <3>2
    <2>2. CASE ~failed
        BY <2>2, <1>1, <1>2, ApplyIs DEF tx, IInv
    <2> QED BY <2>1, <2>2
<1>7. Shapes'
    BY <1>2, <1>3, <1>4, <1>5, <1>6 DEF IInv, Shapes, Idling
<1>8. ASSUME NEW u \in Uids \ {NoUid}
      PROVE  /\ Total(u) \in Nat /\ Total(u)' \in Nat /\ (Writing(u)' <=> Writing(u))
             /\ Total(u)' = Total(u) - (IF failed /\ UidOf(tx) = u THEN 1 ELSE 0)
    <2>1. /\ Cardinality(Under(pool, u))
               = Cardinality(Under(pool', u)) + (IF UidOf(tx) = u THEN 1 ELSE 0)
          /\ Cardinality(Under(pool, u)) \in Nat /\ Cardinality(Under(pool', u)) \in Nat
        BY <1>2, TailCounts, UnderFinite DEF tx
    <2>2. placed[u] \in Nat /\ placed'[u] \in Nat
          /\ placed'[u] = placed[u] + (IF ~failed /\ UidOf(tx) = u THEN 1 ELSE 0)
        BY <1>6 DEF IInv, Shapes
    <2>3. Writing(u)' <=> Writing(u)
        BY <1>5 DEF Writing
    <2>4. Total(u) = placed[u] + Cardinality(Under(pool, u))
          /\ Total(u)' = placed'[u] + Cardinality(Under(pool', u))
        BY DEF Total
    <2> QED BY <2>1, <2>2, <2>3, <2>4
<1>9. PoolIsOurs'
    <2> SUFFICES ASSUME NEW k \in 1 .. Len(pool')
                 PROVE  /\ pool'[k].nonce <= sent'
                        /\ task'.at = "receipt" /\ pool'[k].nonce = task'.nonce
                             => UidOf(pool'[k]) = UidOf(task'.tx)
        BY DEF PoolIsOurs, UidOf
    <2>1. k + 1 \in 1 .. Len(pool) /\ pool'[k] = pool[k + 1]
        BY <1>2
    <2>2. /\ pool[k + 1].nonce <= sent
          /\ task.at = "receipt" /\ pool[k + 1].nonce = task.nonce
               => UidOf(pool[k + 1]) = UidOf(task.tx)
        BY <2>1 DEF IInv, PoolIsOurs
    <2> QED BY <2>1, <2>2, <1>2, <1>5
<1>10. UnseenIsUnsent'
    <2> SUFFICES ASSUME NEW u \in Uids \ {NoUid}, u \notin engine.seen
                 PROVE  Total(u)' = 0 /\ ~Writing(u)'
        BY <1>2 DEF UnseenIsUnsent
    <2>1. Total(u) = 0 /\ ~Writing(u)
        BY DEF IInv, UnseenIsUnsent
    <2> QED BY <2>1, <1>8
<1>11. TotalBounded'
    <2> SUFFICES ASSUME NEW u \in Uids \ {NoUid}
                 PROVE  Total(u)' <= MaxTries /\ Total(u)' <= unanswered + 1
        BY <1>2 DEF TotalBounded
    <2>1. Total(u) <= MaxTries /\ Total(u) <= unanswered + 1
        BY DEF IInv, TotalBounded
    <2> QED BY <2>1, <1>2, <1>8, BotAssumption
<1>12. TriesCover'
    <2> SUFFICES ASSUME NEW u \in Uids \ {NoUid}, Writing(u)'
                 PROVE  Total(u)' <= task'.tries - 1 + Trying' /\ Total(u)' <= unanswered + Trying'
        BY <1>2 DEF TriesCover
    <2>1. /\ Writing(u) /\ task.tries \in Int /\ task'.tries = task.tries
          /\ Total(u) <= task.tries - 1 + Trying /\ Total(u) <= unanswered + Trying
        <3>1. Writing(u) /\ task.at # "idle"
            BY <1>8 DEF Writing
        <3> QED BY <3>1, <1>5, TaskTyped DEF IInv, TriesCover
    <2>2. Trying \in {0, 1} /\ Trying' \in {0, 1}
        BY DEF Trying
    <2>3. CASE ours /\ failed
        <3>1. Total(u)' = Total(u) - 1
            <4>1. UidOf(tx) = u
                BY <2>1, <2>3, <1>3 DEF Writing
            <4> QED BY <4>1, <2>3, <1>8
        <3>2. Trying' = 0
            BY <2>3, <1>3 DEF Trying
        <3>3. \A t, r, n, a, b \in Int :
                a \in {0, 1} /\ b = 0 /\ n <= t - 1 + a /\ n <= r + a
                  => n - 1 <= t - 1 + b /\ n - 1 <= r + b
            OBVIOUS
        <3>4. Total(u) \in Int /\ unanswered \in Int /\ Trying \in Int /\ Trying' \in Int
            BY <2>2, <1>2, <1>8
        <3> QED BY <3>1, <3>2, <3>3, <3>4, <2>1, <2>2
    <2>4. CASE ~(ours /\ failed)
        <3>1. Trying' = Trying \/ Trying' = 1
            <4>1. CASE ours
                BY <4>1, <2>4, <1>3, <1>5 DEF Trying
            <4>2. CASE ~ours
                BY <4>2, <1>4 DEF Trying
            <4> QED BY <4>1, <4>2
        <3>2. Total(u)' <= Total(u)
            BY <1>8
        <3>3. \A t, r, n, m, a, b \in Int :
                a \in {0, 1} /\ (b = a \/ b = 1) /\ m <= n /\ n <= t - 1 + a /\ n <= r + a
                  => m <= t - 1 + b /\ m <= r + b
            OBVIOUS
        <3>4. /\ Total(u) \in Int /\ Total(u)' \in Int /\ unanswered \in Int
              /\ Trying \in Int /\ Trying' \in Int
            BY <2>2, <1>2, <1>8
        <3> QED BY <3>1, <3>2, <3>3, <3>4, <2>1, <2>2
    <2> QED BY <2>3, <2>4
<1> QED BY <1>7, <1>9, <1>10, <1>11, <1>12 DEF IInv
-----------------------------------------------------------------------------
LEMMA InitHolds == Init => IInv
<1> SUFFICES ASSUME Init
             PROVE  IInv
    OBVIOUS
<1>1. /\ task = Idle("none") /\ position = 0 /\ resting = <<>> /\ pool = <<>> /\ sent = 0
      /\ placed = [u \in Uids |-> 0] /\ unanswered = 0
    BY DEF Init
<1>2. engine \in Engines
    BY BotAssumption DEF Init, NewEngine, Engines
<1>3. task.at = "idle"
    BY <1>1 DEF Idle
<1>4. Shapes
    BY <1>1, <1>2, <1>3 DEF Shapes, Idling
<1>5. \A u \in Uids \ {NoUid} : Total(u) = 0 /\ ~Writing(u)
    <2> TAKE u \in Uids \ {NoUid}
    <2>1. Under(pool, u) = {} /\ placed[u] = 0
        BY <1>1 DEF Under
    <2> QED BY <2>1, <1>3, FS_EmptySet DEF Total, Writing
<1>6. PoolIsOurs
    BY <1>1 DEF PoolIsOurs
<1>7. UnseenIsUnsent /\ TriesCover
    BY <1>5 DEF UnseenIsUnsent, TriesCover
<1>8. TotalBounded
    BY <1>1, <1>5, BotAssumption DEF TotalBounded
<1> QED BY <1>4, <1>6, <1>7, <1>8 DEF IInv

LEMMA StepHolds == IInv /\ [Next]_vars => IInv'
<1> SUFFICES ASSUME IInv, [Next]_vars
             PROVE  IInv'
    OBVIOUS
<1>1. CASE Place \/ Cancel \/ CancelAll \/ Flatten
    BY <1>1, CallsKeep
<1>2. CASE SetSwitch
    BY <1>2, SetSwitchKeeps
<1>3. CASE ReadPosition \/ NoReferencePrice \/ ReadNonce \/ RereadOrder \/ FlattenAfter \/ FlattenReport
    BY <1>3, ReadsKeep
<1>4. CASE PlanOrder
    BY <1>4, PlanKeeps
<1>5. CASE Simulate \/ ReadReceipt \/ ReceiptTimeout
    BY <1>5, SimulateKeeps, ReadReceiptKeeps, ReceiptTimeoutKeeps
<1>6. CASE SendTransaction \/ FlattenSize
    BY <1>6, SendKeeps, FlattenSizeKeeps
<1>7. CASE Mine \/ Match
    BY <1>7, MineKeeps, MatchKeeps
<1>8. CASE UNCHANGED vars
    BY <1>8 DEF vars, chain, IInv, Shapes, Idling, PoolIsOurs, UnseenIsUnsent, TriesCover,
                TotalBounded, Total, Writing, Trying
<1> QED BY <1>1, <1>2, <1>3, <1>4, <1>5, <1>6, <1>7, <1>8 DEF Next

(***************************************************************************)
(* An order sent under a user order id exists once on the chain, and once  *)
(* more for each attempt the sender gave up after the node had taken it,   *)
(* never more often than withRetry tries: engine.js keeps the id before    *)
(* the order is sent, sender.js and rpc.js decide what is tried again.     *)
(***************************************************************************)
THEOREM SentOncePerUid == Spec => []OncePerUid
<1>1. IInv => OncePerUid
    <2> SUFFICES ASSUME IInv, NEW u \in Uids \ {NoUid}
                 PROVE  placed[u] <= (IF unanswered < MaxTries - 1 THEN unanswered ELSE MaxTries - 1) + 1
        BY DEF OncePerUid
    <2>1. Total(u) <= MaxTries /\ Total(u) <= unanswered + 1
        BY DEF IInv, TotalBounded
    <2>2. Total(u) \in Nat /\ placed[u] \in Nat /\ placed[u] <= Total(u) /\ unanswered \in Nat
        BY TotalType DEF IInv, Shapes
    <2> QED BY <2>1, <2>2, BotAssumption
<1> QED BY <1>1, InitHolds, StepHolds, PTL DEF Spec
(***************************************************************************)
(* The position cap.  The gate checks an order against a position read     *)
(* three awaits before the order is on the chain, and counts no resting    *)
(* order: the cap holds on the chain because nothing else of the bot's is  *)
(* alive meanwhile.  What each await may rely on is the invariant Capped.  *)
(***************************************************************************)
InCap(n) == Magnitude(n) <= MaxPositionSize

\* The account is inside the cap, and stays there if its one order fills.
Within ==
    /\ InCap(position)
    /\ resting # <<>> => Len(resting) = 1 /\ InCap(position + resting[1].size)

\* Nothing is on its way to the chain but the transaction a receipt is
\* waited for.
PoolIsTask == pool # <<>> =>
    /\ task.at = "receipt" /\ task.receipt = "none" /\ Len(pool) = 1
    /\ pool[1].nonce = task.nonce /\ pool[1].kind = task.tx.kind /\ pool[1].order = task.tx.order

\* The order under way finds an account with nothing resting, on the position
\* it was judged against; the chain itself judges one that only reduces.
Fits(order) == order.reduceOnly \/ InCap(position + Signed(order))
Placing == /\ task.at \in {"nonce", "simulate", "send", "receipt"}
           /\ task.tx.kind = "place"
           /\ task.at = "receipt" => task.receipt # "ok"
Emptied == \/ task.at = "size"
           \/ /\ task.at = "receipt" /\ task.call = "flatten"
              /\ task.tx.kind = "cancelAll" /\ task.receipt = "ok"
Judged ==
    /\ task.at = "plan" /\ ~task.live => resting = <<>> /\ task.have = position
    /\ Placing => resting = <<>> /\ Fits(task.tx.order)
    /\ Emptied => resting = <<>>

Capped ==
    /\ engine.maxPositionSize = MaxPositionSize
    /\ unanswered = 0 => PoolIsTask
    /\ unanswered = 0 /\ ~overlapped => Within /\ Judged

\* A step that leaves the chain and the limits alone.
Aside == UNCHANGED <<position, resting, pool, overlapped>>
         /\ engine'.maxPositionSize = engine.maxPositionSize

LEMMA AsideCaps ==
    ASSUME Shapes, Capped, Aside, unanswered' = unanswered,
           pool = <<>> \/ task' = task, Judged => Judged'
    PROVE  Capped'
<1>1. unanswered = 0 => PoolIsTask'
    BY DEF Capped, Aside, PoolIsTask
<1>2. unanswered = 0 /\ ~overlapped => Within'
    BY DEF Capped, Aside, Within, InCap
<1> QED BY <1>1, <1>2 DEF Capped, Aside

\* An attempt given up leaves nothing to show.
LEMMA GivenUpCaps ==
    ASSUME Shapes, Capped, engine' = engine, unanswered' = unanswered + 1
    PROVE  Capped'
<1>1. unanswered' # 0
    BY DEF Shapes
<1> QED BY <1>1 DEF Capped

LEMMA PoolEmpty ==
    ASSUME Capped, unanswered = 0, task.at # "receipt" \/ task.receipt # "none"
    PROVE  pool = <<>>
BY DEF Capped, PoolIsTask

\* A step aside that goes on from where no receipt is waited for.
LEMMA MoveCaps ==
    ASSUME Shapes, Capped, Aside, unanswered' = unanswered,
           task.at # "receipt" \/ task.receipt # "none", Judged => Judged'
    PROVE  Capped'
<1>1. CASE unanswered = 0
    BY <1>1, PoolEmpty, AsideCaps
<1>2. CASE unanswered # 0
    BY <1>2 DEF Capped, Aside
<1> QED BY <1>1, <1>2

LEMMA IdleJudged == task'.at = "idle" => Judged'
BY DEF Judged, Placing, Emptied

LEMMA RetryJudged ==
    ASSUME Shapes, Unreachable, Aside, task.at \in {"simulate", "send", "receipt"},
           task.at = "receipt" => task.receipt = "failed", Judged
    PROVE  Judged'
<1>1. CASE LastTry(task.tries)
    BY <1>1, ReturnIdles, IdleJudged DEF Unreachable
<1>2. CASE ~LastTry(task.tries)
    <2>1. task' = [task EXCEPT !.at = "simulate", !.tries = @ + 1, !.receipt = "none"]
        BY <1>2 DEF Unreachable
    <2>2. task \in Tasks
        BY TaskTyped
    <2>3. task'.at = "simulate" /\ task'.tx = task.tx
        BY <2>1, <2>2 DEF Tasks
    <2>4. Placing' => Placing
        BY <2>3 DEF Placing
    <2> QED BY <2>3, <2>4 DEF Judged, Aside, Emptied, Placing, Fits, InCap
<1> QED BY <1>1, <1>2

\* A step aside from one await of a call to the next, with the same order.
LEMMA OnJudged ==
    ASSUME Shapes, Aside, Judged, task.at # "idle",
           NEW at \in {"simulate", "send", "reread", "after"}, GoTo(at),
           at \in {"simulate", "send"} => task.at \in {"nonce", "simulate"}
    PROVE  Judged'
<1>1. task \in Tasks
    BY TaskTyped
<1>2. task'.at = at /\ task'.tx = task.tx
    BY <1>1 DEF GoTo, Tasks
<1>3. Placing' => Placing
    BY <1>2 DEF Placing
<1> QED BY <1>2, <1>3 DEF Judged, Aside, Emptied, Placing, Fits, InCap

LEMMA CallsCap ==
    ASSUME Shapes, Capped, Place \/ Cancel \/ CancelAll \/ Flatten
    PROVE  Capped'
<1>1. PICK tx : \E call \in {"place", "cancel", "cancelAll", "flatten"}, at \in {"read", "simulate"} :
        /\ Call(Start(call, at, tx))
        /\ at = "simulate" => tx.kind # "place"
    <2>1. CASE Place
        BY <2>1 DEF Place
    <2>2. CASE Cancel
        <3>1. PICK k \in DOMAIN resting : Call(Start("cancel", "simulate", CancelTx(resting[k].id)))
            BY <2>2 DEF Cancel
        <3>2. CancelTx(resting[k].id).kind # "place"
            BY DEF CancelTx
        <3> QED BY <3>1, <3>2
    <2>3. CASE CancelAll \/ Flatten
        <3>1. CancelAllTx.kind # "place"
            BY DEF CancelAllTx
        <3> QED BY <2>3, <3>1 DEF CancelAll, Flatten
    <2> QED BY <2>1, <2>2, <2>3
<1>2. /\ task'.at = "read" \/ (task'.at = "simulate" /\ task'.tx.kind # "place")
      /\ Aside /\ unanswered' = unanswered /\ task.at = "idle"
    BY <1>1 DEF Call, Start, Aside, chain
<1>3. Judged'
    BY <1>2 DEF Judged, Placing, Emptied
<1> QED BY <1>2, <1>3, MoveCaps

LEMMA SetSwitchCaps ==
    ASSUME Shapes, Capped, SetSwitch
    PROVE  Capped'
<1>1. Aside /\ task' = task /\ unanswered' = unanswered
    <2>1. engine'.maxPositionSize = engine.maxPositionSize
        BY DEF SetSwitch, SetKillSwitch, Shapes, Engines
    <2> QED BY <2>1 DEF SetSwitch, Aside, chain
<1>2. Judged => Judged'
    BY <1>1 DEF Aside, Judged, Placing, Emptied, Fits, InCap
<1> QED BY <1>1, <1>2, AsideCaps

\* Awaits that read the chain or the answer to a write.
LEMMA ReadsCap ==
    ASSUME Shapes, Capped, ReadPosition \/ NoReferencePrice \/ ReadNonce \/ RereadOrder
                           \/ FlattenAfter \/ FlattenReport
    PROVE  Capped'
<1>1. /\ Aside /\ unanswered' = unanswered
      /\ task.at \in {"read", "plan", "nonce", "reread", "after", "account"}
    BY DEF ReadPosition, NoReferencePrice, ReadNonce, RereadOrder, FlattenAfter, FlattenReport,
           Aside, chain
<1>2. task \in Tasks
    BY <1>1, TaskTyped
<1>3. CASE ReadPosition
    <2>1. CASE task'.at = "idle"
        BY <2>1, <1>1, IdleJudged, MoveCaps
    <2>2. CASE task' = [task EXCEPT !.at = "plan", !.have = position, !.live = Live]
        <3>1. task'.at = "plan" /\ task'.have = position /\ task'.live = Live
            BY <2>2, <1>2 DEF Tasks
        <3>2. Judged'
            BY <3>1, <1>1 DEF Judged, Placing, Emptied, Aside, Live
        <3> QED BY <3>2, <1>1, MoveCaps
    <2> QED BY <1>3, <2>1, <2>2, ReturnIdles DEF ReadPosition
<1>4. CASE FlattenAfter
    <2>1. CASE task'.at = "idle"
        BY <2>1, <1>1, IdleJudged, MoveCaps
    <2>2. CASE task' = [task EXCEPT !.at = "account", !.have = position]
        <3>1. task'.at = "account"
            BY <2>2, <1>2 DEF Tasks
        <3>2. Judged'
            BY <3>1 DEF Judged, Placing, Emptied
        <3> QED BY <3>2, <1>1, MoveCaps
    <2> QED BY <1>4, <2>1, <2>2, ReturnIdles DEF FlattenAfter
<1>5. CASE ReadNonce
    <2>1. CASE task'.at = "idle"
        BY <2>1, <1>1, IdleJudged, MoveCaps
    <2>2. CASE GoTo("simulate")
        <3>1. task.at = "nonce"
            BY <1>5 DEF ReadNonce
        <3>2. Judged => Judged'
            BY <3>1, <2>2, <1>1, OnJudged
        <3> QED BY <3>2, <1>1, MoveCaps
    <2> QED BY <1>5, <2>1, <2>2, ReturnIdles DEF ReadNonce
<1>6. CASE NoReferencePrice \/ RereadOrder \/ FlattenReport
    <2>1. task'.at = "idle"
        <3>1. CASE NoReferencePrice
            BY <3>1, ReturnIdles DEF NoReferencePrice
        <3>2. CASE RereadOrder
            BY <3>2, ReturnIdles DEF RereadOrder
        <3>3. CASE FlattenReport
            BY <3>3, ReturnIdles DEF FlattenReport
        <3> QED BY <3>1, <3>2, <3>3, <1>6
    <2> QED BY <2>1, <1>1, IdleJudged, MoveCaps
<1> QED BY <1>3, <1>4, <1>5, <1>6

LEMMA SimulateCaps ==
    ASSUME Shapes, Capped, Simulate
    PROVE  Capped'
<1>1. Aside /\ unanswered' = unanswered /\ task.at = "simulate"
    BY DEF Simulate, Aside, chain
<1>2. CASE task'.at = "idle"
    BY <1>1, <1>2, IdleJudged, MoveCaps
<1>3. CASE GoTo("send")
    <2>1. Judged => Judged'
        BY <1>1, <1>3, OnJudged
    <2> QED BY <2>1, <1>1, MoveCaps
<1>4. CASE Unreachable
    <2>1. Judged => Judged'
        BY <1>1, <1>4, RetryJudged
    <2> QED BY <2>1, <1>1, MoveCaps
<1> QED BY <1>2, <1>3, <1>4, ReturnIdles DEF Simulate

LEMMA ReadReceiptCaps ==
    ASSUME Shapes, Capped, ReadReceipt
    PROVE  Capped'
<1>1. Aside /\ unanswered' = unanswered /\ task.at = "receipt" /\ task.receipt \in {"ok", "failed"}
    BY DEF ReadReceipt, Aside, chain
<1>2. task \in Tasks
    BY <1>1, TaskTyped
<1>3. CASE task'.at = "idle"
    BY <1>1, <1>3, IdleJudged, MoveCaps
<1>4. CASE task.receipt = "failed" /\ Unreachable
    <2>1. Judged => Judged'
        BY <1>1, <1>4, RetryJudged
    <2> QED BY <2>1, <1>1, MoveCaps
<1>5. ASSUME NEW at \in {"reread", "after"}, GoTo(at)
      PROVE  Capped'
    <2>1. Judged => Judged'
        BY <1>1, <1>5, OnJudged
    <2> QED BY <2>1, <1>1, MoveCaps
<1>6. CASE GoTo("size") /\ task.call = "flatten" /\ task.tx.kind = "cancelAll" /\ task.receipt = "ok"
    <2>1. task'.at = "size" /\ Emptied
        BY <1>1, <1>2, <1>6 DEF GoTo, Tasks, Emptied
    <2>2. Judged => Judged'
        BY <2>1, <1>1 DEF Judged, Placing, Emptied, Aside
    <2> QED BY <2>2, <1>1, MoveCaps
<1>7. CASE task.receipt = "ok" /\ Written
    <2>1. task.call \in {"place", "cancel", "cancelAll", "flatten"}
        BY <1>2 DEF Tasks
    <2>2. CASE task.call = "place"
        BY <2>2, <1>7, <1>5 DEF Written
    <2>3. CASE task.call \in {"cancel", "cancelAll"}
        <3>1. task'.at = "idle"
            BY <2>3, <1>7, ReturnIdles DEF Written
        <3> QED BY <3>1, <1>3
    <2>4. CASE task.call = "flatten" /\ task.tx.kind = "cancelAll"
        BY <2>4, <1>7, <1>6 DEF Written
    <2>5. CASE task.call = "flatten" /\ task.tx.kind # "cancelAll"
        BY <2>5, <1>7, <1>5 DEF Written
    <2> QED BY <2>1, <2>2, <2>3, <2>4, <2>5
<1> QED BY <1>3, <1>4, <1>7, ReturnIdles DEF ReadReceipt

LEMMA ReceiptTimeoutCaps ==
    ASSUME Shapes, Capped, ReceiptTimeout
    PROVE  Capped'
BY GivenUpCaps DEF ReceiptTimeout

LEMMA SendCaps ==
    ASSUME Shapes, Capped, SendTransaction
    PROVE  Capped'
<1>1. engine' = engine /\ overlapped' = overlapped /\ task.at = "send"
    BY DEF SendTransaction
<1>2. task \in Tasks /\ task.tx \in Txs /\ sent \in Nat
    BY <1>1, TaskTyped DEF Shapes
<1>3. CASE Take(task.tx) /\ unanswered' = unanswered
           /\ task' = [task EXCEPT !.at = "receipt", !.nonce = sent + 1, !.receipt = "none"]
    <2>1. /\ task'.at = "receipt" /\ task'.nonce = sent + 1 /\ task'.receipt = "none"
          /\ task'.tx = task.tx /\ task'.call = task.call
        BY <1>2, <1>3 DEF Tasks
    <2>2. ASSUME unanswered = 0
          PROVE  PoolIsTask'
        <3>1. pool = <<>>
            BY <2>2, <1>1, PoolEmpty
        <3> DEFINE new == [kind |-> task.tx.kind, order |-> task.tx.order, nonce |-> sent + 1,
                           id |-> IF task.tx.kind = "cancel" THEN task.tx.id ELSE sent + 1]
        <3>2. pool' = Append(pool, new)
            BY <1>3 DEF Take
        <3>3. new.kind = task.tx.kind /\ new.order = task.tx.order /\ new.nonce = sent + 1
            OBVIOUS
        <3> HIDE DEF new
        <3>4. Len(pool') = 1 /\ pool'[1] = new
            BY <3>1, <3>2
        <3> QED BY <3>3, <3>4, <2>1 DEF PoolIsTask
    <2>3. UNCHANGED <<position, resting>>
        BY <1>3 DEF Take
    <2>4. Within => Within'
        BY <2>3 DEF Within, InCap
    <2>5. Judged => Judged'
        <3>1. Placing' => Placing
            BY <2>1, <1>1 DEF Placing
        <3> QED BY <3>1, <2>1, <2>3 DEF Judged, Emptied, Fits, InCap
    <2> QED BY <2>2, <2>4, <2>5, <1>1, <1>3 DEF Capped
<1>4. CASE Unreachable /\ UNCHANGED <<chain, unanswered>>
    <2>1. Aside
        BY <1>1, <1>4 DEF Aside, chain
    <2>2. Judged => Judged'
        BY <2>1, <1>1, <1>4, RetryJudged
    <2> QED BY <2>1, <2>2, <1>1, <1>4, MoveCaps
<1>5. CASE unanswered' = unanswered + 1
    BY <1>1, <1>5, GivenUpCaps
<1> QED BY <1>3, <1>4, <1>5 DEF SendTransaction

LEMMA FlattenSizeCaps ==
    ASSUME Shapes, Capped, FlattenSize
    PROVE  Capped'
<1>1. Aside /\ unanswered' = unanswered /\ task.at = "size"
    BY DEF FlattenSize, Aside, chain
<1>2. task \in Tasks
    BY <1>1, TaskTyped
<1>3. CASE task'.at = "idle"
    BY <1>1, <1>3, IdleJudged, MoveCaps
<1>4. CASE GoTo("after")
    <2>1. Judged => Judged'
        BY <1>1, <1>4, OnJudged
    <2> QED BY <2>1, <1>1, MoveCaps
<1>5. CASE task' = [task EXCEPT !.at = "simulate", !.tries = 1, !.receipt = "none",
                                !.tx = PlaceTx(CloseOrder(position))]
    <2>1. CloseOrder(position).reduceOnly = TRUE
        BY DEF CloseOrder
    <2>2. PlaceTx(CloseOrder(position)).order = CloseOrder(position)
        BY DEF PlaceTx
    <2>3. task'.at = "simulate" /\ task'.tx = PlaceTx(CloseOrder(position))
        <3> HIDE DEF PlaceTx
        <3> QED BY <1>2, <1>5 DEF Tasks
    <2>4. task'.at = "simulate" /\ task'.tx.order.reduceOnly = TRUE
        BY <2>1, <2>2, <2>3
    <2>5. Emptied
        BY <1>1 DEF Emptied
    <2>6. Judged => Judged'
        BY <2>4, <2>5, <1>1 DEF Judged, Placing, Emptied, Fits, Aside
    <2> QED BY <2>6, <1>1, MoveCaps
<1> QED BY <1>3, <1>4, <1>5, ReturnIdles DEF FlattenSize

LEMMA InCapEither ==
    ASSUME NEW a \in Int, NEW n \in Int, n >= 0, Magnitude(a) + n <= MaxPositionSize
    PROVE  InCap(a) /\ InCap(a + n) /\ InCap(a - n)
BY BotAssumption DEF InCap, Magnitude

\* What is between two positions inside the cap is inside it.
LEMMA InCapBetween ==
    ASSUME NEW a \in Int, NEW b \in Int, NEW c \in Int, InCap(a), InCap(b),
           (a <= c /\ c <= b) \/ (b <= c /\ c <= a)
    PROVE  InCap(c)
BY BotAssumption DEF InCap, Magnitude

\* The gate's check, for an order cleared on the account as it is.
LEMMA ClearedFits ==
    ASSUME NEW order \in OrderForms, engine \in Engines, engine.maxPositionSize = MaxPositionSize,
           NEW have \in Int, NEW size,
           LET decision == Plan(engine, order, [positionSize |-> have, refPrice |-> 1])
           IN  decision.ok /\ decision.answer = "send" /\ size = decision.size
    PROVE  size \in Int /\ size > 0 /\ (order.reduceOnly \/ Magnitude(have) + size <= MaxPositionSize)
<1> DEFINE spec == engine.specs[order.market]
           rounded == RoundedSize(spec, order)
<1>1. order.market \in DOMAIN engine.specs
    BY DEF Plan, Refused
<1>2. rounded \in Int
    <2>1. spec.step = 1 /\ order.size \in Int
        BY <1>1 DEF Engines, Specs, OrderForms
    <2> HIDE DEF spec
    <2> QED BY <2>1 DEF RoundedSize, FloorTo
<1> HIDE DEF rounded
<1>3. size = rounded /\ rounded > 0
    BY <1>1, <1>2 DEF Plan, Refused, Cleared, rounded, spec
<1>4. order.reduceOnly \/ ~(Magnitude(have) + rounded > MaxPositionSize)
    <2>1. CASE order.reduceOnly
        BY <2>1
    <2>2. CASE ~order.reduceOnly
        <3>1. ~(Exposure([positionSize |-> have, refPrice |-> 1]) + rounded > engine.maxPositionSize)
            BY <1>1, <1>2, <2>2 DEF Plan, Refused, Cleared, rounded, spec
        <3> QED BY <3>1 DEF Exposure
    <2> QED BY <2>1, <2>2
<1>5. Magnitude(have) \in Nat
    BY DEF Magnitude
<1> QED BY <1>2, <1>3, <1>4, <1>5, BotAssumption

LEMMA PlanCaps ==
    ASSUME IInv, Capped, PlanOrder
    PROVE  Capped'
<1> DEFINE order    == task.tx.order
           decision == Plan(engine, order, [positionSize |-> task.have, refPrice |-> 1])
           sends    == decision.ok /\ decision.answer = "send"
<1>1. /\ task \in Tasks /\ task.tx \in Txs /\ engine \in Engines /\ task.at = "plan"
      /\ task.tx.kind = "place" /\ task.have \in Int /\ position \in Int
    BY TaskTyped DEF PlanOrder, IInv, Shapes
<1>2. order \in OrderForms
    BY <1>1 DEF Txs
<1>3. /\ engine' = Remember(engine, order, decision)
      /\ sends => task' = [task EXCEPT !.at = "nonce", !.tx.order.size = decision.size,
                                       !.tx.order.price = decision.price]
      /\ ~sends => task'.at = "idle"
      /\ overlapped' = (overlapped \/ (sends /\ task.live))
      /\ UNCHANGED <<chain, calls, unanswered>>
    BY ReturnIdles DEF PlanOrder
<1>4. engine'.maxPositionSize = MaxPositionSize
    <2>1. engine' \in {engine, [engine EXCEPT !.seen = @ \cup {order.uid}]}
        BY <1>3 DEF Remember
    <2>2. \A s : [engine EXCEPT !.seen = s].maxPositionSize = engine.maxPositionSize
        BY <1>1 DEF Engines
    <2> QED BY <2>1, <2>2 DEF Capped
<1>5. UNCHANGED <<position, resting, pool>>
    BY <1>3 DEF chain
<1>6. unanswered' = 0 => PoolIsTask'
    BY <1>1, <1>3, <1>5, PoolEmpty DEF PoolIsTask
<1>7. ASSUME unanswered' = 0, ~overlapped'
      PROVE  Within' /\ Judged'
    <2>1. Within /\ Judged /\ unanswered = 0 /\ ~overlapped
        BY <1>3, <1>7 DEF Capped
    <2>2. Within'
        BY <2>1, <1>5 DEF Within, InCap
    <2>3. CASE ~sends
        BY <2>2, <2>3, <1>3, IdleJudged
    <2>4. CASE sends
        <3>1. resting = <<>> /\ task.have = position
            BY <2>1, <2>4, <1>1, <1>3, <1>7 DEF Judged
        <3>2. /\ decision.size \in Int /\ decision.size > 0
              /\ order.reduceOnly \/ Magnitude(position) + decision.size <= MaxPositionSize
            <4>1. engine.maxPositionSize = MaxPositionSize
                BY DEF Capped
            <4> HIDE DEF order
            <4> QED BY <4>1, <3>1, <2>4, <1>1, <1>2, ClearedFits
        <3> HIDE DEF decision
        <3>3. /\ task'.at = "nonce" /\ task'.tx.order.size = decision.size
              /\ task'.tx.order.side = order.side /\ task'.tx.order.reduceOnly = order.reduceOnly
            <4> DEFINE tx == [task.tx EXCEPT !.order.size = decision.size, !.order.price = decision.price]
            <4>1. task.tx \in [kind : {"place"}, order : OrderForms, id : Nat]
                BY <1>1 DEF Txs
            <4>2. /\ tx.order.size = decision.size /\ tx.order.side = order.side
                  /\ tx.order.reduceOnly = order.reduceOnly
                BY <4>1 DEF OrderForms
            <4>3. [task EXCEPT !.at = "nonce", !.tx.order.size = decision.size,
                               !.tx.order.price = decision.price]
                    = [task EXCEPT !.at = "nonce", !.tx = tx]
                BY <1>1, <4>1 DEF Tasks
            <4>4. task' = [task EXCEPT !.at = "nonce", !.tx = tx]
                BY <2>4, <1>3, <4>3
            <4> HIDE DEF tx, order
            <4> QED BY <4>2, <4>4, <1>1 DEF Tasks
        <3>4. Fits(task.tx.order)'
            <4> DEFINE new == task'.tx.order
            <4>1. CASE order.reduceOnly
                BY <4>1, <3>3 DEF Fits
            <4>2. CASE ~order.reduceOnly
                <5>1. InCap(position + decision.size) /\ InCap(position - decision.size)
                    BY <4>2, <3>2, <1>1, InCapEither
                <5>2. Signed(new) \in {decision.size, -decision.size}
                    BY <3>3 DEF Signed
                <5>3. InCap(position + Signed(new))
                    <6> HIDE DEF new
                    <6> QED BY <5>1, <5>2, <3>2, <1>1
                <5> QED BY <5>3, <1>5 DEF Fits, InCap, Signed
            <4> QED BY <4>1, <4>2
        <3> QED BY <2>2, <3>1, <3>3, <3>4, <1>5 DEF Judged, Placing, Emptied
    <2> QED BY <2>3, <2>4
<1> QED BY <1>4, <1>6, <1>7 DEF Capped

LEMMA OppositeSigns ==
    ASSUME NEW a \in Int, NEW b \in Int, ~(a * b >= 0)
    PROVE  (a > 0 /\ b < 0) \/ (a < 0 /\ b > 0)
<1>1. a >= 0 /\ b >= 0 => a * b >= 0
    BY SMTT(20)
<1>2. a <= 0 /\ b <= 0 => a * b >= 0
    BY SMTT(20)
<1> QED BY <1>1, <1>2

\* However much of an order that fits is filled, the account is where Within
\* wants it.
LEMMA TradeCaps ==
    ASSUME Shapes, NEW tx \in PoolTxs, tx.kind = "place", ~Reverts(tx), Trade(tx),
           resting = <<>>, InCap(position), Fits(tx.order)
    PROVE  Within'
<1> DEFINE size == tx.order.size
           signed == Signed(tx.order)
           sign == Sign(signed)
<1>1. PICK filled \in 0 .. size :
        LET rest == size - filled
        IN  /\ position' = position + sign * filled
            /\ resting' = IF rest > 0 /\ tx.order.type = "Limit"
                  THEN Append(resting, [id |-> tx.id, uid |-> tx.order.uid, size |-> sign * rest])
                  ELSE resting
    BY DEF Trade
<1>2. position \in Int /\ tx.order \in OrderForms
    BY DEF Shapes, PoolTxs
<1>3. size \in Int /\ (signed = size \/ signed = -size)
    BY <1>2 DEF OrderForms, Signed
<1>4. filled \in Nat /\ filled <= size
    BY <1>1, <1>3
<1>5. tx.order.reduceOnly => ~(position * signed >= 0) /\ size <= Magnitude(position)
    <2>1. tx.order.reduceOnly =>
            ~(position * signed >= 0) /\ ~(size > Magnitude(position))
        BY DEF Reverts
    <2>2. Magnitude(position) \in Int
        BY <1>2 DEF Magnitude
    <2> HIDE DEF size, signed
    <2> QED BY <2>1, <2>2, <1>3
<1>6. ~tx.order.reduceOnly => InCap(position + signed)
    BY DEF Fits
<1> HIDE DEF size, signed
<1>7. InCap(position + signed)
    <2>1. CASE tx.order.reduceOnly
        <3>1. signed \in Int
            BY <1>3
        <3>2. (position > 0 /\ signed < 0) \/ (position < 0 /\ signed > 0)
            BY <3>1, <2>1, <1>2, <1>5, OppositeSigns
        <3> QED BY <3>1, <3>2, <2>1, <1>2, <1>3, <1>5, BotAssumption DEF InCap, Magnitude
    <2>2. CASE ~tx.order.reduceOnly
        BY <2>2, <1>6
    <2> QED BY <2>1, <2>2
<1> DEFINE rest == size - filled
<1>8. /\ sign * filled \in Int /\ sign * rest \in Int
      /\ sign * filled = IF signed < 0 THEN -filled ELSE filled
      /\ sign * rest = IF signed < 0 THEN -rest ELSE rest
      /\ rest \in Int /\ rest >= 0
    <2>1. rest \in Int /\ rest >= 0
        BY <1>3, <1>4
    <2> HIDE DEF rest
    <2> QED BY <2>1, <1>4 DEF Sign
<1>9. /\ position' = position + sign * filled
      /\ resting' = <<>> \/ resting' = Append(<<>>, [id |-> tx.id, uid |-> tx.order.uid, size |-> sign * rest])
    BY <1>1
<1>10. /\ position' \in Int /\ position' + sign * rest = position + signed
       /\ \/ position <= position' /\ position' <= position + signed
          \/ position + signed <= position' /\ position' <= position
    <2> DEFINE moved == sign * filled
               left  == sign * rest
    <2>1. moved \in Int /\ left \in Int /\ position' = position + moved
          /\ moved = (IF signed < 0 THEN -filled ELSE filled)
          /\ left = (IF signed < 0 THEN -rest ELSE rest)
        BY <1>8, <1>9
    <2>2. rest = size - filled
        OBVIOUS
    <2> HIDE DEF moved, left, rest, sign
    <2>3. position' + left = position + signed
        BY <2>1, <2>2, <1>2, <1>3, <1>4
    <2>4. \/ position <= position' /\ position' <= position + signed
          \/ position + signed <= position' /\ position' <= position
        BY <2>1, <2>2, <1>2, <1>3, <1>4
    <2> QED BY <2>1, <2>3, <2>4, <1>2 DEF left
<1> HIDE DEF rest, sign
<1>11. InCap(position')
    BY <1>2, <1>3, <1>7, <1>10, InCapBetween
<1>12. resting' # <<>> => Len(resting') = 1 /\ resting'[1].size = sign * rest
    <2> DEFINE r == [id |-> tx.id, uid |-> tx.order.uid, size |-> sign * rest]
    <2>1. r.size = sign * rest
        OBVIOUS
    <2>2. resting' = <<>> \/ resting' = Append(<<>>, r)
        BY <1>9
    <2> HIDE DEF r
    <2>3. Len(Append(<<>>, r)) = 1 /\ Append(<<>>, r)[1] = r
        OBVIOUS
    <2> QED BY <2>1, <2>2, <2>3
<1>13. resting' # <<>> => InCap(position' + resting'[1].size)
    BY <1>7, <1>10, <1>12
<1> QED BY <1>11, <1>12, <1>13 DEF Within, InCap

LEMMA MineCaps ==
    ASSUME Shapes, Capped, Mine
    PROVE  Capped'
<1> DEFINE tx == Head(pool)
<1>1. PICK failed \in Outcomes(tx) :
        /\ IF failed THEN UNCHANGED <<position, resting, placed>> ELSE Apply(tx)
        /\ task' = IF task.at = "receipt" /\ task.nonce = tx.nonce
                   THEN [task EXCEPT !.receipt = IF failed THEN "failed" ELSE "ok"]
                   ELSE task
    BY DEF Mine
<1>2. /\ pool # <<>> /\ pool' = Tail(pool) /\ engine' = engine /\ unanswered' = unanswered
      /\ overlapped' = overlapped
    BY DEF Mine
<1>3. pool \in Seq(PoolTxs) /\ tx = pool[1] /\ tx \in PoolTxs
    BY <1>2 DEF Shapes
<1> HIDE DEF tx
<1>4. CASE unanswered # 0
    BY <1>2, <1>4 DEF Capped
<1>5. CASE unanswered = 0
    <2>1. /\ task.at = "receipt" /\ task.receipt = "none" /\ Len(pool) = 1
          /\ tx.nonce = task.nonce /\ tx.kind = task.tx.kind /\ tx.order = task.tx.order
        BY <1>2, <1>3, <1>5 DEF Capped, PoolIsTask
    <2>2. pool' = <<>>
        BY <1>2, <1>3, <2>1
    <2>3. PoolIsTask'
        BY <2>2 DEF PoolIsTask
    <2>4. task \in Tasks
        BY <2>1, TaskTyped
    <2>5. /\ task'.at = "receipt" /\ task'.tx = task.tx /\ task'.call = task.call
          /\ task'.receipt = IF failed THEN "failed" ELSE "ok"
        BY <2>1, <2>4, <1>1 DEF Tasks
    <2>6. ASSUME ~overlapped
          PROVE  Within' /\ Judged'
        <3>1. Within /\ Judged
            BY <2>6, <1>5 DEF Capped
        <3>2. CASE failed
            <4>1. UNCHANGED <<position, resting>>
                BY <3>2, <1>1
            <4>2. Placing' => Placing
                BY <2>1, <2>5 DEF Placing
            <4>3. ~Emptied'
                BY <2>5, <3>2 DEF Emptied
            <4>4. Within'
                BY <3>1, <4>1 DEF Within, InCap
            <4> QED BY <3>1, <4>1, <4>2, <4>3, <4>4, <2>5 DEF Judged, Fits, InCap
        <3>3. CASE ~failed
            <4>0. Apply(tx) /\ ~Placing' /\ task'.at # "plan"
                BY <3>3, <1>1, <2>5 DEF Placing
            <4>1. CASE tx.kind = "place"
                <5>1. Trade(tx)
                    BY <4>0, <4>1 DEF Apply
                <5>2. ~Reverts(tx)
                    BY <3>3, <1>1 DEF Outcomes
                <5>3. resting = <<>> /\ Fits(tx.order)
                    BY <3>1, <4>1, <2>1 DEF Judged, Placing
                <5>4. Within'
                    BY <5>1, <5>2, <5>3, <4>1, <3>1, <1>3, TradeCaps DEF Within
                <5>5. ~Emptied'
                    BY <4>1, <2>1, <2>5 DEF Emptied
                <5> QED BY <5>4, <5>5, <4>0 DEF Judged
            <4>2. CASE tx.kind = "cancel"
                <5>1. PICK k \in DOMAIN resting : resting' = RemoveAt(resting, k)
                    BY <4>0, <4>2 DEF Apply
                <5>2. position' = position
                    BY <4>0, <4>2 DEF Apply
                <5>3. resting \in Seq(RestForms) /\ Len(resting) = 1 /\ k = 1
                    <6>1. resting \in Seq(RestForms)
                        BY DEF Shapes
                    <6>2. resting # <<>>
                        BY <5>1, <6>1
                    <6> QED BY <5>1, <6>1, <6>2, <3>1 DEF Within
                <5>4. resting' = <<>>
                    <6>1. resting' = SubSeq(resting, 1, 0) \o SubSeq(resting, 2, 1)
                        BY <5>1, <5>3 DEF RemoveAt
                    <6> QED BY <6>1, <5>3
                <5>5. ~Emptied'
                    BY <4>2, <2>1, <2>5 DEF Emptied
                <5> QED BY <5>2, <5>4, <5>5, <4>0, <3>1 DEF Judged, Within, InCap
            <4>3. CASE tx.kind \notin {"place", "cancel"}
                <5>1. resting' = <<>> /\ position' = position
                    BY <4>0, <4>3 DEF Apply
                <5> QED BY <5>1, <4>0, <3>1 DEF Judged, Within, InCap
            <4> QED BY <4>1, <4>2, <4>3
        <3> QED BY <3>2, <3>3
    <2> QED BY <2>3, <2>6, <1>2 DEF Capped
<1> QED BY <1>4, <1>5

LEMMA MatchCaps ==
    ASSUME Shapes, Capped, Match
    PROVE  Capped'
<1>1. PICK k \in DOMAIN resting : \E n \in 1 .. Magnitude(resting[k].size) :
        LET left == resting[k].size - Sign(resting[k].size) * n
        IN  /\ position' = position + Sign(resting[k].size) * n
            /\ resting' = IF left = 0 THEN RemoveAt(resting, k)
                          ELSE [resting EXCEPT ![k].size = left]
            /\ UNCHANGED <<engine, task, pool, sent, calls, faults, placed, unanswered, overlapped>>
    BY DEF Match
<1>2. /\ resting \in Seq(RestForms) /\ position \in Int /\ k \in 1 .. Len(resting)
      /\ resting[k] \in RestForms /\ resting[k].size \in Int
    <2>1. resting \in Seq(RestForms) /\ position \in Int
        BY DEF Shapes
    <2>2. resting[k] \in RestForms /\ k \in 1 .. Len(resting)
        BY <2>1
    <2> QED BY <2>1, <2>2 DEF RestForms
<1> DEFINE size == resting[k].size
<1>3. PICK n \in 1 .. Magnitude(size) :
        LET left == size - Sign(size) * n
        IN  /\ position' = position + Sign(size) * n
            /\ resting' = IF left = 0 THEN RemoveAt(resting, k)
                          ELSE [resting EXCEPT ![k].size = left]
            /\ UNCHANGED <<engine, task, pool, sent, calls, faults, placed, unanswered, overlapped>>
    BY <1>1
<1>4. unanswered' = 0 => PoolIsTask'
    BY <1>3 DEF Capped, PoolIsTask
<1>5. ASSUME unanswered = 0, ~overlapped
      PROVE  Within' /\ Judged'
    <2>1. Within /\ Judged
        BY <1>5 DEF Capped
    <2>2. k = 1 /\ Len(resting) = 1 /\ InCap(position) /\ InCap(position + size) /\ resting # <<>>
        BY <2>1, <1>2 DEF Within
    <2> DEFINE moved == Sign(size) * n
               left  == size - moved
    <2>3. size \in Int /\ moved \in Int /\ left \in Int /\ position' = position + moved
          /\ moved = IF size < 0 THEN -n ELSE n
        <3>1. size \in Int /\ n \in Int
            BY <1>2 DEF Magnitude
        <3> HIDE DEF size
        <3> QED BY <3>1, <1>3 DEF Sign
    <2>4. /\ position' + left = position + size
          /\ \/ position <= position' /\ position' <= position + size
             \/ position + size <= position' /\ position' <= position
        <3>1. n >= 1 /\ n <= Magnitude(size)
            BY <1>3, <2>3 DEF Magnitude
        <3>2. left = size - moved
            OBVIOUS
        <3> HIDE DEF size, moved, left
        <3> QED BY <3>1, <3>2, <2>3, <1>2 DEF Magnitude
    <2>5. resting' = IF left = 0 THEN RemoveAt(resting, k) ELSE [resting EXCEPT ![k].size = left]
        BY <1>3
    <2> HIDE DEF moved, left, size
    <2>6. position' \in Int /\ InCap(position')
        <3>1. position + size \in Int /\ position' \in Int
            BY <2>3, <1>2
        <3> QED BY <3>1, <2>2, <2>4, <1>2, InCapBetween
    <2>7. Within'
        <3>1. CASE left = 0
            <4>1. resting' = SubSeq(resting, 1, 0) \o SubSeq(resting, 2, 1)
                BY <3>1, <2>2, <2>5 DEF RemoveAt
            <4>2. resting' = <<>>
                BY <4>1, <1>2, <2>2
            <4> QED BY <4>2, <2>6 DEF Within, InCap
        <3>2. CASE left # 0
            <4>1. Len(resting') = 1 /\ resting'[1].size = left
                <5>1. resting' = [resting EXCEPT ![1].size = left]
                    BY <3>2, <2>2, <2>5
                <5>2. resting[1] \in RestForms
                    BY <1>2, <2>2
                <5>3. resting' = [resting EXCEPT ![1] = [resting[1] EXCEPT !.size = left]]
                    BY <5>1
                <5>4. [resting[1] EXCEPT !.size = left].size = left
                    BY <5>2 DEF RestForms
                <5>5. [resting[1] EXCEPT !.size = left] \in RestForms
                    BY <5>2, <2>3 DEF RestForms
                <5> DEFINE r == [resting[1] EXCEPT !.size = left]
                <5> HIDE DEF r
                <5>6. resting' = [resting EXCEPT ![1] = r] /\ r \in RestForms /\ r.size = left
                    BY <5>3, <5>4, <5>5 DEF r
                <5>7. Len([resting EXCEPT ![1] = r]) = 1 /\ [resting EXCEPT ![1] = r][1] = r
                    BY <5>6, <1>2, <2>2
                <5> QED BY <5>6, <5>7
            <4>2. InCap(position' + resting'[1].size)
                BY <4>1, <2>2, <2>4
            <4> QED BY <4>1, <4>2, <2>6 DEF Within, InCap
        <3> QED BY <3>1, <3>2
    <2>8. Judged'
        BY <2>1, <2>2, <1>3 DEF Judged, Placing, Emptied
    <2> QED BY <2>7, <2>8
<1> QED BY <1>3, <1>4, <1>5 DEF Capped

LEMMA InitCaps == Init => Capped
<1> SUFFICES ASSUME Init
             PROVE  Capped
    OBVIOUS
<1>1. engine.maxPositionSize = MaxPositionSize
    BY DEF Init, NewEngine
<1>2. task.at = "idle" /\ position = 0 /\ resting = <<>> /\ pool = <<>>
    BY DEF Init, Idle
<1>3. InCap(position)
    BY <1>2, BotAssumption DEF InCap, Magnitude
<1> QED BY <1>1, <1>2, <1>3 DEF Capped, PoolIsTask, Within, Judged, Placing, Emptied

LEMMA StepCaps == IInv /\ Capped /\ [Next]_vars => Capped'
<1> SUFFICES ASSUME IInv, Capped, [Next]_vars
             PROVE  Capped'
    OBVIOUS
<1>0. Shapes
    BY DEF IInv
<1>1. CASE Place \/ Cancel \/ CancelAll \/ Flatten \/ SetSwitch
    BY <1>0, <1>1, CallsCap, SetSwitchCaps
<1>2. CASE ReadPosition \/ NoReferencePrice \/ ReadNonce \/ RereadOrder \/ FlattenAfter \/ FlattenReport
    BY <1>0, <1>2, ReadsCap
<1>3. CASE PlanOrder
    BY <1>3, PlanCaps
<1>4. CASE Simulate \/ ReadReceipt \/ ReceiptTimeout
    BY <1>0, <1>4, SimulateCaps, ReadReceiptCaps, ReceiptTimeoutCaps
<1>5. CASE SendTransaction \/ FlattenSize
    BY <1>0, <1>5, SendCaps, FlattenSizeCaps
<1>6. CASE Mine \/ Match
    BY <1>0, <1>6, MineCaps, MatchCaps
<1>7. CASE UNCHANGED vars
    BY <1>7 DEF vars, chain, Capped, PoolIsTask, Within, InCap, Judged, Placing, Emptied, Fits
<1> QED BY <1>1, <1>2, <1>3, <1>4, <1>5, <1>6, <1>7 DEF Next

(***************************************************************************)
(* The cap engine.js checks before an order is sent holds of the position  *)
(* on the chain, for any orders, limits, tries, fills and faults, unless   *)
(* an order was cleared on a position read while another one was live or a *)
(* request was repeated that the node had taken.                           *)
(***************************************************************************)
THEOREM CapIsKept == Spec => []CapHolds
<1>1. IInv /\ Capped => CapHolds
    BY DEF IInv, Shapes, Capped, Within, InCap, CapHolds
<1>2. Init => IInv /\ Capped
    BY InitHolds, InitCaps
<1>3. IInv /\ Capped /\ [Next]_vars => IInv' /\ Capped'
    BY StepHolds, StepCaps
<1> QED BY <1>1, <1>2, <1>3, PTL DEF Spec

(***************************************************************************)
(* flatten says flat when it has read no position and then no open order,  *)
(* two reads apart.  Both are true at the second because its cancelAll left *)
(* nothing that could trade between them, and its closing order never rests. *)
(***************************************************************************)
Flattening == \/ task.tx.kind = "place"
              \/ task.at \in {"size", "after", "account"}
              \/ task.at = "receipt" /\ task.receipt = "ok"
Shut ==
    /\ task.at \in {"size", "after", "account"} => task.call = "flatten"
    /\ task.call = "flatten" =>
         /\ task.at \in {"simulate", "send", "receipt", "size", "after", "account"}
         /\ task.tx.kind \in {"place", "cancelAll"}
         /\ task.tx.kind = "place" => task.tx.order.type = "Market"
         /\ Flattening => resting = <<>>
         /\ task.at = "account" => task.have = position

LEMMA OtherShut ==
    task'.call # "flatten" /\ task'.at \notin {"size", "after", "account"} => Shut'
BY DEF Shut

LEMMA ReturnShut == \A r : Return(r) => Shut'
BY DEF Return, Idle, Shut

\* A step of the call that leaves the account and the transaction alone.
LEMMA SameShut ==
    ASSUME Shut, UNCHANGED <<position, resting>>, task'.call = task.call, task'.tx = task.tx,
           task'.at \in {"size", "after", "account"} => task.call = "flatten",
           task.call = "flatten" =>
               /\ task'.at \in {"simulate", "send", "receipt", "size", "after", "account"}
               /\ Flattening' => Flattening
               /\ task'.at = "account" => task'.have = position
    PROVE  Shut'
BY DEF Shut, Flattening

LEMMA CallsShut ==
    ASSUME Place \/ Cancel \/ CancelAll \/ Flatten
    PROVE  Shut'
<1>1. CASE Flatten
    <2>1. task'.at = "simulate" /\ task'.tx.kind = "cancelAll"
        BY <1>1 DEF Flatten, Call, Start, CancelAllTx
    <2> QED BY <2>1 DEF Shut, Flattening
<1>2. CASE Place \/ Cancel \/ CancelAll
    <2>1. task'.call # "flatten" /\ task'.at \in {"read", "simulate"}
        BY <1>2 DEF Place, Cancel, CancelAll, Call, Start
    <2> QED BY <2>1, OtherShut
<1> QED BY <1>1, <1>2

LEMMA PlacingShut ==
    ASSUME Shapes, Shut, ReadPosition \/ PlanOrder \/ NoReferencePrice \/ ReadNonce \/ RereadOrder
    PROVE  Shut'
<1>1. task.at \in {"read", "plan", "nonce", "reread"}
    BY DEF ReadPosition, PlanOrder, NoReferencePrice, ReadNonce, RereadOrder
<1>2. task \in Tasks /\ task.call # "flatten"
    BY <1>1, TaskTyped DEF Shut
<1>3. CASE ReadPosition
    <2>1. CASE task' = [task EXCEPT !.at = "plan", !.have = position, !.live = Live]
        BY <2>1, <1>2, OtherShut DEF Tasks
    <2> QED BY <2>1, <1>3, ReturnShut DEF ReadPosition
<1>4. CASE PlanOrder
    <2>1. ASSUME NEW size, NEW price,
                 task' = [task EXCEPT !.at = "nonce", !.tx.order.size = size, !.tx.order.price = price]
          PROVE  Shut'
        BY <2>1, <1>2, OtherShut DEF Tasks
    <2> QED BY <2>1, <1>4, ReturnShut DEF PlanOrder
<1>5. CASE NoReferencePrice
    BY <1>5, ReturnShut DEF NoReferencePrice
<1>6. CASE ReadNonce
    <2>1. CASE GoTo("simulate")
        BY <2>1, <1>2, OtherShut DEF Tasks, GoTo
    <2> QED BY <2>1, <1>6, ReturnShut DEF ReadNonce
<1>7. CASE RereadOrder
    BY <1>7, ReturnShut DEF RereadOrder
<1> QED BY <1>3, <1>4, <1>5, <1>6, <1>7

LEMMA RetryShut ==
    ASSUME Shapes, Shut, Unreachable, UNCHANGED <<position, resting>>,
           task.at \in {"simulate", "send", "receipt"}
    PROVE  Shut'
<1>1. CASE LastTry(task.tries)
    BY <1>1, ReturnShut DEF Unreachable
<1>2. CASE ~LastTry(task.tries)
    <2>1. task' = [task EXCEPT !.at = "simulate", !.tries = @ + 1, !.receipt = "none"]
        BY <1>2 DEF Unreachable
    <2>2. task \in Tasks
        BY TaskTyped
    <2>3. task'.at = "simulate" /\ task'.tx = task.tx /\ task'.call = task.call
        BY <2>1, <2>2 DEF Tasks
    <2> QED BY <2>3, SameShut DEF Flattening
<1> QED BY <1>1, <1>2

LEMMA GoShut ==
    ASSUME Shapes, Shut, UNCHANGED <<position, resting>>, task.at # "idle",
           NEW at \in {"send", "reread", "size", "after"}, GoTo(at),
           task.call = "flatten" => at # "reread",
           at \in {"size", "after"} => task.call = "flatten" /\ Flattening
    PROVE  Shut'
<1>1. task \in Tasks
    BY TaskTyped
<1>2. task'.at = at /\ task'.tx = task.tx /\ task'.call = task.call
    BY <1>1 DEF GoTo, Tasks
<1> QED BY <1>2, SameShut DEF Flattening

LEMMA WriteShut ==
    ASSUME Shapes, Shut, Simulate \/ SendTransaction \/ ReadReceipt \/ ReceiptTimeout,
           unanswered' = unanswered
    PROVE  Shut'
<1>0. unanswered + 1 # unanswered
    BY DEF Shapes
<1>1. CASE Simulate
    <2>1. UNCHANGED <<position, resting>> /\ task.at = "simulate"
        BY <1>1 DEF Simulate, chain
    <2>2. CASE Unreachable
        BY <2>1, <2>2, RetryShut
    <2>3. CASE GoTo("send")
        BY <2>1, <2>3, GoShut
    <2> QED BY <1>1, <2>2, <2>3, ReturnShut DEF Simulate
<1>2. CASE SendTransaction
    <2>1. UNCHANGED <<position, resting>> /\ task.at = "send"
        BY <1>2 DEF SendTransaction, chain, Take
    <2>2. CASE Unreachable
        BY <2>1, <2>2, RetryShut
    <2>3. CASE task' = [task EXCEPT !.at = "receipt", !.nonce = sent + 1, !.receipt = "none"]
        <3>1. task \in Tasks
            BY <2>1, TaskTyped
        <3>2. /\ task'.at = "receipt" /\ task'.tx = task.tx /\ task'.call = task.call
              /\ task'.receipt = "none"
            BY <2>3, <3>1 DEF Tasks
        <3> QED BY <2>1, <3>2, SameShut DEF Flattening
    <2> QED BY <1>2, <2>2, <2>3 DEF SendTransaction
<1>3. CASE ReadReceipt
    <2>1. UNCHANGED <<position, resting>> /\ task.at = "receipt"
        BY <1>3 DEF ReadReceipt, chain
    <2>2. CASE Unreachable
        BY <2>1, <2>2, RetryShut
    <2>3. CASE task.receipt = "ok" /\ Written
        <3>1. Flattening /\ task \in Tasks
            BY <2>1, <2>3, TaskTyped DEF Flattening
        <3>2. task.call \in {"place", "cancel", "cancelAll", "flatten"}
            BY <3>1 DEF Tasks
        <3>3. CASE task.call = "place"
            <4>1. GoTo("reread")
                BY <2>3, <3>3 DEF Written
            <4> QED BY <4>1, <3>3, <2>1, GoShut
        <3>4. CASE task.call \in {"cancel", "cancelAll"}
            <4>1. Return("ok")
                BY <2>3, <3>4 DEF Written
            <4> QED BY <4>1, ReturnShut
        <3>5. CASE task.call = "flatten"
            <4>1. GoTo("size") \/ GoTo("after")
                <5>1. CASE task.tx.kind = "cancelAll"
                    BY <2>3, <3>5, <5>1 DEF Written
                <5>2. CASE task.tx.kind # "cancelAll"
                    BY <2>3, <3>5, <5>2 DEF Written
                <5> QED BY <5>1, <5>2
            <4> QED BY <4>1, <3>1, <3>5, <2>1, GoShut
        <3> QED BY <3>2, <3>3, <3>4, <3>5
    <2> QED BY <1>3, <2>2, <2>3, ReturnShut DEF ReadReceipt
<1>4. ~ReceiptTimeout
    BY <1>0 DEF ReceiptTimeout
<1> QED BY <1>1, <1>2, <1>3, <1>4

LEMMA FlattenShut ==
    ASSUME Shapes, Shut, FlattenSize \/ FlattenAfter \/ FlattenReport
    PROVE  Shut'
<1>1. UNCHANGED <<position, resting>> /\ task.at \in {"size", "after", "account"}
    BY DEF FlattenSize, FlattenAfter, FlattenReport, chain
<1>2. task \in Tasks /\ Flattening
    BY <1>1, TaskTyped DEF Flattening
<1>3. CASE FlattenSize
    <2>1. CASE GoTo("after")
        BY <2>1, <1>1, <1>2, GoShut DEF Shut
    <2>2. CASE task' = [task EXCEPT !.at = "simulate", !.tries = 1, !.receipt = "none",
                                    !.tx = PlaceTx(CloseOrder(position))]
        <3>1. /\ PlaceTx(CloseOrder(position)).kind = "place"
              /\ PlaceTx(CloseOrder(position)).order.type = "Market"
            BY DEF PlaceTx, CloseOrder
        <3>2. /\ task'.at = "simulate" /\ task'.tx = PlaceTx(CloseOrder(position))
              /\ task'.call = task.call
            <4> HIDE DEF PlaceTx
            <4> QED BY <2>2, <1>2 DEF Tasks
        <3>3. task'.at = "simulate" /\ task'.tx.kind = "place" /\ task'.tx.order.type = "Market"
            BY <3>1, <3>2
        <3> QED BY <3>2, <3>3, <1>1, <1>2 DEF Shut
    <2> QED BY <1>3, <2>1, <2>2, ReturnShut DEF FlattenSize
<1>4. CASE FlattenAfter
    <2>1. CASE task' = [task EXCEPT !.at = "account", !.have = position]
        <3>1. /\ task'.at = "account" /\ task'.have = position /\ task'.tx = task.tx
              /\ task'.call = task.call
            BY <2>1, <1>2 DEF Tasks
        <3> QED BY <3>1, <1>1, <1>2, SameShut DEF Shut
    <2> QED BY <1>4, <2>1, ReturnShut DEF FlattenAfter
<1>5. CASE FlattenReport
    BY <1>5, ReturnShut DEF FlattenReport
<1> QED BY <1>3, <1>4, <1>5

LEMMA MineShut ==
    ASSUME Shapes, Capped, unanswered = 0, Shut, Mine
    PROVE  Shut'
<1> DEFINE tx == Head(pool)
<1>1. PICK failed \in Outcomes(tx) :
        /\ IF failed THEN UNCHANGED <<position, resting, placed>> ELSE Apply(tx)
        /\ task' = IF task.at = "receipt" /\ task.nonce = tx.nonce
                   THEN [task EXCEPT !.receipt = IF failed THEN "failed" ELSE "ok"]
                   ELSE task
    BY DEF Mine
<1>2. /\ task.at = "receipt" /\ task.receipt = "none" /\ tx.nonce = task.nonce
      /\ tx.kind = task.tx.kind /\ tx.order = task.tx.order
    <2>1. pool # <<>> /\ pool \in Seq(PoolTxs)
        BY DEF Mine, Shapes
    <2>2. tx = pool[1]
        BY <2>1
    <2> HIDE DEF tx
    <2> QED BY <2>1, <2>2 DEF Capped, PoolIsTask
<1> HIDE DEF tx
<1>3. task \in Tasks
    BY <1>2, TaskTyped
<1>4. /\ task'.at = "receipt" /\ task'.tx = task.tx /\ task'.call = task.call
      /\ task'.receipt = IF failed THEN "failed" ELSE "ok"
    BY <1>1, <1>2, <1>3 DEF Tasks
<1>5. CASE task.call # "flatten"
    BY <1>5, <1>4, OtherShut
<1>6. CASE task.call = "flatten" /\ failed
    <2>1. Flattening' => Flattening
        BY <1>4, <1>6 DEF Flattening
    <2> QED BY <2>1, <1>1, <1>4, <1>6, SameShut
<1>7. CASE task.call = "flatten" /\ ~failed
    <2>1. Apply(tx)
        BY <1>1, <1>7
    <2>2. resting' = <<>>
        <3>1. CASE task.tx.kind = "cancelAll"
            BY <2>1, <3>1, <1>2 DEF Apply
        <3>2. CASE task.tx.kind = "place"
            <4>1. resting = <<>> /\ tx.order.type = "Market"
                BY <1>2, <1>7, <3>2 DEF Shut, Flattening
            <4>2. Trade(tx)
                BY <2>1, <3>2, <1>2 DEF Apply
            <4> QED BY <4>1, <4>2 DEF Trade
        <3> QED BY <3>1, <3>2, <1>7 DEF Shut
    <2> QED BY <2>2, <1>4, <1>7 DEF Shut
<1> QED BY <1>5, <1>6, <1>7

LEMMA MatchShut ==
    ASSUME Shapes, Shut, Match
    PROVE  Shut'
<1>1. resting # <<>> /\ task' = task
    BY DEF Match, Shapes
<1>2. task.call = "flatten" => ~Flattening
    BY <1>1 DEF Shut
<1>3. task.call = "flatten" => task.at # "account"
    BY <1>2 DEF Flattening
<1> QED BY <1>1, <1>2, <1>3 DEF Shut, Flattening

LEMMA UnansweredGrows ==
    ASSUME Shapes, [Next]_vars
    PROVE  unanswered' = unanswered \/ unanswered' # 0
<1>1. CASE Place \/ Cancel \/ CancelAll \/ Flatten \/ SetSwitch
    BY <1>1 DEF Place, Cancel, CancelAll, Flatten, SetSwitch, Call
<1>2. CASE ReadPosition \/ PlanOrder \/ NoReferencePrice \/ ReadNonce \/ RereadOrder
    BY <1>2 DEF ReadPosition, PlanOrder, NoReferencePrice, ReadNonce, RereadOrder
<1>3. CASE Simulate \/ ReadReceipt \/ FlattenSize \/ FlattenAfter \/ FlattenReport
    BY <1>3 DEF Simulate, ReadReceipt, FlattenSize, FlattenAfter, FlattenReport
<1>4. CASE SendTransaction \/ ReceiptTimeout
    BY <1>4 DEF SendTransaction, ReceiptTimeout, Shapes
<1>5. CASE Mine \/ Match
    BY <1>5 DEF Mine, Match
<1>6. CASE UNCHANGED vars
    BY <1>6 DEF vars
<1> QED BY <1>1, <1>2, <1>3, <1>4, <1>5, <1>6 DEF Next

Flat == unanswered = 0 => Shut

LEMMA StepFlat == IInv /\ Capped /\ Flat /\ [Next]_vars => Flat'
<1> SUFFICES ASSUME IInv, Capped, Flat, [Next]_vars, unanswered' = 0
             PROVE  Shut'
    BY DEF Flat
<1>0. Shapes /\ unanswered = 0 /\ unanswered' = unanswered /\ Shut
    <2>1. Shapes
        BY DEF IInv
    <2> QED BY <2>1, UnansweredGrows DEF Flat
<1>1. CASE Place \/ Cancel \/ CancelAll \/ Flatten
    BY <1>1, CallsShut
<1>2. CASE ReadPosition \/ PlanOrder \/ NoReferencePrice \/ ReadNonce \/ RereadOrder
    BY <1>0, <1>2, PlacingShut
<1>3. CASE Simulate \/ SendTransaction \/ ReadReceipt \/ ReceiptTimeout
    BY <1>0, <1>3, WriteShut
<1>4. CASE FlattenSize \/ FlattenAfter \/ FlattenReport
    BY <1>0, <1>4, FlattenShut
<1>5. CASE Mine \/ Match
    BY <1>0, <1>5, MineShut, MatchShut
<1>6. CASE SetSwitch \/ UNCHANGED vars
    <2>1. UNCHANGED <<task, position, resting>>
        BY <1>6 DEF SetSwitch, vars, chain
    <2> QED BY <1>0, <2>1 DEF Shut, Flattening
<1> QED BY <1>1, <1>2, <1>3, <1>4, <1>5, <1>6 DEF Next

LEMMA FlatReport ==
    ASSUME IInv, Flat, [Next]_vars,
           task.at = "account", task'.at = "idle", task'.result = "flat"
    PROVE  unanswered > 0 \/ (position = 0 /\ resting = <<>>)
<1>1. unanswered \in Nat /\ task \in Tasks
    BY TaskTyped DEF IInv, Shapes
<1>2. CASE unanswered # 0
    BY <1>1, <1>2
<1>3. CASE unanswered = 0
    <2>1. task.have = position
        BY <1>3 DEF Flat, Shut
    <2>2. FlattenReport
        <3>1. ~Place /\ ~Cancel /\ ~CancelAll /\ ~Flatten
            BY DEF Place, Cancel, CancelAll, Flatten, Call
        <3>2. ~ReadPosition /\ ~PlanOrder /\ ~NoReferencePrice /\ ~ReadNonce /\ ~RereadOrder
            BY DEF ReadPosition, PlanOrder, NoReferencePrice, ReadNonce, RereadOrder
        <3>3. ~Simulate /\ ~SendTransaction /\ ~ReadReceipt /\ ~ReceiptTimeout /\ ~FlattenSize
              /\ ~FlattenAfter
            BY DEF Simulate, SendTransaction, ReadReceipt, ReceiptTimeout, FlattenSize, FlattenAfter
        <3>4. task' = task => FALSE
            OBVIOUS
        <3>5. ~SetSwitch /\ ~Match /\ ~UNCHANGED vars
            BY <3>4 DEF SetSwitch, Match, vars
        <3>6. ~Mine
            BY DEF Mine
        <3> QED BY <3>1, <3>2, <3>3, <3>5, <3>6 DEF Next
    <2>3. Idle(IF task.have = 0 /\ resting = <<>> THEN "flat" ELSE "not flat").result
            = IF task.have = 0 /\ resting = <<>> THEN "flat" ELSE "not flat"
        BY DEF Idle
    <2>4. Idle("unreachable").result = "unreachable"
        BY DEF Idle
    <2>5. task.have = 0 /\ resting = <<>>
        BY <2>2, <2>3, <2>4 DEF FlattenReport, Return
    <2> QED BY <2>1, <2>5
<1> QED BY <1>2, <1>3

(***************************************************************************)
(* bot.js's flatten answers flat only of an account with no position and   *)
(* no open order, for any fills between its two reads, unless a request    *)
(* the node had taken was given up.                                        *)
(***************************************************************************)
THEOREM FlatIsTold == Spec => FlatIsFlat
<1>1. Init => Flat
    BY DEF Init, Idle, Flat, Shut
<1>2. Init => IInv /\ Capped /\ Flat
    BY <1>1, InitHolds, InitCaps
<1>3. IInv /\ Capped /\ Flat /\ [Next]_vars => IInv' /\ Capped' /\ Flat'
    BY StepHolds, StepCaps, StepFlat
<1>4. IInv /\ Flat /\ [Next]_vars =>
        [(task.at = "account" /\ task'.at = "idle" /\ task'.result = "flat")
           => unanswered > 0 \/ (position = 0 /\ resting = <<>>)]_vars
    BY FlatReport
<1> QED BY <1>2, <1>3, <1>4, PTL DEF Spec, FlatIsFlat
=============================================================================
