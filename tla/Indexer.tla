------------------------------ MODULE Indexer ------------------------------
(***************************************************************************)
(* The mini-api indexer: exchange and oracle logs become rows of a store.  *)
(*                                                                         *)
(* One process, many awaits.  Between two of them the chain may be mined   *)
(* or reverted (the tests revert an EVM snapshot after every scenario), a  *)
(* request may fail, an administrator may pause or rewind the store, and   *)
(* the process may die.  The service owns one database connection: an      *)
(* administrator's write that lands while a range is being applied joins   *)
(* that transaction.  `state' and `tables' are what this connection sees,  *)
(* `disk' what is committed: what the tests' read-only connection sees.    *)
(*                                                                         *)
(* Heights are one more than the code's block numbers, so that 0 is the    *)
(* `last_block = -1' of an empty store; block 1 is the deployed exchange,  *)
(* which no test reverts.  A log is applied as the rows it changes; the    *)
(* columns that are copied and never combined are left out.                *)
(***************************************************************************)
EXTENDS Integers, SequencesExt, FiniteSetsExt

CONSTANTS
    Blocks,        \* the transaction sequences a block may hold
    MaxHeight,     \* bound on the length of the chain
    MaxMined,      \* bound on the blocks ever mined
    MaxReverts,    \* bound on the reverts
    MaxFaults,     \* bound on failed requests, crashes and administrator's writes together
    MaxRange       \* blocks read by one pass

\* The calls a scenario makes of the exchange, as far as its logs tell them apart.
Transactions == {"deposit", "withdraw", "rest", "cross", "stop", "fire", "cancel", "price",
                 "status", "fund", "liquidate", "list"}

ASSUME IndexerAssumption ==
    /\ Blocks \subseteq Seq(Transactions)
    /\ \A n \in {MaxHeight, MaxMined, MaxReverts, MaxFaults} : n \in Nat
    /\ MaxRange \in Nat \ {0}

VARIABLES
    chain,    \* the node's blocks: a hash and the logs, in log order
    spent,    \* how much of every bound is used
    state,    \* the indexer_state row: last block, its hash, paused
    tables,   \* the derived rows
    disk,     \* both, as committed
    pc,       \* the await the service is in
    sy,       \* the local variables of the pass in progress
    \* auxiliary: what the store depends on
    seen,     \* the highest block the rows were read from
    lost,     \* the chain moved under the store where no check could see it
    pause     \* what the pause route last answered, and what became of it

vars == <<chain, spent, state, tables, disk, pc, sy, seen, lost, pause>>

NoHash == 0
NoRead == [last |-> 0, hash |-> NoHash, head |-> 0, boot |-> FALSE,
           to |-> 0, market |-> 0, markets |-> 0]

Put(f, k, v) == [x \in DOMAIN f \cup {k} |-> IF x = k THEN v ELSE f[x]]
Lesser(a, b) == IF a < b THEN a ELSE b
Greater(a, b) == IF a < b THEN b ELSE a

-----------------------------------------------------------------------------
(* What the chain says.  Read off its logs directly, never through the      *)
(* indexer's way of accumulating them.                                      *)

LogsUpTo(c, h) == UNION {{c[b].logs[i] : i \in 1..Len(c[b].logs)} : b \in 1..h}
Named(logs, name) == {l \in logs : l.name = name}
Before(k, l) == k.block < l.block \/ (k.block = l.block /\ k.index < l.index)
Latest(logs) == CHOOSE l \in logs : \A k \in logs : k = l \/ Before(k, l)

Total(logs, field) == SumFunctionOnSet([l \in logs |-> l[field]], logs)

FillsOf(logs, id) == {l \in Named(logs, "OrderFilled") : id \in {l.taker, l.maker}}
CancelsOf(logs, id) == {l \in Named(logs, "OrderCancelled") : l.order = id}
TriggersOf(logs, id) == {l \in Named(logs, "OrderTriggered") : l.order = id}

OrderOf(logs, placed) ==
    LET filled == Total(FillsOf(logs, placed.order), "size") IN
    [size |-> placed.size, filled |-> filled,
     status |-> IF CancelsOf(logs, placed.order) # {} THEN "Cancelled"
                ELSE IF filled = placed.size THEN "Filled"
                ELSE IF placed.stop /\ TriggersOf(logs, placed.order) = {} THEN "Pending"
                ELSE "Open"]

OrdersOf(logs) ==
    [id \in {l.order : l \in Named(logs, "OrderPlaced")} |->
        OrderOf(logs, CHOOSE l \in Named(logs, "OrderPlaced") : l.order = id)]

ChangesOf(logs, a) == {l \in Named(logs, "PositionChanged") : l.account = a}
PositionsOf(logs) ==
    [a \in {l.account : l \in Named(logs, "PositionChanged")} |->
        [size |-> Latest(ChangesOf(logs, a)).after,
         realized |-> Total(ChangesOf(logs, a), "delta")]]

FlowsOf(logs, name, a) == {l \in Named(logs, name) : l.account = a}
AccountsOf(logs) ==
    [a \in {l.account : l \in Named(logs, "AccountInitialized")} |->
        [deposits |-> Total(FlowsOf(logs, "Deposited", a), "amount"),
         withdrawals |-> Total(FlowsOf(logs, "Withdrawn", a), "amount")]]

PricesOf(logs) ==
    [m \in {l.market : l \in Named(logs, "PriceSet")} |->
        Latest({l \in Named(logs, "PriceSet") : l.market = m}).price]

StatusOf(logs, m) ==
    LET changes == {l \in Named(logs, "MarketStatusChanged") : l.market = m} IN
    IF changes = {} THEN "Active" ELSE Latest(changes).status

MarketCount(logs) == Cardinality(DOMAIN PricesOf(logs))

Mirrored == {"OrderFilled", "PositionChanged", "FundingUpdated", "Liquidated"}
RowsOf(logs) == {l \in logs : l.name \in Mirrored}

-----------------------------------------------------------------------------
(* The logs a transaction emits on a chain that emitted `logs' so far; none *)
(* when it reverts.  External: the contract, as far as its events go.       *)

Size(logs, a) == IF ChangesOf(logs, a) = {} THEN 0 ELSE Latest(ChangesOf(logs, a)).after
Changed(logs, a, by, delta) ==
    [name |-> "PositionChanged", market |-> 1, account |-> a, after |-> Size(logs, a) + by, delta |-> delta]
Placed(id, size, stop) == [name |-> "OrderPlaced", market |-> 1, order |-> id, size |-> size, stop |-> stop]
Fill(taker, maker) == [name |-> "OrderFilled", market |-> 1, taker |-> taker, maker |-> maker, size |-> 1]
WithStatus(logs, s) == {id \in DOMAIN OrdersOf(logs) : OrdersOf(logs)[id].status = s}
NextId(logs) == Cardinality(DOMAIN OrdersOf(logs)) + 1
First(S) == CHOOSE x \in S : \A y \in S : x <= y

Emitted(tx, logs) ==
    CASE tx = "deposit" ->
            (IF "ann" \in DOMAIN AccountsOf(logs) THEN <<>>
             ELSE <<[name |-> "AccountInitialized", account |-> "ann"]>>)
            \o <<[name |-> "Deposited", account |-> "ann", amount |-> 2]>>
      [] tx = "withdraw" /\ "ann" \in DOMAIN AccountsOf(logs) ->
            <<[name |-> "Withdrawn", account |-> "ann", amount |-> 1]>>
      [] tx = "rest" -> <<Placed(NextId(logs), 2, FALSE)>>
      [] tx = "cross" /\ WithStatus(logs, "Open") # {} ->
            <<Placed(NextId(logs), 1, FALSE), Fill(NextId(logs), First(WithStatus(logs, "Open"))),
              Changed(logs, "ann", -1, 1), Changed(logs, "bob", 1, 0)>>
      [] tx = "stop" -> <<Placed(NextId(logs), 1, TRUE)>>
      [] tx = "fire" /\ WithStatus(logs, "Pending") # {} ->
            LET id == First(WithStatus(logs, "Pending")) IN
            <<[name |-> "OrderTriggered", market |-> 1, order |-> id],
              Fill(id, 0), Changed(logs, "bob", 1, 2)>>
      [] tx = "cancel" /\ WithStatus(logs, "Open") # {} ->
            <<[name |-> "OrderCancelled", order |-> First(WithStatus(logs, "Open"))]>>
      [] tx = "price" ->
            <<[name |-> "PriceSet", market |-> 1, price |-> Cardinality(Named(logs, "PriceSet")) + 1]>>
      [] tx = "status" ->
            <<[name |-> "MarketStatusChanged", market |-> 1,
               status |-> IF StatusOf(logs, 1) = "Active" THEN "Paused" ELSE "Active"]>>
      [] tx = "fund" -> <<[name |-> "FundingUpdated", market |-> 1]>>
      [] tx = "liquidate" /\ Size(logs, "bob") # 0 ->
            <<[name |-> "Liquidated", market |-> 1, account |-> "bob"],
              Changed(logs, "bob", - Size(logs, "bob"), -1)>>
      [] tx = "list" /\ MarketCount(logs) = 1 -> <<[name |-> "PriceSet", market |-> 2, price |-> 1]>>
      [] OTHER -> <<>>

\* A transaction keeps its hash when it is mined again: its sender's nonce and its payload.
Stamped(body, key, height, index) ==
    LET place == [tx |-> key, block |-> height, index |-> index] IN
    [x \in DOMAIN body \cup DOMAIN place |-> IF x \in DOMAIN place THEN place[x] ELSE body[x]]
Stamp(bodies, key, height, from) ==
    [i \in 1..Len(bodies) |-> Stamped(bodies[i], key, height, from + i)]

Execute(txs, logs, height) ==
    LET upTo[n \in 0..Len(txs)] ==
            IF n = 0 THEN <<>>
            ELSE LET sofar == upTo[n - 1] IN
                 sofar \o Stamp(Emitted(txs[n], logs \cup ToSet(sofar)), <<height, n, txs[n]>>, height, Len(sofar))
    IN  upTo[Len(txs)]

-----------------------------------------------------------------------------
(* The store.                                                               *)

NoRows == [markets |-> <<>>, price |-> <<>>, orders |-> <<>>, rows |-> {},
           positions |-> <<>>, accounts |-> <<>>, applied |-> {}]

\* Rows that reference a market, and the trade its taker's order: a missing one fails the statement.
NeedsMarket == {"OrderPlaced", "OrderFilled", "PositionChanged", "FundingUpdated", "Liquidated", "PriceSet"}
KeysHold(s, log) ==
    \/ <<log.tx, log.index>> \in s.applied
    \/ /\ log.name \in NeedsMarket => log.market \in DOMAIN s.markets
       /\ log.name = "OrderFilled" => log.taker \in DOMAIN s.orders

_fill(orders, id, size) ==
    IF id \notin DOMAIN orders THEN orders
    ELSE LET o == orders[id]
             filled == o.filled + size
         IN [orders EXCEPT ![id] = [size |-> o.size, filled |-> filled,
                                    status |-> IF filled = o.size THEN "Filled" ELSE o.status]]

orderStatus(orders, id, status) ==
    IF id \in DOMAIN orders THEN [orders EXCEPT ![id].status = status] ELSE orders

insertOrder(orders, log) ==
    IF log.order \in DOMAIN orders THEN orders
    ELSE Put(orders, log.order, [size |-> log.size, filled |-> 0,
                                 status |-> IF log.stop THEN "Pending" ELSE "Open"])

OrdersAfter(s, log) ==
    CASE log.name = "OrderPlaced" -> insertOrder(s.orders, log)
      [] log.name = "OrderFilled" -> _fill(_fill(s.orders, log.taker, log.size), log.maker, log.size)
      [] log.name = "OrderCancelled" -> orderStatus(s.orders, log.order, "Cancelled")
      [] log.name = "OrderTriggered" -> orderStatus(s.orders, log.order, "Open")
      [] OTHER -> s.orders

upsertPosition(positions, log) ==
    Put(positions, log.account,
        [size |-> log.after,
         realized |-> log.delta + IF log.account \in DOMAIN positions
                                  THEN positions[log.account].realized ELSE 0])

upsertAccount(accounts, a) ==
    IF a \in DOMAIN accounts THEN accounts ELSE Put(accounts, a, [deposits |-> 0, withdrawals |-> 0])

accountFlow(accounts, log) ==
    [upsertAccount(accounts, log.account) EXCEPT
        ![log.account] = [deposits |-> @.deposits + IF log.name = "Deposited" THEN log.amount ELSE 0,
                          withdrawals |-> @.withdrawals + IF log.name = "Withdrawn" THEN log.amount ELSE 0]]

AccountsAfter(s, log) ==
    CASE log.name = "AccountInitialized" -> upsertAccount(s.accounts, log.account)
      [] log.name \in {"Deposited", "Withdrawn"} -> accountFlow(s.accounts, log)
      [] OTHER -> s.accounts

apply(s, log) ==
    IF <<log.tx, log.index>> \in s.applied THEN s
    ELSE [s EXCEPT
        !.applied = @ \cup {<<log.tx, log.index>>},
        !.orders = OrdersAfter(s, log),
        !.accounts = AccountsAfter(s, log),
        !.rows = IF log.name \in Mirrored THEN @ \cup {log} ELSE @,
        !.positions = IF log.name = "PositionChanged" THEN upsertPosition(@, log) ELSE @,
        !.price = IF log.name = "PriceSet" THEN Put(@, log.market, log.price) ELSE @,
        !.markets = IF log.name = "MarketStatusChanged" /\ log.market \in DOMAIN @
                    THEN [@ EXCEPT ![log.market] = log.status] ELSE @]

\* The store a range of logs leads to, as a set: no store when a statement fails.
applyAll(s, logs) ==
    LET upTo[n \in 0..Len(logs)] ==
            IF n = 0 THEN {s}
            ELSE {apply(t, logs[n]) : t \in {u \in upTo[n - 1] : KeysHold(u, logs[n])}}
    IN  upTo[Len(logs)]

-----------------------------------------------------------------------------
(* The chain.                                                               *)

Budget == [mined |-> MaxMined, reverts |-> MaxReverts, faults |-> MaxFaults]
Spend(what) == spent[what] < Budget[what] /\ spent' = [spent EXCEPT ![what] = @ + 1]

ChainLogs == LogsUpTo(chain, Len(chain))
HashAt(h) == IF h \in 1..Len(chain) THEN chain[h].hash ELSE NoHash

Genesis == [hash |-> 1, logs |-> Execute(<<"price">>, {}, 1)]

Mine(txs) ==
    /\ Len(chain) < MaxHeight
    /\ Spend("mined")
    /\ chain' = Append(chain, [hash |-> spent.mined + 2, logs |-> Execute(txs, ChainLogs, Len(chain) + 1)])
    /\ UNCHANGED <<state, tables, disk, pc, sy, seen, lost, pause>>

\* The highest block the store, or the pass in progress, has read; and when a
\* revert below it is sure to be noticed: the next pass compares a stored hash.
Depth == Greater(seen, sy.head)
Noticed(h) == pc \in {"down", "idle", "head"} /\ state.hash # NoHash /\ state.last > h

Revert(h) ==
    /\ h < Len(chain)
    /\ Spend("reverts")
    /\ chain' = SubSeq(chain, 1, h)
    /\ lost' = (lost \/ (h < Depth /\ ~Noticed(h)))
    /\ UNCHANGED <<state, tables, disk, pc, sy, seen, pause>>

-----------------------------------------------------------------------------
\* A statement is committed when it is run, unless a range is being applied on
\* the same connection: then it waits for that transaction.
Write(s, t) ==
    /\ state' = s /\ tables' = t
    /\ disk' = IF pc = "tip" THEN disk ELSE [state |-> s, tables |-> t]

(* One pass.  Each action is the answer to one await and the code that runs *)
(* up to the next one.                                                      *)

\* Mutant of tick: the flag is not looked at.
tickPaused ==
    /\ pc = "idle"
    /\ pc' = "head"
    /\ sy' = [NoRead EXCEPT !.last = state.last, !.hash = state.hash]
    /\ UNCHANGED <<chain, spent, state, tables, disk, seen, lost, pause>>

tick ==
    /\ pc = "idle" /\ ~state.paused
    /\ pc' = "head"
    /\ sy' = [NoRead EXCEPT !.last = state.last, !.hash = state.hash]
    /\ UNCHANGED <<chain, spent, state, tables, disk, seen, lost, pause>>

\* Mutant of AskForLogs: the newest block is left for the next pass.
AskForLogsBehind(r) ==
    IF r.head - 1 <= r.last THEN pc' = "idle" /\ sy' = NoRead
    ELSE pc' = "logs" /\ sy' = [r EXCEPT !.to = Lesser(r.head - 1, r.last + MaxRange)]

\* With the head and the state known, either ask for the range's logs or end the pass.
AskForLogs(r) ==
    IF r.head <= r.last THEN pc' = "idle" /\ sy' = NoRead
    ELSE pc' = "logs" /\ sy' = [r EXCEPT !.to = Lesser(r.head, r.last + MaxRange)]

readHead ==
    /\ pc = "head"
    /\ LET r == [sy EXCEPT !.head = Len(chain)] IN
       IF r.last > 0 /\ r.hash # NoHash THEN pc' = "check" /\ sy' = r ELSE AskForLogs(r)
    /\ UNCHANGED <<chain, spent, state, tables, disk, seen, lost, pause>>

sameBlock ==
    /\ pc = "check" /\ HashAt(sy.last) = sy.hash
    /\ AskForLogs(sy)
    /\ UNCHANGED <<chain, spent, state, tables, disk, seen, lost, pause>>

\* Mutant of rebuild: one table is missing from the list.
rebuildKeepingAccounts ==
    /\ pc = "check" /\ HashAt(sy.last) # sy.hash
    /\ Write([last |-> 0, hash |-> NoHash, paused |-> state.paused],
             [NoRows EXCEPT !.accounts = tables.accounts])
    /\ pc' = "count"
    /\ seen' = 0
    /\ lost' = (sy.head > Len(chain))
    /\ UNCHANGED <<chain, spent, sy, pause>>

\* Every derived row goes, markets too, and is committed; then the markets are seeded.
rebuild ==
    /\ pc = "check" /\ HashAt(sy.last) # sy.hash
    /\ Write([last |-> 0, hash |-> NoHash, paused |-> state.paused], NoRows)
    /\ pc' = "count"
    /\ seen' = 0
    /\ lost' = (sy.head > Len(chain))
    /\ UNCHANGED <<chain, spent, sy, pause>>

marketCount ==
    /\ pc = "count"
    /\ pc' = "market"
    /\ sy' = [sy EXCEPT !.market = 1, !.markets = MarketCount(ChainLogs)]
    /\ UNCHANGED <<chain, spent, state, tables, disk, seen, lost, pause>>

Seed(t) == Write(state, t) /\ seen' = Greater(seen, Len(chain))

seedMarket ==
    /\ pc = "market" /\ sy.market <= MarketCount(ChainLogs)
    /\ Seed([tables EXCEPT !.markets = Put(@, sy.market, StatusOf(ChainLogs, sy.market))])
    /\ pc' = "index"
    /\ UNCHANGED <<chain, spent, sy, lost, pause>>

seedIndex ==
    /\ pc = "index" /\ sy.market <= MarketCount(ChainLogs)
    /\ Seed([tables EXCEPT !.price = Put(@, sy.market, PricesOf(ChainLogs)[sy.market])])
    /\ IF sy.market < sy.markets THEN pc' = "market" /\ sy' = [sy EXCEPT !.market = @ + 1]
       ELSE IF sy.boot THEN pc' = "idle" /\ sy' = NoRead
       ELSE AskForLogs([sy EXCEPT !.last = state.last, !.hash = state.hash])
    /\ UNCHANGED <<chain, spent, lost, pause>>

\* Whatever the order of the answer, the logs are sorted by block and by log index.
LogsAfter(c, from, to) == FlattenSeq([i \in 1..(Greater(from, to) - from) |-> c[from + i].logs])
RangeLogs == LogsAfter(chain, sy.last, Lesser(sy.to, Len(chain)))

applyRange ==
    /\ pc = "logs"
    /\ \E logs \in {RangeLogs} : \E after \in applyAll(tables, logs) : tables' = after
    /\ pc' = "tip"
    /\ UNCHANGED <<chain, spent, state, disk, sy, seen, lost, pause>>

commit ==
    /\ pc = "tip"
    /\ state' = [state EXCEPT !.last = sy.to, !.hash = HashAt(sy.to)]
    /\ tables' = tables
    /\ disk' = [state |-> state', tables |-> tables]
    /\ pc' = "idle" /\ sy' = NoRead
    /\ seen' = Greater(seen, sy.to)
    /\ pause' = [pause EXCEPT !.late = IF pause.told THEN @ + 1 ELSE 0]
    /\ UNCHANGED <<chain, spent, lost>>

\* The route's answer is undone when its write goes with the open transaction.
RolledBack == pause' = [pause EXCEPT !.undone = @ \/ state.paused # disk.state.paused]

\* The pass throws: an open transaction is rolled back and the timer is set again;
\* a failed start ends the process.
Throw ==
    /\ state' = disk.state /\ tables' = disk.tables
    /\ pc' = IF sy.boot THEN "down" ELSE "idle"
    /\ sy' = NoRead
    /\ RolledBack
    /\ UNCHANGED <<chain, disk, seen, lost>>

requestFails == pc \notin {"idle", "down"} /\ Spend("faults") /\ Throw

\* The getter of a market whose listing was reverted while the markets were being read.
marketGone == pc \in {"market", "index"} /\ sy.market > MarketCount(ChainLogs) /\ Throw /\ UNCHANGED spent

\* A row of the range references one the store does not have.
statementFails ==
    pc = "logs" /\ applyAll(tables, RangeLogs) = {} /\ Throw /\ UNCHANGED spent

-----------------------------------------------------------------------------
(* The administrator, whose routes answer once the service has started, and *)
(* the process.                                                             *)

Serving == pc # "down" /\ ~sy.boot

setPaused(flag) ==
    /\ Serving
    /\ Spend("faults")
    /\ Write([state EXCEPT !.paused = flag], tables)
    /\ pause' = [told |-> flag, undone |-> FALSE, late |-> 0]
    /\ UNCHANGED <<chain, pc, sy, seen, lost>>

\* Rows stay and the hash goes: with it the evidence of a reversion not noticed yet.
\* A block above the last one skips what lies between.
rewindTo(h) ==
    /\ Serving
    /\ Spend("faults")
    /\ Write([state EXCEPT !.last = h, !.hash = NoHash], tables)
    /\ lost' = (lost \/ h > state.last \/ (state.hash # NoHash /\ HashAt(state.last) # state.hash))
    /\ UNCHANGED <<chain, pc, sy, seen, pause>>

crash ==
    /\ pc # "down"
    /\ Spend("faults")
    /\ state' = disk.state /\ tables' = disk.tables
    /\ pc' = "down" /\ sy' = NoRead
    /\ RolledBack
    /\ UNCHANGED <<chain, disk, seen, lost>>

start ==
    /\ pc = "down"
    /\ pc' = "count" /\ sy' = [NoRead EXCEPT !.boot = TRUE]
    /\ UNCHANGED <<chain, spent, state, tables, disk, seen, lost, pause>>

Init ==
    /\ chain = <<Genesis>>
    /\ spent = [b \in DOMAIN Budget |-> 0]
    /\ state = [last |-> 0, hash |-> NoHash, paused |-> FALSE]
    /\ tables = NoRows
    /\ disk = [state |-> state, tables |-> tables]
    /\ pc = "down" /\ sy = NoRead
    /\ seen = 0 /\ lost = FALSE
    /\ pause = [told |-> FALSE, undone |-> FALSE, late |-> 0]

Pass == tick \/ readHead \/ sameBlock \/ rebuild \/ marketCount \/ seedMarket \/ seedIndex
        \/ applyRange \/ commit \/ marketGone \/ statementFails

Next ==
    \/ \E txs \in Blocks : Mine(txs)
    \/ \E h \in 1..Len(chain) : Revert(h)
    \/ Pass
    \/ requestFails
    \/ \E flag \in BOOLEAN : setPaused(flag)
    \/ \E h \in 0..MaxHeight : rewindTo(h)
    \/ crash
    \/ start

\* The loop's timer and the node's answers; the process may stay down.
Spec == Init /\ [][Next]_vars /\ WF_vars(Pass)

-----------------------------------------------------------------------------
\* What the tests wait for before they read the store.
CaughtUp == disk.state.last = Len(chain) /\ disk.state.hash = HashAt(Len(chain))

\* A store that has caught up agrees with the chain, row for row, through replays,
\* rollbacks, crashes and rebuilds, unless the chain was reverted below what the
\* store had read at a moment no stored hash guarded it.
CaughtUpIsExact ==
    CaughtUp /\ ~lost =>
        /\ disk.tables.orders = OrdersOf(ChainLogs)
        /\ disk.tables.positions = PositionsOf(ChainLogs)
        /\ disk.tables.accounts = AccountsOf(ChainLogs)
        /\ disk.tables.price = PricesOf(ChainLogs)
        /\ disk.tables.rows = RowsOf(ChainLogs)
        /\ \A m \in DOMAIN disk.tables.markets : disk.tables.markets[m] = StatusOf(ChainLogs, m)

\* A pause or a resumption, once answered, is what the store is set to, and a
\* paused store advances by the range in flight and no further, whatever fails,
\* dies or is rewound meanwhile; unless the answer was given while a range was
\* open on the service's one connection and rolled back with it.
PauseFreezes ==
    ~pause.undone => state.paused = pause.told /\ (pause.told => pause.late <= 1)

\* `paused' is a lever for tests: while set, the loop does not advance, so the store
\* freezes while the API keeps answering.  A pause answered 200 inside an open range
\* is lost when that range is rolled back, and the store goes on.
AnsweredPauseFreezes == pause.told => pause.late <= 1

\* A log whose market has no row: markets are only read at a start or a rebuild.
Unlisted ==
    \E l \in ChainLogs :
        /\ l.name \in NeedsMarket /\ l.market \notin DOMAIN disk.tables.markets
        /\ <<l.tx, l.index>> \notin disk.tables.applied

\* Rewound to the very head: nothing to read, and no hash until the next block.
NothingToRead == disk.state.last = Len(chain) /\ disk.state.hash = NoHash

\* While it runs unpaused, the store keeps catching up, unless it waits for a
\* market's row, has nothing to read, or was moved under by the chain.
CatchesUp ==
    []<>(CaughtUp \/ lost \/ Unlisted \/ NothingToRead \/ disk.state.paused \/ pc = "down")
=============================================================================
