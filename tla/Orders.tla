------------------------------- MODULE Orders -------------------------------
(***************************************************************************)
(* The order half of contracts/src/PerpExchange.sol: placing, triggering,  *)
(* sweeping, resting, cancelling, with the two books of each market, the   *)
(* open ids and slots of each account and the pending triggers.            *)
(*                                                                         *)
(* Money is in module Clearing: here an account has position sizes only,   *)
(* and an order refused for margin is an order that is not placed.  The    *)
(* oracle always answers.  Liquidation, deleveraging and settlement appear *)
(* as ForcedClose.                                                         *)
(*                                                                         *)
(* A sweep, and a cancelAll, is one EVM call: it is held in `call` and     *)
(* nothing else runs until it ends.  A revert in the middle of a sweep     *)
(* restores the state the call began with; a revert before it is an action *)
(* that is not taken.                                                      *)
(***************************************************************************)
EXTENDS PerpMath, Sequences, FiniteSets, SequencesExt

CONSTANTS
    Traders, Markets,
    Templates,        \* the orders a trader may place
    Indexes,          \* oracle prices
    BandBps, BasisBps, SpreadBps,
    BackstopMaxSize,
    MaxOpenOrders,    \* MAX_OPEN_ORDERS
    MaxOrders,        \* bound: orders ever placed
    MaxMoves          \* bound: steps of the environment

Buy  == 1
Sell == -1
Sides == {Buy, Sell}

OrderTypes == {"Market", "Limit", "StopMarket", "StopLimit", "TakeProfit"}

Params == [market: Markets, side: Sides, type: OrderTypes,
           tif: {"GTC", "IOC", "FOK", "PostOnly"}, size: Nat \ {0}, price: Nat,
           trigger: Nat, source: {"Mark", "Index"}, reduceOnly: BOOLEAN, user: Nat]

ASSUME OrdersAssumption ==
    /\ Templates \subseteq Params
    /\ Indexes \subseteq Nat \ {0}
    /\ BandBps \in 1 .. BPS /\ BasisBps \in 0 .. BandBps /\ SpreadBps \in 0 .. BPS
    /\ BackstopMaxSize \in Nat /\ MaxOpenOrders \in Nat
    /\ MaxOrders \in Nat /\ MaxMoves \in Nat

VARIABLES
    venue,   \* what a revert restores: orders, books, ids, positions
    market,  \* [status, index]
    paused,
    funded,  \* the backstop has a positive balance
    call,    \* the handler in progress
    moves    \* steps the environment has taken

vars == <<venue, market, paused, funded, call, moves>>

Statuses == {"Pending", "Open", "Filled", "Cancelled"}

Order == [owner: Traders, params: Params, filled: Nat, status: Statuses]

Venue == [orders:    Seq(Order),           \* an order's id and seq are its index
          books:     [Markets -> [Sides -> Seq(Nat)]],  \* best first
          openIds:   [Traders -> Seq(Nat)],
          openCount: [Traders -> Int],
          pending:   [Markets -> Seq(Nat)],
          position:  [Traders -> [Markets -> Int]],
          lastFill:  [Markets -> Nat]]

Idle == [op |-> "idle"]

Init ==
    /\ venue = [orders    |-> <<>>,
                books     |-> [m \in Markets |-> [s \in Sides |-> <<>>]],
                openIds   |-> [t \in Traders |-> <<>>],
                openCount |-> [t \in Traders |-> 0],
                pending   |-> [m \in Markets |-> <<>>],
                position  |-> [t \in Traders |-> [m \in Markets |-> 0]],
                lastFill  |-> [m \in Markets |-> 0]]
    /\ market \in [Markets -> [status: {"Active"}, index: Indexes]]
    /\ paused = FALSE
    /\ funded = TRUE
    /\ call = Idle
    /\ moves = 0

-----------------------------------------------------------------------------
(* Reading the venue *)

Remaining(o) == o.params.size - o.filled

IsLimit(p)   == p.type \in {"Limit", "StopLimit"}
IsTrigger(p) == p.type \in {"StopMarket", "StopLimit", "TakeProfit"}

Reduces(position, p) ==
    /\ position # 0
    /\ (position > 0) = (p.side = Sell)
    /\ p.size <= Abs(position)

InBand(p) ==
    /\ p.price # 0
    /\ p.price >= Below(market[p.market].index, BandBps)
    /\ p.price <= Above(market[p.market].index, BandBps)

\* Mutant of Crosses: an equal price does not cross.
CrossesStrictly(side, price, opposite) == side * price > side * opposite
Crosses(side, price, opposite) == side * price >= side * opposite

\* A price the sweep of p may take.
Takes(p, price) == IsLimit(p) => Crosses(p.side, p.price, price)

\* The backstop's quote to a taker, 0 when it does not quote.
BackPrice(m, side) ==
    IF ~funded \/ BackstopMaxSize = 0 THEN 0
    ELSE IF side = Buy THEN Above(market[m].index, SpreadBps)
    ELSE Below(market[m].index, SpreadBps)

Mark(m) == MarkPrice(venue.lastFill[m], market[m].index, BasisBps)

\* Stops trigger when the price moves away from the position, take-profits the other way.
TriggerMet(p) ==
    LET observed == IF p.source = "Index" THEN market[p.market].index ELSE Mark(p.market)
    IN  IF p.type = "TakeProfit" THEN Crosses(p.side, p.trigger, observed)
        ELSE Crosses(p.side, observed, p.trigger)

-----------------------------------------------------------------------------
(* Changing the venue *)

\* Mutant of SwapRemove: the place is cleared by the pop alone.
PopLast(list, id) == SubSeq(list, 1, Len(list) - 1)

\* Remove an id by moving the last one into its place.
SwapRemove(list, id) ==
    IF ~Contains(list, id) THEN list
    ELSE LET i == CHOOSE j \in 1 .. Len(list) : list[j] = id
         IN  SubSeq([list EXCEPT ![i] = list[Len(list)]], 1, Len(list) - 1)

\* Order i rests ahead of order j, on the side both are on.
Ahead(orders, i, j) ==
    LET p == orders[i].params
        q == orders[j].params
    IN  \/ p.side * p.price > p.side * q.price
        \/ p.price = q.price /\ i < j

\* OrderBook.insert (as links in module OrderBook): before the first resting order it is ahead of.
Rest(v, id) ==
    LET p      == v.orders[id].params
        book   == v.books[p.market][p.side]
        behind == {k \in 1 .. Len(book) : Ahead(v.orders, id, book[k])}
        place  == IF behind = {} THEN Len(book) + 1 ELSE CHOOSE k \in behind : \A l \in behind : k <= l
    IN  [v EXCEPT !.books[p.market][p.side] = InsertAt(@, place, id)]

\* The list without an id, and with the others as they were.
TakeOut(list, id) ==
    IF ~Contains(list, id) THEN list
    ELSE RemoveAt(list, CHOOSE k \in 1 .. Len(list) : list[k] = id)

\* OrderBook.remove.
Unrest(v, id) ==
    LET p == v.orders[id].params
    IN  [v EXCEPT !.books[p.market][p.side] = TakeOut(@, id)]

\* Mutant of Track: the slot is not counted.
TrackUncounted(v, id) == [v EXCEPT !.openIds[v.orders[id].owner] = Append(@, id)]

Track(v, id) ==
    LET owner == v.orders[id].owner
    IN  [v EXCEPT !.openIds[owner] = Append(@, id), !.openCount[owner] = @ + 1]

Untrack(v, id) ==
    LET owner == v.orders[id].owner
    IN  [v EXCEPT !.openIds[owner] = SwapRemove(@, id), !.openCount[owner] = @ - 1]

Unpend(v, id) ==
    [v EXCEPT !.pending[v.orders[id].params.market] = SwapRemove(@, id)]

Cancel(v, id)       == Untrack([v EXCEPT !.orders[id].status = "Cancelled"], id)
FinishFilled(v, id) == Untrack([v EXCEPT !.orders[id].status = "Filled"], id)

\* Mutant of Withdrawn: a resting order is cancelled without leaving the book.
WithdrawnStillResting(v, id) == Cancel(Unpend(v, id), id)

\* Taken off the book or the pending list, then cancelled.
Withdrawn(v, id) ==
    Cancel(IF v.orders[id].status = "Pending" THEN Unpend(v, id) ELSE Unrest(v, id), id)

\* Both sizes of a fill; maker 0 is the backstop, whose position is in Clearing.
Traded(v, taker, maker, qty, price) ==
    LET p    == v.orders[taker].params
        once == [v EXCEPT !.orders[taker].filled = @ + qty,
                          !.position[v.orders[taker].owner][p.market] = @ + p.side * qty,
                          !.lastFill[p.market] = price]
    IN  IF maker = 0 THEN once
        ELSE [once EXCEPT !.orders[maker].filled = @ + qty,
                          !.position[v.orders[maker].owner][p.market] = @ - p.side * qty]

-----------------------------------------------------------------------------
(* Placing and triggering, up to the sweep *)

\* The better of the best resting order and the backstop, for a taker; 0: neither.
BestOpposite(v, p) ==
    LET book  == v.books[p.market][-p.side]
        offer == {v.orders[book[k]].params.price : k \in 1 .. Len(book)}
                   \cup ({BackPrice(p.market, p.side)} \ {0})
    IN  IF offer = {} THEN 0
        ELSE CHOOSE x \in offer : \A y \in offer : p.side * x <= p.side * y

\* Mutant of Crossable: the limit price is not looked at.
CrossableAtAnyPrice(v, p, owner) ==
    LET book == v.books[p.market][-p.side]
        mine(k) == v.orders[book[k]].owner = owner
    IN  SumFunction([k \in {k \in 1 .. Len(book) : ~mine(k)} |-> Remaining(v.orders[book[k]])])
          + (IF BackPrice(p.market, p.side) # 0 THEN BackstopMaxSize ELSE 0)

\* What a fill-or-kill could take: others' resting orders and the backstop.
Crossable(v, p, owner) ==
    LET book == v.books[p.market][-p.side]
        counts(k) == LET r == v.orders[book[k]]
                     IN  r.owner # owner /\ Takes(p, r.params.price)
        back == BackPrice(p.market, p.side)
    IN  SumFunction([k \in {k \in 1 .. Len(book) : counts(k)} |-> Remaining(v.orders[book[k]])])
          + (IF back # 0 /\ Takes(p, back) THEN BackstopMaxSize ELSE 0)

\* The price is compared as it is, also for a market order, whose price is 0.
PostOnlyOk(v, p) ==
    p.tif = "PostOnly" =>
        LET best == BestOpposite(v, p) IN best = 0 \/ ~Crosses(p.side, p.price, best)

\* _execute as far as the sweep; the margin it asks for is in Clearing.
Execute(v, id) ==
    LET o == v.orders[id]
        p == o.params
    IN  /\ PostOnlyOk(v, p)
        /\ p.tif = "FOK" => Crossable(v, p, o.owner) >= p.size
        /\ venue' = v
        /\ call' = [op |-> "sweep", id |-> id, before |-> venue,
                    backstopLeft |-> BackstopMaxSize, tape |-> <<>>]

TakesOrders(m) == ~paused /\ market[m].status \in {"Active", "ReduceOnly"}

\* Mutant of UserIdFree: only resting orders are compared.
UserIdFreeAmongOpen(t, user) ==
    user # 0 => \A i \in 1 .. Len(venue.openIds[t]) :
                    LET o == venue.orders[venue.openIds[t][i]]
                    IN  o.status = "Open" => o.params.user # user

UserIdFree(t, user) ==
    user # 0 => \A i \in 1 .. Len(venue.openIds[t]) :
                    venue.orders[venue.openIds[t][i]].params.user # user

PlaceOrder(t, p) ==
    LET id      == Len(venue.orders) + 1
        status  == IF IsTrigger(p) THEN "Pending" ELSE "Open"
        placed  == [venue EXCEPT !.orders = Append(@, [owner |-> t, params |-> p,
                                                       filled |-> 0, status |-> status])]
        reduces == Reduces(venue.position[t][p.market], p)
    IN  /\ call = Idle
        /\ Len(venue.orders) < MaxOrders
        /\ TakesOrders(p.market)
        /\ market[p.market].status = "ReduceOnly" \/ p.reduceOnly => reduces
        /\ IsLimit(p) => InBand(p)
        /\ UserIdFree(t, p.user)
        /\ venue.openCount[t] < MaxOpenOrders
        /\ IF IsTrigger(p)
           THEN /\ venue' = [Track(placed, id) EXCEPT !.pending[p.market] = Append(@, id)]
                /\ call' = Idle
           ELSE Execute(Track(placed, id), id)
        /\ UNCHANGED <<market, paused, funded, moves>>

\* Mutant of Stale: reduce-only was looked at when the order was placed.
NeverStale(o) == FALSE

\* A reduce-only order that no longer reduces.
Stale(o) == o.params.reduceOnly /\ ~Reduces(venue.position[o.owner][o.params.market], o.params)

\* Anyone; neither the price band nor the market's ReduceOnly status is asked again.
TriggerOrder(id) ==
    LET o     == venue.orders[id]
        awake == [Unpend(venue, id) EXCEPT !.orders[id].status = "Open"]
    IN  /\ call = Idle
        /\ o.status = "Pending"
        /\ TakesOrders(o.params.market)
        /\ TriggerMet(o.params)
        /\ IF Stale(o)
           THEN venue' = Cancel(awake, id) /\ call' = Idle
           ELSE Execute(awake, id)
        /\ UNCHANGED <<market, paused, funded, moves>>

-----------------------------------------------------------------------------
(* The sweep *)

Taker == venue.orders[call.id]

OppositeBook == venue.books[Taker.params.market][-Taker.params.side]

BookOk == OppositeBook # <<>> /\ Takes(Taker.params, venue.orders[OppositeBook[1]].params.price)

BackOk ==
    LET back == BackPrice(Taker.params.market, Taker.params.side)
    IN  back # 0 /\ call.backstopLeft > 0 /\ Takes(Taker.params, back)

\* Mutant of BookFirst: the book whenever it crosses.
BookAlways == BookOk

\* The book at an equal or better price than the backstop's.
BookFirst ==
    /\ BookOk
    /\ BackOk => Crosses(Taker.params.side, BackPrice(Taker.params.market, Taker.params.side),
                         venue.orders[OppositeBook[1]].params.price)

Sweeping == call.op = "sweep" /\ Remaining(Taker) > 0

Lesser(a, b) == IF a < b THEN a ELSE b

FillFromBook ==
    LET maker == OppositeBook[1]
        rests == venue.orders[maker]
        qty   == Lesser(Remaining(Taker), Remaining(rests))
        price == rests.params.price
        done  == Traded(venue, call.id, maker, qty, price)
    IN  /\ Sweeping
        /\ BookFirst
        /\ rests.owner # Taker.owner
        /\ venue' = IF qty = Remaining(rests) THEN FinishFilled(Unrest(done, maker), maker) ELSE done
        /\ call' = [call EXCEPT !.tape = Append(@, [maker |-> maker, qty |-> qty, price |-> price])]
        /\ UNCHANGED <<market, paused, funded, moves>>

\* SelfTradePrevented: the whole call is undone.
SelfTrade ==
    /\ Sweeping
    /\ BookFirst
    /\ venue.orders[OppositeBook[1]].owner = Taker.owner
    /\ venue' = call.before
    /\ call' = Idle
    /\ UNCHANGED <<market, paused, funded, moves>>

FillFromBackstop ==
    LET qty   == Lesser(Remaining(Taker), call.backstopLeft)
        price == BackPrice(Taker.params.market, Taker.params.side)
    IN  /\ Sweeping
        /\ ~BookFirst /\ BackOk
        /\ venue' = Traded(venue, call.id, 0, qty, price)
        /\ call' = [call EXCEPT !.backstopLeft = @ - qty,
                                !.tape = Append(@, [maker |-> 0, qty |-> qty, price |-> price])]
        /\ UNCHANGED <<market, paused, funded, moves>>

\* Filled; or what is left rests; or it is cancelled.
EndSweep ==
    /\ call.op = "sweep"
    /\ Sweeping => ~BookFirst /\ ~BackOk
    /\ venue' = IF Remaining(Taker) = 0 THEN FinishFilled(venue, call.id)
                ELSE IF IsLimit(Taker.params) /\ Taker.params.tif \in {"GTC", "PostOnly"}
                THEN Rest(venue, call.id)
                ELSE Cancel(venue, call.id)
    /\ call' = Idle
    /\ UNCHANGED <<market, paused, funded, moves>>

-----------------------------------------------------------------------------
(* Cancelling *)

\* Whoever owns it; also while the exchange is paused or the market settles.
CancelOrder(id) ==
    /\ call = Idle
    /\ venue.orders[id].status \in {"Open", "Pending"}
    /\ venue' = Withdrawn(venue, id)
    /\ UNCHANGED <<market, paused, funded, call, moves>>

CancelAll(t, scope) ==
    /\ call = Idle
    /\ venue.openIds[t] # <<>>
    /\ call' = [op |-> "cancelAll", owner |-> t, scope |-> scope, i |-> 1]
    /\ UNCHANGED <<venue, market, paused, funded, moves>>

\* Mutant of NextPlace: the loop advances past the id swapped into the place.
NextPlaceAlways(i, cancelled) == i + 1
NextPlace(i, cancelled) == IF cancelled THEN i ELSE i + 1

CancelNext ==
    /\ call.op = "cancelAll"
    /\ call.i <= Len(venue.openIds[call.owner])
    /\ LET id  == venue.openIds[call.owner][call.i]
           hit == venue.orders[id].params.market \in call.scope
       IN  /\ venue' = IF hit THEN Withdrawn(venue, id) ELSE venue
           /\ call' = [call EXCEPT !.i = NextPlace(@, hit)]
    /\ UNCHANGED <<market, paused, funded, moves>>

EndCancelAll ==
    /\ call.op = "cancelAll"
    /\ call.i > Len(venue.openIds[call.owner])
    /\ call' = Idle
    /\ UNCHANGED <<venue, market, paused, funded, moves>>

-----------------------------------------------------------------------------
(* The rest of the system *)

Move ==
    /\ call = Idle
    /\ moves < MaxMoves
    /\ moves' = moves + 1
    /\ UNCHANGED call

\* Liquidation or deleveraging, which move the last price to the mark, or settlement.
ForcedClose(t, m) ==
    /\ Move
    /\ \E size \in -Abs(venue.position[t][m]) .. Abs(venue.position[t][m]) :
          /\ Abs(size) < Abs(venue.position[t][m])
          /\ size # 0 => (size > 0) = (venue.position[t][m] > 0)
          /\ \E price \in {venue.lastFill[m], Mark(m)} :
                venue' = [venue EXCEPT !.position[t][m] = size, !.lastFill[m] = price]
    /\ UNCHANGED <<market, paused, funded>>

MoveIndex(m, price) ==
    /\ Move
    /\ price # market[m].index
    /\ market' = [market EXCEPT ![m].index = price]
    /\ UNCHANGED <<venue, paused, funded>>

SetStatus(m, status) ==
    /\ Move
    /\ status # market[m].status
    /\ market' = [market EXCEPT ![m].status = status]
    /\ UNCHANGED <<venue, paused, funded>>

SetPaused ==
    /\ Move
    /\ paused' = ~paused
    /\ UNCHANGED <<venue, market, funded>>

\* The backstop's balance crosses zero.
BackstopBalance ==
    /\ Move
    /\ funded' = ~funded
    /\ UNCHANGED <<venue, market, paused>>

-----------------------------------------------------------------------------

UserStep ==
    \/ \E t \in Traders, p \in Templates : PlaceOrder(t, p)
    \/ \E id \in 1 .. Len(venue.orders) : TriggerOrder(id) \/ CancelOrder(id)
    \/ \E t \in Traders, scope \in {Markets} \cup {{m} : m \in Markets} : CancelAll(t, scope)

\* The steps of the call in progress.
CallStep ==
    \/ FillFromBook
    \/ SelfTrade
    \/ FillFromBackstop
    \/ EndSweep
    \/ CancelNext
    \/ EndCancelAll

Environment ==
    \/ \E t \in Traders, m \in Markets : ForcedClose(t, m)
    \/ \E m \in Markets, price \in Indexes : MoveIndex(m, price)
    \/ \E m \in Markets, status \in {"Active", "Paused", "ReduceOnly", "Settling"} :
          SetStatus(m, status)
    \/ SetPaused
    \/ BackstopBalance

Next == UserStep \/ CallStep \/ Environment

Spec == Init /\ [][Next]_vars

-----------------------------------------------------------------------------
(* Properties *)

Ids == 1 .. Len(venue.orders)

Live(id) == venue.orders[id].status \in {"Pending", "Open"}

(***************************************************************************)
(* Between calls, the books hold exactly the orders that are Open, each on *)
(* its own side, in price-time order: no fill, cancel or trigger strands   *)
(* an order off the book or leaves a dead one to be matched.               *)
(***************************************************************************)
BooksExact ==
    call = Idle =>
        \A m \in Markets, s \in Sides :
            LET book == venue.books[m][s]
            IN  /\ {book[k] : k \in 1 .. Len(book)} =
                     {id \in Ids : /\ venue.orders[id].status = "Open"
                                   /\ venue.orders[id].params.market = m
                                   /\ venue.orders[id].params.side = s}
                /\ \A k, l \in 1 .. Len(book) : k < l => Ahead(venue.orders, book[k], book[l])

\* "the book is never crossed" (contracts/test/Invariants.t.sol:9), of resting
\* orders: what rests after a sweep meets nothing it should have traded with.
Uncrossed ==
    call = Idle =>
        \A m \in Markets :
            \A k \in 1 .. Len(venue.books[m][Buy]), l \in 1 .. Len(venue.books[m][Sell]) :
                venue.orders[venue.books[m][Buy][k]].params.price
                  < venue.orders[venue.books[m][Sell][l]].params.price

(***************************************************************************)
(* The slots of an account are its live orders: the counter, the list of   *)
(* ids and the statuses agree between calls, and the limit holds.  A path  *)
(* that forgets one of the three leaks a slot or hides an order.           *)
(***************************************************************************)
SlotsExact ==
    call = Idle =>
        \A t \in Traders :
            LET ids == venue.openIds[t]
            IN  /\ {ids[i] : i \in 1 .. Len(ids)} =
                     {id \in Ids : Live(id) /\ venue.orders[id].owner = t}
                /\ venue.openCount[t] = Len(ids)
                /\ \A i, j \in 1 .. Len(ids) : i # j => ids[i] # ids[j]
                /\ Len(ids) <= MaxOpenOrders

\* The triggers a keeper would look at are exactly the orders still waiting.
PendingExact ==
    \A m \in Markets :
        LET ids == venue.pending[m]
        IN  /\ {ids[i] : i \in 1 .. Len(ids)} =
                 {id \in Ids : /\ venue.orders[id].status = "Pending"
                               /\ venue.orders[id].params.market = m}
            /\ \A i, j \in 1 .. Len(ids) : i # j => ids[i] # ids[j]

\* "must be unique among the account's open orders" (lib/Types.sol:69),
\* whatever waits, triggers, fills and is reused.
UserIdsUnique ==
    \A i, j \in Ids :
        LET a == venue.orders[i]
            b == venue.orders[j]
        IN  i # j /\ Live(i) /\ Live(j) /\ a.owner = b.owner /\ a.params.user # 0
              => a.params.user # b.params.user

(***************************************************************************)
(* Time in force holds against both sources of liquidity: a fill-or-kill   *)
(* order that the walk of _crossableSize let through is filled in full by  *)
(* the sweep, which walks the book differently, or the call is undone; an  *)
(* order that is immediate, or has no limit, never rests, triggered or     *)
(* not; and a post-only limit order takes nothing, from the book or the    *)
(* backstop.  (A post-only market order is let through when it buys: its   *)
(* price of 0 crosses nothing.)                                            *)
(***************************************************************************)
TimeInForceKept ==
    /\ \A id \in Ids :
           LET o == venue.orders[id]
           IN  ~(call.op = "sweep" /\ call.id = id) =>
                   /\ o.params.tif = "FOK" => o.filled \in {0, o.params.size}
                   /\ o.status = "Open" => IsLimit(o.params) /\ o.params.tif \in {"GTC", "PostOnly"}
    /\ call.op = "sweep" =>
           LET p == Taker.params
           IN  p.tif = "PostOnly" /\ IsLimit(p) => call.tape = <<>>

(***************************************************************************)
(* A reduce-only order shrinks its owner's position while it takes, even   *)
(* if the position changed since it was placed.                            *)
(***************************************************************************)
ShrinksItsOwner(t, m) ==
    LET before == call.before.position[t][m]
        now    == venue.position[t][m]
    IN  /\ Abs(now) <= Abs(before)
        /\ now # 0 => (now > 0) = (before > 0)

ReduceOnlyTakerShrinks ==
    call.op = "sweep" /\ Taker.params.reduceOnly =>
        ShrinksItsOwner(Taker.owner, Taker.params.market)

(***************************************************************************)
(* No trade-through and price-time priority, over the whole sweep: when it *)
(* ends, no order is left on the other side that was ahead of one that was *)
(* filled or at least as good as a price the backstop was paid, and the    *)
(* backstop has nothing left at a better price than one paid to a trader.  *)
(***************************************************************************)
BookIsBehind(fill) ==
    \A k \in 1 .. Len(OppositeBook) :
        LET left == OppositeBook[k]
            side == Taker.params.side
        IN  \/ left = fill.maker
            \/ fill.maker # 0 /\ Ahead(venue.orders, fill.maker, left)
            \/ fill.maker = 0 /\ side * fill.price < side * venue.orders[left].params.price

BackstopIsBehind(fill) ==
    fill.maker # 0 /\ BackOk =>
        Crosses(Taker.params.side, BackPrice(Taker.params.market, Taker.params.side), fill.price)

NothingBetterLeft ==
    [][call.op = "sweep" /\ call' = Idle /\ venue' # call.before =>
         \A i \in 1 .. Len(call.tape) :
             BookIsBehind(call.tape[i]) /\ BackstopIsBehind(call.tape[i])]_vars

\* Filled and cancelled orders are never filled, reopened or changed again.
TerminalIsFinal ==
    [][\A id \in Ids :
         venue.orders[id].status \in {"Filled", "Cancelled"}
           /\ ~(call.op = "sweep" /\ venue' = call.before) =>
             venue'.orders[id] = venue.orders[id]]_vars

\* cancelAll, which removes from the list it walks, skips no order in scope.
CancelAllSkipsNone ==
    [][call.op = "cancelAll" /\ call' = Idle =>
         \A id \in Ids :
             Live(id) /\ venue.orders[id].owner = call.owner =>
                 venue.orders[id].params.market \notin call.scope]_vars

(***************************************************************************)
(* "only orders that shrink a position" (lib/Types.sol:55), of a market    *)
(* that is ReduceOnly when the order executes.                             *)
(***************************************************************************)
ReduceOnlyMarketShrinks ==
    call.op = "sweep" /\ market[Taker.params.market].status = "ReduceOnly" =>
        ShrinksItsOwner(Taker.owner, Taker.params.market)
=============================================================================
