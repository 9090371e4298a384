------------------------------ MODULE Clearing ------------------------------
(***************************************************************************)
(* The clearing half of contracts/src/PerpExchange.sol with the ledger of  *)
(* CollateralVault.sol: balances, positions, open interest, the holder     *)
(* list, funding payments, liquidation, bad debt, auto-deleveraging and    *)
(* settlement, for any set of cross-margined accounts and markets.         *)
(*                                                                         *)
(* A handler that loops (the sweep of an order, the deleveraging loop) is  *)
(* one EVM call in the code.  Here it is a call in progress, held in       *)
(* `call`: while it runs, only its own next step is enabled, so no other   *)
(* handler sees its intermediate states.  A handler that reverts is a      *)
(* handler that is not taken.                                              *)
(*                                                                         *)
(* The environment chooses what the order book would supply: the maker,    *)
(* quantity and price of each fill (module Orders decides those).  The     *)
(* funding rate is any rate within the cap.                                *)
(***************************************************************************)
EXTENDS PerpMath, Sequences, FiniteSets, Functions

CONSTANTS
    Traders, Markets,
    Backstop, InsuranceFund,      \* accounts the exchange is wired to
    Exchange, Treasury, Keeper,   \* ledger entries that are not accounts
    Prices,            \* prices of resting orders and oracle readings
    Quantities,        \* order sizes, base units
    Rates,             \* funding rates, bps per interval
    Amounts,           \* deposits and withdrawals
    ParamSets,         \* market parameters the admin may set
    FeeToInsuranceBps, \* share of the net fee that goes to the fund
    InitialDeposits,   \* balances funded at deployment
    InitialParams,
    InitialIndex,
    Budget             \* bound: how often each kind of call may still be made

Accounts == Traders \cup {Backstop, InsuranceFund}
Holders  == Accounts \cup {Exchange, Treasury, Keeper}

Params == [maxLeverage: Nat, initialBps: Nat, maintenanceBps: Nat, makerBps: Int,
           takerBps: Nat, bandBps: Nat, basisBps: Nat, liquidationFeeBps: Nat,
           partialBps: Nat, rateCap: Nat, spreadBps: Nat, maxSize: Nat,
           step: Nat, minNotional: Nat]

\* _validateParams; the spread and the liquidation fee are not validated.
ValidParams(p) ==
    /\ p.step # 0 /\ p.maxLeverage \in 1 .. 200
    /\ p.initialBps # 0 /\ p.initialBps <= BPS
    /\ p.maintenanceBps # 0 /\ p.maintenanceBps < p.initialBps
    /\ p.initialBps * p.maxLeverage <= BPS
    /\ p.takerBps * 20 <= BPS /\ p.makerBps >= -p.takerBps
    /\ p.bandBps # 0 /\ p.bandBps <= BPS /\ p.basisBps <= p.bandBps
    /\ p.partialBps # 0 /\ p.partialBps <= BPS

Kinds == {"order", "trade", "price", "liquidate", "funding", "other"}

ASSUME ClearingAssumption ==
    /\ IsFiniteSet(Accounts) /\ IsFiniteSet(Markets)
    /\ Backstop # InsuranceFund /\ {Backstop, InsuranceFund} \cap Traders = {}
    /\ {Exchange, Treasury, Keeper} \cap Accounts = {} /\ Exchange \notin {Treasury, Keeper}
    /\ Prices \subseteq Nat \ {0} /\ Quantities \subseteq Nat \ {0}
    /\ Rates \subseteq Int
    /\ Amounts \subseteq Nat \ {0}
    /\ FeeToInsuranceBps \in 0 .. BPS
    /\ ParamSets \subseteq Params /\ \A p \in ParamSets : ValidParams(p)
    /\ InitialParams \in ParamSets
    /\ InitialDeposits \in [Accounts -> Nat] /\ SumFunction(InitialDeposits) \in Nat
    /\ InitialIndex \in [Markets -> Prices]
    /\ Budget \in [Kinds -> Nat]

VARIABLES
    clearing, \* balances, positions, holder lists and open interest, below
    vault,    \* [total |-> deposits less withdrawals, held |-> tokens]
    exists,   \* initialized accounts
    market,   \* [status, settlementPrice, fundingIndex, lastFill, params]
    index,    \* the oracle's price; 0: unknown or stale, getIndexPrice reverts
    paused,
    call,     \* the handler in progress
    settled,  \* history: closes without a counterparty, their net size and value
    budget

vars == <<clearing, vault, exists, market, index, paused, call, settled, budget>>

Position == [size: Int, entry: Nat, snapshot: Int]
Flat     == [size |-> 0, entry |-> 0, snapshot |-> 0]

Clearing == [balance:     [Holders -> Int],
             position:    [Accounts -> [Markets -> Position]],
             holders:     [Markets -> Seq(Accounts)],
             holderIndex: [Markets -> [Accounts -> Nat]],
             oiLong:      [Markets -> Int],
             oiShort:     [Markets -> Int],
             funding:     Int,  \* history: what the fund was paid as funding
             dust:        Nat]  \* history: what the roundings so far may add up to

Market == [status: {"Active", "Paused", "ReduceOnly", "Settling"},
           settlementPrice: Nat, fundingIndex: Int, lastFill: Nat, params: ParamSets]

NothingSettled == [closes |-> 0, size |-> 0, value |-> 0]

Idle == [op |-> "idle"]
Sweep == [op: {"sweep"}, taker: Traders, market: Markets, side: {1, -1},
          left: Nat, limit: Nat, backstopLeft: Nat]
Adl   == [op: {"adl"}, bankrupt: Accounts, market: Markets, targetShorts: BOOLEAN,
          mark: Nat, needed: Nat]

Init ==
    /\ clearing = [balance     |-> [h \in Holders |->
                                      IF h \in Accounts THEN InitialDeposits[h] ELSE 0],
                   position    |-> [a \in Accounts |-> [m \in Markets |-> Flat]],
                   holders     |-> [m \in Markets |-> <<>>],
                   holderIndex |-> [m \in Markets |-> [a \in Accounts |-> 0]],
                   oiLong      |-> [m \in Markets |-> 0],
                   oiShort     |-> [m \in Markets |-> 0],
                   funding     |-> 0,
                   dust        |-> 0]
    /\ vault = LET sum == SumFunction(InitialDeposits) IN [total |-> sum, held |-> sum]
    /\ exists = {a \in Accounts : InitialDeposits[a] > 0}
    /\ market = [m \in Markets |-> [status |-> "Active", settlementPrice |-> 0,
                                    fundingIndex |-> 0, lastFill |-> 0,
                                    params |-> InitialParams]]
    /\ index = InitialIndex
    /\ paused = FALSE
    /\ call = Idle
    /\ settled = [m \in Markets |-> NothingSettled]
    /\ budget = Budget

Spend(kind) ==
    /\ budget[kind] > 0
    /\ budget' = [budget EXCEPT ![kind] = @ - 1]

-----------------------------------------------------------------------------
(* Views *)

Mark(m) == MarkPrice(market[m].lastFill, index[m], market[m].params.basisBps)

InMarkets(c, a) == {m \in Markets : c.position[a][m].size # 0}

\* The views read the oracle of every market the account is in, and revert with it.
Priced(c, a) == \A m \in InMarkets(c, a) : index[m] # 0

Equity(c, a) ==
    LET worth(m) == LET p == c.position[a][m] IN
                       UnrealizedPnl(p.size, p.entry, Mark(m))
                         - FundingOwed(p.size, p.snapshot, market[m].fundingIndex)
    IN  c.balance[a] + SumFunction([m \in InMarkets(c, a) |-> worth(m)])

NotionalAtMark(c, a, m) == Notional(Abs(c.position[a][m].size), Mark(m))

InitialMargin(c, a) ==
    SumFunction([m \in InMarkets(c, a) |->
        MarginOf(NotionalAtMark(c, a, m), market[m].params.initialBps)])

MaintenanceMargin(c, a) ==
    SumFunction([m \in InMarkets(c, a) |->
        MarginOf(NotionalAtMark(c, a, m), market[m].params.maintenanceBps)])

FreeCollateral(c, a) == Equity(c, a) - InitialMargin(c, a)

IsLiquidatable(c, a) ==
    /\ MaintenanceMargin(c, a) # 0
    /\ Equity(c, a) < MaintenanceMargin(c, a)

-----------------------------------------------------------------------------
(* Operators a handler is made of: each takes and returns the clearing      *)
(* record, so that they compose in the order the code calls them.           *)

Credit(c, h, amount) == [c EXCEPT !.balance[h] = @ + amount]

\* Mutant of Transfer: the credit is unsigned, so a rebate debits nobody.
TransferUnsigned(c, from, to, amount) == Credit(Credit(c, from, -amount), to, Abs(amount))

\* CollateralVault.transferBetween; a negative amount moves the other way.
Transfer(c, from, to, amount) == Credit(Credit(c, from, -amount), to, amount)

\* Mutant of SettleFunding: only the side that pays is settled.
SettlePayersOnly(c, a, m) ==
    LET p    == c.position[a][m]
        owed == FundingOwed(p.size, p.snapshot, market[m].fundingIndex)
        paid == IF owed > 0 THEN owed ELSE 0
    IN  [Transfer(c, a, InsuranceFund, paid) EXCEPT !.funding = @ + paid]

\* Funding since the position's snapshot, against the insurance fund.  The
\* snapshot itself moves when the position is stored.
SettleFunding(c, a, m) ==
    LET p    == c.position[a][m]
        owed == FundingOwed(p.size, p.snapshot, market[m].fundingIndex)
    IN  [Transfer(c, a, InsuranceFund, owed) EXCEPT !.funding = @ + owed]

StorePosition(c, a, m, moved) ==
    [c EXCEPT !.position[a][m] = [size |-> moved.size, entry |-> moved.entry,
                                  snapshot |-> market[m].fundingIndex]]

Longs(size)  == IF size > 0 THEN size ELSE 0
Shorts(size) == IF size < 0 THEN -size ELSE 0

\* Mutant of AdjustOI: a flip leaves the old side's interest behind.
AdjustOIForgetsFlip(c, m, before, after) ==
    IF before > 0 /\ after < 0
    THEN [c EXCEPT !.oiShort[m] = @ + Shorts(after)]
    ELSE [c EXCEPT !.oiLong[m]  = @ - Longs(before) + Longs(after),
                   !.oiShort[m] = @ - Shorts(before) + Shorts(after)]

AdjustOI(c, m, before, after) ==
    [c EXCEPT !.oiLong[m]  = @ - Longs(before) + Longs(after),
              !.oiShort[m] = @ - Shorts(before) + Shorts(after)]

(***************************************************************************)
(* The holder list: push a new holder, swap the last one into the place of *)
(* a holder that went flat.                                                *)
(***************************************************************************)
PushHolder(c, m, a) ==
    [c EXCEPT !.holders[m]     = Append(@, a),
              !.holderIndex[m][a] = Len(c.holders[m]) + 1]

SwapPop(list, i) ==
    [j \in 1 .. Len(list) - 1 |-> IF j = i THEN list[Len(list)] ELSE list[j]]

\* Mutant of PopHolder: the leaver's index is cleared before the last one's is moved.
PopHolderClearsFirst(c, m, a) ==
    LET list == c.holders[m]
        i    == c.holderIndex[m][a]
        last == list[Len(list)]
    IN  [c EXCEPT
           !.holders[m] = SwapPop(list, i),
           !.holderIndex[m][a] = 0, !.holderIndex[m][last] = i]

PopHolder(c, m, a) ==
    LET list == c.holders[m]
        i    == c.holderIndex[m][a]
        last == list[Len(list)]
    IN  [c EXCEPT
           !.holders[m] = SwapPop(list, i),
           !.holderIndex[m][last] = i, !.holderIndex[m][a] = 0]

TrackHolder(c, m, a, size) ==
    IF size # 0 /\ c.holderIndex[m][a] = 0 THEN PushHolder(c, m, a)
    ELSE IF size = 0 /\ c.holderIndex[m][a] # 0 THEN PopHolder(c, m, a)
    ELSE c

\* What one application may round away, in units of size times price: a blended
\* entry less than the size it is blended for, a realised PnL less than one unit.
DustOf(size, delta) ==
    IF size = 0 THEN 0
    ELSE IF (size > 0) = (delta > 0) THEN Abs(size + delta) - 1
    ELSE NOTIONAL_DIVISOR - 1

\* Settle funding, then apply a signed quantity at a price: grow, shrink or flip.
ApplyPositionDelta(c, a, m, delta, price) ==
    LET p      == c.position[a][m]
        moved  == MovePosition(p.size, p.entry, delta, price)
        paid   == Transfer(SettleFunding(c, a, m), Exchange, a, moved.realized)
        kept   == StorePosition(paid, a, m, moved)
        booked == TrackHolder(AdjustOI(kept, m, p.size, moved.size), m, a, moved.size)
    IN  [booked EXCEPT !.dust = @ + DustOf(p.size, delta)]

\* Both sides of a fill, or of a close against the backstop.
Exchanged(c, a, other, m, delta, price) ==
    ApplyPositionDelta(ApplyPositionDelta(c, a, m, delta, price), other, m, -delta, price)

\* Mutant of PayFees: the fee is handed out without being charged to the taker.
PayFeesUncharged(c, taker, maker, m, notional) ==
    LET fee == TakerFee(notional, market[m].params.takerBps)
        ins == (fee * FeeToInsuranceBps) \div BPS
    IN  Transfer(Transfer(c, Exchange, InsuranceFund, ins), Exchange, Treasury, fee - ins)

\* Taker and maker fees into the exchange, and the net straight out of it again.
PayFees(c, taker, maker, m, notional) ==
    LET takerFee    == TakerFee(notional, market[m].params.takerBps)
        makerFee    == IF maker = Backstop THEN 0
                       ELSE MakerFee(notional, market[m].params.makerBps)
        net         == IF takerFee + makerFee > 0 THEN takerFee + makerFee ELSE 0
        toInsurance == (net * FeeToInsuranceBps) \div BPS
        charged     == Transfer(Transfer(c, taker, Exchange, takerFee),
                                maker, Exchange, makerFee)
    IN  Transfer(Transfer(charged, Exchange, InsuranceFund, toInsurance),
                 Exchange, Treasury, net - toInsurance)
-----------------------------------------------------------------------------
(* Accounts and the vault *)

VaultIn(v, amount) == [total |-> v.total + amount, held |-> v.held + amount]

\* Mutant of VaultOut: the tokens leave and the running total does not.
VaultOutUntotalled(v, amount) == [v EXCEPT !.held = @ - amount]
VaultOut(v, amount) == [total |-> v.total - amount, held |-> v.held - amount]

\* A trader's own call; LiquidityBackstop.fund and InsuranceFund.fund make it for theirs.
InitializeAccount(a) ==
    /\ call = Idle
    /\ a \in Traders \ exists
    /\ exists' = exists \cup {a}
    /\ UNCHANGED <<clearing, vault, market, index, paused, call, settled, budget>>

Deposit(a, amount) ==
    /\ call = Idle
    /\ a \in exists \/ a \in {Backstop, InsuranceFund}
    /\ Spend("other")
    /\ exists' = exists \cup {a}
    /\ clearing' = Credit(clearing, a, amount)
    /\ vault' = VaultIn(vault, amount)
    /\ UNCHANGED <<market, index, paused, call, settled>>

\* Only free collateral leaves, and the vault itself refuses more than the balance.
Withdraw(a, amount) ==
    /\ call = Idle
    /\ a \in exists
    /\ Spend("other")
    /\ Priced(clearing, a)
    /\ FreeCollateral(clearing, a) >= amount
    /\ clearing.balance[a] >= amount
    /\ clearing' = Credit(clearing, a, -amount)
    /\ vault' = VaultOut(vault, amount)
    /\ UNCHANGED <<exists, market, index, paused, call, settled>>

-----------------------------------------------------------------------------
(* An order, from its margin gate to the end of its sweep *)

Reduces(size, side, qty) ==
    /\ size # 0
    /\ (size > 0) = (side = -1)
    /\ qty <= Abs(size)

Crosses(side, limit, price) ==
    \/ limit = 0
    \/ side = 1  /\ limit >= price
    \/ side = -1 /\ limit <= price

\* limit = 0: a market order, whose margin is taken at the index.
InBand(m, limit) ==
    /\ limit >= Below(index[m], market[m].params.bandBps)
    /\ limit <= Above(index[m], market[m].params.bandBps)

MarginGate(a, m, side, qty, limit) ==
    LET ref == IF limit = 0 THEN index[m] ELSE limit
    IN  \/ Reduces(clearing.position[a][m].size, side, qty)
        \/ /\ Priced(clearing, a)
           /\ FreeCollateral(clearing, a)
                >= MarginOf(Notional(qty, ref), market[m].params.initialBps)

BackstopQuote(m, side) ==
    IF side = 1 THEN Above(index[m], market[m].params.spreadBps)
    ELSE Below(index[m], market[m].params.spreadBps)

\* The backstop quotes only when it is funded.
BackstopOffer(m) == IF clearing.balance[Backstop] > 0 THEN market[m].params.maxSize ELSE 0

\* Every order computes the quote; a spread above 100 % underflows and reverts a sell.
BackstopPriced(m, side) ==
    BackstopOffer(m) > 0 /\ side = -1 => market[m].params.spreadBps <= BPS

\* The first half of _execute, as far as the sweep: the margin gate, once.
Execute(taker, m, side, qty, limit) ==
    /\ call = Idle
    /\ Spend("order")
    /\ ~paused
    /\ taker \in exists
    /\ market[m].status \in {"Active", "ReduceOnly"}
    /\ index[m] # 0
    /\ BackstopPriced(m, side)
    /\ MarginGate(taker, m, side, qty, limit)
    /\ call' = [op |-> "sweep", taker |-> taker, market |-> m, side |-> side,
                left |-> qty, limit |-> limit,
                backstopLeft |-> BackstopOffer(m)]
    /\ UNCHANGED <<clearing, vault, exists, market, index, paused, settled>>

\* An order that is executed as it is placed.
PlaceOrder(taker, m, side, qty, limit) ==
    /\ market[m].status = "ReduceOnly" => Reduces(clearing.position[taker][m].size, side, qty)
    /\ limit = 0 \/ InBand(m, limit)
    /\ qty % market[m].params.step = 0
    /\ Notional(qty, IF limit = 0 THEN index[m] ELSE limit) >= market[m].params.minNotional
    /\ Execute(taker, m, side, qty, limit)

\* A stop placed at some earlier index: triggerOrder repeats neither the price
\* band nor the ReduceOnly check of placeOrder.
TriggerOrder(taker, m, side, qty, limit) == Execute(taker, m, side, qty, limit)

\* One fill of the sweep: no margin is asked of the maker, nor again of the taker.
Fill(maker, qty, price) ==
    LET m    == call.market
        both == Exchanged(clearing, call.taker, maker, m, call.side * qty, price)
    IN  /\ clearing' = PayFees(both, call.taker, maker, m, Notional(qty, price))
        /\ market' = [market EXCEPT ![m].lastFill = price]

FillFromBook(maker, qty, price) ==
    /\ call.op = "sweep"
    /\ maker \in exists \ {call.taker}
    /\ qty <= call.left
    /\ Crosses(call.side, call.limit, price)
    /\ Spend("trade")
    /\ Fill(maker, qty, price)
    /\ call' = [call EXCEPT !.left = @ - qty]
    /\ UNCHANGED <<vault, exists, index, paused, settled>>

FillFromBackstop ==
    /\ call.op = "sweep"
    /\ Spend("trade")
    /\ LET price == BackstopQuote(call.market, call.side)
           qty   == IF call.left < call.backstopLeft THEN call.left ELSE call.backstopLeft
       IN  /\ qty > 0 /\ price > 0
           /\ Crosses(call.side, call.limit, price)
           /\ Fill(Backstop, qty, price)
           /\ call' = [call EXCEPT !.left = @ - qty, !.backstopLeft = @ - qty]
    /\ UNCHANGED <<vault, exists, index, paused, settled>>

\* Filled, or the rest is put on the book or cancelled.
EndSweep ==
    /\ call.op = "sweep"
    /\ call' = Idle
    /\ UNCHANGED <<clearing, vault, exists, market, index, paused, settled, budget>>

-----------------------------------------------------------------------------
(* Liquidation *)

\* Mutant of LiquidationQty: the fraction is inverted and overshoots.
LiquidationQtyInverted(have, p, mark) == (have * BPS) \div p.partialBps

LiquidationQty(have, p, mark) ==
    LET part    == (have * p.partialBps) \div BPS
        stepped == part - (part % p.step)
    IN  IF stepped = 0 \/ Notional(have - stepped, mark) < p.minNotional
        THEN have ELSE stepped

\* At the mark; a long is closed by selling.
CloseAgainstBackstop(c, a, m, qty, mark) ==
    Exchanged(c, a, Backstop, m, IF c.position[a][m].size > 0 THEN -qty ELSE qty, mark)

\* The partial close, and the rest as well if it left the balance below zero.
CloseOut(c, a, m, qty, mark) ==
    LET part == CloseAgainstBackstop(c, a, m, qty, mark)
        rest == Abs(part.position[a][m].size)
    IN  IF part.balance[a] < 0 /\ rest # 0
        THEN [after |-> CloseAgainstBackstop(part, a, m, rest, mark), closed |-> qty + rest]
        ELSE [after |-> part, closed |-> qty]

Liquidate(liquidator, a, m) ==
    LET mark    == Mark(m)
        p       == market[m].params
        size    == clearing.position[a][m].size
        qty     == LiquidationQty(Abs(size), p, mark)
        out     == CloseOut(clearing, a, m, qty, mark)
        fee     == MarginOf(Notional(out.closed, mark), p.liquidationFeeBps)
        charged == Transfer(out.after, a, liquidator, fee)
        debt    == Shorts(charged.balance[a])
        fund    == Longs(charged.balance[InsuranceFund])
        used    == IF fund < debt THEN fund ELSE debt
    IN  /\ call = Idle
        /\ Spend("liquidate")
        /\ ~paused
        /\ a \in exists
        /\ size # 0
        /\ Priced(clearing, a)
        /\ IsLiquidatable(clearing, a)
        /\ clearing' = Transfer(charged, InsuranceFund, a, used)
        /\ market' = [market EXCEPT ![m].lastFill = mark]
        /\ call' = [op |-> "adl", bankrupt |-> a, market |-> m,
                    targetShorts |-> size > 0, mark |-> mark,
                    needed |-> debt - used]
        /\ UNCHANGED <<vault, exists, index, paused, settled>>

(***************************************************************************)
(* Auto-deleveraging: of the holders on the other side in profit at the    *)
(* mark, the one with the greatest PnL times notional, the first in the    *)
(* list among equals.                                                      *)
(***************************************************************************)
\* Mutant of AdlCandidates: any holder on the other side, the backstop included.
AdlAnyHolder(c) ==
    LET list == c.holders[call.market]
    IN  {i \in 1 .. Len(list) :
            (c.position[list[i]][call.market].size < 0) = call.targetShorts}

AdlCandidates(c) ==
    LET m    == call.market
        list == c.holders[m]
    IN  {i \in 1 .. Len(list) :
            LET p == c.position[list[i]][m]
            IN  /\ list[i] \notin {call.bankrupt, Backstop, InsuranceFund}
                /\ (p.size < 0) = call.targetShorts
                /\ UnrealizedPnl(p.size, p.entry, call.mark) > 0}

AdlScore(c, a) ==
    LET p == c.position[a][call.market]
    IN  UnrealizedPnl(p.size, p.entry, call.mark) * Notional(Abs(p.size), call.mark)

\* Candidate i is ranked first.
AdlBest(c, i) ==
    LET list == c.holders[call.market]
    IN  \A j \in AdlCandidates(c) :
           \/ AdlScore(c, list[i]) > AdlScore(c, list[j])
           \/ AdlScore(c, list[i]) = AdlScore(c, list[j]) /\ i <= j

\* Mutants of AdlTake: all that the close paid; all that is still needed.
AdlTakeAllGained(gained, needed) == gained
AdlTakeAllNeeded(gained, needed) == needed
AdlTake(gained, needed) == IF gained < needed THEN gained ELSE needed

\* Close the best in full at the mark; take no more than that close paid it.
Deleverage(best) ==
    LET m      == call.market
        qty    == Abs(clearing.position[best][m].size)
        closed == CloseAgainstBackstop(clearing, best, m, qty, call.mark)
        gained == Longs(closed.balance[best] - clearing.balance[best])
        take   == AdlTake(gained, call.needed)
    IN  /\ clearing' = Transfer(closed, best, call.bankrupt, take)
        /\ call' = [call EXCEPT !.needed = @ - take]

AutoDeleverage ==
    /\ call.op = "adl" /\ call.needed > 0
    /\ \E i \in AdlCandidates(clearing) :
          /\ AdlBest(clearing, i)
          /\ Deleverage(clearing.holders[call.market][i])
    /\ UNCHANGED <<vault, exists, market, index, paused, settled, budget>>

EndLiquidation ==
    /\ call.op = "adl"
    /\ call.needed = 0 \/ AdlCandidates(clearing) = {}
    /\ call' = Idle
    /\ UNCHANGED <<clearing, vault, exists, market, index, paused, settled, budget>>

-----------------------------------------------------------------------------
(* Settlement, funding, oracle, admin *)

\* Closes one account at the settlement price; nobody takes the other side.
SettlePosition(a, m) ==
    LET size == clearing.position[a][m].size
    IN  /\ call = Idle
        /\ market[m].status = "Settling"
        /\ size # 0
        /\ clearing' = ApplyPositionDelta(clearing, a, m, -size, market[m].settlementPrice)
        /\ settled' = [settled EXCEPT ![m] =
                         [closes |-> @.closes + 1, size |-> @.size + size,
                          value |-> @.value + size * market[m].settlementPrice]]
        /\ UNCHANGED <<vault, exists, market, index, paused, call, budget>>

\* updateFunding when the interval has elapsed.
UpdateFunding(m, rate) ==
    /\ call = Idle
    /\ Spend("funding")
    /\ index[m] # 0
    /\ rate \in -market[m].params.rateCap .. market[m].params.rateCap
    /\ market' = [market EXCEPT ![m].fundingIndex = @ + IndexDelta(rate, index[m])]
    /\ UNCHANGED <<clearing, vault, exists, index, paused, call, settled>>

\* A new reading, or 0: the reading grew older than the oracle's maximum age.
MoveIndex(m, price) ==
    /\ call = Idle
    /\ Spend("price")
    /\ price # index[m]
    /\ index' = [index EXCEPT ![m] = price]
    /\ UNCHANGED <<clearing, vault, exists, market, paused, call, settled>>

SetPaused(flag) ==
    /\ call = Idle
    /\ Spend("other")
    /\ paused' = flag
    /\ UNCHANGED <<clearing, vault, exists, market, index, call, settled>>

SetMarketStatus(m, status, price) ==
    /\ call = Idle
    /\ Spend("other")
    /\ status = "Settling" => price # 0
    /\ market' = [market EXCEPT ![m].status = status,
                                ![m].settlementPrice = IF status = "Settling" THEN price ELSE 0]
    /\ UNCHANGED <<clearing, vault, exists, index, paused, call, settled>>

\* setMarketParams; setFees sets two of the same fields under the same bound.
SetMarketParams(m, p) ==
    /\ call = Idle
    /\ Spend("other")
    /\ market' = [market EXCEPT ![m].params = p]
    /\ UNCHANGED <<clearing, vault, exists, index, paused, call, settled>>

-----------------------------------------------------------------------------

UserStep ==
    \/ \E a \in Accounts : InitializeAccount(a)
    \/ \E a \in Accounts, amount \in Amounts : Deposit(a, amount) \/ Withdraw(a, amount)
    \/ \E a \in Traders, m \in Markets, side \in {1, -1}, qty \in Quantities,
          limit \in Prices \cup {0} :
          \/ PlaceOrder(a, m, side, qty, limit)
          \/ TriggerOrder(a, m, side, qty, limit)
    \/ \E a \in Accounts, m \in Markets, liquidator \in Traders \cup {Keeper} :
          Liquidate(liquidator, a, m)
    \/ \E a \in Accounts, m \in Markets : SettlePosition(a, m)
    \/ \E m \in Markets, rate \in Rates : UpdateFunding(m, rate)

\* The steps of the call in progress.
CallStep ==
    \/ \E maker \in Traders, qty \in Quantities, price \in Prices :
          FillFromBook(maker, qty, price)
    \/ FillFromBackstop
    \/ EndSweep
    \/ AutoDeleverage
    \/ EndLiquidation

AdminStep ==
    \/ \E m \in Markets, price \in Prices \cup {0} :
          MoveIndex(m, price)
    \/ \E flag \in BOOLEAN : SetPaused(flag)
    \/ \E m \in Markets, price \in Prices, status \in {"Active", "Paused", "ReduceOnly", "Settling"} :
          SetMarketStatus(m, status, price)
    \/ \E m \in Markets, p \in ParamSets : SetMarketParams(m, p)

Next == UserStep \/ CallStep \/ AdminStep

Spec == Init /\ [][Next]_vars
-----------------------------------------------------------------------------
(* Properties *)

TypeOK ==
    /\ clearing \in Clearing
    /\ vault \in [total: Int, held: Int]
    /\ exists \subseteq Accounts
    /\ market \in [Markets -> Market]
    /\ index \in [Markets -> Nat]
    /\ paused \in BOOLEAN
    /\ call \in {Idle} \cup Sweep \cup Adl
    /\ settled \in [Markets -> [closes: Nat, size: Int, value: Int]]
    /\ budget \in [Kinds -> Nat]

(***************************************************************************)
(* Fills, fees, rebates, funding, liquidation fees, bad-debt cover and     *)
(* deleveraging only move value inside the ledger: its entries always sum  *)
(* to deposits less withdrawals, which is what the vault holds.            *)
(***************************************************************************)
LedgerConserved ==
    /\ SumFunction(clearing.balance) = vault.total
    /\ vault.held = vault.total

(***************************************************************************)
(* Open interest moves in pairs: the long side exceeds the short side by   *)
(* exactly what settlement, which has no counterparty, has taken out.      *)
(* _adjustOI never looks at the other account of the fill.                 *)
(***************************************************************************)
OITwoSided ==
    \A m \in Markets :
        clearing.oiLong[m] - clearing.oiShort[m] + settled[m].size = 0

\* The running totals are the positions they count, so the unsigned
\* subtractions in _adjustOI can never underflow and revert a close.
OpenInterestExact ==
    \A m \in Markets :
        /\ clearing.oiLong[m] =
             SumFunction([a \in Accounts |-> Longs(clearing.position[a][m].size)])
        /\ clearing.oiShort[m] =
             SumFunction([a \in Accounts |-> Shorts(clearing.position[a][m].size)])

(***************************************************************************)
(* The holder list that deleveraging ranks is exactly the accounts with a  *)
(* position, each once, through every push and swap-pop of _trackHolder.   *)
(***************************************************************************)
ListsExactly(list, place, S) ==
    /\ \A a \in Accounts :
         /\ place[a] <= Len(list)
         /\ a \in S <=> place[a] # 0
         /\ place[a] # 0 => list[place[a]] = a
    /\ \A i \in 1 .. Len(list) : place[list[i]] = i

Open(c, m) == {a \in Accounts : c.position[a][m].size # 0}

HoldersMatch(c) ==
    \A m \in Markets : ListsExactly(c.holders[m], c.holderIndex[m], Open(c, m))

HolderListExact == HoldersMatch(clearing)

(***************************************************************************)
(* The exchange's own entry, which pays every gain and takes every loss,   *)
(* plus the open positions at entry and what settlement paid out at its    *)
(* price, is rounding dust: no order of fills, flips, liquidations,        *)
(* deleveraging and settlements leaves the winners unpaid by more than one *)
(* rounding for each time _applyPositionDelta divided.                     *)
(***************************************************************************)
EntryValue(m) ==
    SumFunction([a \in Accounts |->
        clearing.position[a][m].size * clearing.position[a][m].entry])

PotBacksPnl ==
    Abs(NOTIONAL_DIVISOR * clearing.balance[Exchange]
        + SumFunction([m \in Markets |-> EntryValue(m) + settled[m].value])) <= clearing.dust

(***************************************************************************)
(* What the fund has paid or been paid as funding is what it is still owed *)
(* or owes: across any order of touches the funding of a two-sided market  *)
(* nets to nothing but rounding, less than two units for every account and *)
(* every update of an index made so far, and none without a divisor.       *)
(***************************************************************************)
FundingDust ==
    (Budget["funding"] - budget["funding"]) * (Cardinality(Accounts) * (2 * (NOTIONAL_DIVISOR - 1)))

FundingIsZeroSum ==
    (\A m \in Markets : settled[m] = NothingSettled) =>
        NOTIONAL_DIVISOR * Abs(clearing.funding
          + SumFunction([m \in Markets |-> SumFunction([a \in Accounts |->
                LET p == clearing.position[a][m]
                IN  FundingOwed(p.size, p.snapshot, market[m].fundingIndex)])])) <= FundingDust

(***************************************************************************)
(* While a liquidation works off a deficit, the number it counts down is   *)
(* the deficit the account really has; the backstop itself is excluded,    *)
(* because every deleveraging close also moves its balance.                *)
(***************************************************************************)
DeficitIsTracked ==
    call.op = "adl" /\ call.bankrupt # Backstop =>
        Shorts(clearing.balance[call.bankrupt]) = call.needed

\* A liquidation and the deleveraging after it close positions, in part or in
\* full: nobody but the backstop is grown or flipped by someone else's call.
ForcedClosesOnlyShrink ==
    [][call'.op = "adl" =>
         \A a \in Accounts \ {Backstop}, m \in Markets :
            LET before == clearing.position[a][m].size
                after  == clearing'.position[a][m].size
            IN  /\ after # 0 => (after > 0) = (before > 0)
                /\ Abs(after) <= Abs(before)]_vars

\* Deleveraging takes the deficit out of what the close paid the holder: apart
\* from funding it owed, no holder's balance falls.
AdlTakesOnlyGains ==
    [][call.op = "adl" =>
         \A a \in Traders \ {call.bankrupt} :
            LET p == clearing.position[a][call.market]
            IN  clearing'.balance[a] >= clearing.balance[a]
                   - Longs(FundingOwed(p.size, p.snapshot, market[call.market].fundingIndex))]_vars

(***************************************************************************)
(* Every round of the deleveraging loop leaves strictly fewer holders to   *)
(* deleverage, so that the loop, which has no bound of its own, ends: a    *)
(* close against the backstop never brings anybody into the ranking.       *)
(***************************************************************************)
Ranked(c) == {c.holders[call.market][i] : i \in AdlCandidates(c)}

AdlRoundsRunOut ==
    [][call.op = "adl" /\ call'.op = "adl" =>
         /\ Ranked(clearing)' \subseteq Ranked(clearing)
         /\ Ranked(clearing)' # Ranked(clearing)]_vars

(***************************************************************************)
(* "It can be liquidated like anyone else" (LiquidityBackstop.sol:14):     *)
(* every liquidation leaves less of the position than there was.           *)
(***************************************************************************)
LiquidationCloses ==
    [][call = Idle /\ call'.op = "adl" =>
         Abs(clearing'.position[call'.bankrupt][call'.market].size)
           < Abs(clearing.position[call'.bankrupt][call'.market].size)]_vars
=============================================================================
