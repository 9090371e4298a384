---------------------------- MODULE RiskCatalogue ----------------------------
(***************************************************************************)
(* The risk-gate cases of src/testcases/bot.cases.js, each an order, the    *)
(* engine it is planned by and the answer the case expects.  A case starts *)
(* from an engine over the deployed specs (bot.steps.js).                  *)
(* Units: 1/10000 of a coin, 1/1000 of a dollar.                           *)
(***************************************************************************)
EXTENDS RiskEngine

Eth(n) == n * 10000
Usd(n) == n * 1000
TenDollars == 100000000         \* in size times price units
Generous == 2000000000          \* more than any order or position of a case

SPECS == [BTC |-> [tick |-> 10, step |-> 1,   minNotional |-> TenDollars],
          ETH |-> [tick |-> 10, step |-> 10,  minNotional |-> TenDollars],
          SOL |-> [tick |-> 1,  step |-> 100, minNotional |-> TenDollars]]

RiskOnlyBot(maxOrder, maxPosition) == NewEngine(SPECS, maxOrder, maxPosition)
DefaultBot == RiskOnlyBot(Eth(100), Eth(100))

\* The planning steps: a limit buy, or a reduce-only sell, at a position.
Buy(size, market, price) ==
  [market |-> market, side |-> "Buy", size |-> size, price |-> price,
   type |-> "Limit", reduceOnly |-> FALSE, uid |-> NoUid]
ReduceOnlySell(size, price) ==
  [Buy(size, "ETH", price) EXCEPT !.side = "Sell", !.reduceOnly = TRUE, !.uid = 999]
At(position) == [positionSize |-> position, refPrice |-> 0]

Case(engine, order, position, answer) ==
  [engine |-> engine, order |-> order, position |-> position, answer |-> answer]

\* The named cases bot.risk.kill to bot.risk.dryrun, one order each.
NamedCases ==
  { Case([DefaultBot EXCEPT !.killSwitch = TRUE], Buy(Eth(1), "ETH", Usd(2500)), 0, "kill-switch"),
    Case(RiskOnlyBot(Eth(5), Eth(100)), Buy(Eth(6), "ETH", Usd(2500)), 0, "max-order-size"),
    Case(RiskOnlyBot(Eth(100), Eth(10)), Buy(Eth(4), "ETH", Usd(2500)), Eth(7), "max-position"),
    Case(RiskOnlyBot(Eth(100), Eth(10)), ReduceOnlySell(Eth(4), Usd(2500)), Eth(7), "send"),
    Case(DefaultBot, Buy(5, "ETH", Usd(2500)), 0, "zero-size"),
    Case(DefaultBot, Buy(10, "ETH", Usd(2500)), 0, "below-min-notional"),
    Case([DefaultBot EXCEPT !.dryRun = TRUE], Buy(Eth(1), "ETH", Usd(2500)), 0, "dry-run") }

MaxOrderSizeCases ==
  { Case(RiskOnlyBot(Eth(max), Generous), Buy(Eth(max + over), "ETH", Usd(2500)), 0,
         "max-order-size") : max \in 1 .. 39, over \in 1 .. 3 }

KillSwitchCases ==
  { Case([DefaultBot EXCEPT !.killSwitch = TRUE],
         Buy(Eth(size), "ETH", Usd(2500) + 100 * tenths), 0, "kill-switch")
      : size \in 1 .. 10, tenths \in 0 .. 9 }

MaxPositionCases ==
  { Case(RiskOnlyBot(Generous, Eth(max)), Buy(Eth(size), "ETH", Usd(2500)), Eth(max - 1),
         "max-position") : max \in 5 .. 24, size \in 2 .. 7 }

ReduceOnlyCases ==
  { Case(RiskOnlyBot(Generous, Eth(1)), ReduceOnlySell(Eth(size), Usd(2500)), Eth(position),
         "send") : size \in 1 .. 5, position \in 2 .. 21 }

ValidCases ==
  { Case(RiskOnlyBot(Generous, Generous), Buy(Eth(size), "ETH", Usd(price)), 0, "send")
      : size \in 1 .. 10, price \in 2500 .. 2509 }

DryRunCases ==
  { Case([RiskOnlyBot(Generous, Generous) EXCEPT !.dryRun = TRUE],
         Buy(Eth(size), "ETH", Usd(price)), 0, "dry-run")
      : size \in 1 .. 8, price \in 2500 .. 2509 }

ZeroSizeCases ==
  { Case(DefaultBot, Buy(n, "ETH", Usd(2500)), 0, "zero-size") : n \in 1 .. 9 }
  \cup { Case(DefaultBot, Buy(10 * n, "SOL", Usd(2500)), 0, "zero-size") : n \in 1 .. 9 }

BelowMinNotionalCases ==
  { Case(RiskOnlyBot(Generous, Generous), Buy(10, "ETH", Usd(100 * n)), 0,
         "below-min-notional") : n \in 1 .. 62 }

Cases == UNION { NamedCases, MaxOrderSizeCases, KillSwitchCases, MaxPositionCases,
                 ReduceOnlyCases, ValidCases, DryRunCases, ZeroSizeCases,
                 BelowMinNotionalCases }

Answered(case) == Plan(case.engine, case.order, At(case.position)).answer

\* bot.risk.round: 1.2345 ETH at 2500.567 is cleared as 1.234 at 2500.56.
RoundedCase ==
  Plan(DefaultBot, Buy(12345, "ETH", 2500567), At(0)) = Cleared("send", 12340, 2500560)

\* bot.risk.dup: the second plan of a cleared user order id sends nothing.
DuplicateCase ==
  LET order  == [Buy(Eth(1), "ETH", Usd(2500)) EXCEPT !.uid = 1]
      first  == Plan(DefaultBot, order, At(0))
      again  == Plan(Remember(DefaultBot, order, first), order, At(0))
  IN  first.answer = "send" /\ again.answer = "duplicate"

\* Every case gets the answer, and the rounding, it states.
AllCases ==
  /\ \A case \in Cases : Answered(case) = case.answer
  /\ RoundedCase
  /\ DuplicateCase
===============================================================================
