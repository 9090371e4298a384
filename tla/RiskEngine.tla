------------------------------ MODULE RiskEngine ------------------------------
(***************************************************************************)
(* The bot's risk gate (src/node/be/bot/risk/engine.js): a decision over an *)
(* order, the engine's limits and the position the caller read.            *)
(*                                                                         *)
(* Sizes and prices are in the units of the engine's specs.  minNotional   *)
(* is in size times price units.  units.notional floors the product to     *)
(* micro-dollars before the comparison; as every market's minimum is a     *)
(* whole number of them, comparing the products decides the same.          *)
(***************************************************************************)
EXTENDS Integers

NoUid == 0                      \* userOrderId undefined

\* The gate's two kinds of answer: a reason to refuse, or an action.
Reasons == {"unknown-market", "kill-switch", "zero-size", "max-order-size",
            "max-position", "no-reference-price", "below-min-notional"}

Magnitude(n) == IF n < 0 THEN -n ELSE n

\* The largest multiple of unit not above value; unit 0 leaves it alone.
FloorTo(value, unit) == IF unit > 0 THEN value - (value % unit) ELSE value

NewEngine(specs, maxOrderSize, maxPositionSize) ==
  [specs |-> specs, maxOrderSize |-> maxOrderSize,
   maxPositionSize |-> maxPositionSize,
   killSwitch |-> FALSE, dryRun |-> FALSE, seen |-> {}]

SetKillSwitch(engine, on) == [engine EXCEPT !.killSwitch = on]

PricedTypes == {"Limit", "StopLimit", "PostOnly"}

\* Mutant of RoundedSize: the size is sent to the gate as it came.
RoundedSizeNot(spec, order) == order.size
RoundedSize(spec, order) == FloorTo(order.size, spec.step)
RoundedPrice(spec, order) ==
  IF order.type \in PricedTypes THEN FloorTo(order.price, spec.tick) ELSE 0

\* The price the notional is judged at.
ReferencePrice(spec, order, ctx) ==
  IF order.type \in PricedTypes THEN RoundedPrice(spec, order) ELSE ctx.refPrice

\* floor(size * price) < min without the product: min is in their units.
BelowNotional(size, price, min) == size <= (min - 1) \div price

Refused(reason) == [ok |-> FALSE, answer |-> reason, size |-> 0, price |-> 0]
Cleared(action, size, price) ==
  [ok |-> TRUE, answer |-> action, size |-> size, price |-> price]

\* Mutant of Exposure: the sign of the position is kept.
ExposureSigned(ctx) == ctx.positionSize
\* The position the cap counts: its size, whichever side the order is on.
Exposure(ctx) == Magnitude(ctx.positionSize)

(***************************************************************************)
(* plan: the first check that fails names the refusal.  The duplicate       *)
(* check comes after the kill switch and before every limit; a reduce-only *)
(* order skips the position cap only.                                      *)
(***************************************************************************)
Plan(engine, order, ctx) ==
  IF order.market \notin DOMAIN engine.specs THEN Refused("unknown-market")
  ELSE
  LET spec  == engine.specs[order.market]
      size  == RoundedSize(spec, order)
      price == RoundedPrice(spec, order)
      ref   == ReferencePrice(spec, order, ctx)
  IN  IF engine.killSwitch THEN Refused("kill-switch")
      ELSE IF order.uid # NoUid /\ order.uid \in engine.seen
        THEN Cleared("duplicate", 0, 0)
      ELSE IF size <= 0 THEN Refused("zero-size")
      ELSE IF size > engine.maxOrderSize THEN Refused("max-order-size")
      ELSE IF ~order.reduceOnly
              /\ Exposure(ctx) + size > engine.maxPositionSize
        THEN Refused("max-position")
      ELSE IF ref <= 0 THEN Refused("no-reference-price")
      ELSE IF BelowNotional(size, ref, spec.minNotional)
        THEN Refused("below-min-notional")
      ELSE Cleared(IF engine.dryRun THEN "dry-run" ELSE "send", size, price)

\* Mutant of Remember: the id is kept for dry runs only.
RememberDryRuns(engine, order, decision) ==
  IF decision.answer = "dry-run" /\ order.uid # NoUid
    THEN [engine EXCEPT !.seen = @ \cup {order.uid}]
    ELSE engine
\* The engine after a decision: a cleared order's id is remembered, whether it
\* is then sent, only dry-run, or reverted by the contract.
Remember(engine, order, decision) ==
  IF decision.ok /\ order.uid # NoUid
    THEN [engine EXCEPT !.seen = @ \cup {order.uid}]
    ELSE engine
===============================================================================
