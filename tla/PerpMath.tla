------------------------------ MODULE PerpMath ------------------------------
(***************************************************************************)
(* The arithmetic of contracts/src/lib/MarginMath.sol and FundingMath.sol, *)
(* and the price formulas of PerpExchange.sol that are pure functions of   *)
(* their arguments.  Sizes, prices and amounts are integers, as in the     *)
(* code.  The two scales are parameters: the code has BPS = 10 000 and     *)
(* NOTIONAL_DIVISOR = 1e10 (lib/Types.sol).                                *)
(***************************************************************************)
EXTENDS Integers

CONSTANTS
    BPS,              \* basis points in 100 %
    NOTIONAL_DIVISOR  \* size * price / NOTIONAL_DIVISOR = USDC

ASSUME ScaleAssumption ==
    /\ BPS \in Nat \ {0}
    /\ NOTIONAL_DIVISOR \in Nat \ {0}

Abs(n) == IF n < 0 THEN -n ELSE n

\* Mutant of TruncDiv: away from zero.
RoundAwayDiv(a, b) == IF a >= 0 THEN (a + b - 1) \div b ELSE -((-a + b - 1) \div b)

\* Solidity's signed division: toward zero, where \div floors.
TruncDiv(a, b) == IF a >= 0 THEN a \div b ELSE -((-a) \div b)

-----------------------------------------------------------------------------
(* MarginMath *)

Notional(size, price) == (size * price) \div NOTIONAL_DIVISOR

\* Mutant of UnrealizedPnl: a rise of the mark is a gain for both sides.
UnsignedPnl(size, entry, mark) == TruncDiv(Abs(size) * (mark - entry), NOTIONAL_DIVISOR)

UnrealizedPnl(size, entry, mark) ==
    TruncDiv(size * (mark - entry), NOTIONAL_DIVISOR)

\* Positive: the position pays.
FundingOwed(size, snapshot, cumulative) ==
    TruncDiv(size * (cumulative - snapshot), NOTIONAL_DIVISOR)

MarginOf(notional, bps) == (notional * bps) \div BPS

\* Mutant of BlendedEntry: the two prices averaged without their sizes.
UnweightedEntry(oldSize, oldEntry, addSize, addPrice) ==
    IF oldSize = 0 THEN addPrice ELSE (oldEntry + addPrice) \div 2

BlendedEntry(oldSize, oldEntry, addSize, addPrice) ==
    (oldSize * oldEntry + addSize * addPrice) \div (oldSize + addSize)

\* Mutant of EstimatedLiquidationPrice: where equity, not the margin, runs out.
BankruptcyPrice(size, entry, collateral, mmBps) ==
    LET n    == Notional(Abs(size), entry)
        move == TruncDiv(entry * ((collateral * BPS) \div n), BPS)
    IN  IF size > 0 THEN entry - move ELSE entry + move

(***************************************************************************)
(* The price at which a lone position with this collateral meets           *)
(* maintenance; "reporting only" in the code.                              *)
(***************************************************************************)
EstimatedLiquidationPrice(size, entry, collateral, mmBps) ==
    LET n       == Notional(Abs(size), entry)
        cushion == (collateral * BPS) \div n - mmBps
        move    == TruncDiv(entry * cushion, BPS)
        liq     == IF size > 0 THEN entry - move ELSE entry + move
    IN  IF size = 0 \/ n = 0 \/ liq < 0 THEN 0 ELSE liq

\* What the exchange reports: the estimate for the equity of the moment, never below none.
ReportedLiquidationPrice(size, entry, balance, mark, mmBps) ==
    LET eq == balance + UnrealizedPnl(size, entry, mark)
    IN  EstimatedLiquidationPrice(size, entry, IF eq > 0 THEN eq ELSE 0, mmBps)

-----------------------------------------------------------------------------
(* FundingMath *)

PremiumBps(mark, index) == TruncDiv((mark - index) * BPS, index)

Clamp(x, low, high) == IF x < low THEN low ELSE IF x > high THEN high ELSE x

RateBps(accumulator, samples, cap) ==
    IF samples = 0 THEN 0 ELSE Clamp(TruncDiv(accumulator, samples), -cap, cap)

IndexDelta(rate, index) == TruncDiv(rate * index, BPS)

-----------------------------------------------------------------------------
(* Prices and fees of PerpExchange *)

Below(price, bps) == (price * (BPS - bps)) \div BPS
Above(price, bps) == (price * (BPS + bps)) \div BPS

\* The last fill clamped to the index; lastFill = 0 before the first fill.
MarkPrice(lastFill, index, maxBasisBps) ==
    IF lastFill = 0 THEN index
    ELSE Clamp(lastFill, Below(index, maxBasisBps), Above(index, maxBasisBps))

TakerFee(notional, bps) == (notional * bps) \div BPS
MakerFee(notional, bps) == TruncDiv(notional * bps, BPS)

(***************************************************************************)
(* One fill's effect on the size and entry of a position, and the PnL it   *)
(* realises: grow (blend the entry), shrink (keep it), close (clear it) or *)
(* flip (the remainder opens at the fill price).                           *)
(***************************************************************************)
MovePosition(size, entry, delta, price) ==
    LET closing == IF Abs(delta) < Abs(size) THEN Abs(delta) ELSE Abs(size)
        gain    == IF size > 0 THEN price - entry ELSE entry - price
    IN  IF size = 0 \/ (size > 0) = (delta > 0)
        THEN [size     |-> size + delta,
              entry    |-> BlendedEntry(Abs(size), entry, Abs(delta), price),
              realized |-> 0]
        ELSE [size     |-> size + delta,
              entry    |-> IF size + delta = 0 THEN 0
                           ELSE IF Abs(delta) <= Abs(size) THEN entry ELSE price,
              realized |-> TruncDiv(closing * gain, NOTIONAL_DIVISOR)]
=============================================================================
