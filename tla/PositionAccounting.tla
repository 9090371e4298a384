------------------------- MODULE PositionAccounting -------------------------
(***************************************************************************)
(* The life of one position under an arbitrary sequence of fills, compared *)
(* with the cash that changed hands.  PerpExchange._applyPositionDelta     *)
(* keeps only a size and an average entry; whether that pair pays out what *)
(* the fills were worth depends on every rounding in blendedEntry and in   *)
(* the realised-PnL division, over every order of growing, shrinking,      *)
(* closing and flipping.  Every name begins with Lot: Clearing_proofs,     *)
(* which proves the bounds, also holds the exchange's own state.           *)
(***************************************************************************)
EXTENDS PerpMath, FiniteSets

CONSTANTS
    LotQuantities,  \* fill sizes
    LotPrices,      \* fill prices and marks
    LotMarginBps,   \* maintenance margin, for the reported liquidation price
    LotBalances,    \* what the account holds besides the position, funding due taken off
    LotMaxSize,     \* bound on |size|
    LotMaxFills     \* bound on the number of fills

ASSUME AccountingAssumption ==
    /\ LotQuantities \subseteq Nat \ {0} /\ LotPrices \subseteq Nat \ {0}
    /\ LotMarginBps \in Nat /\ LotBalances \subseteq Int
    /\ LotMaxSize \in Nat /\ LotMaxFills \in Nat

VARIABLES
    lotSize, lotEntry,  \* the stored position
    lotRealized,        \* realizedPnl, USDC
    lotCash,            \* what the fills cost, size * price units: the reference
    lotBlends,          \* fills that grew the position (each may round the entry)
    lotFills

lotVars == <<lotSize, lotEntry, lotRealized, lotCash, lotBlends, lotFills>>

LotInit ==
    /\ lotSize = 0 /\ lotEntry = 0 /\ lotRealized = 0
    /\ lotCash = 0 /\ lotBlends = 0 /\ lotFills = 0

LotFill(delta, price) ==
    LET moved == MovePosition(lotSize, lotEntry, delta, price)
    IN  /\ lotFills < LotMaxFills
        /\ Abs(lotSize + delta) <= LotMaxSize
        /\ lotSize' = moved.size
        /\ lotEntry' = moved.entry
        /\ lotRealized' = lotRealized + moved.realized
        /\ lotCash' = lotCash - delta * price
        /\ lotBlends' = IF lotSize # 0 /\ (lotSize > 0) = (delta > 0) THEN lotBlends + 1 ELSE lotBlends
        /\ lotFills' = lotFills + 1

LotNext ==
    \E q \in LotQuantities, price \in LotPrices :
        \/ LotFill(q, price)
        \/ LotFill(-q, price)

LotSpec == LotInit /\ [][LotNext]_lotVars

-----------------------------------------------------------------------------

(***************************************************************************)
(* What the position has paid out plus its cost at entry is what its fills *)
(* cost, up to the rounding dust: each blend loses less than the size it   *)
(* blends, each close less than one USDC unit.  This is what keeps the     *)
(* exchange's own ledger entry, which pays every realised PnL, from being  *)
(* drained by an order of fills nobody tried (PerpExchange.sol:676-707).   *)
(***************************************************************************)
PnlMatchesCash ==
    Abs(NOTIONAL_DIVISOR * lotRealized - lotCash - lotSize * lotEntry)
        <= lotBlends * (LotMaxSize - 1) + lotFills * (NOTIONAL_DIVISOR - 1)

(***************************************************************************)
(* The unrealised PnL that equity, margin and ADL use is exactly what a    *)
(* full close at the mark realises (unrealizedPnl against the close branch *)
(* of _applyPositionDelta, which compute it by different expressions).     *)
(***************************************************************************)
MarkIsCloseValue ==
    \A mark \in LotPrices :
        lotSize # 0 =>
            UnrealizedPnl(lotSize, lotEntry, mark) = MovePosition(lotSize, lotEntry, -lotSize, mark).realized

(***************************************************************************)
(* Closing in two pieces, as a partial liquidation followed by the rest    *)
(* does, pays within one unit of closing at once: truncation toward zero   *)
(* can shave a gain or a loss, never add to it.                            *)
(***************************************************************************)
SplitCloseShavesDust ==
    \A mark \in LotPrices, q \in 1 .. LotMaxSize :
        q < Abs(lotSize) =>
            LET part  == IF lotSize > 0 THEN -q ELSE q
                first == MovePosition(lotSize, lotEntry, part, mark)
                rest  == MovePosition(first.size, first.entry, -first.size, mark)
                whole == UnrealizedPnl(lotSize, lotEntry, mark)
            IN  /\ Abs(first.realized + rest.realized) <= Abs(whole)
                /\ Abs(whole) <= Abs(first.realized + rest.realized) + 1

(***************************************************************************)
(* The price reported for a long that is not in profit comes no later than *)
(* its liquidation: read at one mark, whatever the account holds, it is    *)
(* never below a later mark at which the account is liquidatable           *)
(* (PerpExchange.sol:1043-1047 and MarginMath.sol:51-69 against            *)
(* isLiquidatable).  For a long in profit the report can be late: the gain *)
(* counts as collateral although the move to the price takes it back.      *)
(***************************************************************************)
EstimateIsNotLateForLongs ==
    \A mark, later \in 1 .. lotEntry, balance \in LotBalances :
        /\ lotSize > 0 /\ Notional(lotSize, lotEntry) > 0
        /\ later > ReportedLiquidationPrice(lotSize, lotEntry, balance, mark, LotMarginBps)
        => balance + UnrealizedPnl(lotSize, lotEntry, later)
             >= MarginOf(Notional(lotSize, later), LotMarginBps)

=============================================================================
