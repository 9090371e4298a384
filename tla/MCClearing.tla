----------------------------- MODULE MCClearing -----------------------------
(***************************************************************************)
(* One market, three traders.  BPS = 100 makes the parameters percentages; *)
(* prices of about 100 keep fees and margins away from zero.               *)
(***************************************************************************)
EXTENDS Clearing, TLC

CONSTANTS t1, t2, t3, eth

Base == [maxLeverage |-> 5, initialBps |-> 20, maintenanceBps |-> 10, makerBps |-> -1,
         takerBps |-> 2, bandBps |-> 40, basisBps |-> 20, liquidationFeeBps |-> 5,
         partialBps |-> 50, rateCap |-> 10, spreadBps |-> 10, maxSize |-> 2,
         step |-> 1, minNotional |-> 10]

MCRates == {-10, 10}
\* What the admin may change them to: no rebate, a wide basis, whole liquidations.
Strict == [Base EXCEPT !.makerBps = 1, !.basisBps = 40, !.partialBps = 100]
MCParamSets == {Base, Strict}
MCDeposits  == (t1 :> 40) @@ (t2 :> 0) @@ (t3 :> 0) @@ (Backstop :> 200) @@ (InsuranceFund :> 5)
\* A backstop with little behind it, which one losing position brings under maintenance.
LeanDeposits == (t1 :> 40) @@ (t2 :> 0) @@ (Backstop :> 30) @@ (InsuranceFund :> 10)
MCIndex     == eth :> 100
MCBudget    == ("order" :> 2) @@ ("trade" :> 3) @@ ("price" :> 1) @@ ("liquidate" :> 1)
               @@ ("funding" :> 1) @@ ("other" :> 1)

\* Two scopes of one system: three traders who have their accounts, and a third trade,
\* which it takes to have somebody to rank in a deleveraging; or two, one of whom has
\* yet to make an account, two trades, and one change by the administrator, payment
\* of an account's owner or update of funding.
ThreeTraders ==
    /\ budget["other"] = 1 /\ budget["funding"] = 1
    /\ Traders \subseteq exists \/ budget["order"] = 2
TwoTraders ==
    /\ budget["other"] + budget["funding"] > 0 /\ budget["trade"] > 0
    /\ \E t \in {t2, t3} :
          /\ t \notin exists
          /\ \A m \in Markets : clearing.position[t][m].size = 0
          /\ call.op = "sweep" => call.taker # t
MCNext == Next /\ (ThreeTraders \/ TwoTraders)'
MCSpec == Init /\ [][MCNext]_vars

\* They start alike.
MCSymmetry == Permutations({t2, t3})
=============================================================================
