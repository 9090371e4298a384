-------------------------------- MODULE MCBot --------------------------------
(* One account, a cap of two lots, and the gate's catalogue of cases.       *)
EXTENDS Bot, RiskCatalogue

Order(side, size, type, reduceOnly, uid) ==
  [market |-> "ETH", side |-> side, size |-> size, price |-> IF type = "Limit" THEN 1 ELSE 0,
   type |-> type, reduceOnly |-> reduceOnly, uid |-> uid]

MCOrders == { Order("Buy", 2, "Limit", FALSE, 1), Order("Sell", 2, "Limit", FALSE, 0),
              Order("Sell", 1, "Market", TRUE, 0), Order("Sell", 3, "Market", FALSE, 0) }

(* The gate and its catalogue agree: every case gets from engine.js the     *)
(* answer it states, whichever of the other checks its order also meets.   *)
(* It says nothing of the state, and is evaluated before the first call.   *)
CatalogueHolds == calls = 0 => AllCases
===============================================================================
