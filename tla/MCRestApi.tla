------------------------------ MODULE MCRestApi ------------------------------
(* The trades of three transactions in three blocks on two markets, and     *)
(* another chain on which the later two are mined one block earlier.  Three *)
(* requests a window, a client that keeps one in reserve; and the catalogue *)
(* of answers.                                                             *)
EXTENDS RestApi, RestCatalogue

Trade(tx, block, log) == [tx |-> tx, block |-> block, log |-> log]
MCChains ==
  { {Trade(1, 0, 0), Trade(2, 1, 1), Trade(3, 2, 0)},
    {Trade(1, 0, 0), Trade(2, 0, 1), Trade(3, 1, 0)} }
MCMarketOf(row) == (row.tx + row.log) % 2

===============================================================================
