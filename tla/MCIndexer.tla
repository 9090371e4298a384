----------------------------- MODULE MCIndexer -----------------------------
(* A deployed chain, two kinds of block that hold every transaction between *)
(* them, one reversion and two faults of any kind.                          *)
EXTENDS Indexer

MCBlocks == {<<"deposit", "rest", "cross", "status">>,
             <<"list", "stop", "fire", "cancel", "liquidate", "withdraw", "price", "fund">>}
=============================================================================
