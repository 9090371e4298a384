------------------------------ MODULE MCOrders ------------------------------
(***************************************************************************)
(* Two traders and an order of every kind.  At an index of 100 the         *)
(* backstop quotes 90 and 110, at 123 it quotes 110 and 135: worse than    *)
(* the resting prices, better, between them and equal to one.              *)
(***************************************************************************)
EXTENDS Orders

CONSTANTS t1, t2, eth, btc

\* A limit order of size 1; the others differ from it in what they are about.
Plain == [market |-> eth, side |-> Buy, type |-> "Limit", tif |-> "GTC", size |-> 1,
          price |-> 100, trigger |-> 0, source |-> "Index", reduceOnly |-> FALSE, user |-> 0]

Bid     == [Plain EXCEPT !.size = 2, !.user = 1]
Ask     == [Plain EXCEPT !.side = Sell]
PostBid == [Plain EXCEPT !.price = 110, !.tif = "PostOnly"]
FokBid  == [Plain EXCEPT !.size = 2, !.price = 110, !.tif = "FOK"]
IocAsk  == [Plain EXCEPT !.side = Sell, !.size = 2, !.tif = "IOC"]
MarketBuy == [Plain EXCEPT !.type = "Market", !.tif = "IOC", !.size = 2, !.price = 0]
Closing   == [MarketBuy EXCEPT !.side = Sell, !.size = 1, !.reduceOnly = TRUE]
StopLoss  == [Closing EXCEPT !.type = "StopMarket", !.trigger = 100, !.source = "Mark"]
StopIn    == [Plain EXCEPT !.type = "StopLimit", !.trigger = 100, !.user = 1]
TakeProfit == [Closing EXCEPT !.type = "TakeProfit", !.trigger = 100]
BtcBid  == [Plain EXCEPT !.market = btc]

Book == {Bid, Ask, PostBid, FokBid, IocAsk, MarketBuy}
Triggers == {Bid, Ask, MarketBuy, Closing, StopLoss, StopIn, TakeProfit, BtcBid}
AllKinds == Book \cup Triggers

\* Two scopes of one system: four orders for the book of one market, whatever their
\* time in force; or three on two markets, some waiting or for one who holds a position.
Placed == {o.params : o \in ToSet(venue.orders)}
OneBook ==
    /\ Placed \subseteq Book
    /\ market[btc] = [status |-> "Active", index |-> 100]
    /\ \A t \in Traders : venue.position[t][btc] = 0
Waiting == Placed \subseteq Triggers /\ Len(venue.orders) <= 3
MCNext == Next /\ (OneBook \/ Waiting)'
MCSpec == Init /\ [][MCNext]_vars

\* No definition tells the traders apart.
MCSymmetry == Permutations(Traders)
=============================================================================
