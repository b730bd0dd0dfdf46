-------------------------- MODULE MCOrderBookActor --------------------------
(* Instances of OrderBookActor for TLC.                                    *)
EXTENDS OrderBookActor

MCOrderIds == {"a1", "a2", "b1"}
MCPrices == 1 .. 3
MCQuantities == 1 .. 2

(* Two asks and a bid that can take both of them.                          *)
ThreeOrders ==
    {ToOrder("a1", "Sell", 1, 1), ToOrder("a2", "Sell", 2, 2), ToOrder("b1", "Buy", 3, 2)}
=============================================================================
