----------------------------- MODULE MCTrading -----------------------------
(* Instances of Trading for TLC.                                           *)
EXTENDS Trading

CONSTANTS alice, bob

MCOrderIds == {"a1", "a2", "b1"}
MCPrices == 1 .. 3
MCQuantities == 1 .. 2
MCTraders == {alice, bob}

(* Two asks of one trader, and a bid of another that can take both.        *)
MCAsks == {ToOrder("a1", "Sell", 1, 1), ToOrder("a2", "Sell", 2, 2)}
MCBids == {ToOrder("b1", "Buy", 3, 2)}
MCOrders == MCAsks \cup MCBids
MCOrdersOf == [t \in MCTraders |-> IF t = alice THEN MCAsks ELSE MCBids]
=============================================================================
