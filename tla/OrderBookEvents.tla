-------------------------- MODULE OrderBookEvents --------------------------
(***************************************************************************)
(* The trade events of one ticker symbol, and what an order book makes of  *)
(* an order: the events OrderBookActor persists for a call of its matching *)
(* engine.  The Bid and Ask events are both "Order" events.                *)
(***************************************************************************)
EXTENDS Matching

CONSTANT Orders   \* the orders the traders send

ASSUME OrdersAssumption ==
    /\ Orders \subseteq Order
    /\ \A o \in Orders : o.filled = 0
    /\ \A o, p \in Orders : o.id = p.id => o = p

(* What the fields of an engine are.                                       *)
Engine == [orders : [Sides -> SUBSET Order], index : [Sides -> Seq(Order)]]

OrderEvent(o) == [type |-> "Order", order |-> o]
FillEvent(id, qty) == [type |-> "Fill", id |-> id, qty |-> qty]
MatchEvent(t) == [type |-> "Match", trade |-> t]

TradeEvent ==
    [type : {"Order"}, order : Orders] \cup [type : {"Fill"}, id : OrderIds, qty : Nat]
        \cup [type : {"Match"}, trade : Trade]

(* What the engine returns for one trade, in this order.                   *)
EventsOf(t) == <<FillEvent(t.sell, t.qty), FillEvent(t.buy, t.qty), MatchEvent(t)>>

(* (A mutated form of the next operator, as in Matching.)                  *)
OrderLastEvents(o, trades) ==
    [k \in 1 .. 1 + 3 * Len(trades) |->
        IF k = 1 + 3 * Len(trades) THEN OrderEvent(o)
        ELSE EventsOf(trades[(k + 2) \div 3])[1 + ((k + 2) % 3)]]

(* The persistable events of a call: the order goes before its events,     *)
(* three of them for every trade.                                          *)
PersistableEvents(o, trades) ==
    [k \in 1 .. 1 + 3 * Len(trades) |->
        IF k = 1 THEN OrderEvent(o) ELSE EventsOf(trades[(k + 1) \div 3])[1 + ((k + 1) % 3)]]

-----------------------------------------------------------------------------
(* For the properties: what each of some events fills an order for.        *)
FillAmounts(id, events) ==
    [i \in DOMAIN events |->
        IF events[i].type = "Fill" /\ events[i].id = id THEN events[i].qty ELSE 0]
=============================================================================
