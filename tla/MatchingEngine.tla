--------------------------- MODULE MatchingEngine ---------------------------
(***************************************************************************)
(* One matching engine under the calls its actor makes: orders arrive in   *)
(* any sequence, on both sides, at any price, and an order may be          *)
(* delivered again (its sender got no confirmation), while it is open or   *)
(* after it has been completed.                                            *)
(***************************************************************************)
EXTENDS Matching

CONSTANT MaxDeliveries   \* bound on how often one order is delivered

ASSUME MaxDeliveriesAssumption == MaxDeliveries \in Nat

VARIABLES
    engine,      \* the MatchingEngine object
    log,         \* history: the trades of all calls, in order
    submitted,   \* history: the orders delivered so far, as their traders made them
    deliveries,  \* history: how often each order was delivered
    accepted     \* history: how often each order was taken for a new one

vars == <<engine, log, submitted, deliveries, accepted>>

Engine ==
    [orders : [Sides -> SUBSET Order], index : [Sides -> Seq(Order)]]

TypeOK ==
    /\ engine \in Engine
    /\ log \in Seq(Trade)
    /\ submitted \subseteq Order
    /\ deliveries \in [OrderIds -> 0 .. MaxDeliveries]
    /\ accepted \in [OrderIds -> Nat]

Init ==
    /\ engine = NewEngine
    /\ log = << >>
    /\ submitted = {}
    /\ deliveries = [id \in OrderIds |-> 0]
    /\ accepted = [id \in OrderIds |-> 0]

-----------------------------------------------------------------------------

(* The actor hands an order to the engine.                                 *)
Deliver(o) ==
    /\ deliveries[o.id] < MaxDeliveries
    /\ deliveries' = [deliveries EXCEPT ![o.id] = @ + 1]
    /\ submitted' = submitted \cup {o}
    /\ accepted' = IF ContainsKey(engine.orders[o.side], o.id) THEN accepted
                   ELSE [accepted EXCEPT ![o.id] = @ + 1]
    /\ \E r \in WithOrder(engine, o) :
        /\ engine' = r.engine
        /\ log' = log \o r.trades

(* A trader's new order: its id is fresh (a GUID).                         *)
DeliverNew ==
    \E id \in OrderIds, side \in Sides, price \in Prices, qty \in Quantities :
        /\ \A o \in submitted : o.id # id
        /\ Deliver(ToOrder(id, side, price, qty))

(* The same message once more.                                             *)
Redeliver == \E o \in submitted : Deliver(o)

Next == DeliverNew \/ Redeliver

Spec == Init /\ [][Next]_vars

-----------------------------------------------------------------------------
(* Properties *)

OpenOrders == engine.orders["Buy"] \cup engine.orders["Sell"]

(* The quantity of all Fill events of an order.                            *)
Filled(id) == Total(FillsOf(id, log))

(* The trades of the call a step makes.                                    *)
NewTrades == {log'[i] : i \in DOMAIN log' \ DOMAIN log}

(* The two price indexes never go stale: whatever calls were made, an      *)
(* index holds current open orders of its side with their current fills,   *)
(* one of every price level, in ascending order.  (The engine mutates the  *)
(* dictionaries and the indexes separately, and matches from the indexes.) *)
IndexesAreFresh ==
    \A side \in Sides : engine.index[side] \in PriceIndexes(engine.orders[side])

(* The book agrees with the events: what an order has been filled for over *)
(* all its acceptances and what is open of it now add up to what it asked  *)
(* for each time it was accepted.  So no fill is lost, double counted or   *)
(* exceeds what was left, an order leaves the book exactly when it is      *)
(* complete, and a duplicate of an open order changes nothing.             *)
FillsAccountForAcceptances ==
    \A o \in submitted :
        LET open == {x \in OpenOrders : x.id = o.id} IN
        /\ Cardinality(open) <= 1
        /\ \A x \in open : RemainingQuantity(x) \in 1 .. o.qty
        /\ accepted[o.id] * o.qty = Filled(o.id) + LeftOpen(engine, o.id)

(* No two orders of one side were given the same limit price.  The         *)
(* traders of this repository draw 28-digit random prices.                 *)
PricesDistinct ==
    \A x, y \in submitted : x.side = y.side /\ x.price = y.price => x.id = y.id

(* While no price has been used twice on a side, the book never rests      *)
(* crossed: every open bid is below every open ask.                        *)
NotCrossed ==
    PricesDistinct =>
        \A b \in engine.orders["Buy"], a \in engine.orders["Sell"] : b.price < a.price

(* Every trade is settled between the limits of its two orders: no buyer   *)
(* pays more than it bid, no seller gets less than it asked.               *)
SettledWithinLimits ==
    \A t \in Range(log) :
        /\ \A o \in submitted : o.id = t.buy => o.side = "Buy" /\ t.price <= o.price
        /\ \A o \in submitted : o.id = t.sell => o.side = "Sell" /\ t.price >= o.price

(* After a call that leaves the incoming order in the book, no entry the   *)
(* opposite index had and the order could have traded with is still open:  *)
(* an order rests only when the index holds nothing more for it.           *)
RestsOnlyWhenExhausted ==
    [][\A side \in Sides :
        \A o \in engine'.orders[side] :
            ~ContainsKey(engine.orders[side], o.id) =>
                \A x \in Range(engine.index[Opposite(side)]) :
                    Match(o, x) => ~ContainsKey(engine'.orders[Opposite(side)], x.id)]_vars

(* The remainders of HasMatches and FillOrders agree: in a call, the order *)
(* gets a fill of more than nothing from every order HasMatches selects,   *)
(* and from no other.                                                      *)
MatchesAreTraded ==
    [][\A o \in submitted' :
        accepted'[o.id] # accepted[o.id] =>
            LET ix == engine.index[Opposite(o.side)]
                fills == {t \in NewTrades : t.qty > 0}
            IN  {ix[i].id : i \in HasMatches(o, ix)} =
                    {IF o.side = "Buy" THEN t.sell ELSE t.buy : t \in fills}]_vars

(* "If we're buying, we want the cheapest possible price": while prices    *)
(* are distinct, an incoming bid that trades with an ask leaves no cheaper *)
(* ask open.                                                               *)
BuyersGetTheCheapestAsks ==
    [][PricesDistinct' =>
        \A t \in NewTrades, x \in engine.orders["Sell"] :
            /\ ~ContainsKey(engine.orders["Buy"], t.buy)
            /\ x.id = t.sell
            => \A a \in engine'.orders["Sell"] : a.price >= x.price]_vars

(* "If we're selling, we want the highest possible price": the same of an  *)
(* incoming ask and dearer bids.                                           *)
SellersGetTheDearestBids ==
    [][PricesDistinct' =>
        \A t \in NewTrades, x \in engine.orders["Buy"] :
            /\ ~ContainsKey(engine.orders["Sell"], t.sell)
            /\ x.id = t.buy
            => \A b \in engine'.orders["Buy"] : b.price <= x.price]_vars

(* "The full state of the current order book": a snapshot lists every open *)
(* order of both sides.                                                    *)
SnapshotIsFullState == GetSnapshot(engine) = engine.orders
=============================================================================
