------------------------------ MODULE Matching ------------------------------
(***************************************************************************)
(* The class MatchingEngine of Akka.CQRS.Matching, with the Order it works *)
(* on, as operators over values: what a call returns and the engine it     *)
(* leaves behind.  MatchingEngine.tla runs the calls as a state machine;   *)
(* OrderBookActor.tla runs them inside the persistent actor.               *)
(*                                                                         *)
(* Both sides of the book are treated alike in the code (WithAsk and       *)
(* WithBid are mirror images), so the engine is a record of two functions  *)
(* of the side:                                                            *)
(*   orders[side]  the dictionary _bids / _asks, as the set of its values  *)
(*                 (Put replaces the value kept under an OrderId)          *)
(*   index[side]   the SortedSet BidsByPrice / AsksByPrice, as the         *)
(*                 sequence an enumeration of it yields                    *)
(* Fills of an order are abstracted to their sum, and quantities are       *)
(* whole: the traders draw them from 1..19, so the doubles are exact and   *)
(* Epsilon plays no part.  Timestamps and the stock symbol (an engine      *)
(* serves one symbol) are left out.                                        *)
(***************************************************************************)
EXTENDS Integers, Sequences, FiniteSets, FiniteSetsExt

CONSTANTS
    OrderIds,    \* the ids traders give their orders
    Prices,      \* limit prices, in an arbitrary unit
    Quantities   \* order sizes

ASSUME PricesAssumption == Prices \subseteq Nat
ASSUME QuantitiesAssumption == Quantities \subseteq Nat \ {0}

Sides == {"Buy", "Sell"}

Opposite(side) == IF side = "Buy" THEN "Sell" ELSE "Buy"

(* An operator that stands just before another one of nearly its name is a *)
(* mutated form of it: what the definition would be with a plausible bug.  *)
(* PROJECT.json ("mutants") names the property each of them breaks.        *)

-----------------------------------------------------------------------------
(* Order *)

Order == [id : OrderIds, side : Sides, price : Prices, qty : Quantities, filled : Nat]

(* Ask.ToOrder / Bid.ToOrder: a new order has no fills. *)
ToOrder(id, side, price, qty) ==
    [id |-> id, side |-> side, price |-> price, qty |-> qty, filled |-> 0]

RemainingQuantity(o) == o.qty - o.filled

Completed(o) == o.filled = o.qty

WithFillSubtracted(o, sold) == [o EXCEPT !.filled = @ - sold]

WithFill(o, sold) == [o EXCEPT !.filled = @ + sold]

MatchBackwards(o, opposite) ==
    IF o.side = "Buy" THEN opposite.price >= o.price ELSE opposite.price <= o.price

MatchStrict(o, opposite) ==
    IF o.side = "Buy" THEN opposite.price < o.price ELSE opposite.price > o.price

(* A buyer accepts any ask at or below its limit, a seller any bid at or   *)
(* above it.                                                               *)
Match(o, opposite) ==
    IF o.side = "Buy" THEN opposite.price <= o.price ELSE opposite.price >= o.price

-----------------------------------------------------------------------------
(* The price indexes *)

PriceLevels(orders) == {o.price : o \in orders}

DescendingPriceIndexes(orders) ==
    {ix \in [1 .. Cardinality(PriceLevels(orders)) -> orders] :
        /\ \A i, j \in DOMAIN ix : i < j => ix[i].price > ix[j].price
        /\ \A o \in orders : \E i \in DOMAIN ix : ix[i].price = o.price}

(* Every SortedSet<Order> that can be built from these orders.  The set    *)
(* compares orders with Order.CompareTo, which looks at the price only: of *)
(* the orders with one price it keeps a single one, and it enumerates      *)
(* prices in ascending order whatever the order of its input.  Which of    *)
(* the equals survives depends on the layout of the dictionary, and is     *)
(* left open.                                                              *)
PriceIndexes(orders) ==
    {ix \in [1 .. Cardinality(PriceLevels(orders)) -> orders] :
        /\ \A i, j \in DOMAIN ix : i < j => ix[i].price < ix[j].price
        /\ \A o \in orders : \E i \in DOMAIN ix : ix[i].price = o.price}

-----------------------------------------------------------------------------
(* Matching *)

Lesser(a, b) == IF a < b THEN a ELSE b

(* The total of a sequence of amounts.                                     *)
Total(amounts) ==
    LET upTo[k \in 0 .. Len(amounts)] == IF k = 0 THEN 0 ELSE upTo[k-1] + amounts[k]
    IN  upTo[Len(amounts)]

(* What the entries before a position of the index offer the order.        *)
Offered(o, ix, i) ==
    Total([j \in 1 .. i-1 |-> IF Match(o, ix[j]) THEN RemainingQuantity(ix[j]) ELSE 0])

HasMatchesOneMore(o, ix) ==
    {i \in DOMAIN ix : Match(o, ix[i]) /\ Offered(o, ix, i) <= RemainingQuantity(o)}

(* HasMatches: the positions of the orders to trade with.  The loop adds   *)
(* matching ones, in the order of the index, until what they offer covers  *)
(* what the order wants.                                                   *)
HasMatches(o, ix) ==
    {i \in DOMAIN ix : Match(o, ix[i]) /\ Offered(o, ix, i) < RemainingQuantity(o)}

(* The loop over the matches, as the trace of what is left of the incoming *)
(* order after each entry of the index.  What FillOrders sells is computed *)
(* from this remainder, not from the one of HasMatches.                    *)
(* There is exactly one such trace.                                        *)
Traces(o, ix) ==
    LET matches == HasMatches(o, ix)
        sold(left, i) == IF i \in matches THEN Lesser(left, RemainingQuantity(ix[i])) ELSE 0
    IN  {left \in [0 .. Len(ix) -> 0 .. RemainingQuantity(o)] :
            /\ left[0] = RemainingQuantity(o)
            /\ \A i \in 1 .. Len(ix) : left[i] = left[i-1] - sold(left[i-1], i)}

(* The positions of the index the order traded with.                       *)
Hits(left) == {i \in DOMAIN left \ {0} : left[i] # left[i-1]}

(* One trade, the pair of Fills and the Match event of FillOrders: settled *)
(* at the price of the bid, whichever of the two orders came first.        *)
FillOrders(o, opposite, sold) ==
    IF o.side = "Buy"
    THEN [buy |-> o.id, sell |-> opposite.id, price |-> o.price, qty |-> sold]
    ELSE [buy |-> opposite.id, sell |-> o.id, price |-> opposite.price, qty |-> sold]

Trade == [buy : OrderIds, sell : OrderIds, price : Prices, qty : Nat]

(* The trades of a call, in the order of the loop.  The entries traded     *)
(* with are consecutive: the index is sorted by price.                     *)
TradesOf(o, ix, left) ==
    LET hits == Hits(left)
        at(k) == Min(hits) + k - 1
    IN  [k \in 1 .. Cardinality(hits) |->
            FillOrders(o, ix[at(k)], left[at(k) - 1] - left[at(k)])]

-----------------------------------------------------------------------------
(* The engine *)

NewEngine == [orders |-> [side \in Sides |-> {}], index |-> [side \in Sides |-> << >>]]

ContainsKey(orders, id) == \E o \in orders : o.id = id

Put(orders, o) == {x \in orders : x.id # o.id} \cup {o}

UpdateOrdersKeepsCompleted(orders, ix, left) ==
    {x \in orders : \A i \in Hits(left) : ix[i].id # x.id}
        \cup {WithFill(ix[i], left[i-1] - left[i]) : i \in Hits(left)}

(* UpdateOrder for every trade of the call: an order that is complete      *)
(* leaves the dictionary, one that is not is put back with its new fill.   *)
(* The order that gets the fill is the one the index holds.                *)
UpdateOrders(orders, ix, left) ==
    LET filled == {WithFill(ix[i], left[i-1] - left[i]) : i \in Hits(left)}
    IN  {x \in orders : \A i \in Hits(left) : ix[i].id # x.id}
            \cup {x \in filled : ~Completed(x)}

RestsAsItCame(engine, o, left) ==
    IF left[Len(engine.index[Opposite(o.side)])] > 0
    THEN Put(engine.orders[o.side], o)
    ELSE engine.orders[o.side]

(* The side of the incoming order after the call: an order that is not     *)
(* completely filled rests in the book with the fills it got.              *)
Rested(engine, o, left) ==
    LET rest == left[Len(engine.index[Opposite(o.side)])]
    IN  IF rest > 0
        THEN Put(engine.orders[o.side], WithFill(o, RemainingQuantity(o) - rest))
        ELSE engine.orders[o.side]

ReindexedOnGrowth(old, new, ix) ==
    IF Cardinality(new) <= Cardinality(old) THEN {ix} ELSE PriceIndexes(new)

(* RebuildAskIndex / RebuildBidIndex, called when a call has changed the   *)
(* side.                                                                   *)
Reindexed(old, new, ix) == IF new = old THEN {ix} ELSE PriceIndexes(new)

(* WithAsk and WithBid for an order the engine does not hold.              *)
Results(engine, o) ==
    LET opp == Opposite(o.side)
        ix == engine.index[opp]
        result(left, own, opposite, ownIx, oppIx) ==
            [trades |-> TradesOf(o, ix, left),
             engine |-> [orders |-> [s \in Sides |-> IF s = opp THEN opposite ELSE own],
                         index |-> [s \in Sides |-> IF s = opp THEN oppIx ELSE ownIx]]]
    IN  UNION {
          LET own == Rested(engine, o, left)
              opposite == UpdateOrders(engine.orders[opp], ix, left)
          IN  {result(left, own, opposite, ownIx, oppIx) :
                  ownIx \in Reindexed(engine.orders[o.side], own, engine.index[o.side]),
                  oppIx \in Reindexed(engine.orders[opp], opposite, ix)} :
          left \in Traces(o, ix)}

(* WithAsk / WithBid: the possible results of a call.  An order whose id   *)
(* is open on its side is a duplicate and is ignored.                      *)
WithOrder(engine, o) ==
    IF ContainsKey(engine.orders[o.side], o.id)
    THEN {[trades |-> << >>, engine |-> engine]}
    ELSE Results(engine, o)

(* GetSnapshot: the lists of the snapshot are taken from the indexes.      *)
GetSnapshot(engine) ==
    [side \in Sides |-> {engine.index[side][i] : i \in DOMAIN engine.index[side]}]

(* FromSnapshot: the engine made from a snapshot starts with two empty     *)
(* dictionaries, whatever the snapshot holds.                              *)
FromSnapshot(snapshot) == NewEngine

-----------------------------------------------------------------------------
(* Fills, for the properties *)

(* What each of a sequence of trades fills an order for.                   *)
FillsOf(id, trades) ==
    [i \in DOMAIN trades |->
        IF id \in {trades[i].buy, trades[i].sell} THEN trades[i].qty ELSE 0]

(* What an engine leaves open of an order.                                 *)
LeftOpen(e, id) ==
    LET found == {x \in e.orders["Buy"] \cup e.orders["Sell"] : x.id = id}
    IN  IF found = {} THEN 0 ELSE RemainingQuantity(CHOOSE x \in found : TRUE)
=============================================================================
