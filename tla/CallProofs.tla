----------------------------- MODULE CallProofs -----------------------------
(***************************************************************************)
(* That every call of a sound engine has a result: the loop over the       *)
(* matches runs to its end, and the orders of a side can be indexed, in    *)
(* one way only where their prices are distinct. What the events of a call *)
(* are, and that they account for the order submitted and for those of the *)
(* book it trades with.                                                    *)
(***************************************************************************)
EXTENDS OrderBookEvents, MatchingProofs

(* The loop over the matches can be run through any index.                 *)
LEMMA TraceExists ==
    ASSUME NEW o \in OpenOrder, NEW ix \in Seq(OpenOrder)
    PROVE  Traces(o, ix) # {}
<1> DEFINE R == RemainingQuantity(o)
           IsTrace(left, n) ==
              /\ left \in [0 .. n -> 0 .. R]
              /\ left[0] = R
              /\ \A i \in 1 .. n : left[i] = left[i-1] - Sold(o, left[i-1], ix[i])
           Fails == {n \in 0 .. Len(ix) : \A left : ~IsTrace(left, n)}
<1>1. R \in Nat /\ Len(ix) \in Nat
  BY OpenOrderFacts
<1>2. \A i \in 1 .. Len(ix), w \in 0 .. R : w - Sold(o, w, ix[i]) \in 0 .. R
  <2> SUFFICES ASSUME NEW i \in 1 .. Len(ix), NEW w \in 0 .. R
               PROVE  w - Sold(o, w, ix[i]) \in 0 .. R
    OBVIOUS
  <2>1. ix[i] \in OpenOrder
    BY <1>1
  <2>2. RemainingQuantity(ix[i]) \in Nat
    BY <2>1, OpenOrderFacts
  <2>3. Sold(o, w, ix[i]) \in 0 .. w
    BY <1>1, <2>2 DEF Sold, Lesser
  <2>4. QED
    BY <1>1, <2>3
<1>3. Fails = {}
  <2> SUFFICES ASSUME Fails # {} PROVE FALSE
    OBVIOUS
  <2>1. Fails \in SUBSET Nat
    BY <1>1
  <2>2. PICK n \in Fails : \A k \in Fails : n <= k
    BY <2>1, LeastElement
  <2>3. n # 0
    <3>1. IsTrace([i \in 0 .. 0 |-> R], 0)
      BY <1>1
    <3>2. QED
      BY <2>2, <3>1
  <2>4. n \in 1 .. Len(ix) /\ n - 1 \in 0 .. Len(ix) /\ ~(n <= n - 1)
    BY <1>1, <2>2, <2>3
  <2>5. n - 1 \notin Fails
    BY <2>2, <2>4
  <2>6. PICK left : IsTrace(left, n - 1)
    BY <2>4, <2>5
  <2> DEFINE longer == [i \in 0 .. n |-> IF i = n THEN left[n-1] - Sold(o, left[n-1], ix[n])
                                          ELSE left[i]]
  <2>7. left[n-1] \in 0 .. R /\ \A i \in 0 .. n - 1 : left[i] \in 0 .. R
    BY <2>4, <2>6
  <2>8. longer \in [0 .. n -> 0 .. R]
    <3>1. left[n-1] - Sold(o, left[n-1], ix[n]) \in 0 .. R
      BY <1>2, <2>4, <2>7
    <3>2. \A i \in 0 .. n : i # n => i \in 0 .. n - 1
      BY <2>4
    <3>3. QED
      BY <2>7, <3>1, <3>2
  <2>9. longer[0] = R
    BY <2>4, <2>6
  <2>10. ASSUME NEW i \in 1 .. n PROVE longer[i] = longer[i-1] - Sold(o, longer[i-1], ix[i])
    <3>1. longer[i-1] = left[i-1]
      BY <2>4
    <3>2. CASE i = n
      BY <2>4, <3>1, <3>2
    <3>3. CASE i # n
      <4>1. i \in 1 .. n - 1 /\ longer[i] = left[i]
        BY <2>4, <3>3
      <4>2. left[i] = left[i-1] - Sold(o, left[i-1], ix[i])
        BY <2>6, <4>1
      <4>3. QED
        BY <3>1, <4>1, <4>2
    <3>4. QED
      BY <3>2, <3>3
  <2> HIDE DEF longer
  <2>11. IsTrace(longer, n)
    BY <2>8, <2>9, <2>10
  <2>12. QED
    BY <2>2, <2>11
<1>4. PICK left : IsTrace(left, Len(ix))
  <2>1. Len(ix) \in 0 .. Len(ix)
    BY <1>1
  <2> HIDE DEF IsTrace, Fails
  <2>2. Len(ix) \notin Fails
    BY <1>3
  <2>3. QED
    BY <2>1, <2>2 DEF Fails
<1>5. left \in Traces(o, ix)
  <2>1. \A i \in 1 .. Len(ix) :
           Sold(o, left[i-1], ix[i]) = IF i \in HasMatches(o, ix)
                                       THEN Lesser(left[i-1], RemainingQuantity(ix[i])) ELSE 0
    BY <1>4, RemaindersAgree
  <2>2. QED
    BY <1>4, <2>1 DEF Traces
<1>6. QED
  BY <1>5

(* Orders of finitely many prices have an index.                           *)
LEMMA IndexExists ==
    ASSUME NEW orders \in SUBSET OpenOrder, IsFiniteSet(orders)
    PROVE  PriceIndexes(orders) # {}
<1> DEFINE Size(S) == Cardinality(PriceLevels(S))
           Bad == {S \in SUBSET orders : PriceIndexes(S) = {}}
           Sizes == {Size(S) : S \in Bad}
<1>1. \A S \in SUBSET orders : /\ IsFiniteSet(S) /\ IsFiniteSet(PriceLevels(S))
                               /\ Size(S) \in Nat
  BY FS_Subset, PriceLevelsFinite, FS_CardinalityType
<1>2. \A x \in orders : x.price \in Nat
  BY OpenOrderFacts, OrderFacts
<1>3. Bad = {}
  <2> SUFFICES ASSUME Bad # {} PROVE FALSE
    OBVIOUS
  <2>1. Sizes \in SUBSET Nat /\ Sizes # {}
    BY <1>1
  <2>2. PICK n \in Sizes : \A k \in Sizes : n <= k
    BY <2>1, LeastElement
  <2>3. PICK S \in Bad : n = Size(S)
    BY <2>2
  <2>4. \A T \in SUBSET orders : Size(T) < Size(S) => PriceIndexes(T) # {}
    <3> SUFFICES ASSUME NEW T \in SUBSET orders, Size(T) < Size(S), T \in Bad PROVE FALSE
      OBVIOUS
    <3>1. Size(T) \in Sizes /\ Size(T) \in Nat /\ Size(S) \in Nat
      BY <1>1
    <3>2. n <= Size(T)
      BY <2>2, <3>1
    <3>3. QED
      BY <2>3, <3>1, <3>2
  <2>5. S # {}
    <3> SUFFICES ASSUME S = {} PROVE FALSE
      OBVIOUS
    <3>1. PriceLevels({}) = {} /\ Cardinality({}) = 0
      BY FS_EmptySet DEF PriceLevels
    <3>2. << >> \in [1 .. 0 -> {}]
      OBVIOUS
    <3>3. << >> \in PriceIndexes({})
      BY <3>1, <3>2 DEF PriceIndexes
    <3>4. QED
      BY <2>3, <3>3
  <2>6. PriceLevels(S) \in SUBSET Nat /\ PriceLevels(S) # {}
    BY <1>2, <2>5 DEF PriceLevels
  <2>7. PICK p \in PriceLevels(S) : \A q \in PriceLevels(S) : p <= q
    BY <2>6, LeastElement
  <2>8. PICK x \in S : x.price = p
    BY <2>7 DEF PriceLevels
  <2> DEFINE T == {y \in S : y.price # p}
             m == Size(T)
  <2>9. PriceLevels(T) = PriceLevels(S) \ {p}
    BY DEF PriceLevels
  <2>10. m \in Nat /\ n = m + 1
    <3>1. Cardinality(PriceLevels(S) \ {p}) = Cardinality(PriceLevels(S)) - 1
      BY <1>1, <2>7, FS_RemoveElement
    <3>2. m = n - 1 /\ m \in Nat /\ n \in Nat
      BY <1>1, <2>3, <2>9, <3>1
    <3>3. QED
      BY <3>2
  <2>11. PICK ix : ix \in PriceIndexes(T)
    <3>1. T \in SUBSET orders /\ Size(T) < Size(S)
      BY <2>3, <2>10
    <3>2. PriceIndexes(T) # {}
      BY <2>4, <3>1
    <3>3. QED
      BY <3>2
  <2>12. /\ ix \in [1 .. m -> T]
         /\ \A i, j \in 1 .. m : i < j => ix[i].price < ix[j].price
         /\ \A y \in T : \E i \in 1 .. m : ix[i].price = y.price
    BY <2>11 DEF PriceIndexes
  <2> HIDE DEF m
  <2> DEFINE longer == [i \in 1 .. n |-> IF i = 1 THEN x ELSE ix[i-1]]
  <2>13. \A i \in 1 .. m : ix[i] \in S /\ ix[i].price # p /\ ix[i].price \in Nat
    BY <1>2, <2>12
  <2>14. \A i \in 1 .. m : p < ix[i].price
    <3> SUFFICES ASSUME NEW i \in 1 .. m PROVE p < ix[i].price
      OBVIOUS
    <3>1. ix[i].price \in PriceLevels(S)
      BY <2>13 DEF PriceLevels
    <3>2. QED
      BY <2>6, <2>7, <2>13, <3>1
  <2>15. \A i \in 1 .. n : i # 1 => i - 1 \in 1 .. m
    BY <2>10
  <2>16. longer \in [1 .. n -> S]
    BY <2>13, <2>15
  <2>17. \A i, j \in 1 .. n : i < j => longer[i].price < longer[j].price
    <3> SUFFICES ASSUME NEW i \in 1 .. n, NEW j \in 1 .. n, i < j
                 PROVE  longer[i].price < longer[j].price
      OBVIOUS
    <3>1. j # 1 /\ j - 1 \in 1 .. m /\ longer[j] = ix[j-1]
      BY <2>10, <2>15
    <3>2. CASE i = 1
      BY <2>8, <2>14, <3>1, <3>2
    <3>3. CASE i # 1
      <4>1. i - 1 \in 1 .. m /\ longer[i] = ix[i-1] /\ i - 1 < j - 1
        BY <2>10, <2>15, <3>3
      <4>2. QED
        BY <2>12, <3>1, <4>1
    <3>4. QED
      BY <3>2, <3>3
  <2>18. \A y \in S : \E i \in 1 .. n : longer[i].price = y.price
    <3> SUFFICES ASSUME NEW y \in S PROVE \E i \in 1 .. n : longer[i].price = y.price
      OBVIOUS
    <3>1. CASE y.price = p
      <4>1. 1 \in 1 .. n /\ longer[1] = x
        BY <2>10
      <4>2. QED
        BY <2>8, <3>1, <4>1
    <3>2. CASE y.price # p
      <4>1. PICK i \in 1 .. m : ix[i].price = y.price
        BY <2>12, <3>2
      <4>2. i + 1 \in 1 .. n /\ longer[i+1] = ix[i]
        BY <2>10, <4>1
      <4>3. QED
        BY <4>1, <4>2
    <3>3. QED
      BY <3>1, <3>2
  <2> HIDE DEF longer
  <2>19. longer \in PriceIndexes(S)
    BY <2>3, <2>16, <2>17, <2>18 DEF PriceIndexes
  <2>20. QED
    BY <2>3, <2>19
<1>4. QED
  BY <1>3

(* The orders of the traders are open ones.                                *)
LEMMA OrdersAreOpen == Orders \subseteq OpenOrder
<1> SUFFICES ASSUME NEW o \in Orders PROVE o \in OpenOrder
  OBVIOUS
<1>1. o \in Order /\ o.filled = 0
  BY OrdersAssumption
<1>2. o.qty > 0
  BY <1>1, OrderFacts
<1>3. QED
  BY <1>1, <1>2 DEF OpenOrder

(* A call of a sound engine has a result, and any it has is sound.         *)
LEMMA CallFacts ==
    ASSUME NEW e, SoundEngine(e), NEW o \in OpenOrder
    PROVE  /\ WithOrder(e, o) # {}
           /\ \A r \in WithOrder(e, o) : SoundEngine(r.engine) /\ r.trades \in Seq(Trade)
<1> DEFINE opp == Opposite(o.side)
           ix == e.index[opp]
<1>1. o.side \in Sides /\ opp \in Sides /\ o.side # opp
  BY OpenOrderFacts, OrderFacts
<1>2. \A s \in Sides :
         /\ e.orders[s] \in SUBSET OpenOrder /\ IsFiniteSet(e.orders[s])
         /\ \A x \in e.orders[s] : x.side = s
         /\ \A x, y \in e.orders[s] : x.id = y.id => x = y
         /\ e.index[s] \in PriceIndexes(e.orders[s]) /\ e.index[s] \in Seq(OpenOrder)
  BY DEF SoundEngine
<1>3. CASE ContainsKey(e.orders[o.side], o.id)
  <2>1. WithOrder(e, o) = {[trades |-> << >>, engine |-> e]}
    BY <1>3 DEF WithOrder
  <2>2. QED
    BY <2>1, EmptySeq
<1>4. CASE ~ContainsKey(e.orders[o.side], o.id)
  <2>1. WithOrder(e, o) = Results(e, o)
    BY <1>4 DEF WithOrder
  <2>2. PICK left : left \in Traces(o, ix)
    BY <1>1, <1>2, TraceExists
  <2> DEFINE own == Rested(e, o, left)
             opposite == UpdateOrders(e.orders[opp], ix, left)
  <2>3. own \in SUBSET OpenOrder /\ IsFiniteSet(own)
    BY <1>4, <2>2, RestedSound
  <2>4. opposite \in SUBSET OpenOrder /\ IsFiniteSet(opposite)
    BY <1>1, <1>2, <2>2, UpdateOrdersSound
  <2> HIDE DEF own, opposite
  <2>5. PICK ownIx : ownIx \in Reindexed(e.orders[o.side], own, e.index[o.side])
    <3>1. PriceIndexes(own) # {}
      BY <2>3, IndexExists
    <3>2. QED
      BY <3>1 DEF Reindexed
  <2>6. PICK oppIx : oppIx \in Reindexed(e.orders[opp], opposite, ix)
    <3>1. PriceIndexes(opposite) # {}
      BY <2>4, IndexExists
    <3>2. QED
      BY <3>1 DEF Reindexed
  <2> DEFINE result(l, own2, opposite2, ownIx2, oppIx2) ==
               [trades |-> TradesOf(o, ix, l),
                engine |-> [orders |-> [s \in Sides |-> IF s = opp THEN opposite2 ELSE own2],
                            index |-> [s \in Sides |-> IF s = opp THEN oppIx2 ELSE ownIx2]]]
             resultsOf(l) ==
               {result(l, Rested(e, o, l), UpdateOrders(e.orders[opp], ix, l), x, y) :
                  x \in Reindexed(e.orders[o.side], Rested(e, o, l), e.index[o.side]),
                  y \in Reindexed(e.orders[opp], UpdateOrders(e.orders[opp], ix, l), ix)}
  <2>7. Results(e, o) # {}
    <3>1. Results(e, o) = UNION {resultsOf(l) : l \in Traces(o, ix)}
      BY DEF Results
    <3>2. result(left, own, opposite, ownIx, oppIx) \in resultsOf(left)
      BY <2>5, <2>6 DEF own, opposite
    <3> HIDE DEF resultsOf
    <3>3. QED
      BY <2>2, <3>1, <3>2
  <2>8. \A r \in Results(e, o) : SoundEngine(r.engine) /\ r.trades \in Seq(Trade)
    BY <1>4, ResultsSound
  <2>9. QED
    BY <2>1, <2>7, <2>8
<1>5. QED
  BY <1>3, <1>4

(* A call writes its order first and then Fill and Match events only.      *)
LEMMA BatchFacts ==
    ASSUME NEW o \in Orders, NEW trades \in Seq(Trade)
    PROVE  LET batch == PersistableEvents(o, trades) IN
           /\ batch \in Seq(TradeEvent)
           /\ Len(batch) \in Nat /\ Len(batch) > 0
           /\ batch[1] = OrderEvent(o)
           /\ \A k \in 1 .. Len(batch) : k # 1 => batch[k].type # "Order"
<1> DEFINE n == 1 + 3 * Len(trades)
           batch == PersistableEvents(o, trades)
<1>1. n \in Nat /\ n > 0 /\ Len(trades) \in Nat
  OBVIOUS
<1>2. ASSUME NEW k \in 1 .. n, k # 1
      PROVE  batch[k] \in TradeEvent /\ batch[k].type # "Order"
  <2> DEFINE i == (k + 1) \div 3
             j == 1 + ((k + 1) % 3)
  <2>1. i \in 1 .. Len(trades) /\ j \in {1, 2, 3}
    BY <1>1, <1>2
  <2>2. batch[k] = EventsOf(trades[i])[j]
    BY <1>2 DEF PersistableEvents
  <2> HIDE DEF i, j
  <2>3. trades[i] \in Trade
    BY <2>1
  <2>4. /\ trades[i].sell \in OrderIds /\ trades[i].buy \in OrderIds /\ trades[i].qty \in Nat
    BY <2>3 DEF Trade
  <2>5. EventsOf(trades[i])[j] \in {FillEvent(trades[i].sell, trades[i].qty),
                                    FillEvent(trades[i].buy, trades[i].qty),
                                    MatchEvent(trades[i])}
    BY <2>1 DEF EventsOf
  <2>6. \A id \in OrderIds, q \in Nat :
           FillEvent(id, q) \in TradeEvent /\ FillEvent(id, q).type # "Order"
    BY DEF FillEvent, TradeEvent
  <2>7. MatchEvent(trades[i]) \in TradeEvent /\ MatchEvent(trades[i]).type # "Order"
    BY <2>3 DEF MatchEvent, TradeEvent
  <2>8. QED
    BY <2>2, <2>4, <2>5, <2>6, <2>7
<1>3. batch[1] = OrderEvent(o) /\ OrderEvent(o) \in TradeEvent
  BY <1>1 DEF PersistableEvents, OrderEvent, TradeEvent
<1>4. batch = [k \in 1 .. n |-> batch[k]]
  BY DEF PersistableEvents
<1> HIDE DEF n, batch
<1>5. batch \in [1 .. n -> TradeEvent]
  BY <1>2, <1>3, <1>4
<1>6. batch \in Seq(TradeEvent) /\ Len(batch) = n
  BY <1>1, <1>5
<1>7. QED
  BY <1>1, <1>2, <1>3, <1>6 DEF batch

-----------------------------------------------------------------------------
(* The fills of a call *)

(* What the fill amounts of some events are.                               *)
LEMMA AmountsFacts ==
    ASSUME NEW T, \A x \in T : x.type = "Fill" => x.qty \in Nat, NEW w \in Seq(T), NEW id
    PROVE  /\ FillAmounts(id, w) \in Seq(Nat) /\ Len(FillAmounts(id, w)) = Len(w)
           /\ \A k \in 1 .. Len(w) :
                 FillAmounts(id, w)[k] =
                    IF w[k].type = "Fill" /\ w[k].id = id THEN w[k].qty ELSE 0
<1> DEFINE n == Len(w)
           amounts == FillAmounts(id, w)
<1>1. n \in Nat /\ DOMAIN w = 1 .. n /\ \A k \in 1 .. n : w[k] \in T
  OBVIOUS
<1>2. amounts = [k \in 1 .. n |-> IF w[k].type = "Fill" /\ w[k].id = id THEN w[k].qty ELSE 0]
  BY <1>1 DEF FillAmounts
<1> HIDE DEF n, amounts
<1>3. amounts \in [1 .. n -> Nat]
  BY <1>1, <1>2
<1>4. amounts \in Seq(Nat) /\ Len(amounts) = n
  BY <1>1, <1>3
<1>5. QED
  BY <1>2, <1>4 DEF n, amounts

(* What an order is filled for by some events and then by more of them.    *)
LEMMA TotalAmounts ==
    ASSUME NEW T, \A x \in T : x.type = "Fill" => x.qty \in Nat,
           NEW old \in Seq(T), NEW new \in Seq(T), NEW id
    PROVE  /\ Total(FillAmounts(id, old)) \in Nat /\ Total(FillAmounts(id, new)) \in Nat
           /\ Total(FillAmounts(id, old \o new))
                 = Total(FillAmounts(id, old)) + Total(FillAmounts(id, new))
<1> DEFINE m == Len(old)
           n == Len(new)
           v == FillAmounts(id, old)
           w == FillAmounts(id, new)
           amount(x) == IF x.type = "Fill" /\ x.id = id THEN x.qty ELSE 0
<1>1. /\ v \in Seq(Nat) /\ Len(v) = m /\ w \in Seq(Nat) /\ Len(w) = n
      /\ m \in Nat /\ n \in Nat
  BY AmountsFacts
<1> DEFINE both == old \o new
           sum == FillAmounts(id, both)
<1>2. /\ both \in Seq(T) /\ Len(both) = m + n
      /\ \A k \in 1 .. m + n : both[k] = IF k <= m THEN old[k] ELSE new[k-m]
  OBVIOUS
<1>3. /\ \A k \in 1 .. m : v[k] = amount(old[k])
      /\ \A k \in 1 .. n : w[k] = amount(new[k])
  BY AmountsFacts
<1> HIDE DEF m, n, v, w, both
<1>4. /\ sum \in Seq(Nat) /\ Len(sum) = m + n
      /\ \A k \in 1 .. m + n : sum[k] = amount(both[k])
  BY <1>2, AmountsFacts
<1> HIDE DEF sum, amount
<1>5. /\ v \o w \in Seq(Nat) /\ Len(v \o w) = m + n
      /\ \A k \in 1 .. m + n : (v \o w)[k] = IF k <= m THEN v[k] ELSE w[k-m]
  <2>1. /\ v \o w \in Seq(Nat) /\ Len(v \o w) = Len(v) + Len(w)
        /\ \A k \in 1 .. Len(v) + Len(w) :
              (v \o w)[k] = IF k <= Len(v) THEN v[k] ELSE w[k-Len(v)]
    <3>1. v \in Seq(Nat) /\ w \in Seq(Nat)
      BY <1>1
    <3>2. QED
      BY <3>1
  <2>2. QED
    BY <1>1, <2>1
<1>6. ASSUME NEW k \in 1 .. m + n
      PROVE  sum[k] = (v \o w)[k]
  <2>1. CASE k <= m
    <3>1. k \in 1 .. m
      BY <1>1, <2>1
    <3>2. both[k] = old[k] /\ (v \o w)[k] = v[k]
      BY <1>2, <1>5, <2>1
    <3>3. QED
      BY <1>3, <1>4, <3>1, <3>2
  <2>2. CASE ~(k <= m)
    <3>1. k - m \in 1 .. n
      BY <1>1, <2>2
    <3>2. both[k] = new[k-m] /\ (v \o w)[k] = w[k-m]
      BY <1>2, <1>5, <2>2
    <3>3. QED
      BY <1>3, <1>4, <3>1, <3>2
  <2>3. QED
    BY <2>1, <2>2
<1>7. FillAmounts(id, old \o new) = v \o w
  <2> DEFINE vw == v \o w
  <2>1. vw \in Seq(Nat) /\ Len(vw) = m + n /\ \A k \in 1 .. m + n : sum[k] = vw[k]
    BY <1>5, <1>6
  <2> HIDE DEF vw
  <2>2. sum = vw
    BY <1>4, <2>1, SeqEqual
  <2>3. QED
    BY <2>2 DEF sum, both, vw
<1>8. Total(v \o w) = Total(v) + Total(w) /\ Total(v) \in Nat /\ Total(w) \in Nat
  BY <1>1, TotalConcat, TotalType
<1>9. QED
  BY <1>7, <1>8 DEF v, w

(* The events of a call fill every order for what the trades do.           *)
LEMMA BatchFills ==
    ASSUME NEW o \in Orders, NEW trades \in Seq(Trade), NEW id,
           \A k \in 1 .. Len(trades) : trades[k].buy # trades[k].sell
    PROVE  Total(FillAmounts(id, PersistableEvents(o, trades))) = Total(FillsOf(id, trades))
<1> DEFINE c == Len(trades)
           n == 1 + 3 * c
           batch == PersistableEvents(o, trades)
           amounts == FillAmounts(id, batch)
           S(i) == IF trades[i].sell = id THEN trades[i].qty ELSE 0
           B(i) == IF trades[i].buy = id THEN trades[i].qty ELSE 0
           v == FillsOf(id, trades)
<1>1. c \in Nat /\ n \in Nat /\ \A i \in 1 .. c : trades[i] \in Trade
  OBVIOUS
<1>2. ASSUME NEW i \in 1 .. c
      PROVE  S(i) \in Nat /\ B(i) \in Nat /\ v[i] = S(i) + B(i)
  <2>1. trades[i].qty \in Nat /\ trades[i].buy # trades[i].sell
    BY <1>1 DEF Trade
  <2>2. v[i] = IF id \in {trades[i].buy, trades[i].sell} THEN trades[i].qty ELSE 0
    BY FillsOfFacts
  <2>3. QED
    BY <2>1, <2>2
<1>3. v \in Seq(Nat) /\ Len(v) = c
  BY FillsOfFacts
<1>4. amounts = [k \in 1 .. n |-> IF batch[k].type = "Fill" /\ batch[k].id = id
                                 THEN batch[k].qty ELSE 0]
  BY DEF PersistableEvents, FillAmounts
<1>5. ASSUME NEW k \in 1 .. n
      PROVE  LET i == (k + 1) \div 3
                 j == (k + 1) % 3
             IN  amounts[k] = IF k = 1 \/ j = 2 THEN 0 ELSE IF j = 0 THEN S(i) ELSE B(i)
  <2> DEFINE i == (k + 1) \div 3
             j == (k + 1) % 3
  <2>1. CASE k = 1
    <3>1. batch[k] = OrderEvent(o)
      BY <2>1 DEF PersistableEvents
    <3>2. batch[k].type = "Order"
      BY <3>1 DEF OrderEvent
    <3>3. QED
      BY <1>4, <2>1, <3>2
  <2>2. CASE k # 1
    <3>1. batch[k] = EventsOf(trades[i])[1 + j] /\ j \in {0, 1, 2}
      BY <1>1, <2>2 DEF PersistableEvents
    <3> HIDE DEF i, j, batch
    <3>2. CASE j = 0
      <4>1. batch[k] = FillEvent(trades[i].sell, trades[i].qty)
        BY <3>1, <3>2 DEF EventsOf
      <4>2. batch[k].type = "Fill" /\ batch[k].id = trades[i].sell /\ batch[k].qty = trades[i].qty
        BY <4>1 DEF FillEvent
      <4>3. QED
        BY <1>4, <2>2, <3>2, <4>2 DEF i, j
    <3>3. CASE j = 1
      <4>1. batch[k] = FillEvent(trades[i].buy, trades[i].qty)
        BY <3>1, <3>3 DEF EventsOf
      <4>2. batch[k].type = "Fill" /\ batch[k].id = trades[i].buy /\ batch[k].qty = trades[i].qty
        BY <4>1 DEF FillEvent
      <4>3. QED
        BY <1>4, <2>2, <3>3, <4>2 DEF i, j
    <3>4. CASE j = 2
      <4>1. batch[k] = MatchEvent(trades[i])
        BY <3>1, <3>4 DEF EventsOf
      <4>2. batch[k].type = "Match"
        BY <4>1 DEF MatchEvent
      <4>3. QED
        BY <1>4, <2>2, <3>4, <4>2 DEF i, j
    <3>5. QED
      BY <3>1, <3>2, <3>3, <3>4
  <2>3. QED
    BY <2>1, <2>2
<1>6. amounts = [k \in 1 .. n |-> amounts[k]]
  BY <1>4
<1> HIDE DEF c, n, batch, amounts, v, S, B
<1>7. Len(amounts) = n
  <2>1. \A a, f : f = [x \in 1 .. n |-> a[x]] => Len(f) = n
    BY <1>1
  <2>2. QED
    BY <1>6, <2>1
<1>8. PICK g \in [0 .. c -> Nat] : /\ g[0] = 0 /\ \A k \in 1 .. c : g[k] = g[k-1] + v[k]
                                   /\ Total(v) = g[c]
  <2>1. \E g \in [0 .. Len(v) -> Nat] :
              /\ g[0] = 0 /\ \A k \in 1 .. Len(v) : g[k] = g[k-1] + v[k]
              /\ Total(v) = g[Len(v)]
    BY <1>3, SumsOf
  <2>2. QED
    BY <1>3, <2>1
<1> DEFINE f == [k \in 0 .. n |-> LET i == (k + 1) \div 3
                                    j == (k + 1) % 3
                                IN  IF j = 0 THEN g[i-1] + S(i) ELSE g[i]]
<1>9. n = 1 + 3 * c
  BY DEF n
<1>10. f[0] = 0 /\ f[n] = g[c]
  <2>1. (0 + 1) \div 3 = 0 /\ (0 + 1) % 3 = 1 /\ 0 \in 0 .. n
    BY <1>1
  <2>2. (n + 1) \div 3 = c /\ (n + 1) % 3 = 2 /\ n \in 0 .. n
    BY <1>1, <1>9
  <2>3. QED
    BY <1>8, <2>1, <2>2
<1>11. ASSUME NEW k \in 1 .. n PROVE f[k] = f[k-1] + amounts[k]
  <2> DEFINE i == (k + 1) \div 3
             j == (k + 1) % 3
             i1 == k \div 3
             j1 == k % 3
  <2>1. k \in 0 .. n /\ k - 1 \in 0 .. n /\ (k - 1) + 1 = k
    BY <1>1
  <2>2. /\ f[k] = IF j = 0 THEN g[i-1] + S(i) ELSE g[i]
        /\ f[k-1] = IF j1 = 0 THEN g[i1-1] + S(i1) ELSE g[i1]
    BY <2>1
  <2>3. amounts[k] = IF k = 1 \/ j = 2 THEN 0 ELSE IF j = 0 THEN S(i) ELSE B(i)
    BY <1>5
  <2> HIDE DEF f
  <2>d. /\ i \in Nat /\ j \in {0, 1, 2} /\ k + 1 = 3 * i + j
        /\ i1 \in Nat /\ j1 \in {0, 1, 2} /\ k = 3 * i1 + j1
    <3>1. \A x \in Nat : x \div 3 \in Nat /\ x % 3 \in {0, 1, 2} /\ x = 3 * (x \div 3) + (x % 3)
      OBVIOUS
    <3>2. k \in Nat /\ k + 1 \in Nat
      BY <1>1
    <3>3. QED
      BY <3>1, <3>2
  <2>4. /\ j \in {0, 1, 2}
        /\ j = 0 => k # 1 /\ i \in 1 .. c /\ i1 = i - 1 /\ j1 = 2
        /\ j = 1 => k # 1 /\ i \in 1 .. c /\ i1 = i /\ j1 = 0
        /\ j = 2 => i \in 0 .. c /\ i1 = i /\ j1 = 1
    <3> HIDE DEF i, j, i1, j1
    <3>1. k \in Nat /\ 1 <= k /\ k <= 1 + 3 * c
      BY <1>1, <1>9
    <3>2. CASE j = 0
      BY <1>1, <2>d, <3>1, <3>2
    <3>3. CASE j = 1
      BY <1>1, <2>d, <3>1, <3>3
    <3>4. CASE j = 2
      BY <1>1, <2>d, <3>1, <3>4
    <3>5. QED
      BY <2>d, <3>2, <3>3, <3>4
  <2> HIDE DEF i, j, i1, j1
  <2>5. CASE j = 0
    <3>1. i - 1 \in 0 .. c
      BY <1>1, <2>4, <2>5
    <3>2. QED
      BY <2>2, <2>3, <2>4, <2>5
  <2>6. CASE j = 1
    <3>1. i - 1 \in 0 .. c /\ i \in 1 .. c
      BY <1>1, <2>4, <2>6
    <3>2. g[i-1] \in Nat /\ g[i] = g[i-1] + v[i]
      BY <1>8, <3>1
    <3>3. S(i) \in Nat /\ B(i) \in Nat /\ v[i] = S(i) + B(i)
      BY <1>2, <3>1
    <3>4. f[k] = g[i] /\ f[k-1] = g[i-1] + S(i) /\ amounts[k] = B(i)
      BY <2>2, <2>3, <2>4, <2>6
    <3>5. QED
      BY <3>2, <3>3, <3>4
  <2>7. CASE j = 2
    <3>1. g[i] \in Nat
      BY <1>8, <2>4, <2>7
    <3>2. f[k] = g[i] /\ f[k-1] = g[i] /\ amounts[k] = 0
      BY <2>2, <2>3, <2>4, <2>7
    <3>3. QED
      BY <3>1, <3>2
  <2>8. QED
    BY <2>4, <2>5, <2>6, <2>7
<1> HIDE DEF f
<1>12. Total(amounts) = f[n]
  <2>1. Len(amounts) \in Nat /\ \A k \in 1 .. Len(amounts) : f[k] = f[k-1] + amounts[k]
    BY <1>1, <1>7, <1>11
  <2>2. Total(amounts) = f[Len(amounts)]
    BY <1>10, <2>1, TotalIs
  <2>3. QED
    BY <1>7, <2>2
<1>13. QED
  BY <1>8, <1>10, <1>12 DEF amounts, batch, v

(* A Fill event of a call is of an order that takes part in one of its      *)
(* trades.                                                                 *)
LEMMA FillIsOfATrade ==
    ASSUME NEW o \in Orders, NEW trades \in Seq(Trade),
           NEW k \in 1 .. Len(PersistableEvents(o, trades)),
           PersistableEvents(o, trades)[k].type = "Fill"
    PROVE  \E i \in 1 .. Len(trades) :
              PersistableEvents(o, trades)[k].id \in {trades[i].buy, trades[i].sell}
<1> DEFINE n == 1 + 3 * Len(trades)
           batch == PersistableEvents(o, trades)
           i == (k + 1) \div 3
           j == 1 + ((k + 1) % 3)
<1>1. n \in Nat /\ Len(trades) \in Nat
  OBVIOUS
<1>2. batch = [l \in 1 .. n |-> batch[l]]
  BY DEF PersistableEvents
<1>3. k \in 1 .. n
  <2>1. \A f : f = [l \in 1 .. n |-> f[l]] => Len(f) = n
    BY <1>1
  <2> HIDE DEF n, batch
  <2>2. Len(batch) = n
    BY <1>2, <2>1
  <2>3. QED
    BY <2>2 DEF batch
<1>4. k # 1
  <2>1. k = 1 => batch[k] = OrderEvent(o)
    BY <1>1, <1>3 DEF PersistableEvents
  <2>2. batch[k] = OrderEvent(o) => batch[k].type = "Order"
    BY DEF OrderEvent
  <2>3. QED
    BY <2>1, <2>2
<1>5. i \in 1 .. Len(trades) /\ j \in {1, 2, 3}
  <2>1. \A c \in Nat : \A l \in 1 .. 1 + 3 * c :
           l # 1 => (l + 1) \div 3 \in 1 .. c /\ 1 + ((l + 1) % 3) \in {1, 2, 3}
    OBVIOUS
  <2>2. QED
    BY <1>1, <1>3, <1>4, <2>1
<1>6. batch[k] = EventsOf(trades[i])[j]
  BY <1>3, <1>4 DEF PersistableEvents
<1> HIDE DEF i, j
<1>7. batch[k] \in {FillEvent(trades[i].sell, trades[i].qty),
                    FillEvent(trades[i].buy, trades[i].qty), MatchEvent(trades[i])}
  BY <1>5, <1>6 DEF EventsOf
<1>8. MatchEvent(trades[i]).type # "Fill"
  BY DEF MatchEvent
<1>9. \A id, q : FillEvent(id, q).id = id
  BY DEF FillEvent
<1> HIDE DEF batch
<1>10. batch[k].type = "Fill"
  BY DEF batch
<1>11. batch[k].id \in {trades[i].buy, trades[i].sell}
  BY <1>7, <1>8, <1>9, <1>10
<1>12. QED
  BY <1>5, <1>11 DEF batch

(* The ids of the open orders of an engine.                                *)
OpenIds(e) == UNION {{x.id : x \in e.orders[s]} : s \in Sides}

(* A call opens, and fills, no other orders than those that were open and  *)
(* the one that came.                                                      *)
LEMMA CallIds ==
    ASSUME NEW e, SoundEngine(e), NEW o \in Orders, NEW r \in WithOrder(e, o),
           NEW ids, o.id \in ids, OpenIds(e) \subseteq ids
    PROVE  /\ OpenIds(r.engine) \subseteq ids
           /\ \A k \in 1 .. Len(PersistableEvents(o, r.trades)) :
                 PersistableEvents(o, r.trades)[k].type = "Fill" =>
                    PersistableEvents(o, r.trades)[k].id \in ids
<1>1. o \in OpenOrder /\ r.trades \in Seq(Trade)
  BY OrdersAreOpen, CallFacts
<1>2. \A s \in Sides : \A x \in e.orders[s] : x.id \in ids
  BY DEF OpenIds
<1>3. /\ \A s \in Sides : \A x \in r.engine.orders[s] : x.id \in ids
      /\ \A i \in 1 .. Len(r.trades) : r.trades[i].buy \in ids /\ r.trades[i].sell \in ids
  <2>1. CASE ContainsKey(e.orders[o.side], o.id)
    <3>1. r.engine = e /\ r.trades = << >>
      BY <2>1 DEF WithOrder
    <3>2. Len(r.trades) = 0
      BY <3>1
    <3>3. QED
      BY <1>2, <3>1, <3>2
  <2>2. CASE ~ContainsKey(e.orders[o.side], o.id)
    <3>1. r \in Results(e, o)
      BY <2>2 DEF WithOrder
    <3>2. \A s \in Sides : \A x \in r.engine.orders[s] :
             \E y \in e.orders[s] \cup (IF s = o.side THEN {o} ELSE {}) :
                y.id = x.id /\ y.price = x.price /\ y.qty = x.qty
      BY <1>1, <2>2, <3>1, ResultsSound
    <3>3. ASSUME NEW s \in Sides, NEW x \in r.engine.orders[s] PROVE x.id \in ids
      <4>1. PICK y \in e.orders[s] \cup (IF s = o.side THEN {o} ELSE {}) : y.id = x.id
        BY <3>2
      <4>2. y \in e.orders[s] \/ y = o
        BY <4>1
      <4>3. QED
        BY <1>2, <4>1, <4>2
    <3> DEFINE opp == Opposite(o.side)
               ix == e.index[opp]
    <3>4. PICK left \in Traces(o, ix) : r.trades = TradesOf(o, ix, left)
      <4>1. PICK left \in Traces(o, ix) :
                    /\ r.trades = TradesOf(o, e.index[opp], left)
                    /\ r.engine \in [orders : {r.engine.orders}, index : {r.engine.index}]
                    /\ r.engine.orders[o.side] = Rested(e, o, left)
                    /\ r.engine.orders[opp] = UpdateOrders(e.orders[opp], e.index[opp], left)
                    /\ r.engine.index[o.side] \in
                          Reindexed(e.orders[o.side], r.engine.orders[o.side], e.index[o.side])
                    /\ r.engine.index[opp] \in
                          Reindexed(e.orders[opp], r.engine.orders[opp], e.index[opp])
                    /\ r.engine.orders = [s \in Sides |-> r.engine.orders[s]]
                    /\ r.engine.index = [s \in Sides |-> r.engine.index[s]]
        BY <1>1, <3>1, ResultFacts
      <4>2. QED
        BY <4>1
    <3>5. opp \in Sides
      BY <1>1, OpenOrderFacts, OrderFacts
    <3>6. /\ e.orders[opp] \in SUBSET OpenOrder /\ IsFiniteSet(e.orders[opp])
          /\ ix \in PriceIndexes(e.orders[opp])
      BY <3>5 DEF SoundEngine
    <3>7. ix \in Seq(OpenOrder) /\ \A i \in 1 .. Len(ix) : ix[i] \in e.orders[opp]
      BY <3>6, IndexType
    <3>8. \A i \in Hits(left) : i \in 1 .. Len(ix)
      BY <1>1, <3>4, <3>7, TraceFacts DEF Hits
    <3>9. ASSUME NEW k \in 1 .. Len(r.trades)
          PROVE  r.trades[k].buy \in ids /\ r.trades[k].sell \in ids
      <4>1. PICK i \in Hits(left) : r.trades[k] = FillOrders(o, ix[i], left[i-1] - left[i])
        BY <1>1, <3>4, <3>6, TradesAreHits
      <4>2. ix[i].id \in ids
        BY <1>2, <3>5, <3>7, <3>8
      <4>3. QED
        BY <4>1, <4>2 DEF FillOrders
    <3>10. QED
      BY <3>3, <3>9
  <2>3. QED
    BY <2>1, <2>2
<1>4. OpenIds(r.engine) \subseteq ids
  BY <1>3 DEF OpenIds
<1> DEFINE batch == PersistableEvents(o, r.trades)
<1>5. ASSUME NEW k \in 1 .. Len(batch), batch[k].type = "Fill"
      PROVE  batch[k].id \in ids
  <2>1. PICK i \in 1 .. Len(r.trades) : batch[k].id \in {r.trades[i].buy, r.trades[i].sell}
    BY <1>1, <1>5, FillIsOfATrade
  <2> HIDE DEF batch
  <2>2. QED
    BY <1>3, <2>1
<1>6. QED
  BY <1>4, <1>5

(* Every open order is one the traders sent, on its side, at its price.    *)
OfOrders(e) ==
    \A s \in Sides : \A x \in e.orders[s] :
        \E y \in Orders : y.id = x.id /\ y.side = s /\ y.price = x.price

(* Then no id is open twice.                                               *)
LEMMA OrdersOpenOnce ==
    ASSUME NEW e, SoundEngine(e), OfOrders(e)
    PROVE  OpenOnce(e)
<1>1. Sides = {"Buy", "Sell"}
  BY DEF Sides
<1>2. \A s \in Sides : \A x, y \in e.orders[s] : x.id = y.id => x = y
  BY DEF SoundEngine
<1>3. ASSUME NEW x \in e.orders["Buy"], NEW y \in e.orders["Sell"]
      PROVE  x.id # y.id
  <2>1. PICK v \in Orders : v.id = x.id /\ v.side = "Buy"
    BY <1>1 DEF OfOrders
  <2>2. PICK w \in Orders : w.id = y.id /\ w.side = "Sell"
    BY <1>1 DEF OfOrders
  <2>3. QED
    BY <2>1, <2>2, OrdersAssumption
<1>4. QED
  BY <1>1, <1>2, <1>3 DEF OpenOnce

(* A trade of a call is between two orders.                                *)
LEMMA TwoSides ==
    ASSUME NEW e, SoundEngine(e), NEW o \in OpenOrder,
           \A s \in Sides : ~ContainsKey(e.orders[s], o.id), NEW r \in Results(e, o)
    PROVE  \A k \in 1 .. Len(r.trades) : r.trades[k].buy # r.trades[k].sell
<1> DEFINE opp == Opposite(o.side)
           ix == e.index[opp]
           orders == e.orders[opp]
<1>1. o.side \in Sides /\ opp \in Sides
  BY OpenOrderFacts, OrderFacts
<1>2. PICK left \in Traces(o, ix) :
              /\ r.trades = TradesOf(o, e.index[opp], left)
              /\ r.engine \in [orders : {r.engine.orders}, index : {r.engine.index}]
              /\ r.engine.orders[o.side] = Rested(e, o, left)
              /\ r.engine.orders[opp] = UpdateOrders(e.orders[opp], e.index[opp], left)
              /\ r.engine.index[o.side] \in
                    Reindexed(e.orders[o.side], r.engine.orders[o.side], e.index[o.side])
              /\ r.engine.index[opp] \in
                    Reindexed(e.orders[opp], r.engine.orders[opp], e.index[opp])
              /\ r.engine.orders = [s \in Sides |-> r.engine.orders[s]]
              /\ r.engine.index = [s \in Sides |-> r.engine.index[s]]
  BY ResultFacts
<1>3. orders \in SUBSET OpenOrder /\ IsFiniteSet(orders) /\ ix \in PriceIndexes(orders)
  BY <1>1 DEF SoundEngine
<1>4. ix \in Seq(OpenOrder) /\ \A i \in 1 .. Len(ix) : ix[i] \in orders
  BY <1>3, IndexType
<1>5. \A i \in Hits(left) : i \in 1 .. Len(ix)
  BY <1>4, TraceFacts DEF Hits
<1> SUFFICES ASSUME NEW k \in 1 .. Len(r.trades) PROVE r.trades[k].buy # r.trades[k].sell
  OBVIOUS
<1>6. PICK i \in Hits(left) : r.trades[k] = FillOrders(o, ix[i], left[i-1] - left[i])
  BY <1>2, <1>3, TradesAreHits
<1>7. ix[i].id # o.id
  BY <1>1, <1>4, <1>5 DEF ContainsKey
<1>8. QED
  BY <1>6, <1>7 DEF FillOrders

(* The accounts of an order and its events: of every order, what the       *)
(* events fill it for is what is gone of it; a duplicate of an open order  *)
(* has no Fill events.                                                     *)
LEMMA EventAccounts ==
    ASSUME NEW e, SoundEngine(e), OfOrders(e), NEW o \in Orders, NEW r \in WithOrder(e, o), NEW id
    PROVE  /\ OfOrders(r.engine)
           /\ LeftOpen(r.engine, id) + Total(FillAmounts(id, PersistableEvents(o, r.trades)))
                 = LeftOpen(e, id) + (IF id = o.id /\ ~ContainsKey(e.orders[o.side], o.id)
                                      THEN o.qty ELSE 0)
<1>1. o \in OpenOrder /\ o.side \in Sides /\ o.filled = 0 /\ o.qty \in Nat
  BY OrdersAreOpen, OpenOrderFacts, OrderFacts, OrdersAssumption
<1>2. OpenOnce(e) /\ LeftOpen(e, id) \in Nat
  BY OrdersOpenOnce, LeftOpenType
<1>3. CASE ContainsKey(e.orders[o.side], o.id)
  <2>1. r.engine = e /\ r.trades = << >>
    BY <1>3 DEF WithOrder
  <2>2. << >> \in Seq(Trade) /\ Len(<< >>) = 0
    BY EmptySeq
  <2>3. Total(FillAmounts(id, PersistableEvents(o, << >>))) = Total(FillsOf(id, << >>))
    <3>1. \A t \in Seq(Trade) : Len(t) = 0 =>
             Total(FillAmounts(id, PersistableEvents(o, t))) = Total(FillsOf(id, t))
      <4> SUFFICES ASSUME NEW t \in Seq(Trade), Len(t) = 0
                   PROVE  Total(FillAmounts(id, PersistableEvents(o, t))) = Total(FillsOf(id, t))
        OBVIOUS
      <4>1. \A k \in 1 .. Len(t) : t[k].buy # t[k].sell
        OBVIOUS
      <4>2. QED
        BY <4>1, BatchFills
    <3>2. QED
      BY <2>2, <3>1
  <2>4. Total(FillsOf(id, << >>)) = 0
    <3>1. FillsOf(id, << >>) = << >>
      BY DEF FillsOf
    <3>2. QED
      BY <2>2, <3>1, TotalZero
  <2>5. QED
    BY <1>2, <1>3, <2>1, <2>3, <2>4
<1>4. CASE ~ContainsKey(e.orders[o.side], o.id)
  <2>1. r \in Results(e, o)
    BY <1>4 DEF WithOrder
  <2>2. \A s \in Sides : ~ContainsKey(e.orders[s], o.id)
    <3> SUFFICES ASSUME NEW s \in Sides, NEW x \in e.orders[s], x.id = o.id PROVE FALSE
      BY DEF ContainsKey
    <3>1. PICK y \in Orders : y.id = x.id /\ y.side = s
      BY DEF OfOrders
    <3>2. y = o
      BY <3>1, OrdersAssumption
    <3>3. QED
      BY <1>4, <3>1, <3>2 DEF ContainsKey
  <2>3. LeftOpen(r.engine, id) + Total(FillsOf(id, r.trades))
              = LeftOpen(e, id) + (IF id = o.id THEN RemainingQuantity(o) ELSE 0)
    BY <1>1, <1>2, <2>1, <2>2, CallAccounts
  <2>4. RemainingQuantity(o) = o.qty
    BY <1>1 DEF RemainingQuantity
  <2>5. /\ r.trades \in Seq(Trade)
        /\ \A s \in Sides : \A x \in r.engine.orders[s] :
              \E y \in e.orders[s] \cup (IF s = o.side THEN {o} ELSE {}) :
                 y.id = x.id /\ y.price = x.price
    BY <1>1, <1>4, <2>1, ResultsSound
  <2>6. OfOrders(r.engine)
    <3> SUFFICES ASSUME NEW s \in Sides, NEW x \in r.engine.orders[s]
                 PROVE  \E y \in Orders : y.id = x.id /\ y.side = s /\ y.price = x.price
      BY DEF OfOrders
    <3>1. PICK y \in e.orders[s] \cup (IF s = o.side THEN {o} ELSE {}) :
             y.id = x.id /\ y.price = x.price
      BY <2>5
    <3>2. CASE y \in e.orders[s]
      BY <3>1, <3>2 DEF OfOrders
    <3>3. CASE y \notin e.orders[s]
      BY <3>1, <3>3
    <3>4. QED
      BY <3>2, <3>3
  <2>7. \A k \in 1 .. Len(r.trades) : r.trades[k].buy # r.trades[k].sell
    BY <1>1, <1>4, <2>1, <2>2, TwoSides
  <2>8. Total(FillAmounts(id, PersistableEvents(o, r.trades))) = Total(FillsOf(id, r.trades))
    BY <2>5, <2>7, BatchFills
  <2>9. QED
    BY <1>4, <2>3, <2>4, <2>6, <2>8
<1>5. QED
  BY <1>3, <1>4

(* No two orders of one side have the same limit price.                    *)
DistinctPrices(orders) == \A x, y \in orders : x.price = y.price => x = y

(* The first n entries of an index are in ascending order; and cover all   *)
(* orders.                                                                 *)
Ascending(ix, n) == \A i, j \in 1 .. n : i < j => ix[i].price < ix[j].price
Covers(ix, n, orders) == \A o \in orders : \E i \in 1 .. n : ix[i].price = o.price

(* Of two indexes that agree up to an entry, the one with the cheaper      *)
(* entry has an order the other one cannot have.                           *)
LEMMA CheapestDiffers ==
    ASSUME NEW orders \in SUBSET OpenOrder, NEW n \in Nat,
           NEW ix \in [1 .. n -> orders], NEW jx \in [1 .. n -> orders],
           Ascending(ix, n), Ascending(jx, n), Covers(jx, n, orders),
           NEW k \in 1 .. n, \A i \in 1 .. n : i < k => ix[i] = jx[i]
    PROVE  ~(ix[k].price < jx[k].price)
<1> DEFINE p == ix[k].price
           q == jx[k].price
<1>1. p \in Nat /\ q \in Nat
  <2>1. ix[k] \in OpenOrder /\ jx[k] \in OpenOrder
    OBVIOUS
  <2>2. QED
    BY <2>1, OpenOrderFacts, OrderFacts
<1>2. PICK j \in 1 .. n : jx[j].price = p
  <2>1. ix[k] \in orders
    OBVIOUS
  <2>2. QED
    BY <2>1 DEF Covers
<1>3. k < j => q < p
  BY <1>2 DEF Ascending
<1>4. j < k => ix[j] = jx[j] /\ ix[j].price < p
  BY DEF Ascending
<1>5. j = k => p = q
  BY <1>2
<1>6. j < k \/ k < j \/ j = k
  OBVIOUS
<1> HIDE DEF p, q
<1>7. j < k => p < p
  BY <1>2, <1>4
<1>8. ~(p < q)
  BY <1>1, <1>3, <1>5, <1>6, <1>7
<1>9. QED
  BY <1>8 DEF p, q

(* Orders of distinct prices can be indexed in one way only, and the index *)
(* holds them all.                                                         *)
LEMMA OneIndex ==
    ASSUME NEW orders \in SUBSET OpenOrder, IsFiniteSet(orders), DistinctPrices(orders),
           NEW ix \in PriceIndexes(orders)
    PROVE  /\ {ix[i] : i \in DOMAIN ix} = orders
           /\ \A jx \in PriceIndexes(orders) : jx = ix
<1> DEFINE n == Cardinality(PriceLevels(orders))
<1>1. \A kx \in PriceIndexes(orders) :
         /\ kx \in [1 .. n -> orders]
         /\ \A i, j \in 1 .. n : i < j => kx[i].price < kx[j].price
         /\ \A o \in orders : \E i \in 1 .. n : kx[i].price = o.price
  BY DEF PriceIndexes
<1>2. n \in Nat
  BY PriceLevelsFinite, FS_CardinalityType
<1>3. \A o \in orders : o.price \in Nat
  BY OpenOrderFacts, OrderFacts
<1> HIDE DEF n
<1>4. {ix[i] : i \in DOMAIN ix} = orders
  <2>1. \A i \in 1 .. n : ix[i] \in orders
    BY <1>1
  <2>2. ASSUME NEW o \in orders PROVE \E i \in 1 .. n : ix[i] = o
    <3>1. PICK i \in 1 .. n : ix[i].price = o.price
      BY <1>1
    <3>2. ix[i] = o
      BY <2>1, <3>1 DEF DistinctPrices
    <3>3. QED
      BY <3>2
  <2>3. DOMAIN ix = 1 .. n
    BY <1>1
  <2>4. QED
    BY <2>1, <2>2, <2>3
<1>5. ASSUME NEW jx \in PriceIndexes(orders) PROVE jx = ix
  <2> DEFINE Differ == {k \in 1 .. n : ix[k] # jx[k]}
  <2>1. CASE Differ = {}
    <3>1. ix = [k \in 1 .. n |-> ix[k]] /\ jx = [k \in 1 .. n |-> jx[k]]
      BY <1>1
    <3>2. \A k \in 1 .. n : ix[k] = jx[k]
      BY <2>1
    <3>3. QED
      BY <3>1, <3>2
  <2>2. CASE Differ # {}
    <3>1. Differ \in SUBSET Nat
      BY <1>2
    <3>2. PICK k \in Differ : \A i \in Differ : k <= i
      BY <2>2, <3>1, LeastElement
    <3>3. \A i \in 1 .. n : i < k => ix[i] = jx[i]
      BY <3>2
    <3>4. k \in 1 .. n /\ ix[k] # jx[k]
      BY <3>2
    <3>5. ix \in [1 .. n -> orders] /\ jx \in [1 .. n -> orders]
      BY <1>1
    <3>6. ix[k] \in orders /\ jx[k] \in orders
      BY <3>4, <3>5
    <3>7. ix[k].price \in Nat /\ jx[k].price \in Nat /\ ix[k].price # jx[k].price
      BY <1>3, <3>4, <3>6 DEF DistinctPrices
    <3>8. /\ Ascending(ix, n) /\ Ascending(jx, n)
          /\ Covers(ix, n, orders) /\ Covers(jx, n, orders)
      BY <1>1 DEF Ascending, Covers
    <3> HIDE DEF Differ
    <3>9. ~(ix[k].price < jx[k].price)
      BY <1>2, <3>3, <3>4, <3>5, <3>8, CheapestDiffers
    <3>10. ~(jx[k].price < ix[k].price)
      <4>1. \A i \in 1 .. n : i < k => jx[i] = ix[i]
        BY <3>3
      <4>2. QED
        BY <1>2, <3>4, <3>5, <3>8, <4>1, CheapestDiffers
    <3>11. QED
      BY <3>7, <3>9, <3>10
  <2>3. QED
    BY <2>1, <2>2
<1>6. QED
  BY <1>4, <1>5
=============================================================================
