------------------------ MODULE MatchingEngineProofs ------------------------
(***************************************************************************)
(* What holds of the matching engine for every set of orders, prices and   *)
(* quantities: its types, its price indexes, that it never rests crossed   *)
(* while prices are distinct, that an order rests only when the index has  *)
(* nothing more for it, that trades are settled within the limits of both  *)
(* orders, that bids take the cheapest asks, and that the orders a call    *)
(* selects are those it trades with; all from one inductive invariant. And *)
(* that the book agrees with the fills, from a second one on top of it.    *)
(***************************************************************************)
EXTENDS MatchingEngine, MatchingProofs

(* The orders submitted have an id each, and come without fills.           *)
SubmittedOK ==
    /\ \A x, y \in submitted : x.id = y.id => x = y
    /\ \A x \in submitted : x.filled = 0

(* What is open was submitted.                                             *)
OpenWasSubmitted ==
    \A s \in Sides : \A x \in engine.orders[s] :
        \E y \in submitted : y.id = x.id /\ y.side = s /\ y.price = x.price /\ y.qty = x.qty

(* The inductive invariant.                                                *)
IInv ==
    /\ TypeOK
    /\ SoundEngine(engine)
    /\ SubmittedOK
    /\ OpenWasSubmitted
    /\ NotCrossed

(* The empty engine satisfies the invariant.                               *)
LEMMA InitIInv == Init => IInv
<1> SUFFICES ASSUME Init PROVE IInv
  OBVIOUS
<1>1. engine.orders = [s \in Sides |-> {}] /\ SoundEngine(engine)
  BY NewEngineSound DEF Init, NewEngine
<1>2. engine \in Engine
  BY EmptySeq DEF Init, NewEngine, Engine
<1>3. TypeOK
  BY <1>2, EmptySeq, MaxDeliveriesAssumption DEF Init, TypeOK
<1>4. "Buy" \in Sides
  BY DEF Sides
<1>5. QED
  BY <1>1, <1>3, <1>4 DEF Init, IInv, SubmittedOK, OpenWasSubmitted, NotCrossed

-----------------------------------------------------------------------------
(* One delivery *)

(* The orders the environment may hand over.                               *)
CanDeliver(o) ==
    /\ o \in OpenOrder /\ o.filled = 0
    /\ o \in submitted \/ \A x \in submitted : x.id # o.id

(* Every step delivers a well-formed order: a fresh one, or one submitted  *)
(* before.                                                                 *)
LEMMA NextDelivers ==
    ASSUME IInv, Next
    PROVE  \E o \in OpenOrder : CanDeliver(o) /\ Deliver(o)
<1>1. CASE DeliverNew
  <2>1. PICK id \in OrderIds, side \in Sides, price \in Prices, qty \in Quantities :
           /\ \A o \in submitted : o.id # id
           /\ Deliver(ToOrder(id, side, price, qty))
    BY <1>1 DEF DeliverNew
  <2>2. qty \in Nat /\ qty > 0
    BY QuantitiesAssumption
  <2>3. ToOrder(id, side, price, qty) \in OpenOrder
    BY <2>2 DEF ToOrder, OpenOrder, Order
  <2>4. QED
    BY <2>1, <2>3 DEF CanDeliver, ToOrder
<1>2. CASE Redeliver
  <2>1. PICK o \in submitted : Deliver(o)
    BY <1>2 DEF Redeliver
  <2>2. o \in Order /\ o.filled = 0
    BY DEF IInv, TypeOK, SubmittedOK
  <2>3. o \in OpenOrder
    BY <2>2, OrderFacts DEF OpenOrder
  <2>4. QED
    BY <2>1, <2>2, <2>3 DEF CanDeliver
<1>3. QED
  BY <1>1, <1>2 DEF Next

(* The part of the step that does not depend on what the engine does.      *)
LEMMA SubmittedStep ==
    ASSUME IInv, NEW o \in OpenOrder, CanDeliver(o), Deliver(o)
    PROVE  /\ SubmittedOK'
           /\ submitted' = submitted \cup {o} /\ submitted' \subseteq Order
           /\ deliveries' \in [OrderIds -> 0 .. MaxDeliveries]
           /\ accepted' \in [OrderIds -> Nat]
           /\ PricesDistinct' => PricesDistinct
<1>1. o \in Order /\ o.id \in OrderIds
  BY OpenOrderFacts, OrderFacts
<1>2. submitted' = submitted \cup {o} /\ submitted \subseteq Order
  BY DEF Deliver, IInv, TypeOK
<1>3. SubmittedOK'
  BY <1>2 DEF SubmittedOK, CanDeliver, IInv
<1>4. deliveries' \in [OrderIds -> 0 .. MaxDeliveries]
  <2>1. /\ deliveries \in [OrderIds -> 0 .. MaxDeliveries]
        /\ deliveries[o.id] < MaxDeliveries
        /\ deliveries' = [deliveries EXCEPT ![o.id] = @ + 1]
    BY DEF Deliver, IInv, TypeOK
  <2>2. deliveries[o.id] + 1 \in 0 .. MaxDeliveries
    BY <1>1, <2>1, MaxDeliveriesAssumption
  <2>3. QED
    BY <1>1, <2>1, <2>2
<1>5. accepted' \in [OrderIds -> Nat]
  <2>1. accepted \in [OrderIds -> Nat]
    BY DEF IInv, TypeOK
  <2>2. CASE accepted' = accepted
    BY <2>1, <2>2
  <2>3. CASE accepted' = [accepted EXCEPT ![o.id] = @ + 1]
    BY <1>1, <2>1, <2>3
  <2>4. QED
    BY <2>2, <2>3 DEF Deliver
<1>6. PricesDistinct' => PricesDistinct
  BY <1>2 DEF PricesDistinct
<1>7. QED
  BY <1>1, <1>2, <1>3, <1>4, <1>5, <1>6

(* The engine's part: it ignored a duplicate, or took the order.           *)
LEMMA EngineStep ==
    ASSUME IInv, NEW o \in OpenOrder, Deliver(o)
    PROVE  \/ /\ ContainsKey(engine.orders[o.side], o.id)
              /\ engine' = engine /\ log' = log
           \/ /\ ~ContainsKey(engine.orders[o.side], o.id)
              /\ \E r \in Results(engine, o) : engine' = r.engine /\ log' = log \o r.trades
<1>1. PICK r \in WithOrder(engine, o) : engine' = r.engine /\ log' = log \o r.trades
  BY DEF Deliver
<1>2. CASE ContainsKey(engine.orders[o.side], o.id)
  <2>1. r.trades = << >> /\ r.engine = engine
    BY <1>2 DEF WithOrder
  <2>2. log \o << >> = log
    BY ConcatEmptySeq DEF IInv, TypeOK
  <2>3. QED
    BY <1>1, <1>2, <2>1, <2>2
<1>3. CASE ~ContainsKey(engine.orders[o.side], o.id)
  BY <1>1, <1>3 DEF WithOrder
<1>4. QED
  BY <1>2, <1>3

(* A sound engine has the engine's type.                                   *)
LEMMA SoundEngineType ==
    ASSUME NEW e, SoundEngine(e)
    PROVE  e \in Engine
<1>1. /\ e \in [orders : [Sides -> SUBSET OpenOrder], index : [Sides -> Seq(OpenOrder)]]
      /\ OpenOrder \subseteq Order
  BY DEF SoundEngine, OpenOrder
<1>2. \A s \in Sides : e.orders[s] \in SUBSET Order /\ e.index[s] \in Seq(Order)
  BY <1>1, SeqMonotonic
<1>3. QED
  BY <1>1, <1>2 DEF Engine

(* A delivery keeps the types and leaves a sound engine.                   *)
LEMMA StepTypeOK ==
    ASSUME IInv, NEW o \in OpenOrder, CanDeliver(o), Deliver(o)
    PROVE  TypeOK' /\ SoundEngine(engine')
<1>1. /\ submitted' \subseteq Order
      /\ deliveries' \in [OrderIds -> 0 .. MaxDeliveries]
      /\ accepted' \in [OrderIds -> Nat]
  BY SubmittedStep
<1>2. SoundEngine(engine) /\ log \in Seq(Trade)
  BY DEF IInv, TypeOK
<1>3. SoundEngine(engine') /\ log' \in Seq(Trade)
  <2>1. CASE engine' = engine /\ log' = log
    BY <1>2, <2>1
  <2>2. CASE /\ ~ContainsKey(engine.orders[o.side], o.id)
             /\ \E r \in Results(engine, o) : engine' = r.engine /\ log' = log \o r.trades
    <3>1. PICK r \in Results(engine, o) : engine' = r.engine /\ log' = log \o r.trades
      BY <2>2
    <3>2. SoundEngine(r.engine) /\ r.trades \in Seq(Trade)
      BY <1>2, <2>2, ResultsSound
    <3>3. log \o r.trades \in Seq(Trade)
      BY <1>2, <3>2, ConcatProperties
    <3>4. QED
      BY <3>1, <3>2, <3>3
  <2>3. QED
    BY <2>1, <2>2, EngineStep
<1>4. engine' \in Engine
  BY <1>3, SoundEngineType
<1>5. QED
  BY <1>1, <1>3, <1>4 DEF TypeOK, Engine

(* A delivery opens no order but the one delivered, and keeps the price    *)
(* and the size of those it fills.                                         *)
LEMMA StepOpenWasSubmitted ==
    ASSUME IInv, NEW o \in OpenOrder, CanDeliver(o), Deliver(o)
    PROVE  OpenWasSubmitted'
<1>1. submitted' = submitted \cup {o}
  BY SubmittedStep
<1>2. OpenWasSubmitted /\ SoundEngine(engine)
  BY DEF IInv
<1>3. CASE engine' = engine
  BY <1>1, <1>2, <1>3 DEF OpenWasSubmitted
<1>4. CASE /\ ~ContainsKey(engine.orders[o.side], o.id)
           /\ \E r \in Results(engine, o) : engine' = r.engine
  <2>1. PICK r \in Results(engine, o) : engine' = r.engine
    BY <1>4
  <2>2. ASSUME NEW s \in Sides, NEW x \in engine'.orders[s]
        PROVE  \E y \in submitted' :
                  y.id = x.id /\ y.side = s /\ y.price = x.price /\ y.qty = x.qty
    <3>1. PICK y \in engine.orders[s] \cup (IF s = o.side THEN {o} ELSE {}) :
             y.id = x.id /\ y.price = x.price /\ y.qty = x.qty
      BY <1>2, <1>4, <2>1, <2>2, ResultsSound
    <3>2. CASE y \in engine.orders[s]
      BY <1>1, <1>2, <3>1, <3>2 DEF OpenWasSubmitted
    <3>3. CASE s = o.side /\ y = o
      BY <1>1, <3>1, <3>3
    <3>4. QED
      BY <3>1, <3>2, <3>3
  <2>3. QED
    BY <2>2 DEF OpenWasSubmitted
<1>5. QED
  BY <1>3, <1>4, EngineStep

(* Two open orders of opposite sides never match while prices are          *)
(* distinct, said of one side and its opposite.                            *)
LEMMA NotCrossedBySide ==
    ASSUME NEW e, SoundEngine(e), NEW s \in Sides
    PROVE  (\A b \in e.orders["Buy"], a \in e.orders["Sell"] : b.price < a.price)
             <=> \A x \in e.orders[s], y \in e.orders[Opposite(s)] : ~Match(x, y)
<1>1. "Buy" \in Sides /\ "Sell" \in Sides
  BY DEF Sides
<1>2. /\ \A b \in e.orders["Buy"] : b.side = "Buy" /\ b.price \in Nat
      /\ \A a \in e.orders["Sell"] : a.side = "Sell" /\ a.price \in Nat
  BY <1>1, OpenOrderFacts, OrderFacts DEF SoundEngine
<1>3. CASE s = "Buy"
  <2>1. Opposite(s) = "Sell"
    BY <1>3 DEF Opposite
  <2>2. \A b \in e.orders["Buy"], a \in e.orders["Sell"] : b.price < a.price <=> ~Match(b, a)
    BY <1>2 DEF Match
  <2>3. QED
    BY <1>3, <2>1, <2>2
<1>4. CASE s = "Sell"
  <2>1. Opposite(s) = "Buy"
    BY <1>4 DEF Opposite
  <2>2. \A b \in e.orders["Buy"], a \in e.orders["Sell"] : b.price < a.price <=> ~Match(a, b)
    BY <1>2 DEF Match
  <2>3. QED
    BY <1>4, <2>1, <2>2
<1>5. QED
  BY <1>3, <1>4 DEF Sides

(* While prices are distinct, an index hides no open order of its side.    *)
LEMMA IndexIsComplete ==
    ASSUME IInv, PricesDistinct, NEW s \in Sides, NEW x \in engine.orders[s]
    PROVE  \E i \in 1 .. Len(engine.index[s]) : engine.index[s][i] = x
<1>1. /\ engine.orders[s] \in SUBSET OpenOrder /\ IsFiniteSet(engine.orders[s])
      /\ \A y, z \in engine.orders[s] : y.id = z.id => y = z
      /\ engine.index[s] \in PriceIndexes(engine.orders[s])
  BY DEF IInv, SoundEngine
<1>2. PICK i \in 1 .. Len(engine.index[s]) :
         engine.index[s][i] \in engine.orders[s] /\ engine.index[s][i].price = x.price
  BY <1>1, IndexType
<1>3. PICK y \in submitted : y.id = x.id /\ y.side = s /\ y.price = x.price
  BY DEF IInv, OpenWasSubmitted
<1>4. PICK z \in submitted :
         z.id = engine.index[s][i].id /\ z.side = s /\ z.price = engine.index[s][i].price
  BY <1>2 DEF IInv, OpenWasSubmitted
<1>5. y.id = z.id
  BY <1>2, <1>3, <1>4 DEF PricesDistinct
<1>6. QED
  BY <1>1, <1>2, <1>3, <1>4, <1>5

(* A delivery does not leave the book crossed: what was open before does   *)
(* not match, and an order that rests has exhausted a complete index.      *)
LEMMA StepNotCrossed ==
    ASSUME IInv, NEW o \in OpenOrder, CanDeliver(o), Deliver(o)
    PROVE  NotCrossed'
<1> SUFFICES ASSUME PricesDistinct'
             PROVE  \A b \in engine'.orders["Buy"], a \in engine'.orders["Sell"] :
                       b.price < a.price
  BY DEF NotCrossed
<1> DEFINE opp == Opposite(o.side)
           ix == engine.index[opp]
<1>1. o.side \in Sides /\ opp \in Sides /\ SoundEngine(engine) /\ SoundEngine(engine')
  BY OpenOrderFacts, OrderFacts, StepTypeOK DEF IInv
<1>2. PricesDistinct
  BY SubmittedStep
<1>3. \A b \in engine.orders["Buy"], a \in engine.orders["Sell"] : b.price < a.price
  BY <1>2 DEF IInv, NotCrossed
<1>4. CASE engine' = engine
  BY <1>3, <1>4
<1>5. CASE /\ ~ContainsKey(engine.orders[o.side], o.id)
           /\ \E r \in Results(engine, o) : engine' = r.engine
  <2>1. PICK r \in Results(engine, o) : engine' = r.engine
    BY <1>5
  <2>2. PICK left \in Traces(o, ix) :
           /\ r.engine.orders[o.side] = Rested(engine, o, left)
           /\ r.engine.orders[opp] = UpdateOrders(engine.orders[opp], ix, left)
    BY ResultOrders
  <2>3. SUFFICES ASSUME NEW x \in engine'.orders[o.side], NEW y \in engine'.orders[opp],
                        Match(x, y)
                 PROVE  FALSE
    BY <1>1, NotCrossedBySide
  <2>4. PICK y0 \in engine.orders[opp] : y0.id = y.id /\ y0.price = y.price
    <3>1. o.side # opp
      BY OpenOrderFacts, OrderFacts
    <3>2. QED
      BY <1>1, <1>5, <2>1, <2>3, <3>1, ResultsSound
  <2>5. CASE x \in engine.orders[o.side]
    <3>1. ~Match(x, y0)
      BY <1>1, <1>3, <2>5, NotCrossedBySide
    <3>2. QED
      BY <2>3, <2>4, <3>1 DEF Match
  <2>6. CASE /\ left[Len(ix)] > 0
             /\ x.id = o.id /\ x.side = o.side /\ x.price = o.price
    <3>1. PICK i \in 1 .. Len(ix) : ix[i] = y0
      BY <1>1, <1>2, IndexIsComplete
    <3>2. Match(o, ix[i])
      BY <2>3, <2>4, <2>6, <3>1 DEF Match
    <3>3. y \in UpdateOrders(engine.orders[opp], ix, left)
      BY <2>1, <2>2, <2>3
    <3>4. ix \in Seq(OpenOrder) /\ Len(ix) \in 0 .. Len(ix) /\ i \in 0 .. Len(ix)
      BY <1>1 DEF SoundEngine
    <3>5. left[i] > 0
      BY <2>6, <3>4, LeftBefore
    <3>6. y.id # ix[i].id
      BY <1>1, <3>2, <3>3, <3>5, MatchedAreGone
    <3>7. QED
      BY <2>4, <3>1, <3>6
  <2>7. QED
    BY <1>1, <1>5, <2>1, <2>2, <2>3, <2>5, <2>6, RestedSound
<1>6. QED
  BY <1>4, <1>5, EngineStep

(* The invariant is inductive.                                             *)
LEMMA NextIInv == IInv /\ [Next]_vars => IInv'
<1> SUFFICES ASSUME IInv, [Next]_vars PROVE IInv'
  OBVIOUS
<1>1. CASE Next
  <2>1. PICK o \in OpenOrder : CanDeliver(o) /\ Deliver(o)
    BY <1>1, NextDelivers
  <2>2. TypeOK' /\ SoundEngine(engine')
    BY <2>1, StepTypeOK
  <2>3. SubmittedOK'
    BY <2>1, SubmittedStep
  <2>4. OpenWasSubmitted'
    BY <2>1, StepOpenWasSubmitted
  <2>5. NotCrossed'
    BY <2>1, StepNotCrossed
  <2>6. QED
    BY <2>2, <2>3, <2>4, <2>5 DEF IInv
<1>2. CASE UNCHANGED vars
  BY <1>2 DEF vars, IInv, TypeOK, Engine, SubmittedOK, OpenWasSubmitted, NotCrossed, PricesDistinct
<1>3. QED
  BY <1>1, <1>2

-----------------------------------------------------------------------------

(* The invariant all the theorems follow from.                             *)
THEOREM Invariance == Spec => []IInv
BY InitIInv, NextIInv, PTL DEF Spec

(* Every variable keeps its type, whatever orders are delivered.           *)
THEOREM TypeCorrect == Spec => []TypeOK
<1>1. IInv => TypeOK
  BY DEF IInv
<1>2. QED
  BY <1>1, Invariance, PTL

(* The indexes the engine matches from are never stale.                    *)
THEOREM IndexesStayFresh == Spec => []IndexesAreFresh
<1>1. IInv => IndexesAreFresh
  BY DEF IInv, SoundEngine, IndexesAreFresh
<1>2. QED
  BY <1>1, Invariance, PTL

(* The book does not rest crossed while no limit price is used twice on a  *)
(* side.                                                                   *)
THEOREM NeverCrossed == Spec => []NotCrossed
<1>1. IInv => NotCrossed
  BY DEF IInv
<1>2. QED
  BY <1>1, Invariance, PTL

-----------------------------------------------------------------------------
(* The action property *)

(* A delivery that opens an order leaves nothing in the index that the     *)
(* order matches.                                                          *)
LEMMA StepRests ==
    ASSUME IInv, NEW o \in OpenOrder, CanDeliver(o), Deliver(o),
           NEW s \in Sides, NEW y \in engine'.orders[s], ~ContainsKey(engine.orders[s], y.id),
           NEW i \in 1 .. Len(engine.index[Opposite(s)]),
           Match(y, engine.index[Opposite(s)][i])
    PROVE  ~ContainsKey(engine'.orders[Opposite(s)], engine.index[Opposite(s)][i].id)
<1> DEFINE opp == Opposite(o.side)
           ix == engine.index[opp]
<1>1. o.side \in Sides /\ opp \in Sides /\ SoundEngine(engine)
  BY OpenOrderFacts, OrderFacts DEF IInv
<1>2. engine' # engine
  BY DEF ContainsKey
<1>3. ~ContainsKey(engine.orders[o.side], o.id)
      /\ \E r \in Results(engine, o) : engine' = r.engine
  BY <1>2, EngineStep
<1>4. PICK r \in Results(engine, o) : engine' = r.engine
  BY <1>3
<1>5. PICK z \in engine.orders[s] \cup (IF s = o.side THEN {o} ELSE {}) :
         z.id = y.id /\ z.price = y.price
  BY <1>1, <1>3, <1>4, ResultsSound
<1>6. s = o.side /\ y \notin engine.orders[o.side]
  BY <1>5 DEF ContainsKey
<1>7. PICK left \in Traces(o, ix) :
         /\ engine'.orders[o.side] = Rested(engine, o, left)
         /\ engine'.orders[opp] = UpdateOrders(engine.orders[opp], ix, left)
  BY <1>4, ResultOrders
<1>8. left[Len(ix)] > 0 /\ y.side = o.side /\ y.price = o.price
  BY <1>1, <1>3, <1>6, <1>7, RestedSound
<1>9. Match(o, ix[i])
  BY <1>6, <1>8 DEF Match
<1>10. \A x \in UpdateOrders(engine.orders[opp], ix, left) : x.id # ix[i].id
  <2>1. ix \in Seq(OpenOrder) /\ Len(ix) \in 0 .. Len(ix) /\ i \in 0 .. Len(ix)
    BY <1>1, <1>6 DEF SoundEngine
  <2>2. left[i] > 0
    BY <1>8, <2>1, LeftBefore
  <2>3. QED
    BY <1>1, <1>6, <1>9, <2>2, MatchedAreGone
<1>11. QED
  BY <1>6, <1>7, <1>10 DEF ContainsKey

(* A call that leaves its order in the book leaves nothing in the index    *)
(* that the order could have traded with.                                  *)
THEOREM RestsOnlyExhausted == Spec => RestsOnlyWhenExhausted
<1>1. ASSUME IInv, Next,
             NEW s \in Sides, NEW y \in engine'.orders[s], ~ContainsKey(engine.orders[s], y.id),
             NEW x \in Range(engine.index[Opposite(s)]), Match(y, x)
      PROVE  ~ContainsKey(engine'.orders[Opposite(s)], x.id)
  <2>1. PICK o \in OpenOrder : CanDeliver(o) /\ Deliver(o)
    BY <1>1, NextDelivers
  <2>2. Opposite(s) \in Sides
    BY DEF Opposite, Sides
  <2>3. engine.index[Opposite(s)] \in Seq(OpenOrder)
    BY <1>1, <2>2 DEF IInv, SoundEngine
  <2>4. PICK i \in 1 .. Len(engine.index[Opposite(s)]) : x = engine.index[Opposite(s)][i]
    BY <2>3 DEF Range
  <2>5. QED
    BY <1>1, <2>1, <2>4, StepRests
<1>2. IInv /\ [Next]_vars =>
         [\A side \in Sides :
            \A o \in engine'.orders[side] :
              ~ContainsKey(engine.orders[side], o.id) =>
                \A x \in Range(engine.index[Opposite(side)]) :
                  Match(o, x) => ~ContainsKey(engine'.orders[Opposite(side)], x.id)]_vars
  BY <1>1
<1>3. QED
  BY <1>2, Invariance, PTL DEF Spec, RestsOnlyWhenExhausted

-----------------------------------------------------------------------------
(* Settlement *)

(* Every trade of the log is between a bid and an ask that were submitted, *)
(* within the limits of both.                                              *)
TradesAreOfOrders ==
    \A t \in Range(log) : \E b, s \in submitted :
        /\ b.id = t.buy /\ b.side = "Buy" /\ t.price <= b.price
        /\ s.id = t.sell /\ s.side = "Sell" /\ t.price >= s.price

(* A call trades an order with entries of the opposite index it matches.   *)
LEMMA NewTradeFacts ==
    ASSUME IInv, NEW o \in OpenOrder, NEW r \in Results(engine, o),
           NEW k \in 1 .. Len(r.trades)
    PROVE  LET ix == engine.index[Opposite(o.side)] IN
           \E left \in Traces(o, ix) : \E i \in Hits(left) :
              /\ i \in 1 .. Len(ix) /\ Match(o, ix[i]) /\ left[i-1] > 0
              /\ ix[i] \in engine.orders[Opposite(o.side)]
              /\ r.trades[k] = FillOrders(o, ix[i], left[i-1] - left[i])
              /\ r.engine.orders[Opposite(o.side)]
                    = UpdateOrders(engine.orders[Opposite(o.side)], ix, left)
<1> DEFINE opp == Opposite(o.side)
           ix == engine.index[opp]
<1>1. opp \in Sides
  BY OpenOrderFacts, OrderFacts
<1>2. /\ engine.orders[opp] \in SUBSET OpenOrder /\ IsFiniteSet(engine.orders[opp])
      /\ ix \in PriceIndexes(engine.orders[opp])
  BY <1>1 DEF IInv, SoundEngine
<1>3. PICK left \in Traces(o, engine.index[opp]) :
              /\ r.trades = TradesOf(o, engine.index[opp], left)
              /\ r.engine \in [orders : {r.engine.orders}, index : {r.engine.index}]
              /\ r.engine.orders[o.side] = Rested(engine, o, left)
              /\ r.engine.orders[opp] = UpdateOrders(engine.orders[opp], engine.index[opp], left)
              /\ r.engine.index[o.side] \in
                    Reindexed(engine.orders[o.side], r.engine.orders[o.side], engine.index[o.side])
              /\ r.engine.index[opp] \in
                    Reindexed(engine.orders[opp], r.engine.orders[opp], engine.index[opp])
              /\ r.engine.orders = [s \in Sides |-> r.engine.orders[s]]
              /\ r.engine.index = [s \in Sides |-> r.engine.index[s]]
  BY ResultFacts, Zenon
<1>4. PICK i \in Hits(left) : r.trades[k] = FillOrders(o, ix[i], left[i-1] - left[i])
  BY <1>2, <1>3, TradesAreHits
<1>5. /\ ix \in Seq(OpenOrder) /\ \A j \in 1 .. Len(ix) : ix[j] \in engine.orders[opp]
  BY <1>2, IndexType
<1>6. i \in 1 .. Len(ix)
  BY <1>5, TraceFacts DEF Hits
<1>7. Match(o, ix[i]) /\ left[i-1] > 0
  BY <1>5, <1>6, HitFacts
<1>8. QED
  BY <1>3, <1>4, <1>5, <1>6, <1>7

(* The trades of a longer log are those it had and the new ones.           *)
LEMMA LogStep ==
    ASSUME log \in Seq(Trade), NEW trades \in Seq(Trade), log' = log \o trades
    PROVE  /\ \A t \in Range(log') :
                 t \in Range(log) \/ \E k \in 1 .. Len(trades) : t = trades[k]
           /\ \A i \in DOMAIN log' \ DOMAIN log :
                 \E k \in 1 .. Len(trades) : log'[i] = trades[k]
           /\ \A k \in 1 .. Len(trades) :
                 \E i \in DOMAIN log' \ DOMAIN log : log'[i] = trades[k]
<1>1. /\ log' \in Seq(Trade) /\ Len(log') = Len(log) + Len(trades)
      /\ \A i \in 1 .. Len(log') :
            log'[i] = IF i <= Len(log) THEN log[i] ELSE trades[i - Len(log)]
  BY ConcatProperties
<1>2. Len(log) \in Nat /\ Len(trades) \in Nat
  OBVIOUS
<1>3. DOMAIN log = 1 .. Len(log) /\ DOMAIN log' = 1 .. Len(log')
  BY <1>1
<1>4. ASSUME NEW i \in DOMAIN log' \ DOMAIN log
      PROVE  \E k \in 1 .. Len(trades) : log'[i] = trades[k]
  <2>1. i \in 1 .. Len(log') /\ ~(i <= Len(log)) /\ i - Len(log) \in 1 .. Len(trades)
    BY <1>1, <1>2, <1>3
  <2>2. QED
    BY <1>1, <2>1
<1>5. \A i \in DOMAIN log' \cap DOMAIN log : log'[i] = log[i]
  BY <1>1, <1>2, <1>3
<1>6. ASSUME NEW k \in 1 .. Len(trades)
      PROVE  \E i \in DOMAIN log' \ DOMAIN log : log'[i] = trades[k]
  <2>1. Len(log) + k \in 1 .. Len(log') /\ ~(Len(log) + k <= Len(log)) /\ (Len(log) + k) - Len(log) = k
    BY <1>1, <1>2
  <2>2. log'[Len(log) + k] = trades[k]
    BY <1>1, <2>1
  <2>3. Len(log) + k \in DOMAIN log' \ DOMAIN log
    BY <1>2, <1>3, <2>1
  <2>4. QED
    BY <2>2, <2>3
<1>7. \A t \in Range(log') : t \in Range(log) \/ \E k \in 1 .. Len(trades) : t = trades[k]
  BY <1>4, <1>5 DEF Range
<1>8. QED
  BY <1>4, <1>6, <1>7

(* A delivery adds trades between the delivered order and open ones.       *)
LEMMA StepTradesAreOfOrders ==
    ASSUME IInv, TradesAreOfOrders, NEW o \in OpenOrder, CanDeliver(o), Deliver(o)
    PROVE  TradesAreOfOrders'
<1>1. submitted' = submitted \cup {o}
  BY SubmittedStep
<1>2. CASE log' = log
  BY <1>1, <1>2 DEF TradesAreOfOrders
<1>3. CASE \E r \in Results(engine, o) : engine' = r.engine /\ log' = log \o r.trades
           /\ ~ContainsKey(engine.orders[o.side], o.id)
  <2>1. PICK r \in Results(engine, o) : log' = log \o r.trades
           /\ ~ContainsKey(engine.orders[o.side], o.id)
    BY <1>3
  <2>2. r.trades \in Seq(Trade) /\ log \in Seq(Trade)
    BY <2>1, ResultsSound DEF IInv, TypeOK
  <2>3. ASSUME NEW k \in 1 .. Len(r.trades)
        PROVE  \E b, s \in submitted' :
                  /\ b.id = r.trades[k].buy /\ b.side = "Buy" /\ r.trades[k].price <= b.price
                  /\ s.id = r.trades[k].sell /\ s.side = "Sell" /\ r.trades[k].price >= s.price
    <3> DEFINE opp == Opposite(o.side)
               ix == engine.index[opp]
    <3>1. PICK left \in Traces(o, ix) : \E i \in Hits(left) :
              /\ i \in 1 .. Len(ix) /\ Match(o, ix[i]) /\ left[i-1] > 0
              /\ ix[i] \in engine.orders[opp]
              /\ r.trades[k] = FillOrders(o, ix[i], left[i-1] - left[i])
              /\ r.engine.orders[opp] = UpdateOrders(engine.orders[opp], ix, left)
      BY NewTradeFacts, Zenon
    <3>2. PICK i \in Hits(left) :
              /\ Match(o, ix[i]) /\ ix[i] \in engine.orders[opp]
              /\ r.trades[k] = FillOrders(o, ix[i], left[i-1] - left[i])
      BY <3>1
    <3>3. opp \in Sides /\ o.side \in Sides /\ o.price \in Nat
      BY OpenOrderFacts, OrderFacts
    <3>4. PICK y \in submitted : y.id = ix[i].id /\ y.side = opp /\ y.price = ix[i].price
      BY <3>2, <3>3 DEF IInv, OpenWasSubmitted
    <3>5. y.price \in Nat
      BY OrderFacts DEF IInv, TypeOK
    <3>6. CASE o.side = "Buy"
      <4>1. y.side = "Sell" /\ y.price <= o.price
        BY <3>2, <3>4, <3>6 DEF Opposite, Match
      <4>2. /\ r.trades[k].buy = o.id /\ r.trades[k].sell = y.id
            /\ r.trades[k].price = o.price
        BY <3>2, <3>4, <3>6 DEF FillOrders
      <4>3. o.price <= o.price /\ o.price >= y.price
        BY <3>3, <3>5, <4>1
      <4>4. QED
        BY <1>1, <3>6, <4>1, <4>2, <4>3
    <3>7. CASE o.side = "Sell"
      <4>1. y.side = "Buy" /\ y.price >= o.price
        BY <3>2, <3>4, <3>7 DEF Opposite, Match
      <4>2. /\ r.trades[k].buy = y.id /\ r.trades[k].sell = o.id
            /\ r.trades[k].price = y.price
        BY <3>2, <3>4, <3>7 DEF FillOrders
      <4>3. y.price <= y.price
        BY <3>5
      <4>4. QED
        BY <1>1, <3>7, <4>1, <4>2, <4>3
    <3>8. QED
      BY <3>3, <3>6, <3>7 DEF Sides
  <2>4. \A t \in Range(log') :
           t \in Range(log) \/ \E k \in 1 .. Len(r.trades) : t = r.trades[k]
    BY <2>1, <2>2, LogStep
  <2>5. QED
    BY <1>1, <2>3, <2>4 DEF TradesAreOfOrders
<1>4. QED
  BY <1>2, <1>3, EngineStep

(* Every trade is settled between the limits of its two orders.            *)
THEOREM SettledBetweenLimits == Spec => []SettledWithinLimits
<1>1. Init => TradesAreOfOrders
  BY DEF Init, TradesAreOfOrders, Range
<1>2. IInv /\ TradesAreOfOrders /\ [Next]_vars => TradesAreOfOrders'
  <2> SUFFICES ASSUME IInv, TradesAreOfOrders, [Next]_vars PROVE TradesAreOfOrders'
    OBVIOUS
  <2>1. CASE Next
    BY <2>1, NextDelivers, StepTradesAreOfOrders
  <2>2. CASE UNCHANGED vars
    BY <2>2 DEF vars, TradesAreOfOrders
  <2>3. QED
    BY <2>1, <2>2
<1>3. IInv /\ TradesAreOfOrders => SettledWithinLimits
  BY DEF IInv, SubmittedOK, TradesAreOfOrders, SettledWithinLimits
<1>4. QED
  BY <1>1, <1>2, <1>3, Invariance, PTL DEF Spec

(* A bid that trades with an ask exhausts the cheaper ones before it.      *)
LEMMA StepCheapestAsks ==
    ASSUME IInv, NEW o \in OpenOrder, CanDeliver(o), Deliver(o), PricesDistinct',
           NEW t \in NewTrades, NEW x \in engine.orders["Sell"], x.id = t.sell,
           NEW a \in engine'.orders["Sell"]
    PROVE  a.price >= x.price
<1>1. PICK i \in DOMAIN log' \ DOMAIN log : t = log'[i]
  BY DEF NewTrades
<1>2. log' # log
  BY <1>1
<1>3. ~ContainsKey(engine.orders[o.side], o.id)
      /\ \E r \in Results(engine, o) : engine' = r.engine /\ log' = log \o r.trades
  BY <1>2, EngineStep
<1>4. PICK r \in Results(engine, o) : engine' = r.engine /\ log' = log \o r.trades
  BY <1>3
<1>5. PICK k \in 1 .. Len(r.trades) : t = r.trades[k]
  <2>1. log \in Seq(Trade) /\ r.trades \in Seq(Trade)
    BY <1>3, ResultsSound DEF IInv, TypeOK
  <2>2. QED
    BY <1>1, <1>4, <2>1, LogStep
<1> DEFINE opp == Opposite(o.side)
           ix == engine.index[opp]
<1>6. PICK left \in Traces(o, ix) : \E j \in Hits(left) :
              /\ j \in 1 .. Len(ix) /\ Match(o, ix[j]) /\ left[j-1] > 0
              /\ ix[j] \in engine.orders[opp]
              /\ r.trades[k] = FillOrders(o, ix[j], left[j-1] - left[j])
              /\ r.engine.orders[opp] = UpdateOrders(engine.orders[opp], ix, left)
  BY NewTradeFacts, Zenon
<1>7. PICK h \in Hits(left) :
              /\ h \in 1 .. Len(ix) /\ Match(o, ix[h]) /\ left[h-1] > 0
              /\ ix[h] \in engine.orders[opp]
              /\ t = FillOrders(o, ix[h], left[h-1] - left[h])
              /\ engine'.orders[opp] = UpdateOrders(engine.orders[opp], ix, left)
  BY <1>4, <1>5, <1>6
<1>8. o.side = "Buy" /\ opp = "Sell"
  <2>1. o.side \in {"Buy", "Sell"}
    BY OpenOrderFacts, OrderFacts DEF Sides
  <2>2. o.side # "Sell"
    BY <1>3, <1>7 DEF FillOrders, ContainsKey
  <2>3. QED
    BY <2>1, <2>2 DEF Opposite
<1>9. "Sell" \in Sides /\ SoundEngine(engine)
  BY DEF Sides, IInv
<1>10. /\ engine.orders[opp] \in SUBSET OpenOrder /\ IsFiniteSet(engine.orders[opp])
       /\ \A y, z \in engine.orders[opp] : y.id = z.id => y = z
       /\ ix \in PriceIndexes(engine.orders[opp])
  BY <1>8, <1>9 DEF SoundEngine
<1>11. /\ ix \in Seq(OpenOrder) /\ Len(ix) \in Nat
       /\ \A j, l \in 1 .. Len(ix) : j < l => ix[j].price < ix[l].price
  BY <1>10, IndexType
<1>12. x = ix[h]
  BY <1>7, <1>8, <1>10 DEF FillOrders
<1>13. PICK y \in engine.orders["Sell"] : y.id = a.id /\ y.price = a.price
  <2>1. PICK y \in engine.orders["Sell"] \cup (IF "Sell" = o.side THEN {o} ELSE {}) :
           y.id = a.id /\ y.price = a.price
    BY <1>3, <1>4, <1>9, ResultsSound
  <2>2. QED
    BY <1>8, <2>1
<1>14. PICK j \in 1 .. Len(ix) : ix[j] = y
  <2>1. PricesDistinct
    BY SubmittedStep
  <2>2. QED
    BY <1>8, <1>9, <2>1, IndexIsComplete
<1>15. SUFFICES ASSUME ~(a.price >= x.price) PROVE FALSE
  OBVIOUS
<1>16. /\ ix[j].price \in Nat /\ ix[h].price \in Nat /\ o.price \in Nat
       /\ ix[j].price < ix[h].price
  <2>1. ix[j].price \in Nat /\ ix[h].price \in Nat /\ o.price \in Nat
    BY <1>7, <1>11, OpenOrderFacts, OrderFacts
  <2>2. QED
    BY <1>12, <1>13, <1>14, <1>15, <2>1
<1>17. j < h
  <2>1. j = h \/ j < h \/ h < j
    BY <1>7, <1>11
  <2>2. j # h
    BY <1>16
  <2>3. ~(h < j)
    BY <1>7, <1>11, <1>16
  <2>4. QED
    BY <2>1, <2>2, <2>3
<1>18. h - 1 \in 0 .. Len(ix) /\ j \in 0 .. (h - 1)
  BY <1>7, <1>11, <1>17
<1>19. left[j] > 0
  BY <1>7, <1>11, <1>18, LeftBefore
<1>20. Match(o, ix[j])
  BY <1>7, <1>8, <1>16 DEF Match
<1>21. a.id # ix[j].id
  BY <1>7, <1>8, <1>9, <1>19, <1>20, MatchedAreGone
<1>22. QED
  BY <1>13, <1>14, <1>21

(* A bid that trades leaves no cheaper ask open, while no price is used    *)
(* twice on a side.                                                        *)
THEOREM CheapestAsksFirst == Spec => BuyersGetTheCheapestAsks
<1>1. ASSUME IInv, Next, PricesDistinct',
             NEW t \in NewTrades, NEW x \in engine.orders["Sell"], x.id = t.sell,
             NEW a \in engine'.orders["Sell"]
      PROVE  a.price >= x.price
  BY <1>1, NextDelivers, StepCheapestAsks
<1>2. IInv /\ [Next]_vars =>
        [PricesDistinct' =>
          \A t \in NewTrades, x \in engine.orders["Sell"] :
            /\ ~ContainsKey(engine.orders["Buy"], t.buy)
            /\ x.id = t.sell
            => \A a \in engine'.orders["Sell"] : a.price >= x.price]_vars
  BY <1>1
<1>3. QED
  BY <1>2, Invariance, PTL DEF Spec, BuyersGetTheCheapestAsks

(* Who an order traded with.                                               *)
Counterpart(o, t) == IF o.side = "Buy" THEN t.sell ELSE t.buy

LEMMA CounterpartFacts ==
    ASSUME NEW o, NEW x, NEW sold
    PROVE  Counterpart(o, FillOrders(o, x, sold)) = x.id
BY DEF Counterpart, FillOrders

(* A call trades more than nothing with every match, and only with those.  *)
LEMMA CallTradesMatches ==
    ASSUME IInv, NEW o \in OpenOrder, NEW r \in Results(engine, o)
    PROVE  LET ix == engine.index[Opposite(o.side)] IN
           /\ \A k \in 1 .. Len(r.trades) :
                 /\ r.trades[k].qty > 0
                 /\ \E i \in HasMatches(o, ix) : ix[i].id = Counterpart(o, r.trades[k])
           /\ \A i \in HasMatches(o, ix) :
                 \E k \in 1 .. Len(r.trades) : ix[i].id = Counterpart(o, r.trades[k])
<1> DEFINE opp == Opposite(o.side)
           ix == engine.index[opp]
           trades == r.trades
<1>1. /\ engine.orders[opp] \in SUBSET OpenOrder /\ IsFiniteSet(engine.orders[opp])
      /\ ix \in PriceIndexes(engine.orders[opp])
  <2>1. opp \in Sides
    BY OpenOrderFacts, OrderFacts
  <2>2. QED
    BY <2>1 DEF IInv, SoundEngine
<1>2. ix \in Seq(OpenOrder) /\ Len(ix) \in Nat
  BY <1>1, IndexType
<1>3. PICK left \in Traces(o, ix) : trades = TradesOf(o, ix, left)
  <2> HIDE DEF trades
  <2>1. LET oppo == Opposite(o.side) IN
        \E left \in Traces(o, engine.index[oppo]) :
              /\ r.trades = TradesOf(o, engine.index[oppo], left)
              /\ r.engine \in [orders : {r.engine.orders}, index : {r.engine.index}]
              /\ r.engine.orders[o.side] = Rested(engine, o, left)
              /\ r.engine.orders[oppo] = UpdateOrders(engine.orders[oppo], engine.index[oppo], left)
              /\ r.engine.index[o.side] \in
                    Reindexed(engine.orders[o.side], r.engine.orders[o.side], engine.index[o.side])
              /\ r.engine.index[oppo] \in
                    Reindexed(engine.orders[oppo], r.engine.orders[oppo], engine.index[oppo])
              /\ r.engine.orders = [s \in Sides |-> r.engine.orders[s]]
              /\ r.engine.index = [s \in Sides |-> r.engine.index[s]]
    BY ResultFacts, Zenon
  <2>2. QED
    BY <2>1 DEF trades
<1>4. PICK m \in 1 .. Len(ix) + 1 :
         /\ Len(trades) \in Nat /\ m + Len(trades) - 1 \in 0 .. Len(ix)
         /\ Hits(left) = m .. m + Len(trades) - 1
         /\ \A k \in 1 .. Len(trades) :
               trades[k] = FillOrders(o, ix[m+k-1], left[m+k-2] - left[m+k-1])
  <2> DEFINE list == TradesOf(o, ix, left)
  <2>1. \E m \in 1 .. Len(ix) + 1 :
           /\ Len(list) \in Nat /\ m + Len(list) - 1 \in 0 .. Len(ix)
           /\ Hits(left) = m .. m + Len(list) - 1
           /\ \A k \in 1 .. Len(list) :
                 list[k] = FillOrders(o, ix[m+k-1], left[m+k-2] - left[m+k-1])
    BY <1>1, TradeList, Zenon
  <2>2. list = trades
    BY <1>3
  <2> HIDE DEF list, trades, ix
  <2>3. QED
    BY <2>1, <2>2
<1>5. Hits(left) = HasMatches(o, ix)
  BY <1>2, HitsAreMatches
<1> HIDE DEF trades, ix
<1>6. ASSUME NEW k \in 1 .. Len(trades)
      PROVE  /\ m + k - 1 \in HasMatches(o, ix)
             /\ trades[k].qty > 0
             /\ ix[m+k-1].id = Counterpart(o, trades[k])
  <2>1. m + k - 1 \in m .. m + Len(trades) - 1 /\ m + k - 1 \in 1 .. Len(ix) /\ (m + k - 1) - 1 = m + k - 2
    BY <1>2, <1>4
  <2>2. m + k - 1 \in Hits(left)
    BY <1>4, <2>1
  <2>3. left[m+k-1] # left[m+k-2]
    BY <2>1, <2>2 DEF Hits
  <2>4. left[m+k-1] \in Nat /\ left[m+k-2] \in Nat /\ left[m+k-1] <= left[m+k-2]
    BY <1>2, <2>1, TraceFacts
  <2>5. left[m+k-2] - left[m+k-1] > 0
    BY <2>3, <2>4
  <2>6. trades[k] = FillOrders(o, ix[m+k-1], left[m+k-2] - left[m+k-1])
    BY <1>4
  <2>7. QED
    BY <1>5, <2>2, <2>5, <2>6, FillOrdersFacts, CounterpartFacts
<1>7. ASSUME NEW i \in HasMatches(o, ix)
      PROVE  \E k \in 1 .. Len(trades) : ix[i].id = Counterpart(o, trades[k])
  <2>1. i - m + 1 \in 1 .. Len(trades) /\ m + (i - m + 1) - 1 = i
    BY <1>4, <1>5
  <2>2. ix[i].id = Counterpart(o, trades[i - m + 1])
    BY <1>6, <2>1
  <2>3. QED
    BY <2>1, <2>2
<1>8. QED
  BY <1>6, <1>7 DEF trades, ix

(* In the step that takes an order up, the fills are those of its matches. *)
LEMMA StepTradesMatches ==
    ASSUME IInv, Next, NEW o \in submitted', accepted'[o.id] # accepted[o.id]
    PROVE  LET ix == engine.index[Opposite(o.side)] IN
           {ix[i].id : i \in HasMatches(o, ix)} =
               {Counterpart(o, t) : t \in {t \in NewTrades : t.qty > 0}}
<1>1. PICK p \in OpenOrder : CanDeliver(p) /\ Deliver(p)
  BY NextDelivers
<1>2. SubmittedOK' /\ submitted' = submitted \cup {p} /\ submitted' \subseteq Order
  BY <1>1, SubmittedStep
<1>3. ~ContainsKey(engine.orders[p.side], p.id) /\ accepted' = [accepted EXCEPT ![p.id] = @ + 1]
  BY <1>1 DEF Deliver
<1>4. o = p
  <2>1. o.id \in OrderIds /\ accepted \in [OrderIds -> Nat]
    BY <1>2, OrderFacts DEF IInv, TypeOK
  <2>2. o.id = p.id
    BY <1>3, <2>1
  <2>3. QED
    BY <1>2, <2>2 DEF SubmittedOK
<1>5. PICK r \in Results(engine, o) : engine' = r.engine /\ log' = log \o r.trades
  BY <1>1, <1>3, <1>4, EngineStep
<1> DEFINE ix == engine.index[Opposite(o.side)]
           trades == r.trades
<1>6. NewTrades = {trades[k] : k \in 1 .. Len(trades)}
  <2>1. log \in Seq(Trade) /\ trades \in Seq(Trade)
    BY <1>1, <1>3, <1>4, ResultsSound DEF IInv, TypeOK
  <2>2. /\ \A i \in DOMAIN log' \ DOMAIN log : \E k \in 1 .. Len(trades) : log'[i] = trades[k]
        /\ \A k \in 1 .. Len(trades) : \E i \in DOMAIN log' \ DOMAIN log : log'[i] = trades[k]
    BY <1>5, <2>1, LogStep
  <2>3. QED
    BY <2>2 DEF NewTrades
<1>7. /\ \A k \in 1 .. Len(trades) :
            /\ trades[k].qty > 0
            /\ \E i \in HasMatches(o, ix) : ix[i].id = Counterpart(o, trades[k])
      /\ \A i \in HasMatches(o, ix) :
            \E k \in 1 .. Len(trades) : ix[i].id = Counterpart(o, trades[k])
  BY <1>1, <1>4, CallTradesMatches
<1> HIDE DEF ix, trades
<1>8. {t \in NewTrades : t.qty > 0} = {trades[k] : k \in 1 .. Len(trades)}
  BY <1>6, <1>7
<1>9. {ix[i].id : i \in HasMatches(o, ix)} =
         {Counterpart(o, t) : t \in {t \in NewTrades : t.qty > 0}}
  BY <1>7, <1>8
<1>10. QED
  BY <1>9 DEF ix

(* The fills of a call are of more than nothing, with every order          *)
(* HasMatches selects and with no other: the remainder HasMatches counts   *)
(* and the one FillOrders sells from agree.                                *)
THEOREM MatchesGetTraded == Spec => MatchesAreTraded
<1>1. IInv /\ [Next]_vars =>
        [\A o \in submitted' :
          accepted'[o.id] # accepted[o.id] =>
            LET ix == engine.index[Opposite(o.side)]
                fills == {t \in NewTrades : t.qty > 0}
            IN  {ix[i].id : i \in HasMatches(o, ix)} =
                    {IF o.side = "Buy" THEN t.sell ELSE t.buy : t \in fills}]_vars
  BY StepTradesMatches DEF Counterpart
<1>2. QED
  BY <1>1, Invariance, PTL DEF Spec, MatchesAreTraded

-----------------------------------------------------------------------------
(* The accounts *)

(* What orders have been filled for and what is open of them is what they  *)
(* were accepted for; an id nobody has used has no fills.                  *)
Accounts ==
    /\ \A o \in submitted : accepted[o.id] * o.qty = Filled(o.id) + LeftOpen(engine, o.id)
    /\ \A id \in OrderIds :
          (\A o \in submitted : o.id # id) => accepted[id] = 0 /\ Filled(id) = 0

LEMMA OneIsOpen ==
    ASSUME IInv
    PROVE  OpenOnce(engine)
<1>1. Sides = {"Buy", "Sell"}
  BY DEF Sides
<1>2. \A s \in Sides : \A x, y \in engine.orders[s] : x.id = y.id => x = y
  BY DEF IInv, SoundEngine
<1>3. ASSUME NEW x \in engine.orders["Buy"], NEW y \in engine.orders["Sell"]
      PROVE  x.id # y.id
  <2>1. PICK v \in submitted : v.id = x.id /\ v.side = "Buy"
    BY <1>1 DEF IInv, OpenWasSubmitted
  <2>2. PICK w \in submitted : w.id = y.id /\ w.side = "Sell"
    BY <1>1 DEF IInv, OpenWasSubmitted
  <2>3. QED
    BY <2>1, <2>2 DEF IInv, SubmittedOK
<1>4. QED
  BY <1>1, <1>2, <1>3 DEF OpenOnce

(* The engine takes an order up on a side only if its id is open on none.  *)
LEMMA TakenIsNotOpen ==
    ASSUME IInv, NEW o \in OpenOrder, CanDeliver(o), ~ContainsKey(engine.orders[o.side], o.id)
    PROVE  \A s \in Sides : ~ContainsKey(engine.orders[s], o.id)
<1> SUFFICES ASSUME NEW s \in Sides, NEW x \in engine.orders[s], x.id = o.id PROVE FALSE
  BY DEF ContainsKey
<1>1. PICK y \in submitted : y.id = x.id /\ y.side = s
  BY DEF IInv, OpenWasSubmitted
<1>2. y = o
  BY <1>1 DEF IInv, SubmittedOK, CanDeliver
<1>3. QED
  BY <1>1, <1>2 DEF ContainsKey

(* An order of the book was taken up before.                               *)
LEMMA DuplicateWasSubmitted ==
    ASSUME IInv, NEW o \in OpenOrder, CanDeliver(o), ContainsKey(engine.orders[o.side], o.id)
    PROVE  o \in submitted
<1>1. o.side \in Sides
  BY OpenOrderFacts, OrderFacts
<1>2. PICK x \in engine.orders[o.side] : x.id = o.id
  BY DEF ContainsKey
<1>3. PICK y \in submitted : y.id = o.id
  BY <1>1, <1>2 DEF IInv, OpenWasSubmitted
<1>4. QED
  BY <1>3 DEF CanDeliver

(* An order once more: its quantity counts once more.                      *)
LEMMA OnceMore ==
    ASSUME NEW a \in Nat, NEW q \in Nat
    PROVE  (a + 1) * q = a * q + q
OBVIOUS

(* Nothing is open of an id nobody has used.                               *)
LEMMA UnusedIsNotOpen ==
    ASSUME IInv, NEW id, \A p \in submitted : p.id # id
    PROVE  LeftOpen(engine, id) = 0
<1>1. \A s \in Sides : \A x \in engine.orders[s] : x.id # id
  BY DEF IInv, OpenWasSubmitted
<1>2. QED
  BY <1>1, OneIsOpen, LeftOpenFacts

(* Every delivery keeps the accounts: a duplicate of an open order changes *)
(* nothing, and the call for any other keeps the accounts of all orders.   *)
LEMMA StepAccounts ==
    ASSUME IInv, Accounts, NEW o \in OpenOrder, CanDeliver(o), Deliver(o)
    PROVE  Accounts'
<1>1. submitted' = submitted \cup {o} /\ SubmittedOK'
  BY SubmittedStep
<1>2. o.id \in OrderIds /\ o.qty \in Nat /\ o.filled = 0
  BY OpenOrderFacts, OrderFacts DEF CanDeliver
<1>3. CASE ContainsKey(engine.orders[o.side], o.id)
  <2>1. engine' = engine /\ log' = log /\ accepted' = accepted
    BY <1>3, EngineStep DEF Deliver
  <2>2. submitted' = submitted
    BY <1>1, <1>3, DuplicateWasSubmitted
  <2>3. QED
    BY <2>1, <2>2 DEF Accounts, Filled
<1>4. CASE ~ContainsKey(engine.orders[o.side], o.id)
  <2>1. PICK r \in Results(engine, o) : engine' = r.engine /\ log' = log \o r.trades
    BY <1>4, EngineStep
  <2>2. accepted' = [accepted EXCEPT ![o.id] = @ + 1] /\ accepted \in [OrderIds -> Nat]
    BY <1>4 DEF Deliver, IInv, TypeOK
  <2>3. \A s \in Sides : ~ContainsKey(engine.orders[s], o.id)
    BY <1>4, TakenIsNotOpen
  <2>4. SoundEngine(engine) /\ OpenOnce(engine) /\ log \in Seq(Trade)
    BY OneIsOpen DEF IInv, TypeOK
  <2>5. SoundEngine(r.engine) /\ r.trades \in Seq(Trade) /\ OpenOnce(r.engine)
    <3>1. o.side \in Sides
      BY OpenOrderFacts, OrderFacts
    <3>2. QED
      BY <1>4, <2>3, <2>4, <3>1, ResultsSound, CallOpensOnce
  <2> DEFINE new(id) == Total(FillsOf(id, r.trades))
  <2>6. \A id : /\ LeftOpen(engine', id) + new(id)
                      = LeftOpen(engine, id) + (IF id = o.id THEN RemainingQuantity(o) ELSE 0)
                /\ LeftOpen(engine', id) \in Nat /\ LeftOpen(engine, id) \in Nat
    BY <2>1, <2>3, <2>4, <2>5, CallAccounts, LeftOpenType
  <2>7. \A id : /\ Filled(id)' = Filled(id) + new(id)
                /\ Filled(id) \in Nat /\ new(id) \in Nat
    BY <2>1, <2>4, <2>5, TotalFills DEF Filled
  <2>8. RemainingQuantity(o) = o.qty
    BY <1>2 DEF RemainingQuantity
  <2> HIDE DEF new
  <2>9. accepted[o.id] * o.qty = Filled(o.id) + LeftOpen(engine, o.id)
    <3>1. CASE o \in submitted
      BY <3>1 DEF Accounts
    <3>2. CASE \A p \in submitted : p.id # o.id
      <4>1. accepted[o.id] = 0 /\ Filled(o.id) = 0
        BY <1>2, <3>2 DEF Accounts
      <4>2. LeftOpen(engine, o.id) = 0
        BY <3>2, UnusedIsNotOpen
      <4>3. QED
        BY <1>2, <4>1, <4>2
    <3>3. QED
      BY <3>1, <3>2 DEF CanDeliver
  <2>10. ASSUME NEW p \in submitted'
         PROVE  accepted'[p.id] * p.qty = Filled(p.id)' + LeftOpen(engine', p.id)
    <3>1. CASE p.id = o.id
      <4>1. p = o
        BY <1>1, <3>1 DEF SubmittedOK
      <4>2. accepted'[o.id] = accepted[o.id] + 1 /\ accepted[o.id] \in Nat
        BY <1>2, <2>2
      <4>3. accepted'[o.id] * o.qty = accepted[o.id] * o.qty + o.qty
        BY <1>2, <4>2, OnceMore
      <4>4. LeftOpen(engine', o.id) + new(o.id) = LeftOpen(engine, o.id) + o.qty
        BY <2>6, <2>8
      <4>5. Filled(o.id)' = Filled(o.id) + new(o.id)
        BY <2>7
      <4>6. accepted'[o.id] * o.qty = Filled(o.id) + LeftOpen(engine, o.id) + o.qty
        BY <2>9, <4>3
      <4>7. /\ Filled(o.id) \in Nat /\ new(o.id) \in Nat
            /\ LeftOpen(engine, o.id) \in Nat /\ LeftOpen(engine', o.id) \in Nat
        BY <2>6, <2>7
      <4>8. accepted'[o.id] * o.qty = Filled(o.id)' + LeftOpen(engine', o.id)
        BY <1>2, <4>4, <4>5, <4>6, <4>7
      <4>9. QED
        BY <4>1, <4>8
    <3>2. CASE p.id # o.id
      <4>1. p \in submitted /\ p.id \in OrderIds
        BY <1>1, <3>2, OrderFacts DEF IInv, TypeOK
      <4>2. accepted'[p.id] = accepted[p.id]
        BY <2>2, <3>2, <4>1
      <4>3. accepted[p.id] * p.qty = Filled(p.id) + LeftOpen(engine, p.id)
        BY <4>1 DEF Accounts
      <4>4. LeftOpen(engine', p.id) + new(p.id) = LeftOpen(engine, p.id) + 0
        BY <2>6, <3>2
      <4>5. /\ Filled(p.id)' = Filled(p.id) + new(p.id)
            /\ Filled(p.id) \in Nat /\ new(p.id) \in Nat
            /\ LeftOpen(engine, p.id) \in Nat /\ LeftOpen(engine', p.id) \in Nat
        BY <2>6, <2>7
      <4>6. Filled(p.id) + LeftOpen(engine, p.id) = Filled(p.id)' + LeftOpen(engine', p.id)
        BY <4>4, <4>5
      <4>7. QED
        BY <4>2, <4>3, <4>6
    <3>3. QED
      BY <3>1, <3>2
  <2>11. ASSUME NEW id \in OrderIds, \A p \in submitted' : p.id # id
         PROVE  accepted'[id] = 0 /\ Filled(id)' = 0
    <3>1. id # o.id /\ \A p \in submitted : p.id # id
      BY <1>1, <2>11
    <3>2. accepted[id] = 0 /\ Filled(id) = 0 /\ LeftOpen(engine, id) = 0
      BY <3>1, UnusedIsNotOpen DEF Accounts
    <3>3. LeftOpen(engine', id) + new(id) = LeftOpen(engine, id) + 0
      BY <2>6, <3>1
    <3>4. new(id) = 0
      BY <2>6, <2>7, <3>2, <3>3
    <3>5. Filled(id)' = 0
      BY <2>7, <3>2, <3>4
    <3>6. accepted'[id] = accepted[id]
      BY <2>2, <3>1
    <3>7. QED
      BY <3>2, <3>5, <3>6
  <2>12. QED
    BY <2>10, <2>11 DEF Accounts
<1>5. QED
  BY <1>3, <1>4

(* The accounts are kept.                                                  *)
LEMMA KeptAccounts == Spec => []Accounts
<1>1. Init => Accounts
  <2> SUFFICES ASSUME Init PROVE Accounts
    OBVIOUS
  <2>1. \A id : FillsOf(id, log) = << >>
    BY DEF Init, FillsOf
  <2>2. \A id : Filled(id) = 0
    <3>1. Len(<< >>) = 0
      OBVIOUS
    <3>2. QED
      BY <2>1, <3>1, TotalZero DEF Filled
  <2>3. QED
    BY <2>2 DEF Init, Accounts
<1>2. IInv /\ Accounts /\ [Next]_vars => Accounts'
  <2> SUFFICES ASSUME IInv, Accounts, [Next]_vars PROVE Accounts'
    OBVIOUS
  <2>1. CASE Next
    BY <2>1, NextDelivers, StepAccounts
  <2>2. CASE UNCHANGED vars
    BY <2>2 DEF vars, Accounts, Filled
  <2>3. QED
    BY <2>1, <2>2
<1>3. QED
  BY <1>1, <1>2, Invariance, PTL DEF Spec

(* The book agrees with the events, however orders are repeated: of every  *)
(* order the fills and what is open add up to what it was accepted for.    *)
THEOREM BookAgreesWithFills == Spec => []FillsAccountForAcceptances
<1>1. IInv /\ Accounts => FillsAccountForAcceptances
  <2> SUFFICES ASSUME IInv, Accounts, NEW o \in submitted
               PROVE  LET open == {x \in OpenOrders : x.id = o.id} IN
                      /\ Cardinality(open) <= 1
                      /\ \A x \in open : RemainingQuantity(x) \in 1 .. o.qty
                      /\ accepted[o.id] * o.qty = Filled(o.id) + LeftOpen(engine, o.id)
    BY DEF FillsAccountForAcceptances
  <2> DEFINE open == {x \in OpenOrders : x.id = o.id}
  <2>1. \A x, y \in open : x = y
    BY OneIsOpen DEF OpenOnce, OpenOrders
  <2>2. Cardinality(open) <= 1
    <3>1. CASE open = {}
      <4>1. Cardinality({}) = 0
        BY FS_EmptySet
      <4>2. QED
        BY <3>1, <4>1
    <3>2. CASE open # {}
      <4>1. PICK x : x \in open
        BY <3>2
      <4>2. open = {x}
        BY <2>1, <4>1
      <4>3. Cardinality({x}) = 1
        BY FS_Singleton
      <4>4. QED
        BY <4>2, <4>3
    <3>3. QED
      BY <3>1, <3>2
  <2>3. ASSUME NEW x \in open PROVE RemainingQuantity(x) \in 1 .. o.qty
    <3>1. PICK s \in Sides : x \in engine.orders[s]
      BY DEF OpenOrders, Sides
    <3>2. PICK y \in submitted : y.id = x.id /\ y.qty = x.qty
      BY <3>1 DEF IInv, OpenWasSubmitted
    <3>3. y = o
      BY <3>2 DEF IInv, SubmittedOK
    <3>4. x \in OpenOrder
      BY <3>1 DEF IInv, SoundEngine
    <3>5. x.filled \in Nat /\ x.qty \in Nat /\ x.filled < x.qty /\ x.qty = o.qty
      BY <3>2, <3>3, <3>4, OpenOrderFacts, OrderFacts DEF OpenOrder
    <3>6. QED
      BY <3>5 DEF RemainingQuantity
  <2>4. accepted[o.id] * o.qty = Filled(o.id) + LeftOpen(engine, o.id)
    BY DEF Accounts
  <2>5. QED
    BY <2>2, <2>3, <2>4
<1>2. QED
  BY <1>1, Invariance, KeptAccounts, PTL
=============================================================================
