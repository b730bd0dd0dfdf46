--------------------------- MODULE TradingProofs ---------------------------
(***************************************************************************)
(* What holds of the traders around an order book for any number of them   *)
(* and any orders: the types; that the fills they have counted are in the  *)
(* journal, theirs, and counted once; and that they never count more than  *)
(* an order had, since the journal keeps a ledger of every order           *)
(* submitted. The first two follow from one inductive invariant, the last  *)
(* from the ledger on top of it. From both, and from what traders do       *)
(* before they send: that nothing of a trade is forgotten without a fault, *)
(* so that a trade is settled when all is at rest.                         *)
(***************************************************************************)
EXTENDS Trading, CallProofs

(* The operators of the order book's module are the ones of this module.   *)
LEMMA SameOperators ==
    /\ \A e, o : Book!WithOrder(e, o) = WithOrder(e, o)
    /\ Book!NewEngine = NewEngine
    /\ \A o, trades : Book!PersistableEvents(o, trades) = PersistableEvents(o, trades)
<1>1. \A e, o : Book!WithOrder(e, o) = WithOrder(e, o)
  BY DEF Book!WithOrder, WithOrder, Book!ContainsKey, ContainsKey,
         Book!Results, Results, Book!Opposite, Opposite, Book!Rested, Rested,
         Book!UpdateOrders, UpdateOrders, Book!Put, Put,
         Book!Reindexed, Reindexed, Book!PriceIndexes, PriceIndexes,
         Book!PriceLevels, PriceLevels, Book!Traces, Traces,
         Book!RemainingQuantity, RemainingQuantity, Book!HasMatches, HasMatches,
         Book!Offered, Offered, Book!Total, Total,
         Book!Match, Match, Book!Lesser, Lesser, Book!TradesOf, TradesOf,
         Book!Hits, Hits, Book!FillOrders, FillOrders, Book!Min, Min,
         Book!WithFill, WithFill, Book!Completed, Completed,
         Book!Sides, Sides, Book!Cardinality, Cardinality
<1>2. Book!NewEngine = NewEngine
  BY DEF Book!NewEngine, NewEngine, Book!Sides, Sides
<1>3. \A o, trades : Book!PersistableEvents(o, trades) = PersistableEvents(o, trades)
  BY DEF Book!PersistableEvents, PersistableEvents, Book!EventsOf, EventsOf,
         Book!OrderEvent, OrderEvent, Book!FillEvent, FillEvent,
         Book!MatchEvent, MatchEvent
<1>4. QED
  BY <1>1, <1>2, <1>3

-----------------------------------------------------------------------------
(* The invariant *)

(* The event that is due comes after all that are published, and they are  *)
(* in the journal.                                                         *)
PublishedBeforeDue ==
    /\ 0 \notin DOMAIN journal
    /\ \A i \in DOMAIN published :
          published[i] \in DOMAIN journal /\ (due # 0 => published[i] < due)

(* What is on its way to a trader are published fills it has not counted.  *)
MailIsNew ==
    \A t \in Traders : \A n \in mail[t] :
        /\ n \in FillNumbers /\ n \in Range(published)
        /\ \A i \in DOMAIN fills[t] : fills[t][i] # n

IInv ==
    /\ TypeOK
    /\ SoundEngine(book)
    /\ PublishedBeforeDue
    /\ MailIsNew
    /\ FillsAreJournaled

(* Sound engines are engines.                                              *)
LEMMA SoundEngineType ==
    ASSUME NEW e, SoundEngine(e)
    PROVE  e \in Engine
<1>1. OpenOrder \subseteq Order
  BY DEF OpenOrder
<1>2. e \in [orders : [Sides -> SUBSET OpenOrder], index : [Sides -> Seq(OpenOrder)]]
  BY DEF SoundEngine
<1>3. \A side \in Sides : e.index[side] \in Seq(Order)
  BY <1>1, <1>2
<1>4. e.orders \in [Sides -> SUBSET Order] /\ e.index \in [Sides -> Seq(Order)]
  BY <1>1, <1>2, <1>3
<1>5. QED
  BY <1>2, <1>4 DEF Engine

(* Nothing has been traded yet.                                            *)
LEMMA InitIInv == Init => IInv
<1> SUFFICES ASSUME Init PROVE IInv
  OBVIOUS
<1>1. /\ journal = << >> /\ book = NewEngine /\ intact = TRUE /\ confirmed = {}
      /\ published = << >> /\ due = 0
      /\ trading = {} /\ registered = {} /\ sent = {} /\ underWay = {}
      /\ mail = [t \in Traders |-> {}] /\ fills = [t \in Traders |-> << >>] /\ faulty = FALSE
  BY SameOperators DEF Init, Book!Init
<1>2. SoundEngine(book) /\ book \in Engine
  BY <1>1, NewEngineSound, SoundEngineType
<1>3. mail \in [Traders -> SUBSET Nat] /\ fills \in [Traders -> Seq(Nat)]
  BY <1>1, EmptySeq
<1>4. TypeOK
  <2>1. DOMAIN journal = {}
    BY <1>1
  <2>2. published \in Seq(Nat)
    BY <1>1, EmptySeq
  <2>3. /\ intact \in BOOLEAN /\ faulty \in BOOLEAN /\ due \in Nat
        /\ confirmed \subseteq OrderIds /\ trading \subseteq Traders
        /\ registered \subseteq Traders /\ sent \subseteq Orders /\ underWay \subseteq Orders
    BY <1>1
  <2>4. QED
    BY <1>2, <1>3, <2>1, <2>2, <2>3 DEF TypeOK
<1>5. PublishedBeforeDue /\ MailIsNew /\ FillsAreJournaled
  BY <1>1 DEF PublishedBeforeDue, MailIsNew, FillsAreJournaled
<1>6. QED
  BY <1>2, <1>4, <1>5 DEF IInv

-----------------------------------------------------------------------------
(* The traders *)

(* Subscribing and sending change nothing about fills.                     *)
LEMMA TraderIInv ==
    ASSUME IInv, NEW t \in Traders, Subscribe(t) \/ SubscribeFails(t) \/ Send(t)
    PROVE  IInv'
<1>1. UNCHANGED <<journal, book, intact, confirmed, published, due, fills, mail, faulty>>
  BY DEF Subscribe, SubscribeFails, Send, bookVars, traderVars
<1>2. /\ trading' \subseteq Traders /\ registered' \subseteq Traders
      /\ sent \subseteq sent' /\ sent' \subseteq Orders /\ underWay' \subseteq Orders
  <2>1. \A o \in OrdersOf[t] : o \in Orders
    BY OrdersOfAssumption
  <2>2. trading \subseteq Traders /\ registered \subseteq Traders
        /\ sent \subseteq Orders /\ underWay \subseteq Orders
    BY DEF IInv, TypeOK
  <2>3. CASE Subscribe(t) \/ SubscribeFails(t)
    BY <2>2, <2>3 DEF Subscribe, SubscribeFails, traderVars
  <2>4. CASE Send(t)
    BY <2>1, <2>2, <2>4 DEF Send
  <2>5. QED
    BY <2>3, <2>4
<1>3. TypeOK'
  BY <1>1, <1>2 DEF IInv, TypeOK
<1>4. \A u \in Traders : OwnIds(u) \subseteq OwnIds(u)'
  BY <1>2 DEF OwnIds, Own
<1>5. FillNumbers' = FillNumbers
  BY <1>1 DEF FillNumbers
<1>6. PublishedBeforeDue' /\ MailIsNew'
  BY <1>1, <1>5 DEF IInv, PublishedBeforeDue, MailIsNew
<1>7. FillsAreJournaled'
  BY <1>1, <1>4, <1>5 DEF IInv, FillsAreJournaled
<1>8. QED
  BY <1>1, <1>3, <1>6, <1>7 DEF IInv

(* A fill is taken out of the mail, and counted if it is the trader's.     *)
LEMMA TakeFillIInv ==
    ASSUME IInv, NEW t \in Traders, TakeFill(t)
    PROVE  IInv'
<1>1. PICK n \in mail[t] :
         /\ mail' = [mail EXCEPT ![t] = @ \ {n}]
         /\ fills' = [fills EXCEPT ![t] = IF t \in trading /\ journal[n].id \in OwnIds(t)
                                           THEN Append(@, n) ELSE @]
  BY DEF TakeFill
<1>2. UNCHANGED <<journal, book, intact, confirmed, published, due, trading, sent, registered,
                  underWay, faulty>>
  BY DEF TakeFill, bookVars
<1>3. mail \in [Traders -> SUBSET Nat] /\ fills \in [Traders -> Seq(Nat)]
  BY DEF IInv, TypeOK
<1>4. /\ n \in Nat /\ n \in FillNumbers /\ n \in Range(published)
      /\ \A i \in DOMAIN fills[t] : fills[t][i] # n
  BY <1>1, <1>3 DEF IInv, MailIsNew
<1>5. \/ fills'[t] = fills[t]
      \/ fills'[t] = Append(fills[t], n) /\ journal[n].id \in OwnIds(t)
  BY <1>1, <1>3
<1>6. \A u \in Traders : u # t => fills'[u] = fills[u] /\ mail'[u] = mail[u]
  BY <1>1, <1>3
<1>7. mail'[t] = mail[t] \ {n}
  BY <1>1, <1>3
<1>8. fills[t] \in Seq(Nat) /\ Len(fills[t]) \in Nat /\ DOMAIN fills[t] = 1 .. Len(fills[t])
  BY <1>3
<1>9. fills'[t] = Append(fills[t], n) =>
         /\ fills'[t] \in Seq(Nat)
         /\ DOMAIN fills'[t] = 1 .. Len(fills[t]) + 1
         /\ \A i \in 1 .. Len(fills[t]) : fills'[t][i] = fills[t][i]
         /\ fills'[t][Len(fills[t]) + 1] = n
  BY <1>4, <1>8, AppendProperties
<1>10. fills' \in [Traders -> Seq(Nat)] /\ mail' \in [Traders -> SUBSET Nat]
  <2>1. fills'[t] \in Seq(Nat)
    BY <1>5, <1>8, <1>9
  <2>2. DOMAIN fills' = Traders /\ fills' = [u \in Traders |-> fills'[u]]
    BY <1>1, <1>3
  <2>3. \A u \in Traders : fills'[u] \in Seq(Nat)
    BY <1>3, <1>6, <2>1
  <2>4. QED
    BY <1>1, <1>3, <2>2, <2>3
<1>11. TypeOK'
  BY <1>2, <1>10 DEF IInv, TypeOK
<1>12. FillNumbers' = FillNumbers /\ \A u : OwnIds(u)' = OwnIds(u)
  BY <1>2 DEF FillNumbers, OwnIds, Own
<1>13. PublishedBeforeDue'
  BY <1>2 DEF IInv, PublishedBeforeDue
<1>14. MailIsNew'
  <2> SUFFICES ASSUME NEW u \in Traders, NEW k \in mail'[u]
               PROVE  /\ k \in FillNumbers' /\ k \in Range(published')
                      /\ \A i \in DOMAIN fills'[u] : fills'[u][i] # k
    BY DEF MailIsNew
  <2>1. k \in mail[u] /\ (u = t => k # n)
    BY <1>6, <1>7
  <2>2. k \in FillNumbers /\ k \in Range(published) /\ \A i \in DOMAIN fills[u] : fills[u][i] # k
    BY <2>1 DEF IInv, MailIsNew
  <2>3. \A i \in DOMAIN fills'[u] : fills'[u][i] # k
    <3>1. CASE u # t
      BY <1>6, <2>2, <3>1
    <3>2. CASE u = t /\ fills'[t] = fills[t]
      BY <2>2, <3>2
    <3>3. CASE u = t /\ fills'[t] = Append(fills[t], n)
      <4>1. \A i \in 1 .. Len(fills[t]) + 1 : i \in 1 .. Len(fills[t]) \/ i = Len(fills[t]) + 1
        BY <1>8
      <4>2. QED
        BY <1>8, <1>9, <2>1, <2>2, <3>3, <4>1
    <3>4. QED
      BY <1>5, <3>1, <3>2, <3>3
  <2>4. QED
    BY <1>2, <1>12, <2>2, <2>3
<1>15. FillsAreJournaled'
  <2>1. \A u \in Traders :
           /\ \A i \in DOMAIN fills[u] :
                 /\ fills[u][i] \in FillNumbers
                 /\ journal[fills[u][i]].id \in OwnIds(u)
                 /\ fills[u][i] \in Range(published)
           /\ \A i, j \in DOMAIN fills[u] : fills[u][i] = fills[u][j] => i = j
    BY DEF IInv, FillsAreJournaled
  <2>2. ASSUME NEW u \in Traders
        PROVE  /\ \A i \in DOMAIN fills'[u] :
                     /\ fills'[u][i] \in FillNumbers
                     /\ journal[fills'[u][i]].id \in OwnIds(u)
                     /\ fills'[u][i] \in Range(published)
               /\ \A i, j \in DOMAIN fills'[u] : fills'[u][i] = fills'[u][j] => i = j
    <3>1. CASE u # t
      BY <1>6, <2>1, <3>1
    <3>2. CASE u = t /\ fills'[t] = fills[t]
      BY <2>1, <3>2
    <3>3. CASE u = t /\ fills'[t] # fills[t]
      <4>1. fills'[t] = Append(fills[t], n) /\ journal[n].id \in OwnIds(t)
        BY <1>5, <3>3
      <4>2. \A i \in DOMAIN fills'[t] :
               \/ i \in DOMAIN fills[t] /\ fills'[t][i] = fills[t][i]
               \/ i = Len(fills[t]) + 1 /\ fills'[t][i] = n
        BY <1>8, <1>9, <4>1
      <4>3. QED
        BY <1>4, <2>1, <3>3, <4>1, <4>2
    <3>4. QED
      BY <3>1, <3>2, <3>3
  <2>3. QED
    BY <1>2, <1>12, <2>2 DEF FillsAreJournaled
<1>16. QED
  BY <1>2, <1>11, <1>13, <1>14, <1>15 DEF IInv

-----------------------------------------------------------------------------
(* The order book and the messages *)

(* Fills stay the traders' as long as the journal keeps its events.        *)
LEMMA FillsStay ==
    ASSUME FillsAreJournaled, fills' = fills, sent' = sent,
           \A n \in DOMAIN journal : n \in DOMAIN journal' /\ journal'[n] = journal[n],
           Range(published) \subseteq Range(published')
    PROVE  FillsAreJournaled'
<1>1. FillNumbers \subseteq FillNumbers' /\ \A n \in FillNumbers : journal'[n] = journal[n]
  BY DEF FillNumbers
<1>2. \A t : OwnIds(t)' = OwnIds(t)
  BY DEF OwnIds, Own
<1>3. QED
  BY <1>1, <1>2 DEF FillsAreJournaled

(* An order is placed: the journal grows, what it held stays.              *)
LEMMA PlaceFacts ==
    ASSUME TypeOK, SoundEngine(book), NEW o \in Orders, Book!Place(o)
    PROVE  /\ due' \in Nat /\ due' > 0 /\ \A n \in DOMAIN journal : n < due'
           /\ DOMAIN journal' \subseteq Nat /\ (0 \notin DOMAIN journal => 0 \notin DOMAIN journal')
           /\ \A n \in DOMAIN journal : n \in DOMAIN journal' /\ journal'[n] = journal[n]
           /\ \A n \in DOMAIN journal' : journal'[n] \in TradeEvent
           /\ SoundEngine(book')
           /\ UNCHANGED <<intact, confirmed, published>>
<1>1. /\ due' \in Nat /\ due' > 0 /\ \A n \in DOMAIN journal : n < due'
      /\ UNCHANGED <<intact, confirmed, published>>
  BY DEF Book!Place
<1>2. PICK r \in WithOrder(book, o) :
         /\ journal' = Book!Extended(due', PersistableEvents(o, r.trades))
         /\ book' = r.engine
  BY SameOperators DEF Book!Place
<1>3. SoundEngine(r.engine) /\ r.trades \in Seq(Trade)
  BY <1>2, OrdersAreOpen, CallFacts
<1> DEFINE b == PersistableEvents(o, r.trades)
<1>4. b \in Seq(TradeEvent) /\ Len(b) \in Nat
  BY <1>3, BatchFacts
<1> HIDE DEF b
<1>5. journal' = [n \in DOMAIN journal \cup due' .. due' + Len(b) - 1 |->
                    IF n \in DOMAIN journal THEN journal[n] ELSE b[n - due' + 1]]
  BY <1>2 DEF Book!Extended, b
<1>6. \A n \in due' .. due' + Len(b) - 1 : n \in Nat /\ b[n - due' + 1] \in TradeEvent
  <2> SUFFICES ASSUME NEW n \in due' .. due' + Len(b) - 1
               PROVE  n \in Nat /\ b[n - due' + 1] \in TradeEvent
    OBVIOUS
  <2>0. due' \in Nat /\ Len(b) \in Nat
    BY <1>1, <1>4
  <2>1. n \in Nat /\ n - due' + 1 \in 1 .. Len(b)
    <3>1. \A d \in Nat, l \in Nat : \A k \in d .. d + l - 1 : k \in Nat /\ k - d + 1 \in 1 .. l
      OBVIOUS
    <3>2. QED
      BY <2>0, <3>1
  <2>2. QED
    BY <1>4, <2>1
<1>7. DOMAIN journal \subseteq Nat /\ \A n \in DOMAIN journal : journal[n] \in TradeEvent
  BY DEF TypeOK
<1>8. /\ DOMAIN journal' \subseteq Nat
      /\ \A n \in DOMAIN journal : n \in DOMAIN journal' /\ journal'[n] = journal[n]
      /\ \A n \in DOMAIN journal' : journal'[n] \in TradeEvent
  <2> DEFINE new == due' .. due' + Len(b) - 1
  <2>1. DOMAIN journal' = DOMAIN journal \cup new
    BY <1>5
  <2>2. \A n \in new : n \in Nat /\ n # 0 /\ b[n - due' + 1] \in TradeEvent
    BY <1>1, <1>4, <1>6
  <2>3. \A n \in DOMAIN journal' :
           journal'[n] = IF n \in DOMAIN journal THEN journal[n] ELSE b[n - due' + 1]
    BY <1>5
  <2> HIDE DEF new
  <2>4. QED
    BY <1>7, <2>1, <2>2, <2>3
<1>9. QED
  BY <1>1, <1>2, <1>3, <1>8

(* An order reaches the book.                                              *)
LEMMA ArriveIInv ==
    ASSUME IInv, Arrive
    PROVE  IInv'
<1>1. PICK o \in underWay : Book!Place(o) /\ underWay' = underWay \ {o}
  BY DEF Arrive
<1>2. UNCHANGED <<trading, sent, fills, registered, mail, faulty>>
  BY DEF Arrive, traderVars
<1>3. o \in Orders
  BY <1>1 DEF IInv, TypeOK
<1>4. /\ due' \in Nat /\ due' > 0 /\ \A n \in DOMAIN journal : n < due'
      /\ DOMAIN journal' \subseteq Nat /\ (0 \notin DOMAIN journal => 0 \notin DOMAIN journal')
      /\ \A n \in DOMAIN journal : n \in DOMAIN journal' /\ journal'[n] = journal[n]
      /\ \A n \in DOMAIN journal' : journal'[n] \in TradeEvent
      /\ SoundEngine(book')
      /\ UNCHANGED <<intact, confirmed, published>>
  BY <1>1, <1>3, PlaceFacts DEF IInv
<1>5. TypeOK'
  <2>1. book' \in Engine
    BY <1>4, SoundEngineType
  <2>2. underWay' \subseteq Orders
    BY <1>1 DEF IInv, TypeOK
  <2>3. QED
    BY <1>2, <1>4, <2>1, <2>2 DEF IInv, TypeOK
<1>6. PublishedBeforeDue'
  BY <1>4 DEF IInv, PublishedBeforeDue
<1>7. FillNumbers \subseteq FillNumbers'
  BY <1>4 DEF FillNumbers
<1>8. MailIsNew'
  BY <1>2, <1>4, <1>7 DEF IInv, MailIsNew
<1>9. FillsAreJournaled'
  BY <1>2, <1>4, FillsStay DEF IInv
<1>10. QED
  BY <1>4, <1>5, <1>6, <1>8, <1>9 DEF IInv

(* A handler of the book runs, and a fill is passed on.                    *)
LEMMA HandleIInv ==
    ASSUME IInv, Handle
    PROVE  IInv'
<1>1. /\ due \in DOMAIN journal
      /\ published' = Append(published, due)
      /\ due' = IF due + 1 \in DOMAIN journal THEN due + 1 ELSE 0
      /\ UNCHANGED <<journal, book, intact>>
  BY DEF Handle, Book!Handle
<1>2. confirmed' = IF journal[due].type = "Order"
                   THEN confirmed \cup {journal[due].order.id} ELSE confirmed
  BY DEF Handle, Book!Handle
<1>3. /\ mail' = IF journal[due].type = "Fill"
                 THEN [t \in Traders |->
                         IF t \in registered THEN mail[t] \cup {due} ELSE mail[t]]
                 ELSE mail
      /\ UNCHANGED <<trading, sent, fills, registered, underWay, faulty>>
  BY DEF Handle, traderVars
<1>4. due \in Nat /\ published \in Seq(Nat) /\ Len(published) \in Nat
      /\ DOMAIN published = 1 .. Len(published)
  BY DEF IInv, TypeOK
<1>5. /\ published' \in Seq(Nat)
      /\ DOMAIN published' = 1 .. Len(published) + 1
      /\ \A i \in 1 .. Len(published) : published'[i] = published[i]
      /\ published'[Len(published) + 1] = due
  BY <1>1, <1>4, AppendProperties
<1>6. Range(published') = Range(published) \cup {due}
  <2>1. \A i \in DOMAIN published' :
           \/ i \in DOMAIN published /\ published'[i] = published[i]
           \/ published'[i] = due
    BY <1>4, <1>5
  <2>2. \A i \in DOMAIN published : i \in DOMAIN published' /\ published'[i] = published[i]
    BY <1>4, <1>5
  <2>3. Len(published) + 1 \in DOMAIN published'
    BY <1>4, <1>5
  <2>4. QED
    BY <1>5, <2>1, <2>2, <2>3 DEF Range
<1>7. TypeOK'
  <2>1. confirmed' \subseteq OrderIds
    <3>1. journal[due] \in TradeEvent /\ confirmed \subseteq OrderIds
      BY <1>1 DEF IInv, TypeOK
    <3>2. journal[due].type = "Order" => journal[due].order \in Orders
      BY <3>1 DEF TradeEvent
    <3>3. \A o \in Orders : o.id \in OrderIds
      BY OrdersAssumption, OrderFacts
    <3>4. QED
      BY <1>2, <3>1, <3>2, <3>3
  <2>2. mail' \in [Traders -> SUBSET Nat]
    BY <1>3, <1>4 DEF IInv, TypeOK
  <2>3. due' \in Nat
    BY <1>1, <1>4
  <2>4. QED
    BY <1>1, <1>3, <1>5, <2>1, <2>2, <2>3 DEF IInv, TypeOK
<1>8. PublishedBeforeDue'
  <2> SUFFICES ASSUME NEW i \in DOMAIN published'
               PROVE  published'[i] \in DOMAIN journal /\ (due' # 0 => published'[i] < due')
    BY <1>1 DEF IInv, PublishedBeforeDue
  <2>1. due' # 0 => due' = due + 1
    BY <1>1
  <2>2. CASE published'[i] = due
    BY <1>1, <1>4, <2>1, <2>2
  <2>3. CASE published'[i] # due
    <3>1. i \in DOMAIN published /\ published'[i] = published[i] /\ published[i] \in Nat
      BY <1>4, <1>5, <2>3
    <3>2. published[i] \in DOMAIN journal /\ (due # 0 => published[i] < due)
      BY <3>1 DEF IInv, PublishedBeforeDue
    <3>3. due # 0
      BY <1>1 DEF IInv, PublishedBeforeDue
    <3>4. QED
      BY <1>4, <2>1, <3>1, <3>2, <3>3
  <2>4. QED
    BY <2>2, <2>3
<1>9. FillNumbers' = FillNumbers
  BY <1>1 DEF FillNumbers
<1>10. MailIsNew'
  <2> SUFFICES ASSUME NEW t \in Traders, NEW n \in mail'[t]
               PROVE  /\ n \in FillNumbers /\ n \in Range(published')
                      /\ \A i \in DOMAIN fills[t] : fills[t][i] # n
    BY <1>3, <1>9 DEF MailIsNew
  <2>1. n \in mail[t] \/ (n = due /\ journal[due].type = "Fill")
    BY <1>3
  <2>2. CASE n \in mail[t]
    BY <1>6, <2>2 DEF IInv, MailIsNew
  <2>3. CASE n = due /\ journal[due].type = "Fill"
    <3>1. n \in FillNumbers /\ n \in Range(published')
      BY <1>1, <1>6, <2>3 DEF FillNumbers
    <3>2. due \notin Range(published)
      BY <1>1, <1>4 DEF Range, IInv, PublishedBeforeDue
    <3>3. \A i \in DOMAIN fills[t] : fills[t][i] \in Range(published)
      BY DEF IInv, FillsAreJournaled
    <3>4. QED
      BY <2>3, <3>1, <3>2, <3>3
  <2>4. QED
    BY <2>1, <2>2, <2>3
<1>11. FillsAreJournaled'
  BY <1>1, <1>3, <1>6, FillsStay DEF IInv
<1>12. QED
  BY <1>1, <1>7, <1>8, <1>10, <1>11 DEF IInv

(* Something is lost.                                                      *)
LEMMA LoseIInv ==
    ASSUME IInv, Lose
    PROVE  IInv'
<1>1. UNCHANGED <<journal, book, intact, confirmed, published, due, trading, sent, fills,
                  registered>> /\ faulty' = TRUE
  BY DEF Lose, bookVars, traderVars
<1>2. /\ underWay' \subseteq Orders /\ mail' \in [Traders -> SUBSET Nat]
      /\ \A t \in Traders : mail'[t] \subseteq mail[t]
  BY DEF Lose, IInv, TypeOK
<1>3. TypeOK'
  BY <1>1, <1>2 DEF IInv, TypeOK
<1>4. FillNumbers' = FillNumbers
  BY <1>1 DEF FillNumbers
<1>5. MailIsNew' /\ PublishedBeforeDue'
  BY <1>1, <1>2, <1>4 DEF IInv, MailIsNew, PublishedBeforeDue
<1>6. FillsAreJournaled'
  BY <1>1, FillsStay DEF IInv
<1>7. QED
  BY <1>1, <1>3, <1>5, <1>6 DEF IInv

(* The book stops, or is disturbed.                                        *)
LEMMA BookFailsIInv ==
    ASSUME IInv, BookStops \/ BookIsDisturbed
    PROVE  IInv'
<1>1. /\ due' = 0 /\ faulty' = TRUE
      /\ UNCHANGED <<journal, confirmed, published, trading, sent, fills, registered, mail>>
  BY DEF BookStops, BookIsDisturbed, Book!Stop, Book!Disturb, traderVars, netVars
<1>2. SoundEngine(book') /\ intact' \in BOOLEAN /\ underWay' \subseteq Orders
  <2>1. CASE BookStops
    BY <2>1 DEF BookStops, Book!Stop, netVars, IInv, TypeOK
  <2>2. CASE BookIsDisturbed
    <3>1. intact' = FALSE
      BY <2>2 DEF BookIsDisturbed, Book!Disturb
    <3>2. CASE book' = NewEngine /\ UNCHANGED underWay
      BY <3>1, <3>2, NewEngineSound DEF IInv, TypeOK
    <3>3. CASE \E o \in underWay : /\ underWay' = underWay \ {o}
                                   /\ \E r \in WithOrder(book, o) : book' = r.engine
      <4>1. PICK o \in underWay : /\ underWay' = underWay \ {o}
                                  /\ \E r \in WithOrder(book, o) : book' = r.engine
        BY <3>3
      <4>2. o \in OpenOrder
        BY <4>1, OrdersAreOpen DEF IInv, TypeOK
      <4>3. SoundEngine(book')
        BY <4>1, <4>2, CallFacts DEF IInv
      <4>4. QED
        BY <3>1, <4>1, <4>3 DEF IInv, TypeOK
    <3>4. QED
      BY <2>2, <3>2, <3>3 DEF BookIsDisturbed
  <2>3. QED
    BY <2>1, <2>2
<1>3. TypeOK'
  BY <1>1, <1>2, SoundEngineType DEF IInv, TypeOK
<1>4. FillNumbers' = FillNumbers
  BY <1>1 DEF FillNumbers
<1>5. MailIsNew' /\ PublishedBeforeDue'
  BY <1>1, <1>4 DEF IInv, MailIsNew, PublishedBeforeDue
<1>6. FillsAreJournaled'
  BY <1>1, FillsStay DEF IInv
<1>7. QED
  BY <1>2, <1>3, <1>5, <1>6 DEF IInv

(* Every step keeps the invariant.                                         *)
LEMMA NextIInv == IInv /\ [Next]_vars => IInv'
<1> SUFFICES ASSUME IInv, [Next]_vars PROVE IInv'
  OBVIOUS
<1>1. CASE UNCHANGED vars
  <2>1. UNCHANGED <<journal, book, intact, confirmed, published, due, trading, sent, fills,
                    registered, underWay, mail, faulty>>
    BY <1>1 DEF vars, bookVars, traderVars, netVars
  <2>2. FillNumbers' = FillNumbers
    BY <2>1 DEF FillNumbers
  <2>3. TypeOK' /\ PublishedBeforeDue' /\ MailIsNew'
    BY <2>1, <2>2 DEF IInv, TypeOK, PublishedBeforeDue, MailIsNew
  <2>4. FillsAreJournaled'
    BY <2>1, FillsStay DEF IInv
  <2>5. QED
    BY <2>1, <2>3, <2>4 DEF IInv
<1>2. CASE Next
  BY <1>2, TraderIInv, TakeFillIInv, ArriveIInv, HandleIInv, LoseIInv, BookFailsIInv DEF Next
<1>3. QED
  BY <1>1, <1>2

(* The inductive invariant holds.                                          *)
THEOREM Invariance == Spec => []IInv
BY InitIInv, NextIInv, PTL DEF Spec

(* The journal holds trade events, the book is an engine, and the traders' *)
(* variables have their types.                                             *)
THEOREM TypeCorrect == Spec => []TypeOK
<1>1. IInv => TypeOK
  BY DEF IInv
<1>2. QED
  BY <1>1, Invariance, PTL

(* A trader never counts a fill that is not a published event of the       *)
(* journal for an order it has sent, and none twice, whatever is lost and  *)
(* however often it subscribes or the book stops.                          *)
THEOREM CountedFillsAreJournaled == Spec => []FillsAreJournaled
<1>1. IInv => FillsAreJournaled
  BY DEF IInv
<1>2. QED
  BY <1>1, Invariance, PTL

-----------------------------------------------------------------------------
(* The accounts of the orders *)

(* What the book may have made of an order: once it has arrived, or is     *)
(* lost, all of it; before, nothing.                                       *)
Allowed(o) == IF o \in sent /\ o \notin underWay THEN o.qty ELSE 0

(* What the journal fills an order for, and what the book has left of it.  *)
Accounted(o) == LeftOpen(book, o.id) + Total(FillAmounts(o.id, journal))

(* The journal is a sequence, an order is on its way only once, and as     *)
(* long as the book is intact, an order that is filled or open has been    *)
(* placed, once.                                                           *)
Ledger ==
    /\ journal \in Seq(TradeEvent)
    /\ underWay \subseteq sent
    /\ intact => OfOrders(book) /\ \A o \in Orders : Accounted(o) <= Allowed(o)

LEMMA TradeEventAmounts == \A x \in TradeEvent : x.type = "Fill" => x.qty \in Nat
BY DEF TradeEvent

LEMMA InitLedger == Init => Ledger
<1> SUFFICES ASSUME Init PROVE Ledger
  OBVIOUS
<1>1. journal = << >> /\ book = NewEngine /\ sent = {} /\ underWay = {}
  BY SameOperators DEF Init, Book!Init
<1>2. journal \in Seq(TradeEvent)
  BY <1>1, EmptySeq
<1>3. \A s \in Sides : NewEngine.orders[s] = {}
  BY DEF NewEngine
<1>4. OfOrders(NewEngine)
  BY <1>3 DEF OfOrders
<1>5. \A id : LeftOpen(NewEngine, id) = 0
  BY <1>3, <1>4, NewEngineSound, OrdersOpenOnce, LeftOpenFacts
<1>6. \A id : Total(FillAmounts(id, << >>)) = 0
  <2>1. \A id : FillAmounts(id, << >>) = << >>
    BY DEF FillAmounts
  <2>2. Len(<< >>) = 0
    OBVIOUS
  <2>3. Total(<< >>) = 0
    BY <2>2, TotalZero
  <2>4. QED
    BY <2>1, <2>3
<1>7. \A o \in Orders : Accounted(o) = 0 /\ Allowed(o) = 0
  BY <1>1, <1>5, <1>6 DEF Accounted, Allowed
<1>8. QED
  BY <1>1, <1>2, <1>4, <1>7 DEF Ledger

LEMMA AccountedType ==
    ASSUME SoundEngine(book), Ledger, intact, NEW o \in Orders
    PROVE  Accounted(o) \in Nat /\ Allowed(o) \in Nat
<1>1. LeftOpen(book, o.id) \in Nat
  BY OrdersOpenOnce, LeftOpenType DEF Ledger
<1>2. FillAmounts(o.id, journal) \in Seq(Nat)
  BY TradeEventAmounts, AmountsFacts DEF Ledger
<1>3. Total(FillAmounts(o.id, journal)) \in Nat
  BY <1>2, TotalType
<1>4. o.qty \in Nat
  BY OrdersAssumption, OrderFacts
<1>5. QED
  BY <1>1, <1>3, <1>4 DEF Accounted, Allowed

(* It depends on few variables, and more may be allowed.                   *)
LEMMA LedgerStays ==
    ASSUME SoundEngine(book), Ledger, UNCHANGED <<journal, sent>>, underWay' \subseteq underWay,
           intact' => intact /\ UNCHANGED book
    PROVE  Ledger'
<1>1. journal' \in Seq(TradeEvent) /\ underWay' \subseteq sent'
  BY DEF Ledger
<1>2. CASE intact'
  <2>1. intact /\ book' = book /\ journal' = journal /\ sent' = sent
    BY <1>2
  <2>2. OfOrders(book)' /\ \A o \in Orders : Accounted(o) <= Allowed(o)
    BY <2>1 DEF Ledger, OfOrders
  <2>3. ASSUME NEW o \in Orders PROVE Accounted(o)' <= Allowed(o)'
    <3>1. Accounted(o)' = Accounted(o) /\ Accounted(o) \in Nat /\ Allowed(o) \in Nat
      BY <2>1, AccountedType DEF Accounted
    <3>2. Allowed(o)' = Allowed(o) \/ (Allowed(o) = 0 /\ Allowed(o)' = o.qty)
      BY <2>1 DEF Allowed
    <3>3. o.qty \in Nat
      BY OrdersAssumption, OrderFacts
    <3>4. QED
      BY <2>2, <3>1, <3>2, <3>3
  <2>4. QED
    BY <1>1, <2>2, <2>3 DEF Ledger
<1>3. QED
  BY <1>1, <1>2 DEF Ledger

(* A new order is sent: nothing is allowed of it yet.                      *)
LEMMA SendLedger ==
    ASSUME Ledger, NEW t \in Traders, Send(t)
    PROVE  Ledger'
<1>1. PICK o \in OrdersOf[t] \ sent : sent' = sent \cup {o} /\ underWay' = underWay \cup {o}
  BY DEF Send
<1>2. UNCHANGED <<journal, book, intact>>
  BY DEF Send, bookVars
<1>3. \A x \in Orders : Accounted(x)' = Accounted(x) /\ Allowed(x)' = Allowed(x)
  <2>1. underWay \subseteq sent
    BY DEF Ledger
  <2>2. QED
    BY <1>1, <1>2, <2>1 DEF Accounted, Allowed
<1>4. OfOrders(book)' <=> OfOrders(book)
  BY <1>2 DEF OfOrders
<1>5. QED
  BY <1>1, <1>2, <1>3, <1>4 DEF Ledger

(* An order arrives: its events are appended to the journal.               *)
LEMMA ArriveAppends ==
    ASSUME IInv, Ledger, Arrive
    PROVE  \E o \in underWay : \E r \in WithOrder(book, o) :
              /\ o \in Orders /\ o \in sent /\ r.trades \in Seq(Trade)
              /\ journal' = journal \o PersistableEvents(o, r.trades)
              /\ due' = Len(journal) + 1
              /\ book' = r.engine
              /\ underWay' = underWay \ {o}
<1>1. PICK o \in underWay :
         /\ due' = Max(DOMAIN journal \cup {0}) + 1
         /\ Book!Place(o)
         /\ underWay' = underWay \ {o}
  BY DEF Arrive
<1>2. o \in Orders /\ o \in sent /\ SoundEngine(book) /\ journal \in Seq(TradeEvent)
  BY <1>1 DEF IInv, TypeOK, Ledger
<1>3. PICK r \in WithOrder(book, o) :
         /\ journal' = Book!Extended(due', PersistableEvents(o, r.trades))
         /\ book' = r.engine
  BY <1>1, SameOperators DEF Book!Place
<1>4. r.trades \in Seq(Trade)
  BY <1>2, <1>3, OrdersAreOpen, CallFacts
<1> DEFINE b == PersistableEvents(o, r.trades)
           m == Len(journal)
<1>5. b \in Seq(TradeEvent)
  BY <1>2, <1>4, BatchFacts
<1>6. journal' = journal \o b /\ due' = m + 1
  <2>1. m \in Nat /\ Len(b) \in Nat /\ DOMAIN journal = 1 .. m
    BY <1>2, <1>5
  <2>2. journal' = [n \in DOMAIN journal \cup due' .. due' + Len(b) - 1 |->
                      IF n \in DOMAIN journal THEN journal[n] ELSE b[n - due' + 1]]
    BY <1>3 DEF Book!Extended
  <2> HIDE DEF b, m
  <2>3. due' = m + 1
    <3> DEFINE S == DOMAIN journal \cup {0}
               x == CHOOSE x \in S : \A y \in S : x >= y
    <3>1. m \in S /\ \A y \in S : m >= y
      BY <2>1
    <3>2. S \subseteq Nat
      BY <2>1
    <3> HIDE DEF S
    <3>3. x \in S /\ \A y \in S : x >= y
      BY <3>1
    <3> HIDE DEF x
    <3>4. x = m
      BY <3>1, <3>2, <3>3
    <3>5. Max(S) = x
      BY DEF Max, x
    <3>6. due' = Max(S) + 1
      BY <1>1 DEF S
    <3>7. QED
      BY <3>4, <3>5, <3>6
  <2>4. DOMAIN journal \cup due' .. due' + Len(b) - 1 = 1 .. m + Len(b)
    BY <2>1, <2>3
  <2>5. \A n \in 1 .. m + Len(b) :
           (IF n \in DOMAIN journal THEN journal[n] ELSE b[n - due' + 1])
              = (IF n <= m THEN journal[n] ELSE b[n - m])
    <3> SUFFICES ASSUME NEW n \in 1 .. m + Len(b)
                 PROVE  (IF n \in DOMAIN journal THEN journal[n] ELSE b[n - due' + 1])
                           = (IF n <= m THEN journal[n] ELSE b[n - m])
      OBVIOUS
    <3>1. n - due' + 1 = n - m /\ (n \in DOMAIN journal <=> n <= m)
      BY <2>1, <2>3
    <3>2. QED
      BY <3>1
  <2>6. journal' = [n \in 1 .. m + Len(b) |-> IF n <= m THEN journal[n] ELSE b[n - m]]
    BY <2>2, <2>4, <2>5
  <2>7. journal \o b = [n \in 1 .. m + Len(b) |-> IF n <= m THEN journal[n] ELSE b[n - m]]
    <3> DEFINE c == journal \o b
    <3>1. /\ DOMAIN c = 1 .. m + Len(b)
          /\ \A n \in 1 .. m + Len(b) : c[n] = IF n <= m THEN journal[n] ELSE b[n - m]
      <4>1. journal \in Seq(TradeEvent) /\ b \in Seq(TradeEvent)
        BY <1>2, <1>5
      <4>2. QED
        BY <4>1, <2>1 DEF m
    <3>2. c = [n \in DOMAIN c |-> c[n]]
      <4>1. c \in Seq(TradeEvent)
        BY <1>2, <1>5
      <4> HIDE DEF c
      <4>2. QED
        BY <4>1
    <3> HIDE DEF c
    <3>3. c = [n \in 1 .. m + Len(b) |-> IF n <= m THEN journal[n] ELSE b[n - m]]
      BY <3>1, <3>2
    <3>4. QED
      BY <3>3 DEF c
  <2>8. QED
    BY <2>3, <2>6, <2>7
<1>7. QED
  BY <1>1, <1>2, <1>3, <1>4, <1>6

(* Its events are accounted for, and it is used up.                        *)
LEMMA ArriveLedger ==
    ASSUME IInv, Ledger, Arrive
    PROVE  Ledger'
<1>1. PICK o \in underWay : \E r \in WithOrder(book, o) :
         /\ o \in Orders /\ o \in sent /\ r.trades \in Seq(Trade)
         /\ journal' = journal \o PersistableEvents(o, r.trades)
         /\ due' = Len(journal) + 1
         /\ book' = r.engine
         /\ underWay' = underWay \ {o}
  BY ArriveAppends
<1>2. UNCHANGED <<sent, intact>>
  BY DEF Arrive, traderVars, Book!Place
<1>3. o \in Orders /\ o \in sent /\ SoundEngine(book) /\ journal \in Seq(TradeEvent)
  BY <1>1 DEF IInv, Ledger
<1>4. PICK r \in WithOrder(book, o) :
         /\ r.trades \in Seq(Trade) /\ book' = r.engine
         /\ journal' = journal \o PersistableEvents(o, r.trades)
  BY <1>1
<1>5. r.trades \in Seq(Trade)
  BY <1>4
<1> DEFINE b == PersistableEvents(o, r.trades)
<1>6. b \in Seq(TradeEvent)
  BY <1>3, <1>5, BatchFacts
<1>7. journal' = journal \o b
  BY <1>4
<1>8. journal' \in Seq(TradeEvent) /\ underWay' \subseteq sent'
  BY <1>1, <1>2, <1>3, <1>6, <1>7 DEF Ledger
<1> HIDE DEF b
<1>9. CASE intact
  <2>1. OfOrders(book)
    BY <1>9 DEF Ledger
  <2>2. OfOrders(book')
    BY <1>3, <1>4, <2>1, EventAccounts
  <2>3. ASSUME NEW x \in Orders PROVE Accounted(x)' <= Allowed(x)'
    <3> DEFINE more == IF x.id = o.id /\ ~ContainsKey(book.orders[o.side], o.id)
                       THEN o.qty ELSE 0
    <3>1. LeftOpen(book', x.id) + Total(FillAmounts(x.id, b)) = LeftOpen(book, x.id) + more
      BY <1>3, <1>4, <2>1, EventAccounts DEF b
    <3>2. /\ Total(FillAmounts(x.id, journal)) \in Nat /\ Total(FillAmounts(x.id, b)) \in Nat
          /\ Total(FillAmounts(x.id, journal'))
                = Total(FillAmounts(x.id, journal)) + Total(FillAmounts(x.id, b))
      BY <1>3, <1>6, <1>7, TotalAmounts, TradeEventAmounts
    <3>3. LeftOpen(book, x.id) \in Nat /\ LeftOpen(book', x.id) \in Nat
      <4>1. SoundEngine(book')
        BY <1>3, <1>4, OrdersAreOpen, CallFacts
      <4>2. QED
        BY <1>3, <2>1, <2>2, <4>1, OrdersOpenOnce, LeftOpenType
    <3>4. Accounted(x) <= Allowed(x)
      BY <1>9 DEF Ledger
    <3>5. o.qty \in Nat /\ x.qty \in Nat
      BY <1>3, OrdersAssumption, OrderFacts
    <3>6. Accounted(x)' = Accounted(x) + more /\ Accounted(x) \in Nat
      <4>1. Accounted(x)' = LeftOpen(book', x.id) + Total(FillAmounts(x.id, journal'))
        BY DEF Accounted
      <4>2. more \in Nat
        BY <3>5
      <4> HIDE DEF more
      <4>3. QED
        BY <3>1, <3>2, <3>3, <4>1, <4>2 DEF Accounted
    <3>7. CASE x = o
      <4>1. Allowed(x) = 0 /\ Allowed(x)' = x.qty
        BY <1>1, <1>2, <1>3, <3>7 DEF Allowed
      <4>2. more <= x.qty /\ more \in Nat
        BY <3>5, <3>7
      <4>3. QED
        BY <3>4, <3>6, <4>1, <4>2
    <3>8. CASE x # o
      <4>1. Allowed(x)' = Allowed(x)
        BY <1>1, <1>2, <3>8 DEF Allowed
      <4>2. more = 0
        BY <1>3, <3>8, OrdersAssumption
      <4>3. QED
        BY <3>4, <3>6, <4>1, <4>2
    <3>9. QED
      BY <3>7, <3>8
  <2>4. OfOrders(book)'
    BY <2>2 DEF OfOrders
  <2>5. QED
    BY <1>8, <2>3, <2>4 DEF Ledger
<1>10. CASE ~intact
  BY <1>2, <1>8, <1>10 DEF Ledger
<1>11. QED
  BY <1>9, <1>10

LEMMA KeptLedger == Spec => []Ledger
<1>1. IInv /\ Ledger /\ [Next]_vars => Ledger'
  <2> SUFFICES ASSUME IInv, Ledger, [Next]_vars PROVE Ledger'
    OBVIOUS
  <2>1. SoundEngine(book)
    BY DEF IInv
  <2>2. CASE UNCHANGED vars
    BY <2>1, <2>2, LedgerStays DEF vars, bookVars, traderVars, netVars
  <2>3. ASSUME NEW t \in Traders, Subscribe(t) \/ SubscribeFails(t) \/ TakeFill(t)
        PROVE  Ledger'
    BY <2>1, <2>3, LedgerStays DEF Subscribe, SubscribeFails, TakeFill, bookVars, traderVars
  <2>4. CASE Handle
    BY <2>1, <2>4, LedgerStays DEF Handle, Book!Handle, traderVars
  <2>5. CASE Lose
    <3>1. underWay' \subseteq underWay /\ UNCHANGED <<journal, sent, book, intact>>
      BY <2>5 DEF Lose, bookVars, traderVars
    <3>2. QED
      BY <2>1, <3>1, LedgerStays
  <2>6. CASE BookStops
    BY <2>1, <2>6, LedgerStays DEF BookStops, Book!Stop, traderVars, netVars
  <2>7. CASE BookIsDisturbed
    <3>1. underWay' \subseteq underWay /\ UNCHANGED <<journal, sent>> /\ intact' = FALSE
      BY <2>7 DEF BookIsDisturbed, Book!Disturb, traderVars
    <3>2. QED
      BY <2>1, <3>1, LedgerStays
  <2>8. QED
    BY <2>2, <2>3, <2>4, <2>5, <2>6, <2>7, SendLedger, ArriveLedger DEF Next
<1>2. QED
  BY <1>1, InitLedger, Invariance, PTL DEF Spec

(* Then what a trader has counted for an order is at most what the journal *)
(* fills it for, since it has counted none twice.                          *)
LEMMA CountedIsJournaled ==
    ASSUME IInv, Ledger, NEW t \in Traders, NEW o \in Orders
    PROVE  Counted(t, o) \in Nat /\ Counted(t, o) <= Total(FillAmounts(o.id, journal))
<1> DEFINE s == fills[t]
           a == FillAmounts(o.id, journal)
<1>1. s \in Seq(Nat) /\ DOMAIN s = 1 .. Len(s)
  BY DEF IInv, TypeOK
<1>2. /\ a \in Seq(Nat) /\ Len(a) = Len(journal)
      /\ \A k \in 1 .. Len(journal) :
            a[k] = IF journal[k].type = "Fill" /\ journal[k].id = o.id THEN journal[k].qty ELSE 0
  BY TradeEventAmounts, AmountsFacts DEF Ledger
<1>3. DOMAIN journal = 1 .. Len(journal)
  BY DEF Ledger
<1>4. \A i \in DOMAIN s : s[i] \in DOMAIN journal /\ journal[s[i]].type = "Fill"
  BY DEF IInv, FillsAreJournaled, FillNumbers
<1>5. \A i, j \in DOMAIN s : s[i] = s[j] => i = j
  BY DEF IInv, FillsAreJournaled
<1>6. Counted(t, o) = Total([i \in DOMAIN s |-> IF journal[s[i]].id = o.id
                                               THEN journal[s[i]].qty ELSE 0])
  BY DEF Counted
<1> HIDE DEF s, a
<1>7. \A i \in DOMAIN s :
         (IF journal[s[i]].id = o.id THEN journal[s[i]].qty ELSE 0) = a[s[i]]
  BY <1>2, <1>3, <1>4
<1>8. Counted(t, o) = Total([i \in 1 .. Len(s) |-> a[s[i]]])
  BY <1>1, <1>6, <1>7
<1>9. \A i \in 1 .. Len(s) : s[i] \in 1 .. Len(a)
  BY <1>1, <1>2, <1>3, <1>4
<1>10. \A i, j \in 1 .. Len(s) : s[i] = s[j] => i = j
  BY <1>1, <1>5
<1>11. Total([i \in 1 .. Len(s) |-> a[s[i]]]) <= Total(a)
  BY <1>1, <1>2, <1>9, <1>10, TotalPicked
<1>12. Total([i \in 1 .. Len(s) |-> a[s[i]]]) \in Nat
  <2> DEFINE picked == [i \in 1 .. Len(s) |-> a[s[i]]]
  <2>1. picked \in [1 .. Len(s) -> Nat] /\ Len(s) \in Nat
    BY <1>1, <1>2, <1>9
  <2> HIDE DEF picked
  <2>2. picked \in Seq(Nat)
    BY <2>1
  <2>3. QED
    BY <2>2, TotalType DEF picked
<1>13. QED
  BY <1>8, <1>11, <1>12 DEF a

(* As long as the book is intact, nobody counts more for an order than it  *)
(* asked for, however often the book has stopped and whatever was lost.    *)
THEOREM NobodyIsOverfilled == Spec => []NotOverfilled
<1>1. IInv /\ Ledger => NotOverfilled
  <2> SUFFICES ASSUME IInv, Ledger, intact, NEW t \in Traders, NEW o \in Own(t)
               PROVE  Counted(t, o) <= o.qty
    BY DEF NotOverfilled
  <2>1. o \in Orders /\ SoundEngine(book)
    BY DEF Own, IInv, TypeOK
  <2>2. Counted(t, o) \in Nat /\ Counted(t, o) <= Total(FillAmounts(o.id, journal))
    BY <2>1, CountedIsJournaled
  <2>3. Accounted(o) <= Allowed(o)
    BY <2>1 DEF Ledger
  <2>4. LeftOpen(book, o.id) \in Nat
    BY <2>1, OrdersOpenOnce, LeftOpenType DEF Ledger
  <2>5. /\ FillAmounts(o.id, journal) \in Seq(Nat)
        /\ Len(FillAmounts(o.id, journal)) = Len(journal)
    BY TradeEventAmounts, AmountsFacts DEF Ledger
  <2>6. Total(FillAmounts(o.id, journal)) \in Nat
    BY <2>5, TotalType
  <2>7. o.qty \in Nat
    BY <2>1, OrdersAssumption, OrderFacts
  <2>8. QED
    BY <2>2, <2>3, <2>4, <2>6, <2>7 DEF Accounted, Allowed
<1>2. QED
  BY <1>1, Invariance, KeptLedger, PTL

-----------------------------------------------------------------------------
(* Nothing is forgotten *)

SentIds == {o.id : o \in sent}

(* Every order the book holds open, and every order it has filled, is one  *)
(* a trader has sent.                                                      *)
OnlySentOrders ==
    /\ OpenIds(book) \subseteq SentIds
    /\ \A n \in FillNumbers : journal[n].id \in SentIds

(* A trader that has sent an order has subscribed before.                  *)
SendersListen ==
    /\ \A t \in Traders : Own(t) # {} => t \in trading
    /\ trading \subseteq registered

NInv == OnlySentOrders /\ SendersListen /\ NothingIsForgotten

(* An order that has been sent is one trader's.                            *)
LEMMA OwnerExists ==
    ASSUME TypeOK, NEW id \in SentIds
    PROVE  \E t \in Traders : id \in OwnIds(t)
<1>1. PICK o \in sent : o.id = id
  BY DEF SentIds
<1>2. PICK t \in Traders : o \in OrdersOf[t]
  BY <1>1, OrdersOfAssumption DEF TypeOK
<1>3. QED
  BY <1>1, <1>2 DEF OwnIds, Own

LEMMA OwnersListen ==
    ASSUME SendersListen, NEW t \in Traders, NEW id \in OwnIds(t)
    PROVE  t \in trading /\ t \in registered
BY DEF SendersListen, OwnIds

LEMMA InitNInv == Init => NInv
<1> SUFFICES ASSUME Init PROVE NInv
  OBVIOUS
<1>1. journal = << >> /\ book = NewEngine /\ sent = {} /\ trading = {}
  BY SameOperators DEF Init, Book!Init
<1>2. OpenIds(NewEngine) = {}
  BY DEF OpenIds, NewEngine
<1>3. FillNumbers = {}
  BY <1>1 DEF FillNumbers
<1>4. QED
  BY <1>1, <1>2, <1>3 DEF NInv, OnlySentOrders, SendersListen, NothingIsForgotten, Own

(* The traders subscribe, and then send.                                   *)
LEMMA TraderNInv ==
    ASSUME IInv, NInv, NEW t \in Traders, Subscribe(t) \/ SubscribeFails(t) \/ Send(t)
    PROVE  NInv'
<1>1. UNCHANGED <<journal, book, due, fills, mail, faulty>>
  BY DEF Subscribe, SubscribeFails, Send, bookVars, traderVars
<1>2. \/ UNCHANGED <<sent, underWay>>
      \/ /\ t \in trading /\ UNCHANGED trading
         /\ \E o \in OrdersOf[t] : sent' = sent \cup {o} /\ underWay' = underWay \cup {o}
  BY DEF Subscribe, SubscribeFails, Send, traderVars
<1>3. FillNumbers' = FillNumbers /\ sent \subseteq sent'
  BY <1>1, <1>2 DEF FillNumbers
<1>4. SentIds \subseteq SentIds' /\ \A u : OwnIds(u) \subseteq OwnIds(u)'
  BY <1>3 DEF SentIds, OwnIds, Own
<1>5. OnlySentOrders'
  BY <1>1, <1>3, <1>4 DEF NInv, OnlySentOrders
<1>6. SendersListen'
  <2>1. trading \subseteq trading' /\ registered \subseteq registered' /\ trading' \subseteq registered'
    BY DEF NInv, SendersListen, Subscribe, SubscribeFails, Send, traderVars
  <2>2. ASSUME NEW u \in Traders, Own(u)' # {} PROVE u \in trading'
    <3>1. CASE Own(u) # {}
      BY <2>1, <3>1 DEF NInv, SendersListen
    <3>2. CASE Own(u) = {}
      <4>1. t \in trading /\ \E o \in OrdersOf[t] : sent' = sent \cup {o}
        BY <1>2, <2>2, <3>2 DEF Own
      <4>2. u = t
        BY <2>2, <3>2, <4>1, OrdersOfAssumption DEF Own
      <4>3. QED
        BY <2>1, <4>1, <4>2
    <3>3. QED
      BY <3>1, <3>2
  <2>3. QED
    BY <2>1, <2>2 DEF SendersListen
<1>7. NothingIsForgotten'
  <2> SUFFICES ASSUME ~faulty
               PROVE  /\ \A o \in sent' : \/ o \in underWay'
                                          \/ \E n \in DOMAIN journal : journal[n] = OrderEvent(o)
                      /\ \A n \in FillNumbers : \E u \in Traders :
                            /\ journal[n].id \in OwnIds(u)'
                            /\ n \in Range(fills[u]) \/ n \in mail[u] \/ (due # 0 /\ n >= due)
    BY <1>1, <1>3 DEF NothingIsForgotten
  <2>1. \A o \in sent' : (o \in sent /\ (o \in underWay => o \in underWay')) \/ o \in underWay'
    BY <1>2
  <2>2. QED
    BY <1>4, <2>1 DEF NInv, NothingIsForgotten
<1>8. QED
  BY <1>5, <1>6, <1>7 DEF NInv

(* A fill an owner takes is counted, since the owner is trading.           *)
LEMMA TakeFillNInv ==
    ASSUME IInv, NInv, NEW t \in Traders, TakeFill(t)
    PROVE  NInv'
<1>1. PICK n \in mail[t] :
         /\ mail' = [mail EXCEPT ![t] = @ \ {n}]
         /\ fills' = [fills EXCEPT ![t] = IF t \in trading /\ journal[n].id \in OwnIds(t)
                                           THEN Append(@, n) ELSE @]
  BY DEF TakeFill
<1>2. UNCHANGED <<journal, book, due, trading, sent, registered, underWay, faulty>>
  BY DEF TakeFill, bookVars
<1>3. FillNumbers' = FillNumbers /\ SentIds' = SentIds /\ \A u : OwnIds(u)' = OwnIds(u) /\ Own(u)' = Own(u)
  BY <1>2 DEF FillNumbers, SentIds, OwnIds, Own
<1>4. OnlySentOrders' /\ SendersListen'
  BY <1>2, <1>3 DEF NInv, OnlySentOrders, SendersListen
<1>5. mail \in [Traders -> SUBSET Nat] /\ fills \in [Traders -> Seq(Nat)] /\ n \in Nat
  BY <1>1 DEF IInv, TypeOK
<1>6. \A s \in Seq(Nat) : Range(s) \subseteq Range(Append(s, n)) /\ n \in Range(Append(s, n))
  <2> SUFFICES ASSUME NEW s \in Seq(Nat)
               PROVE  Range(s) \subseteq Range(Append(s, n)) /\ n \in Range(Append(s, n))
    OBVIOUS
  <2>1. /\ DOMAIN s = 1 .. Len(s) /\ Len(s) \in Nat
        /\ DOMAIN Append(s, n) = 1 .. Len(s) + 1
        /\ \A i \in 1 .. Len(s) : Append(s, n)[i] = s[i]
        /\ Append(s, n)[Len(s) + 1] = n
    BY <1>5, AppendProperties
  <2>2. \A i \in DOMAIN s : i \in DOMAIN Append(s, n)
    BY <2>1
  <2>3. Len(s) + 1 \in DOMAIN Append(s, n)
    BY <2>1
  <2> DEFINE a == Append(s, n)
  <2> HIDE DEF a
  <2>4. Range(s) \subseteq Range(a) /\ n \in Range(a)
    BY <2>1, <2>2, <2>3 DEF Range, a
  <2>5. QED
    BY <2>4 DEF a
<1>7. ASSUME NEW u \in Traders, NEW k, journal[k].id \in OwnIds(u),
             k \in Range(fills[u]) \/ k \in mail[u]
      PROVE  k \in Range(fills'[u]) \/ k \in mail'[u]
  <2>1. CASE u # t
    BY <1>1, <1>5, <1>7, <2>1
  <2>2. CASE u = t
    <3>1. t \in trading
      BY <1>7, <2>2, OwnersListen DEF NInv
    <3>2. mail'[t] = mail[t] \ {n} /\ fills[t] \in Seq(Nat)
      BY <1>1, <1>5
    <3>3. fills'[t] = IF journal[n].id \in OwnIds(t) THEN Append(fills[t], n) ELSE fills[t]
      BY <1>1, <1>5, <3>1
    <3>4. Range(fills[t]) \subseteq Range(fills'[t])
      BY <1>6, <3>2, <3>3
    <3>5. journal[n].id \in OwnIds(t) => n \in Range(fills'[t])
      BY <1>6, <3>2, <3>3
    <3>6. QED
      BY <1>7, <2>2, <3>2, <3>4, <3>5
  <2>3. QED
    BY <2>1, <2>2
<1>8. NothingIsForgotten'
  <2> SUFFICES ASSUME ~faulty
               PROVE  /\ \A o \in sent : \/ o \in underWay
                                         \/ \E k \in DOMAIN journal : journal[k] = OrderEvent(o)
                      /\ \A k \in FillNumbers : \E u \in Traders :
                            /\ journal[k].id \in OwnIds(u)
                            /\ k \in Range(fills'[u]) \/ k \in mail'[u] \/ (due # 0 /\ k >= due)
    BY <1>2, <1>3 DEF NothingIsForgotten
  <2>1. \A o \in sent : \/ o \in underWay
                        \/ \E k \in DOMAIN journal : journal[k] = OrderEvent(o)
    BY DEF NInv, NothingIsForgotten
  <2>2. ASSUME NEW k \in FillNumbers
        PROVE  \E u \in Traders :
                  /\ journal[k].id \in OwnIds(u)
                  /\ k \in Range(fills'[u]) \/ k \in mail'[u] \/ (due # 0 /\ k >= due)
    <3>1. PICK u \in Traders :
             /\ journal[k].id \in OwnIds(u)
             /\ k \in Range(fills[u]) \/ k \in mail[u] \/ (due # 0 /\ k >= due)
      BY DEF NInv, NothingIsForgotten
    <3>2. QED
      BY <1>7, <3>1
  <2>3. QED
    BY <2>1, <2>2
<1>9. QED
  BY <1>4, <1>8 DEF NInv

(* An order is placed when all fills so far have been sent on: those of    *)
(* its call are due.                                                       *)
LEMMA ArriveNInv ==
    ASSUME IInv, Ledger, NInv, Arrive
    PROVE  NInv'
<1>1. PICK o \in underWay : \E r \in WithOrder(book, o) :
         /\ o \in Orders /\ o \in sent /\ r.trades \in Seq(Trade)
         /\ journal' = journal \o PersistableEvents(o, r.trades)
         /\ due' = Len(journal) + 1
         /\ book' = r.engine
         /\ underWay' = underWay \ {o}
  BY ArriveAppends
<1>2. PICK r \in WithOrder(book, o) :
         /\ r.trades \in Seq(Trade) /\ book' = r.engine
         /\ journal' = journal \o PersistableEvents(o, r.trades)
  BY <1>1
<1>3. due = 0 /\ UNCHANGED <<trading, sent, fills, registered, mail, faulty>>
  BY DEF Arrive, traderVars, Book!Place
<1> DEFINE b == PersistableEvents(o, r.trades)
           m == Len(journal)
<1>4. b \in Seq(TradeEvent) /\ Len(b) \in Nat /\ Len(b) > 0 /\ b[1] = OrderEvent(o)
  BY <1>1, <1>2, BatchFacts
<1>5. o.id \in SentIds /\ SoundEngine(book) /\ OpenIds(book) \subseteq SentIds
  BY <1>1 DEF SentIds, IInv, NInv, OnlySentOrders
<1>6. /\ OpenIds(r.engine) \subseteq SentIds
      /\ \A k \in 1 .. Len(b) : b[k].type = "Fill" => b[k].id \in SentIds
  BY <1>1, <1>5, CallIds
<1>7. journal \in Seq(TradeEvent) /\ m \in Nat /\ DOMAIN journal = 1 .. m
  BY DEF Ledger
<1>8. journal' = journal \o b /\ due' = m + 1
  BY <1>1, <1>2
<1> HIDE DEF b, m
<1>9. /\ DOMAIN journal' = 1 .. m + Len(b)
      /\ \A n \in 1 .. m + Len(b) : journal'[n] = IF n <= m THEN journal[n] ELSE b[n-m]
  <2> DEFINE w == journal \o b
  <2>1. /\ DOMAIN w = 1 .. m + Len(b)
        /\ \A n \in 1 .. m + Len(b) : w[n] = IF n <= m THEN journal[n] ELSE b[n-m]
    BY <1>4, <1>7 DEF m
  <2>2. QED
    BY <1>8, <2>1
<1>10. /\ \A n \in 1 .. m : n \in DOMAIN journal' /\ journal'[n] = journal[n]
       /\ m + 1 \in DOMAIN journal' /\ journal'[m + 1] = OrderEvent(o)
       /\ \A n \in DOMAIN journal' : n \notin 1 .. m =>
             n >= m + 1 /\ n - m \in 1 .. Len(b) /\ journal'[n] = b[n-m]
  <2>1. \A n \in 1 .. m : n \in 1 .. m + Len(b) /\ n <= m
    BY <1>4, <1>7
  <2>2. m + 1 \in 1 .. m + Len(b) /\ ~(m + 1 <= m) /\ (m + 1) - m = 1
    BY <1>4, <1>7
  <2>3. \A n \in 1 .. m + Len(b) : n \notin 1 .. m =>
           n >= m + 1 /\ n - m \in 1 .. Len(b) /\ ~(n <= m)
    BY <1>4, <1>7
  <2>4. QED
    BY <1>4, <1>9, <2>1, <2>2, <2>3
<1>11. SentIds' = SentIds /\ \A t : OwnIds(t)' = OwnIds(t) /\ Own(t)' = Own(t)
  BY <1>3 DEF SentIds, OwnIds, Own
<1>12. ASSUME NEW n \in FillNumbers'
       PROVE  \/ n \in FillNumbers /\ journal'[n] = journal[n]
              \/ n >= m + 1 /\ journal'[n].id \in SentIds
  <2>1. n \in DOMAIN journal' /\ journal'[n].type = "Fill"
    BY <1>12 DEF FillNumbers
  <2>2. CASE n \in 1 .. m
    BY <1>7, <1>10, <2>1, <2>2 DEF FillNumbers
  <2>3. CASE n \notin 1 .. m
    BY <1>6, <1>10, <2>1, <2>3
  <2>4. QED
    BY <2>2, <2>3
<1>13. OnlySentOrders'
  BY <1>2, <1>6, <1>11, <1>12 DEF NInv, OnlySentOrders
<1>14. SendersListen'
  BY <1>3, <1>11 DEF NInv, SendersListen
<1>15. NothingIsForgotten'
  <2> SUFFICES ASSUME ~faulty
               PROVE  /\ \A x \in sent : \/ x \in underWay'
                                         \/ \E n \in DOMAIN journal' : journal'[n] = OrderEvent(x)
                      /\ \A n \in FillNumbers' : \E t \in Traders :
                            /\ journal'[n].id \in OwnIds(t)
                            /\ \/ n \in Range(fills[t]) \/ n \in mail[t]
                               \/ due' # 0 /\ n >= due'
    BY <1>3, <1>11 DEF NothingIsForgotten
  <2>1. ASSUME NEW x \in sent, x \notin underWay'
        PROVE  \E n \in DOMAIN journal' : journal'[n] = OrderEvent(x)
    <3>1. CASE x = o
      BY <1>10, <3>1
    <3>2. CASE x # o
      <4>1. PICK n \in DOMAIN journal : journal[n] = OrderEvent(x)
        BY <1>1, <2>1, <3>2 DEF NInv, NothingIsForgotten
      <4>2. QED
        BY <1>7, <1>10, <4>1
    <3>3. QED
      BY <3>1, <3>2
  <2>2. ASSUME NEW n \in FillNumbers'
        PROVE  \E t \in Traders :
                  /\ journal'[n].id \in OwnIds(t)
                  /\ n \in Range(fills[t]) \/ n \in mail[t] \/ (due' # 0 /\ n >= due')
    <3>1. CASE n \in FillNumbers /\ journal'[n] = journal[n]
      BY <1>3, <3>1 DEF NInv, NothingIsForgotten
    <3>2. CASE n >= m + 1 /\ journal'[n].id \in SentIds
      <4>1. PICK t \in Traders : journal'[n].id \in OwnIds(t)
        BY <3>2, OwnerExists DEF IInv
      <4>2. due' # 0 /\ n >= due'
        BY <1>7, <1>8, <3>2
      <4>3. QED
        BY <4>1, <4>2
    <3>3. QED
      BY <1>12, <3>1, <3>2
  <2>3. QED
    BY <2>1, <2>2
<1>16. QED
  BY <1>13, <1>14, <1>15 DEF NInv

(* A fill whose handler runs goes into the mail of its owner.              *)
LEMMA HandleNInv ==
    ASSUME IInv, Ledger, NInv, Handle
    PROVE  NInv'
<1>1. /\ due \in DOMAIN journal
      /\ due' = IF due + 1 \in DOMAIN journal THEN due + 1 ELSE 0
      /\ UNCHANGED <<journal, book, trading, sent, fills, registered, underWay, faulty>>
  BY DEF Handle, Book!Handle, traderVars
<1>2. /\ mail' = IF journal[due].type = "Fill"
                 THEN [t \in Traders |->
                         IF t \in registered THEN mail[t] \cup {due} ELSE mail[t]]
                 ELSE mail
      /\ mail \in [Traders -> SUBSET Nat]
  BY DEF Handle, IInv, TypeOK
<1>3. FillNumbers' = FillNumbers /\ SentIds' = SentIds /\ \A u : OwnIds(u)' = OwnIds(u) /\ Own(u)' = Own(u)
  BY <1>1 DEF FillNumbers, SentIds, OwnIds, Own
<1>4. OnlySentOrders' /\ SendersListen'
  BY <1>1, <1>3 DEF NInv, OnlySentOrders, SendersListen
<1>5. ASSUME NEW n \in FillNumbers, due # 0 /\ n >= due
      PROVE  n = due \/ (due' # 0 /\ n >= due')
  <2>1. DOMAIN journal = 1 .. Len(journal) /\ Len(journal) \in Nat
    BY DEF Ledger
  <2>2. n \in 1 .. Len(journal) /\ due \in 1 .. Len(journal)
    BY <1>1, <2>1 DEF FillNumbers
  <2>3. \A l \in Nat : \A x, d \in 1 .. l : x >= d /\ x # d => d + 1 \in 1 .. l /\ x >= d + 1
    OBVIOUS
  <2>4. CASE n # due
    <3>1. due + 1 \in 1 .. Len(journal) /\ n >= due + 1
      BY <1>5, <2>1, <2>2, <2>3, <2>4
    <3>2. due' = due + 1
      BY <1>1, <2>1, <3>1
    <3>3. due + 1 # 0
      BY <2>2
    <3>4. QED
      BY <3>1, <3>2, <3>3
  <2>5. QED
    BY <2>4
<1>6. ASSUME NEW t \in Traders, due \in FillNumbers, journal[due].id \in OwnIds(t)
      PROVE  due \in mail'[t]
  <2>1. t \in registered
    BY <1>6, OwnersListen DEF NInv
  <2>2. journal[due].type = "Fill"
    BY <1>6 DEF FillNumbers
  <2>3. QED
    BY <1>2, <2>1, <2>2
<1>7. \A t \in Traders : mail[t] \subseteq mail'[t]
  BY <1>2
<1>8. NothingIsForgotten'
  <2> SUFFICES ASSUME ~faulty
               PROVE  /\ \A o \in sent : \/ o \in underWay
                                         \/ \E k \in DOMAIN journal : journal[k] = OrderEvent(o)
                      /\ \A n \in FillNumbers : \E t \in Traders :
                            /\ journal[n].id \in OwnIds(t)
                            /\ \/ n \in Range(fills[t]) \/ n \in mail'[t]
                               \/ due' # 0 /\ n >= due'
    BY <1>1, <1>3 DEF NothingIsForgotten
  <2>1. \A o \in sent : \/ o \in underWay
                        \/ \E k \in DOMAIN journal : journal[k] = OrderEvent(o)
    BY DEF NInv, NothingIsForgotten
  <2>2. ASSUME NEW n \in FillNumbers
        PROVE  \E t \in Traders :
                  /\ journal[n].id \in OwnIds(t)
                  /\ n \in Range(fills[t]) \/ n \in mail'[t] \/ (due' # 0 /\ n >= due')
    <3>1. PICK t \in Traders :
             /\ journal[n].id \in OwnIds(t)
             /\ n \in Range(fills[t]) \/ n \in mail[t] \/ (due # 0 /\ n >= due)
      BY DEF NInv, NothingIsForgotten
    <3>2. n = due => n \in mail'[t]
      BY <1>6, <3>1
    <3>3. QED
      BY <1>5, <1>7, <3>1, <3>2
  <2>3. QED
    BY <2>1, <2>2
<1>9. QED
  BY <1>4, <1>8 DEF NInv

(* A failure ends the promise, not the rest of the invariant.              *)
LEMMA FailureNInv ==
    ASSUME IInv, Ledger, NInv, Lose \/ BookStops \/ BookIsDisturbed
    PROVE  NInv'
<1>1. faulty' = TRUE /\ UNCHANGED <<journal, trading, sent, registered>>
  BY DEF Lose, BookStops, BookIsDisturbed, Book!Stop, Book!Disturb, bookVars, traderVars, netVars
<1>2. FillNumbers' = FillNumbers /\ SentIds' = SentIds /\ \A u : Own(u)' = Own(u)
  BY <1>1 DEF FillNumbers, SentIds, Own
<1>3. OpenIds(book') \subseteq SentIds
  <2>1. OpenIds(book) \subseteq SentIds
    BY DEF NInv, OnlySentOrders
  <2>2. CASE Lose \/ BookStops
    <3>1. book' = book
      BY <2>2 DEF Lose, BookStops, Book!Stop, bookVars
    <3>2. QED
      BY <2>1, <3>1
  <2>3. CASE BookIsDisturbed
    <3>1. CASE book' = NewEngine
      <4>1. OpenIds(NewEngine) = {}
        BY DEF OpenIds, NewEngine
      <4>2. QED
        BY <3>1, <4>1
    <3>2. CASE \E o \in underWay : \E r \in WithOrder(book, o) : book' = r.engine
      <4>1. PICK o \in underWay : \E r \in WithOrder(book, o) : book' = r.engine
        BY <3>2
      <4>2. PICK r \in WithOrder(book, o) : book' = r.engine
        BY <4>1
      <4>3. o \in Orders /\ o.id \in SentIds /\ SoundEngine(book)
        BY DEF IInv, TypeOK, Ledger, SentIds
      <4>4. OpenIds(r.engine) \subseteq SentIds
        BY <2>1, <4>3, CallIds
      <4>5. QED
        BY <4>2, <4>4
    <3>3. QED
      BY <2>3, <3>1, <3>2 DEF BookIsDisturbed
  <2>4. QED
    BY <2>2, <2>3
<1>4. OnlySentOrders'
  BY <1>1, <1>2, <1>3 DEF NInv, OnlySentOrders
<1>5. SendersListen'
  BY <1>1, <1>2 DEF NInv, SendersListen
<1>6. QED
  BY <1>1, <1>4, <1>5 DEF NInv, NothingIsForgotten

(* Until something is lost, or the book stops or is disturbed, an order    *)
(* sent is on its way or placed, and every fill of the journal is counted  *)
(* by its owner, in its mail, or due.                                      *)
THEOREM NoTradeIsForgotten == Spec => []NothingIsForgotten
<1>1. IInv /\ Ledger /\ NInv /\ [Next]_vars => NInv'
  <2> SUFFICES ASSUME IInv, Ledger, NInv, [Next]_vars PROVE NInv'
    OBVIOUS
  <2>1. CASE UNCHANGED vars
    <3>1. UNCHANGED <<journal, book, due, trading, sent, fills, registered, underWay, mail,
                      faulty>>
      BY <2>1 DEF vars, bookVars, traderVars, netVars
    <3>2. FillNumbers' = FillNumbers /\ SentIds' = SentIds
          /\ \A u : OwnIds(u)' = OwnIds(u) /\ Own(u)' = Own(u)
      BY <3>1 DEF FillNumbers, SentIds, OwnIds, Own
    <3>3. QED
      BY <3>1, <3>2 DEF NInv, OnlySentOrders, SendersListen, NothingIsForgotten
  <2>2. CASE Next
    BY <2>2, TraderNInv, TakeFillNInv, ArriveNInv, HandleNInv, FailureNInv DEF Next
  <2>3. QED
    BY <2>1, <2>2
<1>2. NInv => NothingIsForgotten
  BY DEF NInv
<1>3. QED
  BY <1>1, <1>2, InitNInv, Invariance, KeptLedger, PTL DEF Spec

(* Everything has been sent, and nothing is on its way.                    *)
AtRest ==
    /\ sent = Orders /\ underWay = {} /\ due = 0
    /\ \A t \in Traders : mail[t] = {}

(* So both sides agree on every trade whenever the system comes to rest    *)
(* and nothing has failed.                                                 *)
THEOREM SettledAtRest == Spec => [](AtRest /\ ~faulty => Settled)
<1>1. NothingIsForgotten => (AtRest /\ ~faulty => Settled)
  BY DEF NothingIsForgotten, AtRest, Settled
<1>2. QED
  BY <1>1, NoTradeIsForgotten, PTL
=============================================================================
