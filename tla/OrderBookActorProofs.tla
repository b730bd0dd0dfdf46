------------------------ MODULE OrderBookActorProofs ------------------------
(***************************************************************************)
(* What holds of the persistent order book for every set of orders, prices *)
(* and quantities and every snapshot interval: its types, that its engine  *)
(* is what its journal replays to, that what it has confirmed is in the    *)
(* journal, that it publishes in journal order, that its clean-up deletes  *)
(* nothing it needs; and that it implements OrderBook. All follow from one *)
(* inductive invariant. Two more stand on it: that the journal accounts    *)
(* for the book, order by order; and that snapshots cut the journal        *)
(* between submissions and hold the book of their cut.                     *)
(***************************************************************************)
EXTENDS OrderBookActor, CallProofs, PersistenceProofs

-----------------------------------------------------------------------------
(* Replays *)

(* g holds the engines of a replay of the first n events, one by one.      *)
IsRun(g, start, events, n) ==
    g = [k \in 0 .. n |-> IF k = 0 THEN start ELSE RecoverEvent(g[k-1], events[k])]

(* A replay can be carried out.                                            *)
LEMMA RunExists ==
    ASSUME NEW start, NEW events, NEW n \in Nat
    PROVE  \E g : IsRun(g, start, events, n)
<1> DEFINE Fails == {m \in Nat : \A g : ~IsRun(g, start, events, m)}
<1> SUFFICES ASSUME Fails # {} PROVE FALSE
  OBVIOUS
<1>1. Fails \in SUBSET Nat
  OBVIOUS
<1>2. PICK m \in Fails : \A k \in Fails : m <= k
  BY <1>1, LeastElement
<1>3. m # 0
  <2> DEFINE g == [k \in 0 .. 0 |-> start]
  <2>1. g = [k \in 0 .. 0 |-> IF k = 0 THEN start ELSE RecoverEvent(g[k-1], events[k])]
    OBVIOUS
  <2>2. IsRun(g, start, events, 0)
    BY <2>1 DEF IsRun
  <2>3. QED
    BY <1>2, <2>2
<1>4. m - 1 \in Nat /\ m \in Nat /\ m - 1 \notin Fails
  BY <1>2, <1>3
<1>5. PICK g : IsRun(g, start, events, m - 1)
  BY <1>4
<1> DEFINE h == [k \in 0 .. m |-> IF k = m THEN RecoverEvent(g[m-1], events[m]) ELSE g[k]]
<1>6. ASSUME NEW k \in 0 .. m
      PROVE  h[k] = IF k = 0 THEN start ELSE RecoverEvent(h[k-1], events[k])
  <2>1. CASE k = m
    <3>1. h[k] = RecoverEvent(g[m-1], events[m]) /\ h[k-1] = g[m-1]
      BY <1>3, <1>4, <2>1
    <3>2. QED
      BY <1>3, <2>1, <3>1
  <2>2. CASE k # m
    <3>1. k \in 0 .. m - 1 /\ h[k] = g[k]
      BY <1>4, <2>2
    <3>2. g[k] = IF k = 0 THEN start ELSE RecoverEvent(g[k-1], events[k])
      BY <1>5, <3>1 DEF IsRun
    <3>3. k # 0 => h[k-1] = g[k-1]
      BY <1>4, <3>1
    <3>4. QED
      BY <3>1, <3>2, <3>3
  <2>3. QED
    BY <2>1, <2>2
<1>7. h = [k \in 0 .. m |-> h[k]]
  OBVIOUS
<1> HIDE DEF h
<1>8. IsRun(h, start, events, m)
  BY <1>6, <1>7 DEF IsRun
<1>9. QED
  BY <1>2, <1>8

(* Replay carries one out.                                                 *)
LEMMA ReplayIsRun ==
    ASSUME NEW start, NEW events, Len(events) \in Nat
    PROVE  \E g : IsRun(g, start, events, Len(events)) /\ Replay(start, events) = g[Len(events)]
<1> DEFINE after == CHOOSE g : IsRun(g, start, events, Len(events))
<1>1. IsRun(after, start, events, Len(events))
  BY RunExists
<1>2. Replay(start, events) = after[Len(events)]
  BY Zenon DEF Replay, IsRun
<1>3. QED
  BY <1>1, <1>2

(* A run goes the same way as far as the events are the same.              *)
LEMMA RunsAgree ==
    ASSUME NEW start, NEW v, NEW w, NEW m \in Nat, NEW n \in Nat, m <= n,
           \A i \in 1 .. m : v[i] = w[i],
           NEW g, NEW h, IsRun(g, start, v, m), IsRun(h, start, w, n)
    PROVE  g[m] = h[m]
<1> DEFINE Differ == {k \in 0 .. m : g[k] # h[k]}
<1> SUFFICES ASSUME Differ # {} PROVE FALSE
  OBVIOUS
<1>1. PICK k \in Differ : \A i \in Differ : k <= i
  <2>1. Differ \in SUBSET Nat
    OBVIOUS
  <2>2. QED
    BY <2>1, LeastElement
<1>2. g[k] = IF k = 0 THEN start ELSE RecoverEvent(g[k-1], v[k])
  BY DEF IsRun
<1>3. h[k] = IF k = 0 THEN start ELSE RecoverEvent(h[k-1], w[k])
  BY DEF IsRun
<1>4. k # 0
  BY <1>1, <1>2, <1>3
<1>5. k - 1 \in 0 .. m /\ k - 1 \notin Differ /\ k \in 1 .. m
  BY <1>1, <1>4
<1>6. QED
  BY <1>1, <1>2, <1>3, <1>4, <1>5

(* No order is among the events after number m up to n.                    *)
NoOrders(w, m, n) == \A i \in m + 1 .. n : w[i].type # "Order"

(* It stays where it is as long as no order comes.                         *)
LEMMA RunStays ==
    ASSUME NEW start, NEW w, NEW n \in Nat, NEW h, IsRun(h, start, w, n),
           NEW m \in 0 .. n, NoOrders(w, m, n)
    PROVE  h[n] = h[m]
<1> DEFINE Differ == {k \in m .. n : h[k] # h[m]}
<1> SUFFICES ASSUME Differ # {} PROVE FALSE
  OBVIOUS
<1>1. PICK k \in Differ : \A i \in Differ : k <= i
  <2>1. Differ \in SUBSET Nat
    OBVIOUS
  <2>2. QED
    BY <2>1, LeastElement
<1>2. k \in m + 1 .. n /\ k - 1 \in m .. n /\ k - 1 \notin Differ
  BY <1>1
<1>3. h[k] = RecoverEvent(h[k-1], w[k])
  BY <1>2 DEF IsRun
<1>4. QED
  BY <1>1, <1>2, <1>3 DEF RecoverEvent, NoOrders

(* An order and its events, replayed after a journal, give what the call   *)
(* gave.                                                                   *)
LEMMA ReplayBatch ==
    ASSUME NEW start, NEW T, NEW w \in Seq(T), NEW o, NEW b \in Seq(T), Len(b) > 0,
           b[1] = OrderEvent(o),
           \A k \in 1 .. Len(b) : k # 1 => b[k].type # "Order"
    PROVE  Replay(start, w \o b) = Call(Replay(start, w), o).engine
<1> DEFINE m == Len(w)
           wb == w \o b
           n == Len(wb)
<1>1. Len(w) = m /\ Len(wb) = n /\ m \in Nat /\ n \in Nat /\ n = m + Len(b) /\ Len(b) \in Nat /\ m <= n
  OBVIOUS
<1>2. /\ \A i \in 1 .. m : w[i] = wb[i]
      /\ wb[m+1] = OrderEvent(o)
      /\ \A i \in m + 2 .. n : wb[i].type # "Order"
  <2>1. \A i \in 1 .. n : (w \o b)[i] = IF i <= m THEN w[i] ELSE b[i - m]
    OBVIOUS
  <2>2. m + 1 \in 1 .. n /\ (m + 1) - m = 1 /\ ~(m + 1 <= m)
    BY <1>1
  <2>3. \A i \in m + 2 .. n : i \in 1 .. n /\ ~(i <= m) /\ i - m \in 1 .. Len(b) /\ i - m # 1
    BY <1>1
  <2>4. \A i \in 1 .. m : i \in 1 .. n /\ i <= m
    BY <1>1
  <2>5. (w \o b)[m+1] = b[1]
    BY <2>1, <2>2
  <2>6. QED
    BY <2>1, <2>3, <2>4, <2>5
<1> HIDE DEF m, n, wb
<1>3. PICK g : IsRun(g, start, w, m) /\ Replay(start, w) = g[m]
  BY <1>1, ReplayIsRun
<1>4. PICK h : IsRun(h, start, wb, n) /\ Replay(start, wb) = h[n]
  BY <1>1, ReplayIsRun
<1>5. g[m] = h[m]
  <2>1. \A g1, h1 : IsRun(g1, start, w, m) /\ IsRun(h1, start, wb, n) => g1[m] = h1[m]
    BY <1>1, <1>2, RunsAgree
  <2>2. QED
    BY <1>3, <1>4, <2>1
<1>6. h[m+1] = Call(h[m], o).engine
  <2>1. m + 1 \in 0 .. n /\ m + 1 # 0 /\ (m + 1) - 1 = m
    BY <1>1
  <2>2. h[m+1] = RecoverEvent(h[m], wb[m+1])
    BY <1>4, <2>1 DEF IsRun
  <2>3. QED
    BY <1>2, <2>2 DEF RecoverEvent, OrderEvent
<1>7. h[n] = h[m+1]
  <2>1. m + 1 \in Nat /\ m + 1 <= n /\ (m + 1) + 1 = m + 2
    BY <1>1
  <2>2. QED
    <3>1. \A k \in 0 .. n : NoOrders(wb, k, n) => h[n] = h[k]
      BY <1>1, <1>4, RunStays
    <3>2. m + 1 \in 0 .. n /\ NoOrders(wb, m + 1, n)
      BY <1>2, <2>1 DEF NoOrders
    <3>3. QED
      BY <3>1, <3>2
<1>8. QED
  BY <1>3, <1>4, <1>5, <1>6, <1>7 DEF wb

(* Holes at the end make no difference, nor do holes added to it.          *)
LEMMA ReplayPrefix ==
    ASSUME NEW start, NEW v, NEW w, Len(v) \in Nat, Len(w) \in Nat, Len(v) <= Len(w),
           \A i \in 1 .. Len(v) : v[i] = w[i],
           \A i \in Len(v) + 1 .. Len(w) : w[i].type # "Order"
    PROVE  Replay(start, w) = Replay(start, v)
<1>1. PICK g : IsRun(g, start, v, Len(v)) /\ Replay(start, v) = g[Len(v)]
  BY ReplayIsRun
<1>2. PICK h : IsRun(h, start, w, Len(w)) /\ Replay(start, w) = h[Len(w)]
  BY ReplayIsRun
<1>3. g[Len(v)] = h[Len(v)]
  <2>1. \A g1, h1 : IsRun(g1, start, v, Len(v)) /\ IsRun(h1, start, w, Len(w)) => g1[Len(v)] = h1[Len(v)]
    BY RunsAgree
  <2>2. QED
    BY <1>1, <1>2, <2>1
<1>4. h[Len(w)] = h[Len(v)]
  <2>1. \A m \in 0 .. Len(w) : NoOrders(w, m, Len(w)) => h[Len(w)] = h[m]
    BY <1>2, RunStays
  <2>2. Len(v) \in 0 .. Len(w) /\ NoOrders(w, Len(v), Len(w))
    BY DEF NoOrders
  <2>3. QED
    BY <2>1, <2>2
<1>5. QED
  BY <1>1, <1>2, <1>3, <1>4

(* What Call picks is a result of the call.                                *)
LEMMA CallIsResult ==
    ASSUME NEW e, SoundEngine(e), NEW o \in Orders
    PROVE  /\ Call(e, o) \in WithOrder(e, o)
           /\ SoundEngine(Call(e, o).engine)
           /\ Call(e, o).trades \in Seq(Trade)
<1>1. o \in OpenOrder
  BY OrdersAreOpen
<1>2. WithOrder(e, o) # {}
  BY <1>1, CallFacts
<1>3. Call(e, o) \in WithOrder(e, o)
  BY <1>2 DEF Call
<1>4. QED
  BY <1>1, <1>3, CallFacts

(* A replay of what the journal holds gives a sound engine.                *)
LEMMA ReplaySound ==
    ASSUME NEW start, SoundEngine(start), NEW w, Len(w) \in Nat,
           \A i \in 1 .. Len(w) : w[i].type = "Order" => w[i].order \in Orders
    PROVE  SoundEngine(Replay(start, w))
<1>1. PICK g : IsRun(g, start, w, Len(w)) /\ Replay(start, w) = g[Len(w)]
  BY ReplayIsRun
<1> DEFINE Unsound == {k \in 0 .. Len(w) : ~SoundEngine(g[k])}
<1>2. Unsound = {}
  <2> SUFFICES ASSUME Unsound # {} PROVE FALSE
    OBVIOUS
  <2>1. Unsound \in SUBSET Nat
    OBVIOUS
  <2>2. PICK k \in Unsound : \A i \in Unsound : k <= i
    BY <2>1, LeastElement
  <2>3. g[k] = IF k = 0 THEN start ELSE RecoverEvent(g[k-1], w[k])
    BY <1>1 DEF IsRun
  <2>4. k # 0
    BY <2>2, <2>3
  <2>5. k \in 1 .. Len(w) /\ k - 1 \in 0 .. Len(w) /\ k - 1 \notin Unsound
    BY <2>2, <2>4
  <2>6. SoundEngine(g[k-1]) /\ g[k] = RecoverEvent(g[k-1], w[k])
    BY <2>3, <2>4, <2>5
  <2>7. SoundEngine(g[k])
    BY <2>5, <2>6, CallIsResult DEF RecoverEvent
  <2>8. QED
    BY <2>2, <2>7
<1>3. QED
  BY <1>1, <1>2

(* An event of the journal is an order of the traders, if it is an order.  *)
LEMMA EventFacts ==
    /\ TradeEvent \subseteq Event /\ Hole \in Event
    /\ Hole.type = "Hole"
    /\ \A e \in Event : e # Hole => e \in TradeEvent /\ e.type # "Hole"
    /\ \A e \in Event : e.type = "Order" => e.order \in Orders
BY DEF Event, TradeEvent, Hole

(* Holes at the end of the journal make no difference to a replay.         *)
LEMMA HolesMakeNoDifference ==
    ASSUME NEW w \in Seq(Event), NEW v \in Seq(Event), Len(w) <= Len(v),
           \A i \in 1 .. Len(w) : w[i] = v[i],
           \A i \in Len(w) + 1 .. Len(v) : v[i] = Hole
    PROVE  Replay(NewEngine, v) = Replay(NewEngine, w)
<1>1. Len(w) \in Nat /\ Len(v) \in Nat
  OBVIOUS
<1>2. \A i \in Len(w) + 1 .. Len(v) : v[i].type # "Order"
  BY EventFacts
<1>3. QED
  BY <1>1, <1>2, ReplayPrefix

(* Whatever a recovery starts from, it ends with a sound engine.           *)
LEMMA RecoveredSound ==
    ASSUME SoundStores, written \in Seq(Event)
    PROVE  /\ SoundEngine(Recovered(snapshots, written, deletedTo))
           /\ snapshots = {} =>
                Recovered(snapshots, written, deletedTo) = Replay(NewEngine, written)
<1> DEFINE read == EventsToReplay(snapshots, written, deletedTo)
<1>1. read \in Seq(Event) /\ (snapshots = {} => read = written)
  BY EventsToReplayFacts
<1>2. Recovered(snapshots, written, deletedTo) = Replay(NewEngine, read)
  BY DEF Recovered, FromSnapshot
<1> HIDE DEF read
<1>3. Len(read) \in Nat /\ \A i \in 1 .. Len(read) : read[i] \in Event
  BY <1>1
<1>4. SoundEngine(Replay(NewEngine, read))
  BY <1>3, NewEngineSound, ReplaySound, EventFacts
<1>5. QED
  BY <1>1, <1>2, <1>4

-----------------------------------------------------------------------------
(* The invariant *)

(* What is being written is what the call of the book has returned; apart  *)
(* from that the engine is the book; the events whose handlers are still   *)
(* to run have been written, and none of them is published.                *)
Stages ==
    /\ stage = "writing" =>
          \E o \in Orders : /\ batch = PersistableEvents(o, Call(book, o).trades)
                            /\ engine = Call(book, o).engine
    /\ stage # "writing" => batch = << >> /\ (up => engine = book)
    /\ stage = "handling" =>
          /\ next \in 1 .. Len(written)
          /\ \A i \in next .. Len(written) : written[i] # Hole
          /\ \A i \in DOMAIN published : published[i] < next
    /\ ~up => stage = "idle" /\ requests = {}

(* The book is the replay of the journal until the incarnation diverges;   *)
(* of a stopped actor it is what a recovery will give.                     *)
BookIsReplayed ==
    /\ diverged => everDiverged
    /\ up /\ ~diverged => book = Replay(NewEngine, written)
    /\ ~up => book = Recovered(snapshots, written, deletedTo)

IInv ==
    /\ TypeOK
    /\ SoundStores
    /\ SoundEngine(engine) /\ SoundEngine(book)
    /\ Stages
    /\ BookIsReplayed
    /\ ConfirmedIsJournaled
    /\ PublishedFollowsJournal

(* A sound engine has the type of an engine, and so has its snapshot.      *)
LEMMA SoundEngineType ==
    ASSUME NEW e, SoundEngine(e)
    PROVE  e \in Engine /\ GetSnapshot(e) \in [Sides -> SUBSET Order]
<1>1. OpenOrder \subseteq Order
  BY DEF OpenOrder
<1>2. /\ e \in [orders : [Sides -> SUBSET OpenOrder], index : [Sides -> Seq(OpenOrder)]]
  BY DEF SoundEngine
<1>3. \A side \in Sides : e.index[side] \in Seq(Order) /\ e.index[side] \in Seq(OpenOrder)
  BY <1>1, <1>2
<1>4. e \in Engine
  <2>1. e.orders \in [Sides -> SUBSET Order]
    BY <1>1, <1>2
  <2>2. e.index \in [Sides -> Seq(Order)]
    BY <1>2, <1>3
  <2>3. e = [orders |-> e.orders, index |-> e.index]
    BY <1>2
  <2>4. QED
    BY <2>1, <2>2, <2>3 DEF Engine
<1>5. \A side \in Sides : \A i \in DOMAIN e.index[side] : e.index[side][i] \in Order
  BY <1>3
<1>6. QED
  BY <1>4, <1>5 DEF GetSnapshot

(* The engine starts empty.                                                *)
LEMMA InitIInv == Init => IInv
<1> SUFFICES ASSUME Init PROVE IInv
  OBVIOUS
<1>1. /\ up = TRUE /\ engine = NewEngine /\ book = NewEngine /\ stage = "idle"
      /\ batch = << >> /\ next = 1 /\ confirmed = {} /\ published = << >>
      /\ deliveries = [o \in Orders |-> 0]
      /\ crashed = FALSE /\ diverged = FALSE /\ everDiverged = FALSE
      /\ written = << >> /\ deletedTo = 0 /\ snapshots = {} /\ requests = {} /\ acks = {}
  BY DEF Init, PersistenceInit
<1>2. TypeOK
  <2>1. engine \in Engine /\ book \in Engine
    BY <1>1, NewEngineSound, SoundEngineType
  <2>2. batch \in Seq(Event) /\ written \in Seq(Event) /\ published \in Seq(Nat)
    BY <1>1, EmptySeq
  <2>3. deliveries \in [Orders -> 0 .. 2]
    BY <1>1
  <2>4. PersistenceType(Event, [Sides -> SUBSET Order])
    BY <1>1, <2>2 DEF PersistenceType
  <2>5. QED
    BY <1>1, <2>1, <2>2, <2>3, <2>4 DEF TypeOK
<1>3. SoundStores
  BY PersistenceInitSound DEF Init
<1>4. Stages
  BY <1>1 DEF Stages
<1>5. BookIsReplayed
  <2>1. Len(<< >>) = 0
    OBVIOUS
  <2>2. PICK g : IsRun(g, NewEngine, << >>, 0) /\ Replay(NewEngine, << >>) = g[0]
    BY <2>1, ReplayIsRun
  <2>3. Replay(NewEngine, << >>) = NewEngine
    BY <2>2 DEF IsRun
  <2>4. QED
    BY <1>1, <2>3 DEF BookIsReplayed
<1>6. ConfirmedIsJournaled /\ PublishedFollowsJournal
  BY <1>1 DEF ConfirmedIsJournaled, PublishedFollowsJournal
<1>7. QED
  BY <1>1, <1>2, <1>3, <1>4, <1>5, <1>6, NewEngineSound DEF IInv

-----------------------------------------------------------------------------
(* The steps of the actor *)

(* The events of a call are events of the journal.                         *)
LEMMA CallBatch ==
    ASSUME NEW e, SoundEngine(e), NEW o \in Orders
    PROVE  LET b == PersistableEvents(o, Call(e, o).trades) IN
           /\ b \in Seq(Event) /\ Len(b) \in Nat /\ Len(b) > 0
           /\ b[1] = OrderEvent(o)
           /\ \A k \in 1 .. Len(b) : b[k] # Hole /\ (k # 1 => b[k].type # "Order")
<1> DEFINE b == PersistableEvents(o, Call(e, o).trades)
<1>1. /\ b \in Seq(TradeEvent) /\ Len(b) \in Nat /\ Len(b) > 0
      /\ b[1] = OrderEvent(o)
      /\ \A k \in 1 .. Len(b) : k # 1 => b[k].type # "Order"
  BY CallIsResult, BatchFacts
<1> HIDE DEF b
<1>2. b \in Seq(Event)
  BY <1>1, EventFacts
<1>3. \A x \in TradeEvent : x # Hole
  BY DEF TradeEvent, Hole
<1>4. \A k \in 1 .. Len(b) : b[k] \in TradeEvent
  BY <1>1
<1>5. QED
  BY <1>1, <1>2, <1>3, <1>4 DEF b

(* An order is processed.                                                  *)
LEMMA ProcessIInv ==
    ASSUME IInv, NEW o \in Orders, Process(o)
    PROVE  IInv'
<1> DEFINE r == Call(engine, o)
<1>1. /\ up /\ stage = "idle" /\ stage' = "writing" /\ engine' = r.engine
      /\ batch' = PersistableEvents(o, r.trades)
      /\ deliveries' = [deliveries EXCEPT ![o] = @ + 1]
      /\ deliveries[o] \in {0, 1}
      /\ UNCHANGED <<up, next, book, confirmed, published, crashed, diverged, everDiverged>>
      /\ UNCHANGED <<written, deletedTo, snapshots, requests, acks>>
  BY DEF Process, Deliverable, store, calls
<1>2. engine = book
  BY <1>1 DEF IInv, Stages
<1>3. SoundEngine(r.engine)
  BY CallIsResult DEF IInv
<1>4. batch' \in Seq(Event)
  BY <1>1, CallBatch DEF IInv
<1> HIDE DEF r
<1>5. TypeOK'
  <2>1. engine' \in Engine /\ book' \in Engine
    BY <1>1, <1>3, SoundEngineType DEF IInv, TypeOK
  <2>2. deliveries' \in [Orders -> 0 .. 2]
    BY <1>1 DEF IInv, TypeOK
  <2>3. PersistenceType(Event, [Sides -> SUBSET Order])'
    BY <1>1 DEF IInv, TypeOK, PersistenceType
  <2>4. QED
    BY <1>1, <1>4, <2>1, <2>2, <2>3 DEF IInv, TypeOK
<1>6. SoundStores'
  BY <1>1, UnchangedSound DEF IInv
<1>7. Stages'
  BY <1>1, <1>2 DEF r, Stages
<1>8. BookIsReplayed'
  BY <1>1 DEF IInv, BookIsReplayed
<1>9. ConfirmedIsJournaled' /\ PublishedFollowsJournal'
  BY <1>1 DEF IInv, ConfirmedIsJournaled, Journaled, PublishedFollowsJournal
<1>10. QED
  BY <1>1, <1>3, <1>5, <1>6, <1>7, <1>8, <1>9 DEF IInv

(* What appending to the journal leaves as it was.                         *)
LEMMA AppendedFacts ==
    ASSUME written \in Seq(Event), NEW b \in Seq(Event), written' = written \o b
    PROVE  /\ Len(written) \in Nat /\ Len(b) \in Nat
           /\ written' \in Seq(Event) /\ Len(written') = Len(written) + Len(b)
           /\ DOMAIN written = 1 .. Len(written) /\ DOMAIN written' = 1 .. Len(written')
           /\ \A i \in 1 .. Len(written) : i \in 1 .. Len(written') /\ written'[i] = written[i]
           /\ \A i \in Len(written) + 1 .. Len(written') :
                 i - Len(written) \in 1 .. Len(b) /\ written'[i] = b[i - Len(written)]
BY ConcatProperties

(* What has been journaled stays so.                                       *)
LEMMA JournaledStays ==
    ASSUME ConfirmedIsJournaled, confirmed' = confirmed,
           \A i \in DOMAIN written : written[i].type = "Order" =>
              i \in DOMAIN written' /\ written'[i] = written[i]
    PROVE  ConfirmedIsJournaled'
BY DEF ConfirmedIsJournaled, Journaled

(* The events of an order are written: from now on they are part of the    *)
(* book.                                                                   *)
LEMMA WriteMessagesIInv ==
    ASSUME IInv, WriteMessages
    PROVE  IInv'
<1>1. /\ up /\ stage = "writing" /\ written' = written \o batch /\ batch' = << >>
      /\ next' = Len(written) + 1 /\ stage' = "handling" /\ book' = engine
      /\ UNCHANGED <<up, engine, confirmed, published, deliveries,
                     crashed, diverged, everDiverged>>
      /\ UNCHANGED <<deletedTo, snapshots, requests, acks>>
  BY DEF WriteMessages, Write, calls
<1>2. PICK o \in Orders : /\ batch = PersistableEvents(o, Call(book, o).trades)
                          /\ engine = Call(book, o).engine
  BY <1>1 DEF IInv, Stages
<1>3. /\ batch \in Seq(Event) /\ Len(batch) \in Nat /\ Len(batch) > 0
      /\ batch[1] = OrderEvent(o)
      /\ \A k \in 1 .. Len(batch) : batch[k] # Hole /\ (k # 1 => batch[k].type # "Order")
  BY <1>2, CallBatch DEF IInv
<1>4. written \in Seq(Event)
  BY DEF IInv, TypeOK, PersistenceType
<1>5. /\ Len(written) \in Nat
      /\ written' \in Seq(Event) /\ Len(written') = Len(written) + Len(batch)
      /\ DOMAIN written = 1 .. Len(written) /\ DOMAIN written' = 1 .. Len(written')
      /\ \A i \in 1 .. Len(written) : i \in 1 .. Len(written') /\ written'[i] = written[i]
      /\ \A i \in Len(written) + 1 .. Len(written') :
            i - Len(written) \in 1 .. Len(batch) /\ written'[i] = batch[i - Len(written)]
  BY <1>1, <1>3, <1>4, AppendedFacts
<1>6. TypeOK'
  <2>1. batch' \in Seq(Event) /\ next' \in Nat
    BY <1>1, <1>5, EmptySeq
  <2>2. PersistenceType(Event, [Sides -> SUBSET Order])'
    BY <1>1, <1>5 DEF IInv, TypeOK, PersistenceType
  <2>3. QED
    BY <1>1, <2>1, <2>2 DEF IInv, TypeOK
<1>7. SoundStores'
  BY <1>1, UnchangedSound DEF IInv
<1>8. Stages'
  <2>1. next' \in 1 .. Len(written') /\ \A i \in next' .. Len(written') : written'[i] # Hole
    BY <1>1, <1>3, <1>5
  <2>2. \A i \in DOMAIN published : published[i] < Len(written) + 1
    BY <1>5 DEF IInv, PublishedFollowsJournal
  <2>3. QED
    BY <1>1, <2>1, <2>2 DEF Stages
<1>9. BookIsReplayed'
  <2>1. Replay(NewEngine, written') = Call(Replay(NewEngine, written), o).engine
    BY <1>1, <1>3, <1>4, ReplayBatch
  <2>2. QED
    BY <1>1, <1>2, <2>1 DEF IInv, BookIsReplayed
<1>10. ConfirmedIsJournaled'
  BY <1>1, <1>5, JournaledStays DEF IInv
<1>11. PublishedFollowsJournal'
  <2>1. \A i \in DOMAIN published : published[i] \in 1 .. Len(written)
                                     /\ written[published[i]] # Hole
    BY <1>5 DEF IInv, PublishedFollowsJournal
  <2>2. ~crashed => \A n \in 1 .. Len(written) : written[n] # Hole => n \in Range(published)
    BY <1>1, <1>5 DEF IInv, PublishedFollowsJournal
  <2>3. \A n \in 1 .. Len(written') : n < next' => n \in 1 .. Len(written)
    BY <1>1, <1>5
  <2>4. \A i, j \in DOMAIN published : i < j => published[i] < published[j]
    BY DEF IInv, PublishedFollowsJournal
  <2>5. \A i \in DOMAIN published : published[i] \in 1 .. Len(written')
                                     /\ written'[published[i]] # Hole
    BY <1>5, <2>1
  <2>6. ~crashed => \A n \in 1 .. Len(written') :
           written'[n] # Hole /\ n < next' => n \in Range(published)
    BY <1>5, <2>2, <2>3
  <2>7. QED
    BY <1>1, <1>5, <2>4, <2>5, <2>6 DEF PublishedFollowsJournal
<1>12. QED
  BY <1>1, <1>6, <1>7, <1>8, <1>9, <1>10, <1>11 DEF IInv

(* They are rejected: the engine diverges from the journal.                *)
LEMMA RejectMessagesIInv ==
    ASSUME IInv, RejectMessages
    PROVE  IInv'
<1> DEFINE holes == [i \in DOMAIN batch |-> Hole]
<1>1. /\ up /\ stage = "writing" /\ written' = written \o holes /\ batch' = << >>
      /\ stage' = "idle" /\ diverged' = TRUE /\ everDiverged' = TRUE /\ book' = engine
      /\ UNCHANGED <<up, engine, next, confirmed, published, deliveries, crashed>>
      /\ UNCHANGED <<deletedTo, snapshots, requests, acks>>
  BY DEF RejectMessages, Reject, calls
<1>2. /\ holes \in Seq(Event) /\ \A i \in 1 .. Len(holes) : holes[i] = Hole
  <2>1. batch \in Seq(Event)
    BY DEF IInv, TypeOK
  <2>2. Len(batch) \in Nat /\ DOMAIN batch = 1 .. Len(batch)
    BY <2>1
  <2>3. holes \in [1 .. Len(batch) -> Event]
    BY <2>2, EventFacts
  <2>4. QED
    BY <2>2, <2>3
<1>3. written \in Seq(Event)
  BY DEF IInv, TypeOK, PersistenceType
<1> HIDE DEF holes
<1>4. /\ Len(written) \in Nat
      /\ written' \in Seq(Event) /\ Len(written') = Len(written) + Len(holes)
      /\ DOMAIN written = 1 .. Len(written) /\ DOMAIN written' = 1 .. Len(written')
      /\ \A i \in 1 .. Len(written) : i \in 1 .. Len(written') /\ written'[i] = written[i]
      /\ \A i \in Len(written) + 1 .. Len(written') :
            i - Len(written) \in 1 .. Len(holes) /\ written'[i] = holes[i - Len(written)]
  BY <1>1, <1>2, <1>3, AppendedFacts
<1>5. TypeOK'
  <2>1. PersistenceType(Event, [Sides -> SUBSET Order])'
    BY <1>1, <1>4 DEF IInv, TypeOK, PersistenceType
  <2>2. QED
    BY <1>1, <2>1, EmptySeq DEF IInv, TypeOK
<1>6. SoundStores'
  BY <1>1, UnchangedSound DEF IInv
<1>7. Stages' /\ BookIsReplayed'
  BY <1>1 DEF Stages, BookIsReplayed
<1>8. ConfirmedIsJournaled'
  BY <1>1, <1>4, JournaledStays DEF IInv
<1>9. PublishedFollowsJournal'
  <2>1. \A i \in Len(written) + 1 .. Len(written') : written'[i] = Hole
    BY <1>2, <1>4
  <2>2. \A i \in 1 .. Len(written') :
           written'[i] # Hole => i \in 1 .. Len(written) /\ written[i] # Hole
    BY <1>4, <2>1
  <2>3. QED
    BY <1>1, <1>4, <2>2 DEF IInv, PublishedFollowsJournal
<1>10. QED
  BY <1>1, <1>5, <1>6, <1>7, <1>8, <1>9 DEF IInv

(* The handler of an event runs.                                           *)
LEMMA PersistTradeIInv ==
    ASSUME IInv, PersistTrade
    PROVE  IInv'
<1>0. /\ SaveWhenDue(next, SnapshotInterval, GetSnapshot(engine))
      /\ confirmed' = IF written[next].type = "Order"
                      THEN confirmed \cup {written[next].order.id} ELSE confirmed
  BY DEF PersistTrade
<1>1. /\ up /\ stage = "handling"
      /\ published' = Append(published, next)
      /\ next' = next + 1
      /\ stage' = IF next = Len(written) THEN "idle" ELSE "handling"
      /\ UNCHANGED <<up, engine, batch, book, deliveries, crashed, diverged, everDiverged>>
  BY DEF PersistTrade
<1>2. UNCHANGED <<written, deletedTo, snapshots, acks>>
  BY <1>0 DEF SaveWhenDue, store
<1>3. /\ next \in 1 .. Len(written) /\ Len(written) \in Nat
      /\ \A i \in next .. Len(written) : written[i] # Hole
      /\ \A i \in DOMAIN published : published[i] < next
      /\ batch = << >> /\ engine = book
  BY <1>1 DEF IInv, Stages, TypeOK, PersistenceType
<1>4. next \in Nat \ {0}
  BY <1>3
<1>n. next' = next + 1 /\ next' \in Nat
  BY <1>1, <1>4
<1>w. /\ next \in DOMAIN written /\ written[next] # Hole
      /\ DOMAIN written = 1 .. Len(written) /\ written[next] \in Event
  BY <1>3 DEF IInv, TypeOK, PersistenceType
<1>5. published \in Seq(Nat) /\ Len(published) \in Nat
  BY DEF IInv, TypeOK
<1>6. /\ published' \in Seq(Nat) /\ Len(published') = Len(published) + 1
      /\ DOMAIN published = 1 .. Len(published) /\ DOMAIN published' = 1 .. Len(published) + 1
      /\ \A i \in 1 .. Len(published) : published'[i] = published[i]
      /\ published'[Len(published) + 1] = next
  <2>1. published' = Append(published, next) /\ next \in Nat
    BY <1>1, <1>4
  <2>2. QED
    BY <1>5, <2>1, AppendProperties
<1>7. TypeOK'
  <2>1. PersistenceType(Event, [Sides -> SUBSET Order])'
    <3>1. GetSnapshot(engine) \in [Sides -> SUBSET Order]
      BY SoundEngineType DEF IInv
    <3>2. QED
      BY <1>0, <1>4, <3>1, SaveWhenDueType DEF IInv, TypeOK
  <2>2. confirmed' \subseteq OrderIds
    <3>1. written[next].type = "Order" => written[next].order \in Orders
      BY <1>w, EventFacts
    <3>2. \A o \in Orders : o.id \in OrderIds
      BY OrdersAssumption, OrderFacts
    <3>3. confirmed \subseteq OrderIds
      BY DEF IInv, TypeOK
    <3>4. QED
      BY <1>0, <3>1, <3>2, <3>3
  <2>3. stage' \in {"idle", "writing", "handling"} /\ next' \in Nat
    BY <1>1, <1>n
  <2>4. QED
    BY <1>1, <1>6, <2>1, <2>2, <2>3 DEF IInv, TypeOK
<1>8. SoundStores'
  BY <1>0, <1>4, SaveWhenDueSound DEF IInv
<1>9. Stages'
  <2>1. stage' # "writing" /\ batch' = << >> /\ engine' = book' /\ up'
    BY <1>1, <1>3
  <2>2. ASSUME stage' = "handling"
        PROVE  /\ next' \in 1 .. Len(written')
               /\ \A i \in next' .. Len(written') : written'[i] # Hole
               /\ \A i \in DOMAIN published' : published'[i] < next'
    <3>1. next # Len(written)
      BY <1>1, <2>2
    <3>2. next' \in 1 .. Len(written') /\ \A i \in next' .. Len(written') : i \in next .. Len(written)
      BY <1>1, <1>2, <1>3, <3>1
    <3>3. ASSUME NEW i \in DOMAIN published' PROVE published'[i] < next'
      <4>1. CASE i = Len(published) + 1
        BY <1>4, <1>n, <1>6, <4>1
      <4>2. CASE i # Len(published) + 1
        <5>1. i \in 1 .. Len(published) /\ published[i] \in Nat
          BY <1>5, <1>6, <4>2
        <5>2. published'[i] = published[i] /\ published[i] < next
          BY <1>3, <1>6, <5>1
        <5>3. QED
          BY <1>4, <1>n, <5>1, <5>2
      <4>3. QED
        BY <4>1, <4>2
    <3>4. QED
      BY <1>2, <1>3, <3>2, <3>3
  <2>3. QED
    BY <2>1, <2>2 DEF Stages
<1>10. BookIsReplayed'
  BY <1>1, <1>2 DEF IInv, BookIsReplayed
<1>11. ConfirmedIsJournaled'
  <2>1. \A id : Journaled(id) => Journaled(id)'
    BY <1>2 DEF Journaled
  <2>2. ASSUME NEW id, written[next].type = "Order", id = written[next].order.id
        PROVE  Journaled(id)'
    BY <1>2, <1>w, <2>2 DEF Journaled
  <2>3. ASSUME NEW id \in confirmed' PROVE Journaled(id)'
    <3>1. CASE id \in confirmed
      BY <2>1, <3>1 DEF IInv, ConfirmedIsJournaled
    <3>2. CASE id \notin confirmed
      BY <1>0, <2>2, <3>2
    <3>3. QED
      BY <3>1, <3>2
  <2>4. QED
    BY <2>3 DEF ConfirmedIsJournaled
<1>12. PublishedFollowsJournal'
  <2>1. ASSUME NEW i \in DOMAIN published', NEW j \in DOMAIN published', i < j
        PROVE  published'[i] < published'[j]
    <3>1. i \in 1 .. Len(published) /\ published'[i] = published[i]
      BY <1>5, <1>6, <2>1
    <3>2. CASE j = Len(published) + 1
      BY <1>3, <1>6, <3>1, <3>2
    <3>3. CASE j # Len(published) + 1
      <4>1. j \in 1 .. Len(published) /\ published'[j] = published[j]
        BY <1>5, <1>6, <3>3
      <4>2. QED
        BY <1>6, <2>1, <3>1, <4>1 DEF IInv, PublishedFollowsJournal
    <3>4. QED
      BY <3>2, <3>3
  <2>2. ASSUME NEW i \in DOMAIN published'
        PROVE  published'[i] \in DOMAIN written /\ written[published'[i]] # Hole
    <3>1. CASE i = Len(published) + 1
      BY <1>w, <1>6, <3>1
    <3>2. CASE i # Len(published) + 1
      <4>1. i \in 1 .. Len(published) /\ published'[i] = published[i]
        BY <1>5, <1>6, <3>2
      <4>2. QED
        BY <1>6, <4>1 DEF IInv, PublishedFollowsJournal
    <3>3. QED
      BY <3>1, <3>2
  <2>3. ASSUME ~crashed', NEW n \in DOMAIN written, written[n] # Hole,
               stage' = "handling" => n < next'
        PROVE  n \in Range(published')
    <3>0. n \in 1 .. Len(written)
      BY <1>w
    <3>1. n < next + 1
      <4>1. CASE next = Len(written)
        BY <1>3, <3>0, <4>1
      <4>2. CASE next # Len(written)
        <5>1. stage' = "handling"
          BY <1>1, <4>2
        <5>2. QED
          BY <1>n, <2>3, <5>1
      <4>3. QED
        BY <4>1, <4>2
    <3>2. CASE n = next
      BY <1>5, <1>6, <3>2 DEF Range
    <3>3. CASE n # next
      <4>1. n < next
        BY <1>4, <3>0, <3>1, <3>3
      <4>2. n \in Range(published)
        BY <1>1, <2>3, <4>1 DEF IInv, PublishedFollowsJournal
      <4>3. PICK i \in DOMAIN published : published[i] = n
        BY <4>2 DEF Range
      <4>4. i \in DOMAIN published' /\ published'[i] = n
        BY <1>5, <1>6, <4>3
      <4>5. QED
        BY <4>4 DEF Range
    <3>4. QED
      BY <3>2, <3>3
  <2>4. QED
    BY <1>2, <2>1, <2>2, <2>3 DEF PublishedFollowsJournal
<1>13. QED
  BY <1>1, <1>7, <1>8, <1>9, <1>10, <1>11, <1>12 DEF IInv

(* The stores act, or the actor starts its clean-up.                       *)
LEMMA StoresIInv ==
    ASSUME IInv, Stores \/ CleanUp
    PROVE  IInv'
<1>1. UNCHANGED <<actor, history, written>>
  BY DEF Stores, CleanUp, StoresAct, SaveSnapshot, DeleteSnapshots, DeleteMessages,
         SaveSnapshotSuccess, store
<1>2. UNCHANGED <<up, engine, stage, batch, next, book, confirmed, published, deliveries,
                  crashed, diverged, everDiverged>>
  BY <1>1 DEF actor, history
<1>3. up
  BY DEF IInv, Stages, Stores, CleanUp, StoresAct, SaveSnapshot, DeleteSnapshots, DeleteMessages
<1>4. SoundStores'
  BY StoresActSound, SaveSnapshotSuccessSound DEF IInv, Stores, CleanUp
<1>5. PersistenceType(Event, [Sides -> SUBSET Order])'
  BY StoresActType, SaveSnapshotSuccessType DEF IInv, TypeOK, Stores, CleanUp
<1>6. TypeOK'
  BY <1>2, <1>5 DEF IInv, TypeOK
<1>7. Stages' /\ BookIsReplayed'
  BY <1>1, <1>2, <1>3 DEF IInv, Stages, BookIsReplayed
<1>8. ConfirmedIsJournaled' /\ PublishedFollowsJournal'
  BY <1>1, <1>2 DEF IInv, ConfirmedIsJournaled, Journaled, PublishedFollowsJournal
<1>9. QED
  BY <1>2, <1>4, <1>6, <1>7, <1>8 DEF IInv

(* The actor stops.                                                        *)
LEMMA CrashIInv ==
    ASSUME IInv, Crash
    PROVE  IInv'
<1>1. /\ up' = FALSE /\ engine' = NewEngine /\ stage' = "idle" /\ batch' = << >> /\ next' = 1
      /\ crashed' = TRUE /\ diverged' = FALSE
      /\ book' = Recovered(snapshots, written, deletedTo)
      /\ requests' = {} /\ acks' = {}
      /\ UNCHANGED <<confirmed, published, deliveries, everDiverged>>
      /\ UNCHANGED <<written, deletedTo, snapshots>>
  BY DEF Crash, ForgetCalls, store
<1>2. SoundEngine(engine') /\ SoundEngine(book')
  BY <1>1, NewEngineSound, RecoveredSound DEF IInv, TypeOK, PersistenceType
<1>3. TypeOK'
  <2>1. engine' \in Engine /\ book' \in Engine
    BY <1>2, SoundEngineType
  <2>2. PersistenceType(Event, [Sides -> SUBSET Order])'
    BY <1>1 DEF IInv, TypeOK, PersistenceType
  <2>3. QED
    BY <1>1, <2>1, <2>2, EmptySeq DEF IInv, TypeOK
<1>4. SoundStores'
  BY ForgetCallsSound DEF IInv, Crash
<1>5. Stages' /\ BookIsReplayed'
  BY <1>1 DEF Stages, BookIsReplayed
<1>6. ConfirmedIsJournaled' /\ PublishedFollowsJournal'
  BY <1>1 DEF IInv, ConfirmedIsJournaled, Journaled, PublishedFollowsJournal
<1>7. QED
  BY <1>2, <1>3, <1>4, <1>5, <1>6 DEF IInv

(* What a restart reads off the journal and where it goes on: the numbers  *)
(* after its last event are free again.                                    *)
LEMMA RecoverNumbersFacts ==
    ASSUME written \in Seq(Event), RecoverNumbers
    PROVE  /\ written' \in Seq(Event) /\ Len(written') \in Nat /\ Len(written) \in Nat
           /\ Len(written') <= Len(written)
           /\ DOMAIN written = 1 .. Len(written) /\ DOMAIN written' = 1 .. Len(written')
           /\ \A i \in 1 .. Len(written') : written'[i] = written[i]
           /\ \A i \in Len(written') + 1 .. Len(written) : written[i] = Hole
<1>1. PICK m \in 0 .. Len(written) :
         /\ written' = SubSeq(written, 1, m)
         /\ \A i \in m + 1 .. Len(written) : written[i] = Hole
  BY WithoutTrailingHolesFacts DEF RecoverNumbers
<1>2. Len(written) \in Nat /\ DOMAIN written = 1 .. Len(written)
  OBVIOUS
<1>3. m \in Nat /\ \A i \in 1 .. m : written[i] \in Event
  BY <1>2
<1>4. /\ written' \in Seq(Event) /\ Len(written') = m
      /\ \A i \in 1 .. m : written'[i] = written[i]
  BY <1>1, <1>3, SubSeqProperties
<1>5. DOMAIN written' = 1 .. Len(written')
  BY <1>4
<1>6. QED
  BY <1>1, <1>2, <1>3, <1>4, <1>5

(* A new incarnation recovers.                                             *)
LEMMA RestartIInv ==
    ASSUME IInv, Restart
    PROVE  IInv'
<1>1. /\ ~up /\ up' = TRUE /\ RecoverNumbers
      /\ engine' = Recovered(snapshots, written, deletedTo)
      /\ diverged' = (snapshots # {}) /\ everDiverged' = (everDiverged \/ snapshots # {})
      /\ UNCHANGED <<stage, batch, next, book, confirmed, published, deliveries, crashed>>
  BY DEF Restart
<1>2. UNCHANGED <<deletedTo, snapshots, requests, acks>>
  BY <1>1 DEF RecoverNumbers, calls
<1>3. written \in Seq(Event)
  BY DEF IInv, TypeOK, PersistenceType
<1>4. /\ written' \in Seq(Event) /\ Len(written') \in Nat /\ Len(written) \in Nat
      /\ Len(written') <= Len(written)
      /\ DOMAIN written = 1 .. Len(written) /\ DOMAIN written' = 1 .. Len(written')
      /\ \A i \in 1 .. Len(written') : written'[i] = written[i]
      /\ \A i \in Len(written') + 1 .. Len(written) : written[i] = Hole
  BY <1>1, <1>3, RecoverNumbersFacts
<1>5. \A i \in 1 .. Len(written) : written[i] # Hole => i \in 1 .. Len(written')
  BY <1>4
<1>6. stage = "idle" /\ requests = {} /\ batch = << >> /\ engine' = book
  BY <1>1 DEF IInv, Stages, BookIsReplayed
<1>7. TypeOK'
  <2>1. PersistenceType(Event, [Sides -> SUBSET Order])'
    BY <1>2, <1>4 DEF IInv, TypeOK, PersistenceType
  <2>2. diverged' \in BOOLEAN /\ everDiverged' \in BOOLEAN
    BY <1>1 DEF IInv, TypeOK
  <2>3. QED
    BY <1>1, <1>6, <2>1, <2>2 DEF IInv, TypeOK
<1>8. SoundStores'
  BY <1>2, UnchangedSound DEF IInv
<1>9. Stages'
  BY <1>1, <1>6 DEF Stages
<1>10. BookIsReplayed'
  <2>1. snapshots = {} => book = Replay(NewEngine, written)
    BY <1>1, <1>3, RecoveredSound DEF IInv, BookIsReplayed
  <2>2. Replay(NewEngine, written) = Replay(NewEngine, written')
    BY <1>3, <1>4, HolesMakeNoDifference
  <2>3. QED
    BY <1>1, <2>1, <2>2 DEF BookIsReplayed
<1>11. ConfirmedIsJournaled'
  <2>1. \A i \in DOMAIN written : written[i].type = "Order" =>
           i \in DOMAIN written' /\ written'[i] = written[i]
    BY <1>4, <1>5, EventFacts
  <2>2. QED
    BY <1>1, <2>1, JournaledStays DEF IInv
<1>12. PublishedFollowsJournal'
  BY <1>1, <1>4, <1>5, <1>6 DEF IInv, PublishedFollowsJournal
<1>13. QED
  BY <1>1, <1>6, <1>7, <1>8, <1>9, <1>10, <1>11, <1>12 DEF IInv

(* Every step keeps the invariant.                                         *)
LEMMA NextIInv == IInv /\ [Next]_vars => IInv'
<1> SUFFICES ASSUME IInv, [Next]_vars PROVE IInv'
  OBVIOUS
<1>1. CASE UNCHANGED vars
  <2>1. UNCHANGED <<up, engine, stage, batch, next, book, confirmed, published, deliveries,
                    crashed, diverged, everDiverged, written, deletedTo, snapshots, requests, acks>>
    BY <1>1 DEF vars, actor, store, calls, history
  <2>2. SoundStores'
    BY <2>1, UnchangedSound DEF IInv
  <2>3. TypeOK'
    BY <2>1 DEF IInv, TypeOK, PersistenceType
  <2>4. Stages' /\ BookIsReplayed'
    BY <2>1 DEF IInv, Stages, BookIsReplayed
  <2>5. ConfirmedIsJournaled' /\ PublishedFollowsJournal'
    BY <2>1 DEF IInv, ConfirmedIsJournaled, Journaled, PublishedFollowsJournal
  <2>6. QED
    BY <2>1, <2>2, <2>3, <2>4, <2>5 DEF IInv
<1>2. CASE Next
  BY <1>2, ProcessIInv, WriteMessagesIInv, RejectMessagesIInv, PersistTradeIInv, StoresIInv,
     CrashIInv, RestartIInv DEF Next
<1>3. QED
  BY <1>1, <1>2

(* The inductive invariant holds.                                          *)
THEOREM Invariance == Spec => []IInv
BY InitIInv, NextIInv, PTL DEF Spec

(* The variables have their types: events, snapshots and numbers stay what *)
(* they are through every stop and recovery.                               *)
THEOREM TypeCorrect == Spec => []TypeOK
<1>1. IInv => TypeOK
  BY DEF IInv
<1>2. QED
  BY <1>1, Invariance, PTL

(* A stop at any moment loses at most the order being written: until it    *)
(* diverges, the engine is what replaying the journal and the events under *)
(* way gives.                                                              *)
THEOREM JournalGivesTheEngine == Spec => []EngineMatchesJournal
<1>1. IInv => EngineMatchesJournal
  <2> SUFFICES ASSUME IInv, up, ~diverged
               PROVE  engine = Replay(NewEngine, written \o batch)
    BY DEF EngineMatchesJournal
  <2>1. written \in Seq(Event) /\ book = Replay(NewEngine, written)
    BY DEF IInv, TypeOK, PersistenceType, BookIsReplayed
  <2>2. CASE stage = "writing"
    <3>1. PICK o \in Orders : /\ batch = PersistableEvents(o, Call(book, o).trades)
                              /\ engine = Call(book, o).engine
      BY <2>2 DEF IInv, Stages
    <3>2. /\ batch \in Seq(Event) /\ Len(batch) > 0 /\ batch[1] = OrderEvent(o)
          /\ \A k \in 1 .. Len(batch) : k # 1 => batch[k].type # "Order"
      BY <3>1, CallBatch DEF IInv
    <3>3. Replay(NewEngine, written \o batch) = Call(Replay(NewEngine, written), o).engine
      BY <2>1, <3>2, ReplayBatch
    <3>4. QED
      BY <2>1, <3>1, <3>3
  <2>3. CASE stage # "writing"
    <3>1. batch = << >> /\ engine = book
      BY <2>3 DEF IInv, Stages
    <3>2. written \o batch = written
      BY <2>1, <3>1, ConcatEmptySeq
    <3>3. QED
      BY <2>1, <3>1, <3>2
  <2>4. QED
    BY <2>2, <2>3
<1>2. QED
  BY <1>1, Invariance, PTL

(* An order is confirmed only when it has been written.                    *)
THEOREM ConfirmedOrdersAreJournaled == Spec => []ConfirmedIsJournaled
<1>1. IInv => ConfirmedIsJournaled
  BY DEF IInv
<1>2. QED
  BY <1>1, Invariance, PTL

(* Events are published in journal order, once, only when written, and all *)
(* of them unless the process has stopped.                                 *)
THEOREM PublishedInJournalOrder == Spec => []PublishedFollowsJournal
<1>1. IInv => PublishedFollowsJournal
  BY DEF IInv
<1>2. QED
  BY <1>1, Invariance, PTL

(* Events are deleted only when a stored snapshot covers them.             *)
THEOREM BookKeepsWhatItNeeds == Spec => []NothingNeededIsDeleted
<1>1. IInv => NothingNeededIsDeleted
  BY SoundIsEnough DEF IInv
<1>2. QED
  BY <1>1, Invariance, PTL

-----------------------------------------------------------------------------
(* The accounts *)

(* What the journal leaves open.                                           *)
LeftByJournal(id) == LeftOpen(Replay(NewEngine, written), id)

(* Until something diverges: the orders the journal leaves open are orders *)
(* of the traders; no order is journaled, or about to be, that was not     *)
(* delivered; of one that was delivered no more than once, what the        *)
(* journal fills it for and what it leaves open add up to its quantity, or *)
(* are both nothing when it is not journaled.                              *)
Accounts ==
    ~everDiverged =>
        /\ OfOrders(Replay(NewEngine, written))
        /\ \A o \in Orders :
              /\ Journaled(o.id) => deliveries[o] # 0
              /\ stage = "writing" /\ batch[1] = OrderEvent(o) =>
                    deliveries[o] # 0 /\ (deliveries[o] = 1 => ~Journaled(o.id))
              /\ deliveries[o] # 2 =>
                    JournaledFills(o.id) + LeftByJournal(o.id)
                        = IF Journaled(o.id) THEN o.qty ELSE 0

(* Nothing else happens to the accounts.                                   *)
LEMMA AccountsStay ==
    ASSUME Accounts, UNCHANGED <<written, deliveries>>, everDiverged' \/ everDiverged' = everDiverged,
           stage' = "writing" => stage = "writing" /\ batch' = batch
    PROVE  Accounts'
BY DEF Accounts, Journaled, JournaledFills, LeftByJournal

(* An order that is delivered for the first time is not journaled yet.     *)
LEMMA ProcessAccounts ==
    ASSUME IInv, Accounts, NEW o \in Orders, Process(o)
    PROVE  Accounts'
<1>1. /\ stage = "idle" /\ stage' = "writing"
      /\ batch' = PersistableEvents(o, Call(engine, o).trades)
      /\ deliveries' = [deliveries EXCEPT ![o] = @ + 1]
      /\ deliveries[o] \in {0, 1}
      /\ UNCHANGED <<written, everDiverged>>
  BY DEF Process, Deliverable, store
<1>2. batch'[1] = OrderEvent(o)
  BY <1>1, CallBatch DEF IInv
<1>3. \A p \in Orders : batch'[1] = OrderEvent(p) => p = o
  <2>1. OrderEvent(o).order = o /\ \A p \in Orders : OrderEvent(p).order = p
    BY DEF OrderEvent
  <2>2. QED
    BY <1>2, <2>1
<1>4. /\ deliveries'[o] # 0 /\ (deliveries'[o] = 1 => deliveries[o] = 0)
      /\ deliveries'[o] # 2 => deliveries[o] # 2
      /\ \A p \in Orders : p # o => deliveries'[p] = deliveries[p]
  BY <1>1 DEF IInv, TypeOK
<1> SUFFICES ASSUME ~everDiverged PROVE Accounts'
  BY <1>1 DEF Accounts
<1>5. OfOrders(Replay(NewEngine, written'))
  BY <1>1 DEF Accounts
<1>6. \A id : /\ Journaled(id)' <=> Journaled(id)
              /\ JournaledFills(id)' = JournaledFills(id)
              /\ LeftByJournal(id)' = LeftByJournal(id)
  BY <1>1 DEF Journaled, JournaledFills, LeftByJournal
<1>7. ASSUME NEW p \in Orders
      PROVE  /\ Journaled(p.id)' => deliveries'[p] # 0
             /\ stage' = "writing" /\ batch'[1] = OrderEvent(p) =>
                   deliveries'[p] # 0 /\ (deliveries'[p] = 1 => ~Journaled(p.id)')
             /\ deliveries'[p] # 2 =>
                   JournaledFills(p.id)' + LeftByJournal(p.id)'
                       = IF Journaled(p.id)' THEN p.qty ELSE 0
  <2>1. CASE p = o
    BY <1>4, <1>6, <2>1 DEF Accounts
  <2>2. CASE p # o
    BY <1>3, <1>4, <1>6, <2>2 DEF Accounts
  <2>3. QED
    BY <2>1, <2>2
<1>8. QED
  BY <1>5, <1>7 DEF Accounts

(* The Fill events of the journal are for whole quantities.                *)
LEMMA EventAmounts == \A x \in Event : x.type = "Fill" => x.qty \in Nat
BY DEF Event, TradeEvent, Hole

(* An order and its fills are written together.                            *)
LEMMA WriteMessagesAccounts ==
    ASSUME IInv, Accounts, WriteMessages
    PROVE  Accounts'
<1>1. /\ up /\ stage = "writing" /\ written' = written \o batch /\ stage' = "handling"
      /\ UNCHANGED <<deliveries, diverged, everDiverged>>
  BY DEF WriteMessages, Write
<1> SUFFICES ASSUME ~everDiverged PROVE Accounts'
  BY <1>1 DEF Accounts
<1> DEFINE before == Replay(NewEngine, written)
           after == Replay(NewEngine, written')
<1>2. PICK o \in Orders : /\ batch = PersistableEvents(o, Call(book, o).trades)
                          /\ engine = Call(book, o).engine
  BY <1>1 DEF IInv, Stages
<1>3. /\ batch \in Seq(Event) /\ Len(batch) > 0 /\ batch[1] = OrderEvent(o)
      /\ Len(batch) \in Nat
      /\ \A k \in 1 .. Len(batch) : k # 1 => batch[k].type # "Order"
  BY <1>2, CallBatch DEF IInv
<1>4. written \in Seq(Event)
  BY DEF IInv, TypeOK, PersistenceType
<1>5. book = before /\ SoundEngine(before)
  BY <1>1 DEF IInv, BookIsReplayed
<1>6. after = Call(before, o).engine
  BY <1>1, <1>3, <1>4, ReplayBatch
<1>7. Call(before, o) \in WithOrder(before, o)
  BY <1>5, CallIsResult
<1>8. OfOrders(before)
  BY DEF Accounts
<1> DEFINE new(id) == Total(FillAmounts(id, batch))
<1> HIDE DEF before, after
<1>9. /\ OfOrders(after)
      /\ \A id : LeftOpen(after, id) + new(id)
            = LeftOpen(before, id) + (IF id = o.id /\ ~ContainsKey(before.orders[o.side], o.id)
                                      THEN o.qty ELSE 0)
  BY <1>2, <1>5, <1>6, <1>7, <1>8, EventAccounts
<1>10. \A id : /\ JournaledFills(id) \in Nat /\ new(id) \in Nat
               /\ JournaledFills(id)' = JournaledFills(id) + new(id)
  <2> SUFFICES ASSUME NEW id
               PROVE  /\ JournaledFills(id) \in Nat /\ new(id) \in Nat
                      /\ JournaledFills(id)' = JournaledFills(id) + new(id)
    OBVIOUS
  <2>1. /\ Total(FillAmounts(id, written)) \in Nat /\ Total(FillAmounts(id, batch)) \in Nat
        /\ Total(FillAmounts(id, written \o batch))
              = Total(FillAmounts(id, written)) + Total(FillAmounts(id, batch))
    BY <1>3, <1>4, EventAmounts, TotalAmounts
  <2>2. QED
    BY <1>1, <2>1 DEF JournaledFills
<1> HIDE DEF new
<1>11. SoundEngine(after) /\ OpenOnce(before)
  BY <1>5, <1>6, <1>8, CallIsResult, OrdersOpenOnce
<1>12. \A id : LeftOpen(before, id) \in Nat /\ LeftOpen(after, id) \in Nat
  BY <1>5, <1>9, <1>11, OrdersOpenOnce, LeftOpenType
<1>13. \A id : LeftByJournal(id) = LeftOpen(before, id) /\ LeftByJournal(id)' = LeftOpen(after, id)
  BY DEF LeftByJournal, before, after
<1>14. /\ Journaled(o.id)'
       /\ \A id : id # o.id => (Journaled(id)' <=> Journaled(id))
  <2>1. /\ DOMAIN written = 1 .. Len(written) /\ DOMAIN written' = 1 .. Len(written')
        /\ Len(written) \in Nat /\ Len(written') = Len(written) + Len(batch)
        /\ \A i \in 1 .. Len(written) : i \in 1 .. Len(written') /\ written'[i] = written[i]
        /\ \A i \in Len(written) + 1 .. Len(written') :
              i - Len(written) \in 1 .. Len(batch) /\ written'[i] = batch[i - Len(written)]
    BY <1>1, <1>3, <1>4, AppendedFacts
  <2>2. /\ Len(written) + 1 \in 1 .. Len(written')
        /\ written'[Len(written) + 1] = OrderEvent(o)
    <3>1. Len(written) + 1 \in Len(written) + 1 .. Len(written') /\ (Len(written) + 1) - Len(written) = 1
      BY <1>3, <2>1
    <3>2. QED
      BY <1>3, <2>1, <3>1
  <2>3. Journaled(o.id)'
    <3>1. OrderEvent(o).type = "Order" /\ OrderEvent(o).order = o
      BY DEF OrderEvent
    <3>2. QED
      BY <2>1, <2>2, <3>1 DEF Journaled
  <2>4. ASSUME NEW id, id # o.id, NEW i \in 1 .. Len(written'),
               written'[i].type = "Order", written'[i].order.id = id
        PROVE  i \in 1 .. Len(written)
    <3> SUFFICES ASSUME i \notin 1 .. Len(written) PROVE FALSE
      OBVIOUS
    <3>1. i \in Len(written) + 1 .. Len(written')
      BY <2>1
    <3>2. i - Len(written) \in 1 .. Len(batch) /\ written'[i] = batch[i - Len(written)]
      BY <2>1, <3>1
    <3>3. i - Len(written) = 1
      BY <1>3, <2>4, <3>2
    <3>4. written'[i] = OrderEvent(o)
      BY <1>3, <3>2, <3>3
    <3>5. QED
      BY <2>4, <3>4 DEF OrderEvent
  <2>5. ASSUME NEW id, id # o.id PROVE Journaled(id)' <=> Journaled(id)
    <3>1. Journaled(id) => Journaled(id)'
      BY <2>1 DEF Journaled
    <3>2. Journaled(id)' => Journaled(id)
      BY <2>1, <2>4, <2>5 DEF Journaled
    <3>3. QED
      BY <3>1, <3>2
  <2>6. QED
    BY <2>3, <2>5
<1>15. deliveries[o] # 0 /\ (deliveries[o] = 1 => ~Journaled(o.id)) /\ deliveries[o] \in 0 .. 2
  BY <1>1, <1>3 DEF Accounts, IInv, TypeOK
<1>16. ASSUME NEW p \in Orders
       PROVE  /\ Journaled(p.id)' => deliveries'[p] # 0
              /\ deliveries'[p] # 2 =>
                    JournaledFills(p.id)' + LeftByJournal(p.id)'
                        = IF Journaled(p.id)' THEN p.qty ELSE 0
  <2>1. /\ JournaledFills(p.id)' = JournaledFills(p.id) + new(p.id)
        /\ JournaledFills(p.id) \in Nat /\ new(p.id) \in Nat
        /\ LeftOpen(before, p.id) \in Nat /\ LeftOpen(after, p.id) \in Nat
        /\ LeftByJournal(p.id) = LeftOpen(before, p.id)
        /\ LeftByJournal(p.id)' = LeftOpen(after, p.id)
    BY <1>10, <1>12, <1>13
  <2>2. CASE p = o
    <3>1. deliveries'[p] # 0
      BY <1>1, <1>15, <2>2
    <3>2. ASSUME deliveries'[p] # 2
          PROVE  JournaledFills(p.id)' + LeftByJournal(p.id)' = p.qty
      <4>1. ~Journaled(o.id) /\ JournaledFills(o.id) + LeftByJournal(o.id) = 0
        BY <1>1, <1>15, <2>2, <3>2 DEF Accounts
      <4>2. JournaledFills(o.id) = 0 /\ LeftOpen(before, o.id) = 0
        BY <2>1, <2>2, <4>1
      <4>3. ~ContainsKey(before.orders[o.side], o.id)
        <5> SUFFICES ASSUME NEW x \in before.orders[o.side], x.id = o.id PROVE FALSE
          BY DEF ContainsKey
        <5>1. o.side \in Sides
          BY OrdersAreOpen, OpenOrderFacts, OrderFacts
        <5>2. LeftOpen(before, o.id) = RemainingQuantity(x)
          BY <1>11, <5>1, LeftOpenFacts
        <5>3. RemainingQuantity(x) > 0 /\ RemainingQuantity(x) \in Nat
          BY <1>5, <5>1, OpenOrderFacts DEF SoundEngine
        <5>4. QED
          BY <4>2, <5>2, <5>3
      <4>4. LeftOpen(after, o.id) + new(o.id) = LeftOpen(before, o.id) + o.qty
        BY <1>9, <4>3
      <4>5. o.qty \in Nat
        BY OrdersAreOpen, OpenOrderFacts, OrderFacts
      <4>6. QED
        BY <2>1, <2>2, <4>2, <4>4, <4>5
    <3>3. QED
      BY <1>14, <2>2, <3>1, <3>2
  <2>3. CASE p # o
    <3>1. p.id # o.id
      BY <2>3, OrdersAssumption
    <3>2. LeftOpen(after, p.id) + new(p.id) = LeftOpen(before, p.id)
      <4>1. LeftOpen(after, p.id) + new(p.id) = LeftOpen(before, p.id) + 0
        BY <1>9, <3>1
      <4>2. QED
        BY <2>1, <4>1
    <3>3. JournaledFills(p.id)' + LeftByJournal(p.id)' = JournaledFills(p.id) + LeftByJournal(p.id)
      BY <2>1, <3>2
    <3>4. /\ Journaled(p.id) => deliveries[p] # 0
          /\ deliveries[p] # 2 =>
                JournaledFills(p.id) + LeftByJournal(p.id)
                    = IF Journaled(p.id) THEN p.qty ELSE 0
      BY DEF Accounts
    <3>5. QED
      BY <1>1, <1>14, <3>1, <3>3, <3>4
  <2>4. QED
    BY <2>2, <2>3
<1>17. OfOrders(Replay(NewEngine, written'))
  BY <1>9 DEF after
<1>18. stage' # "writing"
  BY <1>1
<1>19. QED
  BY <1>16, <1>17, <1>18 DEF Accounts

(* A total does not change with amounts of nothing at the end.             *)
LEMMA TotalPrefix ==
    ASSUME NEW v \in Seq(Nat), NEW w \in Seq(Nat), Len(v) <= Len(w),
           \A k \in 1 .. Len(v) : w[k] = v[k],
           \A k \in Len(v) + 1 .. Len(w) : w[k] = 0
    PROVE  Total(w) = Total(v)
<1> DEFINE m == Len(v)
           n == Len(w)
<1>1. m \in Nat /\ n \in Nat /\ m <= n /\ Len(w) = n
  OBVIOUS
<1>2. PICK g \in [0 .. m -> Nat] : /\ g[0] = 0 /\ \A k \in 1 .. m : g[k] = g[k-1] + v[k]
                                   /\ Total(v) = g[m]
  BY SumsOf
<1> DEFINE f == [k \in 0 .. n |-> IF k <= m THEN g[k] ELSE g[m]]
<1>3. f[0] = 0 /\ f[n] = g[m]
  BY <1>1, <1>2
<1>4. ASSUME NEW k \in 1 .. n PROVE f[k] = f[k-1] + w[k]
  <2>1. k \in 0 .. n /\ k - 1 \in 0 .. n
    BY <1>1
  <2>2. CASE k <= m
    <3>1. k \in 1 .. m /\ k - 1 <= m /\ w[k] = v[k]
      BY <1>1, <2>2
    <3>2. g[k] = g[k-1] + v[k]
      BY <1>2, <3>1
    <3>3. QED
      BY <2>1, <2>2, <3>1, <3>2
  <2>3. CASE ~(k <= m)
    <3>1. w[k] = 0 /\ g[m] \in Nat
      <4>1. k \in Len(v) + 1 .. Len(w) /\ m \in 0 .. m
        BY <1>1, <2>3
      <4>2. QED
        BY <1>2, <4>1
    <3>2. f[k] = g[m] /\ f[k-1] = g[m]
      <4>1. k - 1 <= m => k - 1 = m
        BY <1>1, <2>3
      <4>2. QED
        BY <2>1, <2>3, <4>1
    <3> HIDE DEF f
    <3>3. QED
      BY <3>1, <3>2
  <2>4. QED
    BY <2>2, <2>3
<1> HIDE DEF f, m, n
<1>5. Total(w) = f[Len(w)]
  BY <1>1, <1>3, <1>4, TotalIs
<1>6. QED
  BY <1>1, <1>2, <1>3, <1>5

(* A recovery from the journal keeps the accounts.                         *)
LEMMA RestartAccounts ==
    ASSUME IInv, Accounts, Restart
    PROVE  Accounts'
<1>1. /\ RecoverNumbers /\ ~up
      /\ everDiverged' = (everDiverged \/ snapshots # {})
      /\ UNCHANGED <<stage, batch, deliveries>>
  BY DEF Restart
<1> SUFFICES ASSUME ~everDiverged PROVE Accounts'
  BY <1>1 DEF Accounts
<1>2. written \in Seq(Event)
  BY DEF IInv, TypeOK, PersistenceType
<1>3. /\ written' \in Seq(Event) /\ Len(written') \in Nat /\ Len(written) \in Nat
      /\ Len(written') <= Len(written)
      /\ DOMAIN written = 1 .. Len(written) /\ DOMAIN written' = 1 .. Len(written')
      /\ \A i \in 1 .. Len(written') : written'[i] = written[i]
      /\ \A i \in Len(written') + 1 .. Len(written) : written[i] = Hole
  BY <1>1, <1>2, RecoverNumbersFacts
<1>4. \A i \in 1 .. Len(written) : i \in 1 .. Len(written') \/ written[i] = Hole
  BY <1>3
<1>5. Replay(NewEngine, written) = Replay(NewEngine, written')
  BY <1>2, <1>3, HolesMakeNoDifference
<1>6. \A id : Journaled(id)' <=> Journaled(id)
  BY <1>3, <1>4, EventFacts DEF Journaled
<1>7. ASSUME NEW id PROVE JournaledFills(id)' = JournaledFills(id)
  <2> DEFINE v == FillAmounts(id, written')
             w == FillAmounts(id, written)
  <2>1. /\ v \in Seq(Nat) /\ Len(v) = Len(written')
        /\ \A k \in 1 .. Len(written') :
              v[k] = IF written'[k].type = "Fill" /\ written'[k].id = id THEN written'[k].qty ELSE 0
    BY <1>3, EventAmounts, AmountsFacts
  <2>2. /\ w \in Seq(Nat) /\ Len(w) = Len(written)
        /\ \A k \in 1 .. Len(written) :
              w[k] = IF written[k].type = "Fill" /\ written[k].id = id THEN written[k].qty ELSE 0
    BY <1>2, EventAmounts, AmountsFacts
  <2> HIDE DEF v, w
  <2>3. \A k \in 1 .. Len(v) : w[k] = v[k]
    <3> SUFFICES ASSUME NEW k \in 1 .. Len(v) PROVE w[k] = v[k]
      OBVIOUS
    <3>1. k \in 1 .. Len(written')
      BY <2>1
    <3>2. k \in 1 .. Len(written) /\ written'[k] = written[k]
      BY <1>3, <3>1
    <3>3. QED
      BY <2>1, <2>2, <3>1, <3>2
  <2>4. \A k \in Len(v) + 1 .. Len(w) : w[k] = 0
    <3>1. \A k \in Len(written') + 1 .. Len(written) : k \in 1 .. Len(written) /\ written[k].type = "Hole"
      BY <1>3, EventFacts
    <3>2. QED
      BY <2>1, <2>2, <3>1
  <2>5. Total(w) = Total(v)
    BY <1>3, <2>1, <2>2, <2>3, <2>4, TotalPrefix
  <2>6. QED
    BY <2>5 DEF v, w, JournaledFills
<1>8. \A id : LeftByJournal(id)' = LeftByJournal(id)
  BY <1>5 DEF LeftByJournal
<1>9. OfOrders(Replay(NewEngine, written'))
  BY <1>5 DEF Accounts
<1>10. stage' # "writing"
  BY <1>1 DEF IInv, Stages
<1>11. QED
  BY <1>1, <1>6, <1>7, <1>8, <1>9, <1>10 DEF Accounts

(* The accounts are kept.                                                  *)
LEMMA KeptAccounts == Spec => []Accounts
<1>1. Init => Accounts
  <2> SUFFICES ASSUME Init PROVE Accounts
    OBVIOUS
  <2>1. stage = "idle" /\ written = << >> /\ up /\ ~diverged /\ book = NewEngine
    BY DEF Init, PersistenceInit
  <2>2. Replay(NewEngine, written) = NewEngine
    BY <2>1, InitIInv DEF IInv, BookIsReplayed
  <2>3. \A s \in Sides : NewEngine.orders[s] = {}
    BY DEF NewEngine
  <2>4. OfOrders(NewEngine) /\ \A id : LeftOpen(NewEngine, id) = 0
    <3>1. OfOrders(NewEngine)
      BY <2>3 DEF OfOrders
    <3>2. QED
      BY <2>3, <3>1, NewEngineSound, OrdersOpenOnce, LeftOpenFacts
  <2>5. \A id : JournaledFills(id) = 0
    <3>1. \A id : FillAmounts(id, << >>) = << >>
      BY DEF FillAmounts
    <3>2. Len(<< >>) = 0
      OBVIOUS
    <3>3. Total(<< >>) = 0
      BY <3>2, TotalZero
    <3>4. QED
      BY <2>1, <3>1, <3>3 DEF JournaledFills
  <2>6. \A id : ~Journaled(id)
    BY <2>1 DEF Journaled
  <2>7. QED
    BY <2>1, <2>2, <2>4, <2>5, <2>6 DEF Accounts, LeftByJournal
<1>2. IInv /\ Accounts /\ [Next]_vars => Accounts'
  <2> SUFFICES ASSUME IInv, Accounts, [Next]_vars PROVE Accounts'
    OBVIOUS
  <2>1. CASE UNCHANGED vars
    BY <2>1, AccountsStay DEF vars, actor, store, history
  <2>2. CASE RejectMessages \/ PersistTrade
    <3>1. CASE RejectMessages
      BY <3>1 DEF RejectMessages, Accounts
    <3>2. CASE PersistTrade
      <4>1. /\ stage' # "writing" /\ UNCHANGED <<written, deliveries, everDiverged>>
        BY <3>2 DEF PersistTrade, SaveWhenDue, store
      <4>2. QED
        BY <4>1, AccountsStay
    <3>3. QED
      BY <2>2, <3>1, <3>2
  <2>3. CASE Stores \/ CleanUp
    <3>1. UNCHANGED <<actor, history, written>>
      BY <2>3 DEF Stores, CleanUp, StoresAct, SaveSnapshot, DeleteSnapshots, DeleteMessages,
                  SaveSnapshotSuccess, store
    <3>2. QED
      BY <3>1, AccountsStay DEF actor, history
  <2>4. CASE Crash
    <3>1. stage' # "writing" /\ UNCHANGED <<written, deliveries, everDiverged>>
      BY <2>4 DEF Crash, ForgetCalls, store
    <3>2. QED
      BY <3>1, AccountsStay
  <2>5. QED
    BY <2>1, <2>2, <2>3, <2>4, ProcessAccounts, WriteMessagesAccounts, RestartAccounts DEF Next
<1>3. QED
  BY <1>1, <1>2, Invariance, PTL DEF Spec

(* Until something diverges, an order delivered once is in the journal     *)
(* together with its fills, through every stop: what they leave of it is   *)
(* what is open.                                                           *)
THEOREM JournalAccounts == Spec => []JournalAccountsForTheBook
<1>1. Accounts => JournalAccountsForTheBook
  BY DEF Accounts, JournalAccountsForTheBook, LeftByJournal
<1>2. QED
  BY <1>1, KeptAccounts, PTL

-----------------------------------------------------------------------------
(* The cuts *)

(* Replaying nothing.                                                      *)
LEMMA ReplayNothing ==
    ASSUME NEW start, NEW w, Len(w) \in Nat, \A i \in 1 .. Len(w) : w[i].type # "Order"
    PROVE  Replay(start, w) = start
<1>1. PICK g : IsRun(g, start, w, Len(w)) /\ Replay(start, w) = g[Len(w)]
  BY ReplayIsRun
<1>2. g[Len(w)] = g[0]
  <2>1. \A m \in 0 .. Len(w) : NoOrders(w, m, Len(w)) => g[Len(w)] = g[m]
    BY <1>1, RunStays
  <2>2. 0 \in 0 .. Len(w) /\ NoOrders(w, 0, Len(w))
    BY DEF NoOrders
  <2>3. QED
    BY <2>1, <2>2
<1>3. g[0] = start
  BY <1>1 DEF IsRun
<1>4. QED
  BY <1>1, <1>2, <1>3

(* The events after a number of a longer journal.                          *)
LEMMA RestOfLonger ==
    ASSUME NEW T, NEW w \in Seq(T), NEW b \in Seq(T), NEW m \in 0 .. Len(w)
    PROVE  SubSeq(w \o b, m + 1, Len(w \o b)) = SubSeq(w, m + 1, Len(w)) \o b
<1> DEFINE n == Len(w)
           wb == w \o b
           v == SubSeq(w, m + 1, Len(w))
           long == SubSeq(wb, m + 1, Len(wb))
           vb == v \o b
           c == Len(b)
<1>1. /\ n \in Nat /\ c \in Nat /\ m \in Nat /\ m <= n
      /\ wb \in Seq(T) /\ Len(wb) = n + c
      /\ \A i \in 1 .. n + c : wb[i] = IF i <= n THEN w[i] ELSE b[i-n]
  OBVIOUS
<1>2. v \in Seq(T) /\ Len(v) = n - m /\ \A i \in 1 .. n - m : v[i] = w[m + i]
  BY RestFacts
<1> HIDE DEF wb, n, c, v
<1>3. /\ long \in Seq(T) /\ Len(long) = (n + c) - m
      /\ \A i \in 1 .. (n + c) - m : long[i] = wb[m + i]
  <2>1. m \in 0 .. Len(wb)
    BY <1>1
  <2>2. /\ long \in Seq(T) /\ Len(long) = Len(wb) - m
        /\ \A i \in 1 .. Len(wb) - m : long[i] = wb[m + i]
    BY <1>1, <2>1, RestFacts
  <2>3. QED
    BY <1>1, <2>2
<1>4. /\ vb \in Seq(T) /\ Len(vb) = (n - m) + c
      /\ \A i \in 1 .. (n - m) + c : vb[i] = IF i <= n - m THEN v[i] ELSE b[i-(n-m)]
  <2>1. /\ vb \in Seq(T) /\ Len(vb) = Len(v) + Len(b)
        /\ \A i \in 1 .. Len(v) + Len(b) : vb[i] = IF i <= Len(v) THEN v[i] ELSE b[i-Len(v)]
    <3>1. v \in Seq(T) /\ b \in Seq(T)
      BY <1>2
    <3> DEFINE x == v
    <3>2. QED
      BY <3>1, ConcatProperties
  <2>2. QED
    BY <1>2, <2>1 DEF c
<1> HIDE DEF long, vb
<1>5. (n - m) + c = (n + c) - m
  BY <1>1
<1>6. ASSUME NEW i \in 1 .. (n + c) - m PROVE long[i] = vb[i]
  <2>1. m + i \in 1 .. n + c /\ long[i] = wb[m + i]
    BY <1>1, <1>3
  <2>2. CASE i <= n - m
    <3>1. i \in 1 .. n - m /\ m + i <= n
      BY <1>1, <2>2
    <3>2. QED
      BY <1>1, <1>2, <1>4, <1>5, <2>1, <2>2, <3>1
  <2>3. CASE ~(i <= n - m)
    <3>1. ~(m + i <= n) /\ (m + i) - n = i - (n - m)
      BY <1>1, <2>3
    <3>2. vb[i] = b[i-(n-m)]
      BY <1>4, <1>5, <2>3
    <3>3. wb[m + i] = b[(m + i) - n]
      BY <1>1, <2>1, <3>1
    <3>4. QED
      BY <2>1, <3>1, <3>2, <3>3
  <2>4. QED
    BY <2>2, <2>3
<1>7. long = vb
  BY <1>3, <1>4, <1>5, <1>6, SeqEqual
<1>8. QED
  BY <1>7 DEF long, vb, wb, v, n

(* With distinct prices the snapshot of an engine gives the engine again.  *)
LEMMA SnapshotGivesTheEngine ==
    ASSUME NEW e, SoundEngine(e), OfOrders(e), PricesDistinct
    PROVE  EngineOf(GetSnapshot(e)) = e
<1>1. /\ e = [orders |-> e.orders, index |-> e.index]
      /\ e.orders = [s \in Sides |-> e.orders[s]] /\ e.index = [s \in Sides |-> e.index[s]]
  BY DEF SoundEngine
<1>2. ASSUME NEW s \in Sides
      PROVE  /\ {e.index[s][i] : i \in DOMAIN e.index[s]} = e.orders[s]
             /\ (CHOOSE ix \in PriceIndexes(e.orders[s]) : TRUE) = e.index[s]
  <2>1. /\ e.orders[s] \in SUBSET OpenOrder /\ IsFiniteSet(e.orders[s])
        /\ \A x, y \in e.orders[s] : x.id = y.id => x = y
        /\ e.index[s] \in PriceIndexes(e.orders[s])
    BY DEF SoundEngine
  <2>2. DistinctPrices(e.orders[s])
    <3> SUFFICES ASSUME NEW x \in e.orders[s], NEW y \in e.orders[s], x.price = y.price
                 PROVE  x = y
      BY DEF DistinctPrices
    <3>1. PICK v \in Orders : v.id = x.id /\ v.side = s /\ v.price = x.price
      BY DEF OfOrders
    <3>2. PICK w \in Orders : w.id = y.id /\ w.side = s /\ w.price = y.price
      BY DEF OfOrders
    <3>3. v = w
      BY <3>1, <3>2 DEF PricesDistinct
    <3>4. QED
      BY <2>1, <3>1, <3>2, <3>3
  <2>3. /\ {e.index[s][i] : i \in DOMAIN e.index[s]} = e.orders[s]
        /\ \A jx \in PriceIndexes(e.orders[s]) : jx = e.index[s]
    BY <2>1, <2>2, OneIndex
  <2>4. QED
    BY <2>1, <2>3
<1>3. GetSnapshot(e) = e.orders
  <2>1. GetSnapshot(e) = [s \in Sides |-> {e.index[s][i] : i \in DOMAIN e.index[s]}]
    BY DEF GetSnapshot
  <2>2. QED
    BY <1>1, <1>2, <2>1
<1>4. EngineOf(e.orders) =
         [orders |-> e.orders,
          index |-> [s \in Sides |-> CHOOSE ix \in PriceIndexes(e.orders[s]) : TRUE]]
  BY DEF EngineOf
<1>5. [s \in Sides |-> CHOOSE ix \in PriceIndexes(e.orders[s]) : TRUE] = e.index
  BY <1>1, <1>2
<1>6. QED
  BY <1>1, <1>3, <1>4, <1>5

(* A snapshot taken at a number is a sound cut of a journal: the events    *)
(* after the number lead from it to where the whole journal leads.         *)
SoundCut(seq, state, w) ==
    /\ seq \in 0 .. Len(w)
    /\ Replay(EngineOf(state), SubSeq(w, seq + 1, Len(w))) = Replay(NewEngine, w)

(* The stored snapshots, and those being stored, are sound cuts; and so    *)
(* would be one taken by any handler still to run.                         *)
Cuts ==
    PricesDistinct /\ ~everDiverged =>
        /\ \A s \in snapshots : SoundCut(s.seq, s.state, written)
        /\ \A r \in requests : r.op = "SaveSnapshot" => SoundCut(r.seq, r.state, written)
        /\ stage = "handling" => \A i \in next + 1 .. Len(written) : written[i].type # "Order"

(* An order and its events may follow a sound cut.                         *)
LEMMA CutIsExtended ==
    ASSUME NEW w \in Seq(Event), NEW seq, NEW state, SoundCut(seq, state, w),
           NEW o, NEW b \in Seq(Event), Len(b) > 0, b[1] = OrderEvent(o),
           \A k \in 1 .. Len(b) : k # 1 => b[k].type # "Order"
    PROVE  SoundCut(seq, state, w \o b)
<1> DEFINE rest == SubSeq(w, seq + 1, Len(w))
           start == EngineOf(state)
<1>1. seq \in 0 .. Len(w) /\ Replay(start, rest) = Replay(NewEngine, w)
  BY DEF SoundCut
<1>2. rest \in Seq(Event)
  BY <1>1, RestFacts
<1>3. SubSeq(w \o b, seq + 1, Len(w \o b)) = rest \o b
  BY <1>1, RestOfLonger
<1>4. seq \in 0 .. Len(w \o b)
  BY <1>1
<1> HIDE DEF rest, start
<1>5. Replay(start, rest \o b) = Call(Replay(start, rest), o).engine
  BY <1>2, ReplayBatch
<1>6. Replay(NewEngine, w \o b) = Call(Replay(NewEngine, w), o).engine
  BY ReplayBatch
<1>7. Replay(start, SubSeq(w \o b, seq + 1, Len(w \o b))) = Replay(NewEngine, w \o b)
  BY <1>1, <1>3, <1>5, <1>6
<1>8. QED
  BY <1>4, <1>7 DEF SoundCut, start

LEMMA WriteMessagesCuts ==
    ASSUME IInv, Cuts, WriteMessages
    PROVE  Cuts'
<1>1. /\ stage = "writing" /\ written' = written \o batch
      /\ next' = Len(written) + 1
      /\ UNCHANGED <<everDiverged, snapshots, requests>>
  BY DEF WriteMessages, Write, calls
<1> SUFFICES ASSUME PricesDistinct, ~everDiverged PROVE Cuts'
  BY <1>1 DEF Cuts, PricesDistinct
<1>2. PICK o \in Orders : batch = PersistableEvents(o, Call(book, o).trades)
  BY <1>1 DEF IInv, Stages
<1>3. /\ batch \in Seq(Event) /\ Len(batch) > 0 /\ batch[1] = OrderEvent(o)
      /\ \A k \in 1 .. Len(batch) : k # 1 => batch[k].type # "Order"
  BY <1>2, CallBatch DEF IInv
<1>4. written \in Seq(Event)
  BY DEF IInv, TypeOK, PersistenceType
<1>5. \A seq, state : SoundCut(seq, state, written) => SoundCut(seq, state, written')
  BY <1>1, <1>3, <1>4, CutIsExtended
<1>6. \A i \in next' + 1 .. Len(written') : written'[i].type # "Order"
  <2>1. /\ Len(written) \in Nat /\ Len(batch) \in Nat /\ Len(written') = Len(written) + Len(batch)
        /\ \A i \in Len(written) + 1 .. Len(written') :
              i - Len(written) \in 1 .. Len(batch) /\ written'[i] = batch[i - Len(written)]
    BY <1>1, <1>3, <1>4, AppendedFacts
  <2>2. \A i \in next' + 1 .. Len(written') : i \in Len(written) + 1 .. Len(written')
                                               /\ i - Len(written) # 1
    BY <1>1, <2>1
  <2>3. QED
    BY <1>3, <2>1, <2>2
<1>7. \A s \in snapshots' : SoundCut(s.seq, s.state, written')
  BY <1>1, <1>5 DEF Cuts
<1>8. \A r \in requests' : r.op = "SaveSnapshot" => SoundCut(r.seq, r.state, written')
  BY <1>1, <1>5 DEF Cuts
<1>9. QED
  BY <1>6, <1>7, <1>8 DEF Cuts

(* A handler takes its snapshot of an engine that has the whole batch.     *)
LEMMA PersistTradeCuts ==
    ASSUME IInv, Accounts, Cuts, PersistTrade
    PROVE  Cuts'
<1>1. /\ up /\ stage = "handling" /\ next' = next + 1
      /\ SaveWhenDue(next, SnapshotInterval, GetSnapshot(engine))
      /\ UNCHANGED <<everDiverged, written, snapshots>>
  BY DEF PersistTrade, SaveWhenDue, store
<1> SUFFICES ASSUME PricesDistinct, ~everDiverged PROVE Cuts'
  BY <1>1 DEF Cuts, PricesDistinct
<1>2. written \in Seq(Event) /\ Len(written) \in Nat /\ next \in 1 .. Len(written)
  BY <1>1 DEF IInv, TypeOK, PersistenceType, Stages
<1>3. engine = Replay(NewEngine, written) /\ SoundEngine(engine) /\ OfOrders(engine)
  BY <1>1 DEF IInv, Stages, BookIsReplayed, Accounts
<1>4. \A i \in next + 1 .. Len(written) : written[i].type # "Order"
  BY <1>1 DEF Cuts
<1>5. SoundCut(next, GetSnapshot(engine), written)
  <2> DEFINE rest == SubSeq(written, next + 1, Len(written))
  <2>1. next \in 0 .. Len(written)
    BY <1>2
  <2>2. /\ rest \in Seq(Event) /\ Len(rest) = Len(written) - next
        /\ \A i \in 1 .. Len(written) - next : rest[i] = written[next + i]
    BY <1>2, <2>1, RestFacts
  <2>3. \A i \in 1 .. Len(written) - next : next + i \in next + 1 .. Len(written)
    BY <1>2
  <2> HIDE DEF rest
  <2>4. Len(rest) \in Nat /\ \A i \in 1 .. Len(rest) : rest[i].type # "Order"
    BY <1>4, <2>2, <2>3
  <2>5. Replay(engine, rest) = engine
    BY <2>4, ReplayNothing
  <2>6. EngineOf(GetSnapshot(engine)) = engine
    BY <1>3, SnapshotGivesTheEngine
  <2>7. QED
    BY <1>3, <2>1, <2>5, <2>6 DEF SoundCut, rest
<1>6. \A r \in requests' :
         \/ r \in requests
         \/ r.seq = next /\ r.state = GetSnapshot(engine)
  BY <1>1 DEF SaveWhenDue
<1>7. \A r \in requests' : r.op = "SaveSnapshot" => SoundCut(r.seq, r.state, written')
  BY <1>1, <1>5, <1>6 DEF Cuts
<1>8. \A s \in snapshots' : SoundCut(s.seq, s.state, written')
  BY <1>1 DEF Cuts
<1>9. \A i \in next' + 1 .. Len(written') : written'[i].type # "Order"
  <2>1. \A i \in next' + 1 .. Len(written) : i \in next + 1 .. Len(written)
    BY <1>1, <1>2
  <2>2. QED
    BY <1>1, <1>4, <2>1
<1>10. QED
  BY <1>7, <1>8, <1>9 DEF Cuts

(* The stores add no other snapshots, and no other requests to save one.   *)
LEMMA StoresCuts ==
    ASSUME Cuts, Stores \/ CleanUp
    PROVE  Cuts'
<1>1. /\ UNCHANGED <<everDiverged, stage, next, written>>
      /\ \A s \in snapshots' :
            \/ s \in snapshots
            \/ \E r \in requests : r.op = "SaveSnapshot" /\ s.seq = r.seq /\ s.state = r.state
      /\ \A r \in requests' : r.op = "SaveSnapshot" => r \in requests
  <2>1. UNCHANGED <<actor, history, written>>
    BY DEF Stores, CleanUp, StoresAct, SaveSnapshot, DeleteSnapshots, DeleteMessages,
           SaveSnapshotSuccess, store
  <2>2. CASE CleanUp
    <3>1. PICK seq \in acks :
             /\ requests' = requests \cup {[op |-> "DeleteSnapshots", upTo |-> seq - 1],
                                           [op |-> "DeleteMessages", upTo |-> seq]}
             /\ UNCHANGED store
      BY <2>2 DEF CleanUp, SaveSnapshotSuccess
    <3>2. QED
      BY <2>1, <3>1 DEF actor, history, store
  <2>3. CASE Stores
    <3>1. CASE SaveSnapshot
      BY <2>1, <3>1 DEF SaveSnapshot, actor, history
    <3>2. CASE DeleteSnapshots
      BY <2>1, <3>2 DEF DeleteSnapshots, actor, history
    <3>3. CASE DeleteMessages
      BY <2>1, <3>3 DEF DeleteMessages, actor, history
    <3>4. QED
      BY <2>3, <3>1, <3>2, <3>3 DEF Stores, StoresAct
  <2>4. QED
    BY <2>2, <2>3
<1>2. QED
  BY <1>1 DEF Cuts, PricesDistinct

(* A recovery that starts from no snapshot has none to cut the journal.    *)
LEMMA RestartCuts ==
    ASSUME IInv, Restart
    PROVE  Cuts'
<1>1. /\ ~up /\ everDiverged' = (everDiverged \/ snapshots # {})
      /\ UNCHANGED <<stage, snapshots, requests>>
  BY DEF Restart, RecoverNumbers, calls
<1>2. stage = "idle" /\ requests = {}
  BY <1>1 DEF IInv, Stages
<1>3. QED
  BY <1>1, <1>2 DEF Cuts

(* The cuts stay sound.                                                    *)
LEMMA KeptCuts == Spec => []Cuts
<1>1. Init => Cuts
  BY DEF Init, PersistenceInit, Cuts
<1>2. IInv /\ Accounts /\ Cuts /\ [Next]_vars => Cuts'
  <2> SUFFICES ASSUME IInv, Accounts, Cuts, [Next]_vars PROVE Cuts'
    OBVIOUS
  <2>1. CASE UNCHANGED vars
    BY <2>1 DEF vars, actor, store, calls, history, Cuts, PricesDistinct
  <2>2. CASE \E o \in Orders : Process(o)
    BY <2>2 DEF Process, store, calls, Cuts, PricesDistinct
  <2>3. CASE RejectMessages
    BY <2>3 DEF RejectMessages, Cuts
  <2>4. CASE Crash
    <3>1. stage' = "idle" /\ requests' = {} /\ UNCHANGED <<everDiverged, written, snapshots>>
      BY <2>4 DEF Crash, ForgetCalls, store
    <3>2. QED
      BY <3>1 DEF Cuts, PricesDistinct
  <2>5. QED
    BY <2>1, <2>2, <2>3, <2>4, WriteMessagesCuts, PersistTradeCuts, StoresCuts, RestartCuts
       DEF Next
<1>3. QED
  BY <1>1, <1>2, Invariance, KeptAccounts, PTL DEF Spec

(* A snapshot is a sound cut of the journal even when its number is that   *)
(* of an event in mid-batch.                                               *)
THEOREM SnapshotsCutSoundly == Spec => []SnapshotsAreSoundCuts
<1>1. Cuts => SnapshotsAreSoundCuts
  BY DEF Cuts, SnapshotsAreSoundCuts, SoundCut
<1>2. QED
  BY <1>1, KeptCuts, PTL

-----------------------------------------------------------------------------
(* The refinement *)

(* OrderBook's operators on engines and events are the ones of this module.*)
LEMMA SameOperators ==
    /\ \A e, o : Promise!WithOrder(e, o) = WithOrder(e, o)
    /\ Promise!NewEngine = NewEngine
    /\ Promise!Engine = Engine
    /\ \A o, trades : Promise!PersistableEvents(o, trades) = PersistableEvents(o, trades)
<1>1. \A e, o : Promise!WithOrder(e, o) = WithOrder(e, o)
  BY DEF Promise!WithOrder, WithOrder, Promise!ContainsKey, ContainsKey,
         Promise!Results, Results, Promise!Opposite, Opposite, Promise!Rested, Rested,
         Promise!UpdateOrders, UpdateOrders, Promise!Put, Put,
         Promise!Reindexed, Reindexed, Promise!PriceIndexes, PriceIndexes,
         Promise!PriceLevels, PriceLevels, Promise!Traces, Traces,
         Promise!RemainingQuantity, RemainingQuantity, Promise!HasMatches, HasMatches,
         Promise!Offered, Offered, Promise!Total, Total,
         Promise!Match, Match, Promise!Lesser, Lesser, Promise!TradesOf, TradesOf,
         Promise!Hits, Hits, Promise!FillOrders, FillOrders, Promise!Min, Min,
         Promise!WithFill, WithFill, Promise!Completed, Completed,
         Promise!Sides, Sides, Promise!Cardinality, Cardinality
<1>2. Promise!NewEngine = NewEngine
  BY DEF Promise!NewEngine, NewEngine, Promise!Sides, Sides
<1>3. Promise!Engine = Engine
  BY DEF Promise!Engine, Engine, Promise!Order, Order, Promise!Sides, Sides
<1>4. \A o, trades : Promise!PersistableEvents(o, trades) = PersistableEvents(o, trades)
  BY DEF Promise!PersistableEvents, PersistableEvents, Promise!EventsOf, EventsOf,
         Promise!OrderEvent, OrderEvent, Promise!FillEvent, FillEvent,
         Promise!MatchEvent, MatchEvent
<1>5. QED
  BY <1>1, <1>2, <1>3, <1>4

(* What OrderBook sees of the actor.                                       *)
Placed == {n \in DOMAIN written : written[n] # Hole}
Journal == [n \in Placed |-> written[n]]
Intact == ~everDiverged /\ (up \/ snapshots = {})
Due == IF stage = "handling" THEN next ELSE 0
Seen == <<Journal, book, Intact, confirmed, published, Due>>

(* The journal it sees changes only where events are added.                *)
LEMMA SameJournal ==
    ASSUME \A n : n \in Placed' <=> n \in Placed,
           \A n \in Placed : written'[n] = written[n]
    PROVE  Journal' = Journal
BY DEF Journal

(* The initial states of the actor are initial states of OrderBook.        *)
LEMMA InitRefines == Init => Promise!Init
<1> SUFFICES ASSUME Init PROVE Promise!Init
  OBVIOUS
<1>1. /\ written = << >> /\ book = NewEngine /\ everDiverged = FALSE /\ up = TRUE
      /\ confirmed = {} /\ published = << >> /\ stage = "idle"
  BY DEF Init, PersistenceInit
<1>2. Journal = << >>
  BY <1>1 DEF Journal, Placed
<1>3. QED
  BY <1>1, <1>2, SameOperators DEF Promise!Init, Journal, Placed

(* A write places an order.                                                *)
LEMMA WriteMessagesRefines ==
    ASSUME IInv, WriteMessages
    PROVE  \E o \in Orders : Promise!Place(o)
<1>1. /\ up /\ stage = "writing" /\ written' = written \o batch
      /\ next' = Len(written) + 1 /\ stage' = "handling" /\ book' = engine
      /\ UNCHANGED <<up, confirmed, published, everDiverged, snapshots>>
  BY DEF WriteMessages, Write, calls
<1>2. PICK o \in Orders : /\ batch = PersistableEvents(o, Call(book, o).trades)
                          /\ engine = Call(book, o).engine
  BY <1>1 DEF IInv, Stages
<1>3. /\ batch \in Seq(Event) /\ Len(batch) \in Nat /\ Len(batch) > 0
      /\ \A k \in 1 .. Len(batch) : batch[k] # Hole
  BY <1>2, CallBatch DEF IInv
<1>4. written \in Seq(Event)
  BY DEF IInv, TypeOK, PersistenceType
<1>5. /\ Len(written) \in Nat
      /\ written' \in Seq(Event) /\ Len(written') = Len(written) + Len(batch)
      /\ DOMAIN written = 1 .. Len(written) /\ DOMAIN written' = 1 .. Len(written')
      /\ \A i \in 1 .. Len(written) : i \in 1 .. Len(written') /\ written'[i] = written[i]
      /\ \A i \in Len(written) + 1 .. Len(written') :
            i - Len(written) \in 1 .. Len(batch) /\ written'[i] = batch[i - Len(written)]
  BY <1>1, <1>3, <1>4, AppendedFacts
<1> DEFINE first == Len(written) + 1
           new == first .. first + Len(batch) - 1
<1>6. Due = 0 /\ Due' = first /\ first \in Nat /\ first > 0
  BY <1>1, <1>5 DEF Due
<1>7. \A n \in Placed : n \in Nat /\ n < first
  BY <1>5 DEF Placed
<1>8. Placed' = Placed \cup new
  <2>1. \A n \in new : n \in Len(written) + 1 .. Len(written')
    BY <1>3, <1>5
  <2>2. \A n \in new : n \in 1 .. Len(written') /\ written'[n] # Hole
    BY <1>3, <1>5, <2>1
  <2>3. \A n \in 1 .. Len(written') : n \in 1 .. Len(written) \/ n \in new
    BY <1>3, <1>5
  <2> HIDE DEF new
  <2>4. QED
    BY <1>5, <2>2, <2>3 DEF Placed
<1>9. \A n \in Placed' : written'[n] = IF n \in Placed THEN written[n] ELSE batch[n - first + 1]
  <2> SUFFICES ASSUME NEW n \in Placed'
               PROVE  written'[n] = IF n \in Placed THEN written[n] ELSE batch[n - first + 1]
    OBVIOUS
  <2>1. CASE n \in Placed
    BY <1>5, <2>1 DEF Placed
  <2>2. CASE n \notin Placed
    <3>1. n \in new
      BY <1>8, <2>2
    <3>2. n \in Len(written) + 1 .. Len(written')
      BY <1>3, <1>5, <3>1
    <3>3. n - first + 1 = n - Len(written)
      BY <1>5, <3>2
    <3>4. QED
      BY <1>5, <2>2, <3>2, <3>3
  <2>3. QED
    BY <2>1, <2>2
<1>10. Journal' = [n \in DOMAIN Journal \cup first .. first + Len(batch) - 1 |->
                     IF n \in DOMAIN Journal THEN Journal[n] ELSE batch[n - first + 1]]
  <2>1. DOMAIN Journal = Placed /\ \A n \in Placed : Journal[n] = written[n]
    BY DEF Journal
  <2>2. Journal' = [n \in Placed' |-> written'[n]]
    BY DEF Journal
  <2> HIDE DEF first
  <2>3. QED
    BY <1>8, <1>9, <2>1, <2>2
<1>11. Intact' = Intact
  BY <1>1 DEF Intact
<1>12. Call(book, o) \in WithOrder(book, o)
  BY CallIsResult DEF IInv
<1> HIDE DEF first, new
<1>13. DOMAIN Journal = Placed
  BY DEF Journal
<1>14. Promise!Place(o)
  <2>1. Journal' = [n \in DOMAIN Journal \cup Due' .. Due' + Len(batch) - 1 |->
                     IF n \in DOMAIN Journal THEN Journal[n] ELSE batch[n - Due' + 1]]
    BY <1>6, <1>10
  <2>2. Promise!PersistableEvents(o, Call(book, o).trades) = batch
    BY <1>2, SameOperators
  <2>3. Call(book, o) \in Promise!WithOrder(book, o)
    BY <1>12, SameOperators
  <2>4. \A n \in DOMAIN Journal : n < Due'
    BY <1>6, <1>7, <1>13
  <2>5. Journal' = Promise!Extended(Due', batch)
    BY <2>1 DEF Promise!Extended, Journal, Placed, Due
  <2>6. QED
    BY <1>1, <1>2, <1>6, <1>11, <2>2, <2>3, <2>4, <2>5
       DEF Promise!Place, Journal, Placed, Due, Intact
<1>15. QED
  BY <1>14

(* A handler handles what is due.                                          *)
LEMMA PersistTradeRefines ==
    ASSUME IInv, PersistTrade
    PROVE  Promise!Handle
<1>1. /\ stage = "handling"
      /\ published' = Append(published, next)
      /\ stage' = IF next = Len(written) THEN "idle" ELSE "handling"
      /\ UNCHANGED <<up, book, everDiverged>>
  BY DEF PersistTrade
<1>2. confirmed' = IF written[next].type = "Order"
                   THEN confirmed \cup {written[next].order.id} ELSE confirmed
  BY DEF PersistTrade
<1>3. next' = next + 1 /\ UNCHANGED <<written, snapshots>>
  BY DEF PersistTrade, SaveWhenDue, store
<1>4. /\ next \in 1 .. Len(written) /\ Len(written) \in Nat
      /\ \A i \in next .. Len(written) : written[i] # Hole
  BY <1>1 DEF IInv, Stages, TypeOK, PersistenceType
<1>5. DOMAIN written = 1 .. Len(written)
  BY DEF IInv, TypeOK, PersistenceType
<1>6. next \in Placed
  BY <1>4, <1>5 DEF Placed
<1>7. Due = next
  BY <1>1 DEF Due
<1>8. Due' = IF Due + 1 \in Placed THEN Due + 1 ELSE 0
  <2>1. CASE next = Len(written)
    <3>1. next + 1 \notin Placed
      BY <1>4, <1>5, <2>1 DEF Placed
    <3>2. Due' = 0
      BY <1>1, <2>1 DEF Due
    <3>3. QED
      BY <1>7, <3>1, <3>2
  <2>2. CASE next # Len(written)
    <3>0. next + 1 \in 1 .. Len(written) /\ next + 1 \in next .. Len(written)
      BY <1>4, <2>2
    <3>1. next + 1 \in Placed
      BY <1>4, <1>5, <3>0 DEF Placed
    <3>2. Due' = next + 1
      BY <1>1, <1>3, <2>2 DEF Due
    <3>3. QED
      BY <1>7, <3>1, <3>2
  <2>3. QED
    BY <2>1, <2>2
<1>9. Journal' = Journal /\ Intact' = Intact
  BY <1>1, <1>3 DEF Journal, Placed, Intact
<1>10. DOMAIN Journal = Placed /\ Journal[Due] = written[next]
  BY <1>6, <1>7 DEF Journal
<1>11. /\ Due \in DOMAIN Journal
       /\ confirmed' = IF Journal[Due].type = "Order"
                       THEN confirmed \cup {Journal[Due].order.id} ELSE confirmed
       /\ published' = Append(published, Due)
       /\ Due' = IF Due + 1 \in DOMAIN Journal THEN Due + 1 ELSE 0
       /\ UNCHANGED <<Journal, book, Intact>>
  BY <1>1, <1>2, <1>6, <1>7, <1>8, <1>9, <1>10
<1>12. QED
  BY <1>11 DEF Promise!Handle, Journal, Placed, Intact, Due

(* A rejected write disturbs the book.                                     *)
LEMMA RejectMessagesRefines ==
    ASSUME IInv, RejectMessages
    PROVE  Promise!Disturb
<1> DEFINE holes == [i \in DOMAIN batch |-> Hole]
<1>1. /\ written' = written \o holes
      /\ stage' = "idle" /\ everDiverged' = TRUE /\ book' = engine
      /\ UNCHANGED <<confirmed, published>>
  BY DEF RejectMessages, Reject
<1>2. /\ holes \in Seq(Event) /\ \A i \in 1 .. Len(holes) : holes[i] = Hole
  <2>1. batch \in Seq(Event)
    BY DEF IInv, TypeOK
  <2>2. Len(batch) \in Nat /\ DOMAIN batch = 1 .. Len(batch)
    BY <2>1
  <2>3. holes \in [1 .. Len(batch) -> Event]
    BY <2>2, EventFacts
  <2>4. QED
    BY <2>2, <2>3
<1>3. written \in Seq(Event)
  BY DEF IInv, TypeOK, PersistenceType
<1> HIDE DEF holes
<1>4. /\ Len(written) \in Nat /\ Len(written') = Len(written) + Len(holes)
      /\ DOMAIN written = 1 .. Len(written) /\ DOMAIN written' = 1 .. Len(written')
      /\ \A i \in 1 .. Len(written) : i \in 1 .. Len(written') /\ written'[i] = written[i]
      /\ \A i \in Len(written) + 1 .. Len(written') :
            i - Len(written) \in 1 .. Len(holes) /\ written'[i] = holes[i - Len(written)]
  BY <1>1, <1>2, <1>3, AppendedFacts
<1>5. \A i \in Len(written) + 1 .. Len(written') : written'[i] = Hole
  BY <1>2, <1>4
<1>6. \A i \in 1 .. Len(written') : i \in 1 .. Len(written) \/ written'[i] = Hole
  BY <1>4, <1>5
<1>7. Journal' = Journal
  <2>1. \A n : n \in Placed' <=> n \in Placed
    BY <1>4, <1>6 DEF Placed
  <2>2. \A n \in Placed : written'[n] = written[n]
    BY <1>4 DEF Placed
  <2>3. QED
    BY <2>1, <2>2, SameJournal
<1>8. Due' = 0 /\ Intact' = FALSE
  BY <1>1 DEF Due, Intact
<1>9. book' \in Promise!Engine
  BY <1>1, SameOperators DEF IInv, TypeOK
<1>10. QED
  BY <1>1, <1>7, <1>8, <1>9 DEF Promise!Disturb, Journal, Placed, Intact, Due

(* A stop leaves out the handlers that have not run; the book will come    *)
(* back as it was, or, from a snapshot or after a rejected write,          *)
(* disturbed.                                                              *)
LEMMA CrashRefines ==
    ASSUME IInv, Crash
    PROVE  Promise!Stop \/ Promise!Disturb
<1>1. /\ up /\ up' = FALSE /\ stage' = "idle"
      /\ book' = Recovered(snapshots, written, deletedTo)
      /\ UNCHANGED <<confirmed, published, everDiverged, written, deletedTo, snapshots>>
  BY DEF Crash, ForgetCalls, store
<1>2. Journal' = Journal /\ Due' = 0
  BY <1>1 DEF Journal, Placed, Due
<1>3. CASE ~everDiverged /\ snapshots = {}
  <2>1. book' = book
    BY <1>1, <1>3, RecoveredSound DEF IInv, TypeOK, PersistenceType, BookIsReplayed
  <2>2. Intact' = Intact
    BY <1>1, <1>3 DEF Intact
  <2>3. Promise!Stop
    BY <1>1, <1>2, <2>1, <2>2 DEF Promise!Stop, Journal, Placed, Intact, Due
  <2>4. QED
    BY <2>3
<1>4. CASE everDiverged \/ snapshots # {}
  <2>1. Intact' = FALSE
    BY <1>1, <1>4 DEF Intact
  <2>2. book' \in Promise!Engine
    BY <1>1, RecoveredSound, SoundEngineType, SameOperators DEF IInv, TypeOK, PersistenceType
  <2>3. Promise!Disturb
    BY <1>1, <1>2, <2>1, <2>2 DEF Promise!Disturb, Journal, Placed, Intact, Due
  <2>4. QED
    BY <2>3
<1>5. QED
  BY <1>3, <1>4

(* A restart changes nothing that is seen.                                 *)
LEMMA RestartRefines ==
    ASSUME IInv, Restart
    PROVE  UNCHANGED Seen
<1>1. /\ ~up /\ up' = TRUE /\ RecoverNumbers
      /\ everDiverged' = (everDiverged \/ snapshots # {})
      /\ UNCHANGED <<stage, next, book, confirmed, published>>
  BY DEF Restart
<1>2. /\ DOMAIN written = 1 .. Len(written) /\ DOMAIN written' = 1 .. Len(written')
      /\ Len(written') \in Nat /\ Len(written) \in Nat /\ Len(written') <= Len(written)
      /\ \A i \in 1 .. Len(written') : written'[i] = written[i]
      /\ \A i \in Len(written') + 1 .. Len(written) : written[i] = Hole
  BY <1>1, RecoverNumbersFacts DEF IInv, TypeOK, PersistenceType
<1>3. Journal' = Journal
  <2>1. \A n : n \in Placed' <=> n \in Placed
    BY <1>2 DEF Placed
  <2>2. \A n \in Placed' : written'[n] = written[n]
    BY <1>2 DEF Placed
  <2>3. QED
    BY <2>1, <2>2, SameJournal
<1>4. Intact' = Intact /\ Due' = Due
  BY <1>1 DEF Intact, Due
<1>5. QED
  BY <1>1, <1>3, <1>4 DEF Seen

(* Every step of the actor is a step of OrderBook, or one it does not see. *)
LEMMA NextRefines == IInv /\ [Next]_vars => [Promise!Next]_Promise!vars
<1> SUFFICES ASSUME IInv, [Next]_vars PROVE Promise!Next \/ UNCHANGED Seen
  BY DEF Seen, Journal, Placed, Intact, Due, Promise!vars
<1>1. CASE \E o \in Orders : Process(o)
  BY <1>1 DEF Process, store, Seen, Journal, Placed, Intact, Due
<1>2. CASE WriteMessages
  BY <1>2, WriteMessagesRefines DEF Promise!Next
<1>3. CASE RejectMessages
  BY <1>3, RejectMessagesRefines DEF Promise!Next
<1>4. CASE PersistTrade
  BY <1>4, PersistTradeRefines DEF Promise!Next
<1>5. CASE Stores \/ CleanUp
  <2>1. UNCHANGED <<actor, history, written>>
    BY <1>5 DEF Stores, CleanUp, StoresAct, SaveSnapshot, DeleteSnapshots, DeleteMessages,
                SaveSnapshotSuccess, store
  <2>2. up
    BY <1>5 DEF IInv, Stages, Stores, CleanUp, StoresAct,
                SaveSnapshot, DeleteSnapshots, DeleteMessages
  <2>3. QED
    BY <2>1, <2>2 DEF actor, history, Seen, Journal, Placed, Intact, Due
<1>6. CASE Crash
  BY <1>6, CrashRefines DEF Promise!Next
<1>7. CASE Restart
  BY <1>7, RestartRefines
<1>8. CASE UNCHANGED vars
  BY <1>8 DEF vars, actor, store, history, Seen, Journal, Placed, Intact, Due
<1>9. QED
  BY <1>1, <1>2, <1>3, <1>4, <1>5, <1>6, <1>7, <1>8 DEF Next

(* The persistent actor, through every stop, recovery, rejected write and  *)
(* clean-up, keeps the promise of OrderBook.                               *)
THEOREM BookKeepsItsPromise == Spec => ImplementsOrderBook
<1>1. Spec => [][Promise!Next]_Promise!vars
  BY NextRefines, Invariance, PTL DEF Spec
<1>2. Spec => Promise!Init
  BY InitRefines, PTL DEF Spec
<1>3. QED
  BY <1>1, <1>2, PTL DEF ImplementsOrderBook, Promise!Spec
=============================================================================
