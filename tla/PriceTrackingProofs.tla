------------------------ MODULE PriceTrackingProofs ------------------------
(***************************************************************************)
(* What the tracker shows, for any number of nodes, updates, losses, kills *)
(* and moves: the types, that what is shown never goes back, that without  *)
(* failures nothing is missed, all from one inductive invariant; and, from *)
(* a second one about the requests, that the retry survives one fault.     *)
(***************************************************************************)
EXTENDS PriceTracking, TLAPS

(* The mediator of a node has the tracker for a subscriber.                *)
Subscribed(n) == <<n, Symbol, Tracker>> \in subs

(* Each subscription the tracker asks for is answered twice at most.       *)
Counts ==
    /\ mode = "WaitingForPriceHistory" => subscribing = 0 /\ acks = 0
    /\ mode = "WaitingForSubscribeAck" => 2 * subscribing + acks <= 2
    /\ 2 * subscribing + acks <= 4

(* What the tracker knows or is about to be told has been published, and   *)
(* it shows live updates only when it is live.                             *)
KnownIsPublished ==
    /\ snapshots \subseteq 0 .. published
    /\ history <= published
    /\ current <= published
    /\ \A n \in Nodes : \A i \in 1 .. Len(feed[n]) : feed[n][i] <= published
    /\ current > 0 => mode = "PriceUpdates"

(* Until the history has been shown no update is on its way.               *)
NothingBeforeTheHistory ==
    mode = "WaitingForPriceHistory" => \A n \in Nodes : feed[n] = << >> /\ ~Subscribed(n)

(* An aggregator that has not moved has used the mediator of its node and  *)
(* no other: those of earlier hosts went with their nodes.                 *)
OneMediator ==
    moves = 0 =>
        \A n \in Nodes : feed[n] # << >> \/ Subscribed(n) => host[Symbol] = n

(* What is on its way through it is newer than what was shown, and in the  *)
(* order of publication.                                                   *)
FeedsInOrder ==
    moves = 0 =>
        \A n \in Nodes : \A i \in 1 .. Len(feed[n]) :
            /\ feed[n][i] > current /\ feed[n][i] > history
            /\ \A j \in 1 .. Len(feed[n]) : i < j => feed[n][i] < feed[n][j]

(* Without failures it is complete: the updates on their way are the       *)
(* newest, and a tracker that has shown one has shown the one before them. *)
FeedsAreFull ==
    kills = 0 /\ moves = 0 /\ faults = 0 =>
        /\ alive = Nodes
        /\ \A n \in Nodes :
            /\ feed[n] # << >> => Subscribed(n)
            /\ \A i \in 1 .. Len(feed[n]) : feed[n][i] = published - Len(feed[n]) + i
        /\ current > 0 =>
            \E n \in Nodes : Subscribed(n) /\ current = published - Len(feed[n])

IInv ==
    /\ TypeOK /\ Counts /\ KnownIsPublished /\ NothingBeforeTheHistory
    /\ OneMediator /\ FeedsInOrder /\ FeedsAreFull

LEMMA InitIInv == Init => IInv
<1> SUFFICES ASSUME Init PROVE IInv
  OBVIOUS
<1> USE DEF Init, ClusterInit
<1>1. TypeOK
  BY NoNodeAssumption, MaxKillsAssumption, SymbolAssumption, MaxUpdatesAssumption
  DEF TypeOK, ClusterType
<1>2. Counts /\ KnownIsPublished /\ NothingBeforeTheHistory
  BY <1>1 DEF TypeOK, Counts, KnownIsPublished, NothingBeforeTheHistory, Subscribed
<1>3. OneMediator /\ FeedsInOrder /\ FeedsAreFull
  BY <1>1 DEF OneMediator, FeedsInOrder, FeedsAreFull, Subscribed
<1>4. QED
  BY <1>1, <1>2, <1>3 DEF IInv

(* The parts about the feeds outlast a step that disturbs no feed, forgets *)
(* no subscription, shows nothing and publishes nothing.                   *)
LEMMA QuietStep ==
    ASSUME IInv, TypeOK',
           UNCHANGED <<host, kills, alive, moves, subs, feed, published, current, history>>,
           faults' >= faults,
           mode' = "WaitingForPriceHistory" => mode = "WaitingForPriceHistory"
    PROVE  /\ NothingBeforeTheHistory' /\ OneMediator'
           /\ FeedsInOrder' /\ FeedsAreFull'
<1>1. NothingBeforeTheHistory'
  BY DEF IInv, NothingBeforeTheHistory, Subscribed
<1>2. OneMediator'
  BY DEF IInv, OneMediator, Subscribed
<1>3. FeedsInOrder'
  BY DEF IInv, FeedsInOrder
<1>4. faults' = 0 => faults = 0
  BY DEF IInv, TypeOK
<1>5. FeedsAreFull'
  BY <1>4 DEF IInv, FeedsAreFull, Subscribed
<1>6. QED
  BY <1>1, <1>2, <1>3, <1>5

-----------------------------------------------------------------------------
(* The tracker's own steps *)

LEMMA TakeSnapshotKeeps ==
    ASSUME IInv, TakeSnapshot PROVE IInv'
<1> USE DEF TakeSnapshot, BecomeWaitingForSubscribe, cluster
<1>1. PICK last \in snapshots :
        /\ snapshots' = snapshots \ {last}
        /\ IF mode = "WaitingForPriceHistory"
           THEN history' = last /\ BecomeWaitingForSubscribe
           ELSE UNCHANGED <<mode, history, subscribing>>
        /\ UNCHANGED <<cluster, current, fetching, acks, feed, published, faults>>
  OBVIOUS
<1>2. last \in 0 .. published /\ last \in 0 .. MaxUpdates
  BY <1>1 DEF IInv, KnownIsPublished, TypeOK
<1>3. TypeOK'
  <2>1. ClusterType({Tracker})'
    BY <1>1 DEF IInv, TypeOK, ClusterType
  <2>2. subscribing' \in 0 .. 2
    BY <1>1 DEF IInv, TypeOK, Counts
  <2>3. QED
    BY <1>1, <1>2, <2>1, <2>2 DEF IInv, TypeOK
<1>4. Counts' /\ KnownIsPublished'
  <2>1. Counts'
    BY <1>1 DEF IInv, Counts, TypeOK
  <2>2. current > 0 => mode' = "PriceUpdates"
    BY <1>1 DEF IInv, KnownIsPublished
  <2>3. KnownIsPublished'
    BY <1>1, <1>2, <2>2 DEF IInv, KnownIsPublished
  <2>4. QED
    BY <2>1, <2>3
<1>5. CASE mode # "WaitingForPriceHistory"
  BY <1>1, <1>3, <1>4, <1>5, QuietStep DEF IInv, TypeOK
<1>6. CASE mode = "WaitingForPriceHistory"
  <2>1. \A n \in Nodes : feed[n] = << >> /\ ~Subscribed(n) /\ feed'[n] = << >>
    BY <1>1, <1>6 DEF IInv, NothingBeforeTheHistory
  <2>2. NothingBeforeTheHistory'
    BY <1>1, <1>6 DEF NothingBeforeTheHistory
  <2>3. OneMediator'
    BY <1>1, <2>1 DEF OneMediator, Subscribed
  <2>4. FeedsInOrder' /\ ~(current > 0)
    <3>1. \A n \in Nodes : Len(feed'[n]) = 0
      BY <2>1
    <3>2. QED
      BY <1>6, <3>1 DEF IInv, KnownIsPublished, FeedsInOrder
  <2>5. FeedsAreFull'
    BY <1>1, <2>1, <2>4 DEF IInv, FeedsAreFull, Subscribed
  <2>6. QED
    BY <1>3, <1>4, <2>2, <2>3, <2>4, <2>5 DEF IInv
<1>7. QED
  BY <1>5, <1>6

LEMMA TimeoutForHistoryKeeps ==
    ASSUME IInv, TimeoutForHistory PROVE IInv'
<1> USE DEF TimeoutForHistory, BecomeWaitingForSubscribe, cluster
<1>1. TypeOK'
  BY DEF IInv, TypeOK, Counts, ClusterType
<1>2. Counts' /\ KnownIsPublished'
  BY DEF IInv, TypeOK, Counts, KnownIsPublished
<1>3. QED
  BY <1>1, <1>2, QuietStep DEF IInv, TypeOK

LEMMA TakeAckKeeps ==
    ASSUME IInv, TakeAck PROVE IInv'
<1> USE DEF TakeAck, cluster
<1>1. TypeOK'
  BY DEF IInv, TypeOK, ClusterType
<1>2. Counts' /\ KnownIsPublished'
  BY DEF IInv, TypeOK, Counts, KnownIsPublished
<1>3. QED
  BY <1>1, <1>2, QuietStep DEF IInv, TypeOK

LEMMA TimeoutForAckKeeps ==
    ASSUME IInv, TimeoutForAck PROVE IInv'
<1> USE DEF TimeoutForAck, cluster
<1>1. TypeOK'
  BY DEF IInv, TypeOK, Counts, ClusterType
<1>2. Counts' /\ KnownIsPublished'
  BY DEF IInv, TypeOK, Counts, KnownIsPublished
<1>3. QED
  BY <1>1, <1>2, QuietStep DEF IInv, TypeOK

(* The update a tracker takes is the first on its way.                     *)
LEMMA FeedHead ==
    ASSUME TypeOK, NEW n \in Nodes, feed[n] # << >>
    PROVE  /\ 1 \in 1 .. Len(feed[n]) /\ Head(feed[n]) = feed[n][1]
           /\ Head(feed[n]) \in 1 .. MaxUpdates
           /\ Tail(feed[n]) \in Seq(1 .. MaxUpdates)
           /\ Len(Tail(feed[n])) = Len(feed[n]) - 1
           /\ \A i \in 1 .. Len(Tail(feed[n])) :
                 i + 1 \in 1 .. Len(feed[n]) /\ Tail(feed[n])[i] = feed[n][i + 1]
<1>1. feed[n] \in Seq(1 .. MaxUpdates)
  BY DEF TypeOK
<1> DEFINE f == feed[n]
<1> HIDE DEF f
<1>2. f \in Seq(1 .. MaxUpdates) /\ f # << >>
  BY <1>1 DEF f
<1>3. /\ Len(f) \in Nat /\ Len(f) > 0 /\ Head(f) = f[1]
      /\ Tail(f) \in Seq(1 .. MaxUpdates) /\ Len(Tail(f)) = Len(f) - 1
  BY <1>2
<1>4. 1 \in 1 .. Len(f) /\ f[1] \in 1 .. MaxUpdates
  <2> DEFINE Numbers == 1 .. MaxUpdates
  <2>1. 1 \in 1 .. Len(f) /\ f \in Seq(Numbers)
    BY <1>2, <1>3
  <2> HIDE DEF Numbers
  <2>2. f[1] \in Numbers
    BY <2>1
  <2>3. QED
    BY <2>1, <2>2 DEF Numbers
<1>5. \A i \in 1 .. Len(Tail(f)) : i + 1 \in 1 .. Len(f) /\ Tail(f)[i] = f[i + 1]
  BY <1>2, <1>3
<1>6. QED
  BY <1>3, <1>4, <1>5 DEF f

LEMMA TakeUpdateKeeps ==
    ASSUME IInv, TakeUpdate PROVE IInv'
<1> USE DEF cluster
<1>1. PICK n \in Nodes :
        /\ feed[n] # << >>
        /\ feed' = [feed EXCEPT ![n] = Tail(@)]
        /\ current' = IF mode = "PriceUpdates" THEN Head(feed[n]) ELSE current
        /\ UNCHANGED <<cluster, mode, history, fetching, subscribing, snapshots, acks,
                       published, faults>>
  BY DEF TakeUpdate
<1> DEFINE rest == Tail(feed[n])
<1>2. /\ 1 \in 1 .. Len(feed[n]) /\ Head(feed[n]) = feed[n][1]
      /\ Head(feed[n]) \in 1 .. MaxUpdates /\ rest \in Seq(1 .. MaxUpdates)
      /\ Len(rest) = Len(feed[n]) - 1
      /\ \A i \in 1 .. Len(rest) : i + 1 \in 1 .. Len(feed[n]) /\ rest[i] = feed[n][i + 1]
  BY <1>1, FeedHead DEF IInv
<1>3. feed'[n] = rest /\ \A m \in Nodes \ {n} : feed'[m] = feed[m]
  BY <1>1 DEF IInv, TypeOK
<1>4. TypeOK'
  <2>1. feed' \in [Nodes -> Seq(1 .. MaxUpdates)]
    BY <1>1, <1>2 DEF IInv, TypeOK
  <2>2. current' \in 0 .. MaxUpdates
    BY <1>1, <1>2, MaxUpdatesAssumption DEF IInv, TypeOK
  <2>3. ClusterType({Tracker})'
    BY <1>1 DEF IInv, TypeOK, ClusterType
  <2>4. QED
    BY <1>1, <2>1, <2>2, <2>3 DEF IInv, TypeOK
<1>5. Counts'
  BY <1>1 DEF IInv, Counts
<1>6. \A m \in Nodes : \A i \in 1 .. Len(feed'[m]) :
         IF m = n THEN feed'[m][i] = feed[n][i + 1] /\ i + 1 \in 1 .. Len(feed[n])
                  ELSE feed'[m][i] = feed[m][i] /\ i \in 1 .. Len(feed[m])
  BY <1>2, <1>3
<1>7. KnownIsPublished'
  <2>1. Head(feed[n]) <= published
    BY <1>2 DEF IInv, KnownIsPublished
  <2>2. current' <= published /\ (current' > 0 => mode' = "PriceUpdates")
    BY <1>1, <2>1 DEF IInv, KnownIsPublished
  <2>3. \A m \in Nodes : \A i \in 1 .. Len(feed'[m]) : feed'[m][i] <= published
    BY <1>6 DEF IInv, KnownIsPublished
  <2>4. QED
    BY <1>1, <2>2, <2>3 DEF IInv, KnownIsPublished
<1>8. NothingBeforeTheHistory'
  BY <1>1 DEF IInv, NothingBeforeTheHistory
<1>9. OneMediator'
  BY <1>1, <1>3 DEF IInv, OneMediator, Subscribed
<1>10. FeedsInOrder'
  <2> SUFFICES ASSUME moves = 0, NEW m \in Nodes, NEW i \in 1 .. Len(feed'[m])
               PROVE  /\ feed'[m][i] > current' /\ feed'[m][i] > history
                      /\ \A j \in 1 .. Len(feed'[m]) : i < j => feed'[m][i] < feed'[m][j]
    BY <1>1 DEF FeedsInOrder
  <2>1. m = n
    <3>1. feed[m] # << >>
      BY <1>3, <1>2, <1>6 DEF IInv, TypeOK
    <3>2. QED
      BY <1>1, <3>1 DEF IInv, OneMediator
  <2>2. /\ i + 1 \in 1 .. Len(feed[n]) /\ feed'[m][i] = feed[n][i + 1]
        /\ \A j \in 1 .. Len(feed'[m]) :
              j + 1 \in 1 .. Len(feed[n]) /\ feed'[m][j] = feed[n][j + 1]
    BY <1>6, <2>1
  <2>3. feed[n][i + 1] > current /\ feed[n][i + 1] > history
    BY <2>2 DEF IInv, FeedsInOrder
  <2>4. 1 < i + 1 => feed[n][1] < feed[n][i + 1]
    BY <1>2, <2>2 DEF IInv, FeedsInOrder
  <2>5. feed'[m][i] > current'
    BY <1>1, <1>2, <2>2, <2>3, <2>4
  <2>6. ASSUME NEW j \in 1 .. Len(feed'[m]), i < j
        PROVE  feed'[m][i] < feed'[m][j]
    <3>1. i + 1 < j + 1 => feed[n][i + 1] < feed[n][j + 1]
      BY <2>2 DEF IInv, FeedsInOrder
    <3>2. QED
      BY <1>2, <1>3, <2>1, <2>2, <2>6, <3>1
  <2>7. QED
    BY <2>2, <2>3, <2>5, <2>6
<1>11. FeedsAreFull'
  <2> SUFFICES ASSUME kills = 0, moves = 0, faults = 0
               PROVE  /\ alive = Nodes
                      /\ \A m \in Nodes :
                           /\ feed'[m] # << >> => Subscribed(m)
                           /\ \A i \in 1 .. Len(feed'[m]) :
                                 feed'[m][i] = published - Len(feed'[m]) + i
                      /\ current' > 0 =>
                           \E m \in Nodes : Subscribed(m) /\ current' = published - Len(feed'[m])
    BY <1>1 DEF FeedsAreFull, Subscribed
  <2>1. alive = Nodes /\ Subscribed(n)
    BY <1>1 DEF IInv, FeedsAreFull
  <2>2. \A m \in Nodes : feed'[m] # << >> => Subscribed(m)
    BY <1>3, <2>1 DEF IInv, FeedsAreFull
  <2>3. \A i \in 1 .. Len(feed[n]) : feed[n][i] = published - Len(feed[n]) + i
    BY DEF IInv, FeedsAreFull
  <2>4. published \in Nat /\ Len(feed[n]) \in Nat
    BY <1>1 DEF IInv, TypeOK
  <2>5. ASSUME NEW m \in Nodes, NEW i \in 1 .. Len(feed'[m])
        PROVE  feed'[m][i] = published - Len(feed'[m]) + i
    <3>1. CASE m = n
      <4>1. feed'[m][i] = feed[n][i + 1] /\ i + 1 \in 1 .. Len(feed[n])
        BY <1>6, <3>1
      <4>2. feed[n][i + 1] = published - Len(feed[n]) + (i + 1)
        BY <2>3, <4>1
      <4>3. feed'[m] = rest /\ Len(rest) = Len(feed[n]) - 1 /\ i \in Nat
        BY <1>2, <1>3, <3>1
      <4>4. Len(feed'[m]) = Len(feed[n]) - 1
        BY <4>3
      <4>5. published - Len(feed[n]) + (i + 1) = published - (Len(feed[n]) - 1) + i
        BY <2>4, <4>3
      <4>6. QED
        BY <4>1, <4>2, <4>4, <4>5
    <3>2. CASE m # n
      BY <1>3, <1>6, <3>2 DEF IInv, FeedsAreFull
    <3>3. QED
      BY <3>1, <3>2
  <2>6. current' > 0 => Subscribed(n) /\ current' = published - Len(feed'[n])
    <3>1. CASE mode = "PriceUpdates"
      <4>1. current' = feed[n][1] /\ feed[n][1] = published - Len(feed[n]) + 1
        BY <1>1, <1>2, <2>3, <3>1
      <4>2. Len(feed'[n]) = Len(feed[n]) - 1
        BY <1>2, <1>3
      <4>3. QED
        BY <2>1, <2>4, <4>1, <4>2
    <3>2. CASE mode # "PriceUpdates"
      BY <1>1, <3>2 DEF IInv, KnownIsPublished
    <3>3. QED
      BY <3>1, <3>2
  <2>7. QED
    BY <2>1, <2>2, <2>5, <2>6
<1>12. QED
  BY <1>4, <1>5, <1>7, <1>8, <1>9, <1>10, <1>11 DEF IInv

-----------------------------------------------------------------------------
(* The aggregator, the mediators and the failures *)

LEMMA FetchAgainKeeps ==
    ASSUME IInv, FetchAgain PROVE IInv'
<1> USE DEF FetchAgain, cluster, tracker
<1>1. TypeOK'
  BY DEF IInv, TypeOK, ClusterType
<1>2. Counts' /\ KnownIsPublished'
  BY DEF IInv, Counts, KnownIsPublished
<1>3. QED
  BY <1>1, <1>2, QuietStep DEF IInv, TypeOK

LEMMA AnswerFetchKeeps ==
    ASSUME IInv, AnswerFetch PROVE IInv'
<1> USE DEF AnswerFetch, cluster, tracker
<1>1. snapshots' \subseteq 0 .. published /\ published \in 0 .. MaxUpdates
  BY DEF IInv, TypeOK, KnownIsPublished
<1>2. snapshots' \subseteq 0 .. MaxUpdates
  BY <1>1, MaxUpdatesAssumption
<1>3. TypeOK'
  BY <1>2 DEF IInv, TypeOK, ClusterType
<1>4. Counts' /\ KnownIsPublished'
  BY <1>1 DEF IInv, Counts, KnownIsPublished
<1>5. QED
  BY <1>3, <1>4, QuietStep DEF IInv, TypeOK

LEMMA AnswerSubscribeKeeps ==
    ASSUME IInv, AnswerSubscribe PROVE IInv'
<1> USE DEF AnswerSubscribe, cluster, tracker
<1>1. /\ subs' \in {subs, Registered(Symbol, Tracker)}
      /\ subscribing > 0 /\ host[Symbol] # NoNode
      /\ UNCHANGED <<alive, host, kills, moves, tracker, fetching, snapshots, feed, published>>
      /\ subscribing' = subscribing - 1
      /\ \/ acks' = acks + 2 /\ UNCHANGED faults
         \/ faults < MaxFaults /\ faults' = faults + 1 /\ UNCHANGED acks
  OBVIOUS
<1>2. host[Symbol] \in Nodes /\ Symbol \in Symbols
  BY <1>1, SymbolAssumption DEF IInv, TypeOK, ClusterType
<1>3. /\ \A n \in Nodes : Subscribed(n)' => Subscribed(n) \/ n = host[Symbol]
      /\ \A n \in Nodes : Subscribed(n) => Subscribed(n)'
  BY <1>1 DEF Subscribed, Registered
<1>4. Counts' /\ subscribing' \in 0 .. 2 /\ acks' \in 0 .. 4
      /\ mode # "WaitingForPriceHistory"
  BY <1>1 DEF IInv, TypeOK, Counts
<1>5. TypeOK'
  <2>1. subs' \subseteq Nodes \X Symbols \X {Tracker}
    BY <1>1, <1>2 DEF IInv, TypeOK, ClusterType, Registered
  <2>2. faults' \in 0 .. MaxFaults
    BY <1>1, MaxUpdatesAssumption DEF IInv, TypeOK
  <2>3. QED
    BY <1>1, <1>4, <2>1, <2>2 DEF IInv, TypeOK, ClusterType
<1>6. KnownIsPublished' /\ NothingBeforeTheHistory'
  BY <1>1, <1>4 DEF IInv, KnownIsPublished, NothingBeforeTheHistory
<1>7. OneMediator'
  BY <1>1, <1>3 DEF IInv, OneMediator
<1>8. FeedsInOrder'
  BY <1>1 DEF IInv, FeedsInOrder
<1>9. faults' = 0 => faults = 0
  BY <1>1 DEF IInv, TypeOK
<1>10. FeedsAreFull'
  BY <1>1, <1>3, <1>9 DEF IInv, FeedsAreFull
<1>11. QED
  BY <1>4, <1>5, <1>6, <1>7, <1>8, <1>10 DEF IInv

(* A mediator appends an update to what is on its way to the tracker.      *)
LEMMA PublishKeeps ==
    ASSUME IInv, Publish PROVE IInv'
<1> USE DEF cluster, tracker
<1>1. /\ host[Symbol] # NoNode /\ published < MaxUpdates /\ published' = published + 1
      /\ UNCHANGED <<cluster, tracker, fetching, subscribing, snapshots, acks, faults>>
      /\ feed' = [n \in Nodes |-> IF n \in Feeding(Symbol, Tracker)
                                  THEN Append(feed[n], published + 1) ELSE feed[n]]
  BY DEF Publish
<1>2. published \in Nat /\ published + 1 \in 1 .. MaxUpdates /\ feed \in [Nodes -> Seq(1 .. MaxUpdates)]
  BY <1>1, MaxUpdatesAssumption DEF IInv, TypeOK
<1> DEFINE Numbers == 1 .. MaxUpdates
<1>3. published + 1 \in Numbers /\ feed \in [Nodes -> Seq(Numbers)]
  BY <1>2
<1> HIDE DEF Numbers
<1>4. ASSUME NEW m \in Nodes, NEW i \in 1 .. Len(feed[m])
       PROVE  feed[m][i] \in Numbers
  <2>1. feed[m] \in Seq(Numbers)
    BY <1>3
  <2>2. QED
    BY <2>1
<1>5. ASSUME NEW m \in Nodes
      PROVE  /\ feed'[m] \in Seq(Numbers)
             /\ IF Subscribed(m) /\ m \in alive
                THEN /\ Len(feed'[m]) = Len(feed[m]) + 1
                     /\ feed'[m][Len(feed[m]) + 1] = published + 1
                     /\ \A i \in 1 .. Len(feed[m]) : feed'[m][i] = feed[m][i]
                ELSE feed'[m] = feed[m]
             /\ Len(feed[m]) \in Nat
  <2>1. feed[m] \in Seq(Numbers)
    BY <1>3
  <2>2. feed'[m] = IF Subscribed(m) /\ m \in alive
                   THEN Append(feed[m], published + 1) ELSE feed[m]
    BY <1>1 DEF Feeding, Subscribed
  <2>3. QED
    BY <1>3, <2>1, <2>2
<1>6. TypeOK'
  <2>1. feed' \in [Nodes -> Seq(Numbers)]
    BY <1>1, <1>5
  <2>2. published' \in 0 .. MaxUpdates /\ UNCHANGED MaxUpdates
    BY <1>1, <1>2
  <2>3. ClusterType({Tracker})'
    BY <1>1 DEF IInv, TypeOK, ClusterType
  <2>4. QED
    BY <1>1, <2>1, <2>2, <2>3 DEF IInv, TypeOK, Numbers
<1>7. ASSUME NEW m \in Nodes, NEW i \in 1 .. Len(feed'[m])
      PROVE  \/ i \in 1 .. Len(feed[m]) /\ feed'[m][i] = feed[m][i]
             \/ /\ Subscribed(m) /\ m \in alive
                /\ i = Len(feed[m]) + 1 /\ feed'[m][i] = published + 1
  BY <1>5
<1>8. Counts'
  BY <1>1 DEF IInv, Counts
<1>9. KnownIsPublished'
  <2>1. snapshots' \subseteq 0 .. published'
    BY <1>1, <1>2 DEF IInv, KnownIsPublished
  <2>2. history' <= published' /\ current' <= published' /\ (current' > 0 => mode' = "PriceUpdates")
    BY <1>1, <1>2 DEF IInv, KnownIsPublished, TypeOK
  <2>3. ASSUME NEW m \in Nodes, NEW i \in 1 .. Len(feed'[m])
        PROVE  feed'[m][i] <= published'
    <3>1. CASE feed'[m][i] = published + 1
      BY <1>1, <1>2, <3>1
    <3>2. CASE i \in 1 .. Len(feed[m]) /\ feed'[m][i] = feed[m][i]
      <4>1. feed[m][i] <= published
        BY <3>2 DEF IInv, KnownIsPublished
      <4>2. feed[m][i] \in 1 .. MaxUpdates
        BY <1>4, <3>2 DEF Numbers
      <4>3. QED
        BY <1>1, <1>2, <3>2, <4>1, <4>2
    <3>3. QED
      BY <1>7, <3>1, <3>2
  <2>4. QED
    BY <2>1, <2>2, <2>3 DEF KnownIsPublished
<1>10. NothingBeforeTheHistory'
  <2>1. \A m \in Nodes : Subscribed(m)' <=> Subscribed(m)
    BY <1>1 DEF Subscribed
  <2>2. QED
    BY <1>1, <1>5, <2>1 DEF IInv, NothingBeforeTheHistory
<1>11. OneMediator'
  BY <1>1, <1>5 DEF IInv, OneMediator, Subscribed
<1>12. FeedsInOrder'
  <2> SUFFICES ASSUME moves = 0, NEW m \in Nodes, NEW i \in 1 .. Len(feed'[m])
               PROVE  /\ feed'[m][i] > current /\ feed'[m][i] > history
                      /\ \A j \in 1 .. Len(feed'[m]) : i < j => feed'[m][i] < feed'[m][j]
    BY <1>1 DEF FeedsInOrder
  <2>1. current <= published /\ history <= published /\ current \in Nat /\ history \in Nat
    BY DEF IInv, KnownIsPublished, TypeOK
  <2>2. feed'[m][i] > current /\ feed'[m][i] > history
    <3>1. CASE feed'[m][i] = published + 1
      BY <1>2, <2>1, <3>1
    <3>2. CASE i \in 1 .. Len(feed[m]) /\ feed'[m][i] = feed[m][i]
      BY <3>2 DEF IInv, FeedsInOrder
    <3>3. QED
      BY <1>7, <3>1, <3>2
  <2>3. ASSUME NEW j \in 1 .. Len(feed'[m]), i < j
        PROVE  feed'[m][i] < feed'[m][j]
    <3>1. i \in 1 .. Len(feed[m]) /\ feed'[m][i] = feed[m][i]
      BY <1>5, <1>7, <2>3
    <3>2. CASE j \in 1 .. Len(feed[m]) /\ feed'[m][j] = feed[m][j]
      BY <2>3, <3>1, <3>2 DEF IInv, FeedsInOrder
    <3>3. CASE feed'[m][j] = published + 1
      <4>1. feed[m][i] <= published
        BY <3>1 DEF IInv, KnownIsPublished
      <4>2. feed[m][i] \in 1 .. MaxUpdates
        BY <1>4, <3>1 DEF Numbers
      <4>3. QED
        BY <1>2, <3>1, <3>3, <4>1, <4>2
    <3>4. QED
      BY <1>7, <3>2, <3>3
  <2>4. QED
    BY <2>2, <2>3
<1>13. FeedsAreFull'
  <2> SUFFICES ASSUME kills = 0, moves = 0, faults = 0
               PROVE  /\ alive = Nodes
                      /\ \A m \in Nodes :
                           /\ feed'[m] # << >> => Subscribed(m)
                           /\ \A i \in 1 .. Len(feed'[m]) :
                                 feed'[m][i] = published' - Len(feed'[m]) + i
                      /\ current > 0 =>
                           \E m \in Nodes : Subscribed(m) /\ current = published' - Len(feed'[m])
    BY <1>1 DEF FeedsAreFull, Subscribed
  <2>1. alive = Nodes /\ \A m \in Nodes : feed[m] # << >> => Subscribed(m)
    BY DEF IInv, FeedsAreFull
  <2>2. \A m \in Nodes : feed'[m] # << >> => Subscribed(m)
    BY <1>5, <2>1
  <2>3. ASSUME NEW m \in Nodes, NEW i \in 1 .. Len(feed'[m])
        PROVE  feed'[m][i] = published' - Len(feed'[m]) + i
    <3>1. Subscribed(m)
      BY <1>3, <1>5, <1>7, <2>1
    <3>2. Len(feed'[m]) = Len(feed[m]) + 1 /\ Len(feed[m]) \in Nat
      BY <1>5, <2>1, <3>1
    <3>3. CASE i \in 1 .. Len(feed[m]) /\ feed'[m][i] = feed[m][i]
      <4>1. feed[m][i] = published - Len(feed[m]) + i
        BY <3>3 DEF IInv, FeedsAreFull
      <4>2. published - Len(feed[m]) + i = (published + 1) - (Len(feed[m]) + 1) + i
        BY <1>2, <3>2, <3>3
      <4>3. QED
        BY <1>1, <3>2, <3>3, <4>1, <4>2
    <3>4. CASE i = Len(feed[m]) + 1 /\ feed'[m][i] = published + 1
      <4>1. published + 1 = (published + 1) - (Len(feed[m]) + 1) + (Len(feed[m]) + 1)
        BY <1>2, <3>2
      <4>2. QED
        BY <1>1, <3>2, <3>4, <4>1
    <3>5. QED
      BY <1>7, <3>3, <3>4
  <2>4. ASSUME current > 0
        PROVE  \E m \in Nodes : Subscribed(m) /\ current = published' - Len(feed'[m])
    <3>1. PICK m \in Nodes : Subscribed(m) /\ current = published - Len(feed[m])
      BY <2>4 DEF IInv, FeedsAreFull
    <3>2. Len(feed'[m]) = Len(feed[m]) + 1 /\ Len(feed[m]) \in Nat
      BY <1>5, <2>1, <3>1
    <3>3. QED
      BY <1>1, <1>2, <3>1, <3>2
  <2>5. QED
    BY <2>1, <2>2, <2>3, <2>4
<1>14. QED
  BY <1>6, <1>8, <1>9, <1>10, <1>11, <1>12, <1>13 DEF IInv

LEMMA CountsFall ==
    ASSUME TypeOK, Counts, mode' = mode, subscribing' \in Nat, subscribing' <= subscribing,
           acks' \in Nat, acks' <= acks
    PROVE  Counts'
<1>1. subscribing \in Nat /\ acks \in Nat
  BY DEF TypeOK
<1>2. \A s, a, t, b, k \in Nat : s <= t /\ a <= b /\ 2 * t + b <= k => 2 * s + a <= k
  OBVIOUS
<1>3. /\ 2 * subscribing + acks <= 2 => 2 * subscribing' + acks' <= 2
      /\ 2 * subscribing + acks <= 4 => 2 * subscribing' + acks' <= 4
  BY <1>1, <1>2
<1>4. /\ subscribing = 0 => subscribing' = 0
      /\ acks = 0 => acks' = 0
  BY <1>1
<1>5. QED
  BY <1>3, <1>4 DEF Counts

(* Feeds that lose their first updates, or all, keep the rest as it is.    *)
LEMMA FeedsShrink ==
    ASSUME IInv, UNCHANGED <<published, history, current>>, moves' = moves,
           feed' \in [Nodes -> Seq(1 .. MaxUpdates)],
           \A m \in Nodes : \/ feed'[m] = feed[m] \/ feed'[m] = << >>
                            \/ feed[m] # << >> /\ feed'[m] = Tail(feed[m])
    PROVE  /\ \A m \in Nodes : feed'[m] # << >> => feed[m] # << >>
           /\ \A m \in Nodes : \A i \in 1 .. Len(feed'[m]) : feed'[m][i] <= published
           /\ FeedsInOrder'
<1>1. \A m \in Nodes : feed'[m] # << >> => feed[m] # << >>
  OBVIOUS
<1>2. ASSUME NEW m \in Nodes
      PROVE  \E k \in {0, 1} : \A i \in 1 .. Len(feed'[m]) :
                i + k \in 1 .. Len(feed[m]) /\ feed'[m][i] = feed[m][i + k]
  <2>1. CASE feed'[m] = feed[m]
    BY <2>1 DEF IInv, TypeOK
  <2>2. CASE feed'[m] = << >>
    BY <2>2
  <2>3. CASE feed[m] # << >> /\ feed'[m] = Tail(feed[m])
    BY <2>3, FeedHead DEF IInv
  <2>4. QED
    BY <2>1, <2>2, <2>3
<1>3. ASSUME NEW m \in Nodes, NEW i \in 1 .. Len(feed'[m])
      PROVE  feed'[m][i] <= published
  BY <1>2 DEF IInv, KnownIsPublished
<1>4. ASSUME moves = 0, NEW m \in Nodes, NEW i \in 1 .. Len(feed'[m])
      PROVE  /\ feed'[m][i] > current /\ feed'[m][i] > history
             /\ \A j \in 1 .. Len(feed'[m]) : i < j => feed'[m][i] < feed'[m][j]
  <2>1. PICK k \in {0, 1} : \A j \in 1 .. Len(feed'[m]) :
            j + k \in 1 .. Len(feed[m]) /\ feed'[m][j] = feed[m][j + k]
    BY <1>2
  <2>2. feed'[m][i] > current /\ feed'[m][i] > history
    BY <1>4, <2>1 DEF IInv, FeedsInOrder
  <2>3. ASSUME NEW j \in 1 .. Len(feed'[m]), i < j
        PROVE  feed'[m][i] < feed'[m][j]
    <3>1. i + k < j + k
      BY <2>3
    <3>2. QED
      BY <1>4, <2>1, <3>1 DEF IInv, FeedsInOrder
  <2>4. QED
    BY <2>2, <2>3
<1>5. QED
  BY <1>1, <1>3, <1>4 DEF FeedsInOrder

LEMMA LoseKeeps ==
    ASSUME IInv, Lose PROVE IInv'
<1> USE DEF cluster, tracker
<1>1. /\ faults < MaxFaults /\ faults' = faults + 1
      /\ UNCHANGED <<cluster, tracker, published>>
  BY DEF Lose
<1>2. \/ feed' = feed
      \/ \E n \in Nodes : feed[n] # << >> /\ feed' = [feed EXCEPT ![n] = Tail(@)]
  BY DEF Lose
<1>3. /\ fetching' \in BOOLEAN /\ snapshots' \subseteq snapshots
      /\ subscribing' \in 0 .. 2 /\ subscribing' <= subscribing
      /\ acks' \in 0 .. 4 /\ acks' <= acks
  <2>1. fetching \in BOOLEAN /\ subscribing \in 0 .. 2 /\ acks \in 0 .. 4
    BY DEF IInv, TypeOK
  <2>2. fetching' \in {fetching, FALSE} /\ snapshots' \subseteq snapshots
    BY DEF Lose
  <2>3. \/ subscribing' = subscribing
        \/ subscribing > 0 /\ subscribing' = subscribing - 1
    BY DEF Lose
  <2>4. acks' = acks \/ (acks > 0 /\ acks' = acks - 1)
    BY DEF Lose
  <2>5. subscribing' \in 0 .. 2 /\ subscribing' <= subscribing
    BY <2>1, <2>3
  <2>6. acks' \in 0 .. 4 /\ acks' <= acks
    BY <2>1, <2>4
  <2>7. QED
    BY <2>1, <2>2, <2>5, <2>6
<1>4. feed' \in [Nodes -> Seq(1 .. MaxUpdates)]
  <2>1. CASE feed' = feed
    BY <2>1 DEF IInv, TypeOK
  <2>2. ASSUME NEW n \in Nodes, feed[n] # << >>, feed' = [feed EXCEPT ![n] = Tail(@)]
        PROVE  feed' \in [Nodes -> Seq(1 .. MaxUpdates)]
    BY <2>2, FeedHead DEF IInv, TypeOK
  <2>3. QED
    BY <1>2, <2>1, <2>2
<1>5. \A m \in Nodes : \/ feed'[m] = feed[m] \/ feed'[m] = << >>
                       \/ feed[m] # << >> /\ feed'[m] = Tail(feed[m])
  BY <1>2 DEF IInv, TypeOK
<1>6. /\ \A m \in Nodes : feed'[m] # << >> => feed[m] # << >>
      /\ \A m \in Nodes : \A i \in 1 .. Len(feed'[m]) : feed'[m][i] <= published
      /\ FeedsInOrder'
  BY <1>1, <1>4, <1>5, FeedsShrink
<1>7. TypeOK'
  <2>1. ClusterType({Tracker})'
    BY <1>1 DEF IInv, TypeOK, ClusterType
  <2>2. faults' \in 0 .. MaxFaults /\ faults' # 0
    BY <1>1, MaxUpdatesAssumption DEF IInv, TypeOK
  <2>3. QED
    BY <1>1, <1>3, <1>4, <2>1, <2>2 DEF IInv, TypeOK
<1>8. Counts'
  BY <1>1, <1>3, CountsFall DEF IInv
<1>9. KnownIsPublished'
  BY <1>1, <1>3, <1>6 DEF IInv, KnownIsPublished
<1>10. NothingBeforeTheHistory' /\ OneMediator'
  BY <1>1, <1>6 DEF IInv, NothingBeforeTheHistory, OneMediator, Subscribed
<1>11. faults' # 0
  BY <1>1 DEF IInv, TypeOK
<1>12. FeedsAreFull'
  BY <1>11 DEF FeedsAreFull
<1>13. QED
  BY <1>6, <1>7, <1>8, <1>9, <1>10, <1>12 DEF IInv

LEMMA NodeIsKilledKeeps ==
    ASSUME IInv, NodeIsKilled PROVE IInv'
<1>1. PICK n \in Nodes :
        /\ Kill(n)
        /\ feed' = [feed EXCEPT ![n] = << >>]
        /\ fetching' \in {fetching, FALSE}
        /\ subscribing' \in 0 .. subscribing
        /\ UNCHANGED <<tracker, snapshots, acks, published, faults>>
  BY DEF NodeIsKilled
<1>2. /\ kills < MaxKills /\ kills' = kills + 1 /\ alive' = alive \ {n}
      /\ host' = [s \in Symbols |-> IF host[s] = n THEN NoNode ELSE host[s]]
      /\ subs' \subseteq subs /\ ~Subscribed(n)' /\ moves' = moves
  BY <1>1 DEF Kill, Subscribed
<1>3. /\ feed' \in [Nodes -> Seq(1 .. MaxUpdates)]
      /\ \A m \in Nodes : feed'[m] = feed[m] \/ feed'[m] = << >>
      /\ feed'[n] = << >>
  BY <1>1 DEF IInv, TypeOK
<1>4. /\ \A m \in Nodes : feed'[m] # << >> => feed[m] # << >>
      /\ \A m \in Nodes : \A i \in 1 .. Len(feed'[m]) : feed'[m][i] <= published
      /\ FeedsInOrder'
  BY <1>1, <1>2, <1>3, FeedsShrink DEF tracker
<1>5. \A m \in Nodes : Subscribed(m)' => Subscribed(m)
  BY <1>2 DEF Subscribed
<1>6. subscribing' \in 0 .. 2 /\ subscribing' <= subscribing /\ subscribing' \in Nat
  BY <1>1 DEF IInv, TypeOK
<1>7. TypeOK'
  <2>1. kills' \in 0 .. MaxKills
    BY <1>2, MaxKillsAssumption DEF IInv, TypeOK, ClusterType
  <2>2. ClusterType({Tracker})'
    BY <1>2, <2>1 DEF IInv, TypeOK, ClusterType
  <2>3. QED
    BY <1>1, <1>3, <1>6, <2>2 DEF IInv, TypeOK, tracker
<1>8. Counts'
  <2>1. acks' \in Nat /\ acks' <= acks
    BY <1>1 DEF IInv, TypeOK
  <2>2. QED
    BY <1>1, <1>6, <2>1, CountsFall DEF IInv, tracker
<1>9. KnownIsPublished' /\ NothingBeforeTheHistory'
  BY <1>1, <1>4, <1>5 DEF IInv, KnownIsPublished, NothingBeforeTheHistory, tracker
<1>10. OneMediator'
  <2>1. Symbol \in Symbols
    BY SymbolAssumption
  <2>2. ASSUME moves' = 0, NEW m \in Nodes, feed'[m] # << >> \/ Subscribed(m)'
        PROVE  host'[Symbol] = m
    <3>1. m # n /\ host[Symbol] = m
      BY <1>2, <1>3, <1>4, <1>5, <2>2 DEF IInv, OneMediator
    <3>2. QED
      BY <1>2, <2>1, <3>1
  <2>3. QED
    BY <2>2 DEF OneMediator, Subscribed
<1>11. kills' # 0
  BY <1>2 DEF IInv, TypeOK, ClusterType
<1>12. FeedsAreFull'
  BY <1>11 DEF FeedsAreFull
<1>13. QED
  BY <1>4, <1>7, <1>8, <1>9, <1>10, <1>12 DEF IInv

LEMMA ClusterActsKeeps ==
    ASSUME IInv, ClusterActs PROVE IInv'
<1> USE DEF tracker, messages
<1>1. /\ UNCHANGED <<mode, history, current, fetching, subscribing, snapshots, acks, feed,
                     published, faults>>
      /\ Ping(Symbol) \/ Move(Symbol) \/ \E n \in Nodes : Join(n)
  BY DEF ClusterActs
<1>2. UNCHANGED <<subs, kills>> /\ \A n \in Nodes : Subscribed(n)' <=> Subscribed(n)
  BY <1>1 DEF Ping, Move, Join, Subscribed
<1>3. Symbol \in Symbols
  BY SymbolAssumption
<1>4. ClusterType({Tracker})'
  <2>1. CASE Ping(Symbol)
    BY <2>1, <1>3 DEF Ping, IInv, TypeOK, ClusterType
  <2>2. CASE Move(Symbol)
    BY <2>2, <1>3, MaxKillsAssumption DEF Move, IInv, TypeOK, ClusterType
  <2>3. CASE \E n \in Nodes : Join(n)
    BY <2>3 DEF Join, IInv, TypeOK, ClusterType
  <2>4. QED
    BY <1>1, <2>1, <2>2, <2>3
<1>5. TypeOK'
  BY <1>1, <1>4 DEF IInv, TypeOK
<1>6. Counts' /\ KnownIsPublished' /\ NothingBeforeTheHistory'
  BY <1>1, <1>2 DEF IInv, Counts, KnownIsPublished, NothingBeforeTheHistory
<1>7. moves' = 0 => moves = 0 /\ (host[Symbol] # NoNode => host' = host)
  BY <1>1 DEF Ping, Move, Join, IInv, TypeOK, ClusterType
<1>8. OneMediator'
  BY <1>1, <1>2, <1>7, NoNodeAssumption DEF IInv, OneMediator
<1>9. FeedsInOrder'
  BY <1>1, <1>7 DEF IInv, FeedsInOrder
<1>10. FeedsAreFull'
  <2>1. alive = Nodes => alive' = Nodes
    BY <1>1 DEF Ping, Move, Join
  <2>2. QED
    BY <1>1, <1>2, <1>7, <2>1 DEF IInv, FeedsAreFull
<1>11. QED
  BY <1>5, <1>6, <1>8, <1>9, <1>10 DEF IInv

-----------------------------------------------------------------------------
(* The theorems *)

(* The invariant holds at all times.                                       *)
THEOREM Invariance == Spec => []IInv
<1>1. IInv /\ [Next]_vars => IInv'
  <2> SUFFICES ASSUME IInv, [Next]_vars PROVE IInv'
    OBVIOUS
  <2>1. CASE UNCHANGED vars
    BY <2>1 DEF vars, cluster, tracker, messages, IInv, TypeOK, ClusterType, Counts,
                KnownIsPublished, NothingBeforeTheHistory, OneMediator, FeedsInOrder,
                FeedsAreFull, Subscribed
  <2>2. CASE Next
    BY <2>2, TakeSnapshotKeeps, TimeoutForHistoryKeeps, TakeAckKeeps, TimeoutForAckKeeps,
       TakeUpdateKeeps, FetchAgainKeeps, AnswerFetchKeeps, AnswerSubscribeKeeps,
       PublishKeeps, LoseKeeps, NodeIsKilledKeeps, ClusterActsKeeps DEF Next
  <2>3. QED
    BY <2>1, <2>2
<1>2. QED
  BY <1>1, InitIInv, PTL DEF Spec

(* Every variable keeps its type: no more than four acknowledgements are   *)
(* ever on their way, since the tracker subscribes twice at most.          *)
THEOREM TypeCorrect == Spec => []TypeOK
<1>1. IInv => TypeOK
  BY DEF IInv
<1>2. QED
  BY <1>1, Invariance, PTL

(* What the tracker shows never goes back, while the aggregator has not    *)
(* been moved.                                                             *)
THEOREM PricesAreShownInOrder == Spec => ShownInOrder
<1>1. ASSUME IInv, moves = 0, TakeUpdate, mode = "PriceUpdates"
      PROVE  current' > current /\ current' > history
  <2>1. PICK n \in Nodes : feed[n] # << >> /\ current' = Head(feed[n])
    BY <1>1 DEF TakeUpdate
  <2>2. 1 \in 1 .. Len(feed[n]) /\ current' = feed[n][1]
    BY <1>1, <2>1, FeedHead DEF IInv
  <2>3. QED
    BY <1>1, <2>2 DEF IInv, FeedsInOrder
<1>2. IInv /\ [Next]_vars =>
        [moves = 0 /\ TakeUpdate /\ mode = "PriceUpdates" =>
            current' > current /\ current' > history]_vars
  BY <1>1
<1>3. QED
  BY <1>2, Invariance, PTL DEF Spec, ShownInOrder

(* Without failures a live tracker shows every update.                     *)
THEOREM NothingIsMissed == Spec => NoGapOnceLive
<1>1. ASSUME IInv, TakeUpdate, kills = 0, moves = 0, faults = 0, current > 0
      PROVE  current' \in {current, current + 1}
  <2>1. PICK n \in Nodes : feed[n] # << >> /\ current' \in {Head(feed[n]), current}
    BY <1>1 DEF TakeUpdate
  <2>2. /\ 1 \in 1 .. Len(feed[n]) /\ Head(feed[n]) = feed[n][1]
        /\ Len(feed[n]) \in Nat /\ published \in Nat
    BY <1>1, <2>1, FeedHead DEF IInv, TypeOK
  <2>3. PICK m \in Nodes : Subscribed(m) /\ current = published - Len(feed[m])
    BY <1>1 DEF IInv, FeedsAreFull
  <2>4. m = n
    BY <1>1, <2>1, <2>3 DEF IInv, OneMediator
  <2>5. Head(feed[n]) = published - Len(feed[n]) + 1
    BY <1>1, <2>2 DEF IInv, FeedsAreFull
  <2>6. QED
    BY <2>1, <2>3, <2>4, <2>5
<1>2. ASSUME IInv, Next, ~TakeUpdate
      PROVE  current' = current
  BY <1>2 DEF Next, TakeSnapshot, TimeoutForHistory, TakeAck, TimeoutForAck, FetchAgain,
              AnswerFetch, AnswerSubscribe, Publish, Lose, NodeIsKilled, ClusterActs, tracker
<1>3. IInv /\ [Next]_vars =>
        [kills = 0 /\ moves = 0 /\ faults = 0 /\ current > 0 =>
            current' \in {current, current + 1}]_vars
  BY <1>1, <1>2
<1>4. QED
  BY <1>3, Invariance, PTL DEF Spec, NoGapOnceLive

-----------------------------------------------------------------------------
(* The requests *)

(* An aggregator runs on a node that is up.                                *)
HostLives == host[Symbol] # NoNode => host[Symbol] \in alive

(* While no node has been killed and no mediator has the tracker for a     *)
(* subscriber, none of its requests has been answered: each is under way   *)
(* still or is counted among the faults.                                   *)
AsksEnough ==
    kills = 0 /\ ~Heard =>
        /\ acks = 0
        /\ mode = "WaitingForSubscribeAck" => subscribing + faults >= 1
        /\ mode = "PriceUpdates" => subscribing + faults >= 2

AInv == HostLives /\ AsksEnough

(* The second invariant is kept by a step of the tracker or a loss.        *)
LEMMA TrackerKeepsAsking ==
    ASSUME IInv, AInv,
           \/ TakeSnapshot \/ TimeoutForHistory \/ TakeAck \/ TimeoutForAck \/ TakeUpdate
           \/ FetchAgain \/ AnswerFetch \/ Publish \/ Lose
    PROVE  AInv'
<1>1. UNCHANGED cluster
  BY DEF TakeSnapshot, TimeoutForHistory, TakeAck, TimeoutForAck, TakeUpdate, FetchAgain,
         AnswerFetch, Publish, Lose
<1>2. HostLives' /\ kills' = kills /\ (Heard' <=> Heard)
  BY <1>1 DEF AInv, HostLives, cluster, Heard, Feeding
<1>3. /\ subscribing \in Nat /\ acks \in Nat /\ faults \in Nat
      /\ mode = "WaitingForPriceHistory" => subscribing = 0 /\ acks = 0
      /\ mode \in {"WaitingForPriceHistory", "WaitingForSubscribeAck", "PriceUpdates"}
  BY DEF IInv, TypeOK, Counts
<1>4. ASSUME kills = 0, ~Heard
      PROVE  /\ acks' = 0
             /\ mode' = "WaitingForSubscribeAck" => subscribing' + faults' >= 1
             /\ mode' = "PriceUpdates" => subscribing' + faults' >= 2
  <2> USE <1>3
  <2>1. /\ acks = 0
        /\ mode = "WaitingForSubscribeAck" => subscribing + faults >= 1
        /\ mode = "PriceUpdates" => subscribing + faults >= 2
    BY <1>4 DEF AInv, AsksEnough
  <2>2. CASE TakeSnapshot
    BY <2>1, <2>2 DEF TakeSnapshot, BecomeWaitingForSubscribe
  <2>3. CASE TimeoutForHistory
    BY <2>1, <2>3 DEF TimeoutForHistory, BecomeWaitingForSubscribe
  <2>4. CASE TakeAck
    BY <2>1, <2>4 DEF TakeAck
  <2>5. CASE TimeoutForAck
    BY <2>1, <2>5 DEF TimeoutForAck
  <2>6. CASE TakeUpdate \/ FetchAgain \/ AnswerFetch \/ Publish
    <3>1. UNCHANGED <<mode, subscribing, acks, faults>>
      BY <2>6 DEF TakeUpdate, FetchAgain, AnswerFetch, Publish, tracker
    <3>2. QED
      BY <2>1, <3>1
  <2>7. CASE Lose
    <3>1. /\ mode' = mode /\ faults' = faults + 1
          /\ subscribing' = subscribing \/ (subscribing > 0 /\ subscribing' = subscribing - 1)
          /\ acks' = acks \/ (acks > 0 /\ acks' = acks - 1)
      BY <2>7 DEF Lose, tracker
    <3>2. QED
      BY <2>1, <3>1
  <2>8. QED
    BY <2>2, <2>3, <2>4, <2>5, <2>6, <2>7
<1>5. AsksEnough'
  BY <1>2, <1>4 DEF AsksEnough
<1>6. QED
  BY <1>2, <1>5 DEF AInv

(* An answered request makes the mediator of a node that is up pass the    *)
(* prices on; a refused one is a fault.                                    *)
LEMMA AnswerSubscribeKeepsAsking ==
    ASSUME IInv, AInv, AnswerSubscribe PROVE AInv'
<1>1. /\ subscribing > 0 /\ host[Symbol] # NoNode
      /\ UNCHANGED <<alive, host, kills, mode>>
      /\ subscribing' = subscribing - 1
      /\ subs \subseteq subs'
      /\ \/ subs' = Registered(Symbol, Tracker)
         \/ faults' = faults + 1 /\ UNCHANGED acks
  BY DEF AnswerSubscribe, tracker, Registered
<1>2. HostLives' /\ host[Symbol] \in alive
  BY <1>1 DEF AInv, HostLives
<1>3. Heard => Heard'
  BY <1>1 DEF Heard, Feeding
<1>4. CASE subs' = Registered(Symbol, Tracker)
  <2>1. Heard'
    BY <1>1, <1>2, <1>4 DEF Heard, Feeding, Registered
  <2>2. QED
    BY <1>2, <2>1 DEF AInv, AsksEnough
<1>5. CASE faults' = faults + 1 /\ UNCHANGED acks
  <2>1. subscribing \in Nat /\ faults \in Nat
    BY DEF IInv, TypeOK
  <2>2. subscribing' + faults' = subscribing + faults
    BY <1>1, <1>5, <2>1
  <2>3. AsksEnough'
    BY <1>1, <1>3, <1>5, <2>2 DEF AInv, AsksEnough
  <2>4. QED
    BY <1>2, <2>3 DEF AInv
<1>6. QED
  BY <1>1, <1>4, <1>5

(* No node goes down without a kill, and a kill ends the promise.          *)
LEMMA ClusterKeepsAsking ==
    ASSUME IInv, AInv, NodeIsKilled \/ ClusterActs PROVE AInv'
<1>1. Symbol \in Symbols
  BY SymbolAssumption
<1>2. CASE NodeIsKilled
  <2>1. PICK n \in Nodes : Kill(n)
    BY <1>2 DEF NodeIsKilled
  <2>2. /\ kills' = kills + 1 /\ alive' = alive \ {n}
        /\ host' = [s \in Symbols |-> IF host[s] = n THEN NoNode ELSE host[s]]
    BY <2>1 DEF Kill
  <2>3. HostLives'
    BY <1>1, <2>2 DEF AInv, HostLives
  <2>4. kills' # 0
    BY <2>2 DEF IInv, TypeOK, ClusterType
  <2>5. QED
    BY <2>3, <2>4 DEF AInv, AsksEnough
<1>3. CASE ClusterActs
  <2>1. /\ UNCHANGED <<mode, subscribing, acks, faults>>
        /\ Ping(Symbol) \/ Move(Symbol) \/ \E n \in Nodes : Join(n)
    BY <1>3 DEF ClusterActs, tracker, messages
  <2>2. UNCHANGED <<subs, kills>> /\ alive \subseteq alive'
    BY <2>1 DEF Ping, Move, Join
  <2>3. HostLives'
    BY <1>1, <2>1, <2>2 DEF AInv, HostLives, Ping, Move, Join, IInv, TypeOK, ClusterType
  <2>4. Heard => Heard'
    BY <2>2 DEF Heard, Feeding
  <2>5. QED
    BY <2>1, <2>2, <2>3, <2>4 DEF AInv, AsksEnough
<1>4. QED
  BY <1>2, <1>3

(* The retry is worth its while: until one fault too many, or a kill, a    *)
(* live tracker that is not heard of has a request under way.              *)
THEOREM ALiveTrackerIsHeardOrAsking == Spec => []LiveIsHeardOrAsking
<1>1. Init => AInv
  BY NoNodeAssumption, SymbolAssumption
  DEF Init, ClusterInit, AInv, HostLives, AsksEnough
<1>2. IInv /\ AInv /\ [Next]_vars => AInv'
  <2>1. UNCHANGED vars /\ AInv => AInv'
    BY DEF vars, cluster, tracker, messages, AInv, HostLives, AsksEnough, Heard, Feeding
  <2>2. IInv /\ AInv /\ Next => AInv'
    BY TrackerKeepsAsking, AnswerSubscribeKeepsAsking, ClusterKeepsAsking DEF Next
  <2>3. QED
    BY <2>1, <2>2
<1>3. IInv /\ AInv => LiveIsHeardOrAsking
  BY DEF IInv, TypeOK, AInv, AsksEnough, LiveIsHeardOrAsking
<1>4. QED
  BY <1>1, <1>2, <1>3, Invariance, PTL DEF Spec
=============================================================================
