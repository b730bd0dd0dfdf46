----------------------- MODULE MatchAggregatorProofs -----------------------
(***************************************************************************)
(* What holds of the match aggregator for every buffer size and snapshot   *)
(* interval and any number of matches, updates and stops: its types, that  *)
(* nothing a recovery needs is deleted, that a recovery restores the       *)
(* averages and a full history, that the journal follows the publications, *)
(* and that the averages go on from those stored. The snapshots being      *)
(* states of the journal gives the recovery; what the journal follows is   *)
(* an invariant of its own. From all of these together follows that the    *)
(* aggregator implements PriceSeries.                                      *)
(***************************************************************************)
EXTENDS MatchAggregator, PersistenceProofs, FiniteSetTheorems

-----------------------------------------------------------------------------
(* Numbers and buffers *)

(* A non-empty set of natural numbers has a least element.                 *)
LEMMA LeastElement ==
    ASSUME NEW S \in SUBSET Nat, S # {}
    PROVE  \E m \in S : \A x \in S : m <= x
<1>1. PICK k \in S : k \in Nat
  OBVIOUS
<1> DEFINE D == {k - x : x \in {y \in S : y <= k}}
<1>2. D \in SUBSET (0 .. k) /\ D # {}
  <2>1. k - k \in D
    BY <1>1
  <2>2. \A x \in S : x <= k => k - x \in 0 .. k
    BY <1>1
  <2>3. QED
    BY <2>1, <2>2
<1>3. Max(D) \in D /\ \A x \in D : x <= Max(D)
  <2> HIDE DEF D
  <2>1. QED
    BY <1>1, <1>2, GreatestElement
<1>4. PICK m \in S : m <= k /\ Max(D) = k - m
  BY <1>3
<1>5. ASSUME NEW x \in S, x <= k PROVE m <= x
  <2>1. k - x \in D
    BY <1>5
  <2>2. k - x <= k - m
    BY <1>3, <1>4, <2>1
  <2> HIDE DEF D
  <2>3. x \in Nat /\ m \in Nat
    OBVIOUS
  <2>4. QED
    BY <1>1, <2>2, <2>3
<1>6. ASSUME NEW x \in S, ~(x <= k) PROVE m <= x
  <2>1. x \in Nat /\ m \in Nat /\ k \in Nat /\ m <= k
    BY <1>1, <1>4
  <2>2. QED
    BY <1>6, <2>1
<1>7. \A x \in S : m <= x
  BY <1>5, <1>6
<1>8. QED
  BY <1>7

(* What a buffer holds after some items: at most as many as it can, and    *)
(* the newest of them last; nothing but them if they fill it.              *)
LEMMA EnqueueFacts ==
    ASSUME NEW T, NEW buffer \in Seq(T), NEW items \in Seq(T)
    PROVE  LET held == Enqueue(buffer, items) IN
           /\ held \in Seq(T) /\ Len(held) <= SampleSize
           /\ Len(items) = SampleSize => held = items
           /\ Len(items) # 0 => held # << >> /\ Last(held) = Last(items)
<1> DEFINE all == buffer \o items
           n == Len(all)
           first == Max({1, n - SampleSize + 1})
           held == Enqueue(buffer, items)
<1>1. SampleSize \in Nat /\ SampleSize > 0
  BY SampleSizeAssumption
<1>2. /\ all \in Seq(T) /\ n \in Nat /\ n = Len(buffer) + Len(items)
      /\ Len(buffer) \in Nat /\ Len(items) \in Nat
      /\ \A i \in 1 .. Len(items) : Len(buffer) + i \in 1 .. n /\ all[Len(buffer) + i] = items[i]
  <2>1. /\ all \in Seq(T) /\ n \in Nat /\ n = Len(buffer) + Len(items)
        /\ Len(buffer) \in Nat /\ Len(items) \in Nat
        /\ \A i \in 1 .. n : all[i] = IF i <= Len(buffer) THEN buffer[i] ELSE items[i - Len(buffer)]
    OBVIOUS
  <2> HIDE DEF all, n
  <2>2. ASSUME NEW i \in 1 .. Len(items)
        PROVE  Len(buffer) + i \in 1 .. n /\ all[Len(buffer) + i] = items[i]
    <3>1. /\ Len(buffer) + i \in 1 .. n /\ ~(Len(buffer) + i <= Len(buffer))
          /\ (Len(buffer) + i) - Len(buffer) = i
      BY <2>1
    <3>2. all[Len(buffer) + i] = items[(Len(buffer) + i) - Len(buffer)]
      BY <2>1, <3>1
    <3>3. QED
      BY <3>1, <3>2
  <2>3. QED
    BY <2>1, <2>2
<1> HIDE DEF all, n
<1>3. first = IF n - SampleSize + 1 >= 1 THEN n - SampleSize + 1 ELSE 1
  <2>1. \A a, b \in Int : Max({a, b}) = IF b >= a THEN b ELSE a
    BY DEF Max
  <2>2. n - SampleSize + 1 \in Int
    BY <1>1, <1>2
  <2>3. QED
    BY <2>1, <2>2
<1> HIDE DEF first
<1>4. first \in 1 .. n + 1 /\ first - 1 \in 0 .. n /\ n - (first - 1) <= SampleSize
  BY <1>1, <1>2, <1>3
<1>5. held = SubSeq(all, first, n)
  BY DEF Enqueue, first, all, n
<1> DEFINE m == first - 1
<1>6. /\ held \in Seq(T) /\ Len(held) = n - m
      /\ \A i \in 1 .. n - m : held[i] = all[m + i]
  <2>1. m \in 0 .. n /\ m + 1 = first
    BY <1>2, <1>4
  <2> HIDE DEF m, held
  <2>2. /\ SubSeq(all, m + 1, n) \in Seq(T) /\ Len(SubSeq(all, m + 1, n)) = n - m
        /\ \A i \in 1 .. n - m : SubSeq(all, m + 1, n)[i] = all[m + i]
    BY <1>2, <2>1, RestFacts DEF n
  <2>3. QED
    BY <1>5, <2>1, <2>2
<1>7. m \in 0 .. n /\ n - m <= SampleSize
  BY <1>4
<1>8. Len(items) = SampleSize => m = Len(buffer)
  BY <1>1, <1>2, <1>3
<1>9. Len(items) # 0 => n - m \in 1 .. n - m /\ m + (n - m) = Len(buffer) + Len(items)
  <2> SUFFICES ASSUME Len(items) # 0
               PROVE  n - m \in 1 .. n - m /\ m + (n - m) = Len(buffer) + Len(items)
    OBVIOUS
  <2>1. n \in Nat /\ n >= 1 /\ n = Len(buffer) + Len(items)
    BY <1>2
  <2>2. m \in Nat /\ m < n
    BY <1>1, <1>3, <1>7, <2>1
  <2> HIDE DEF m
  <2>3. QED
    BY <2>1, <2>2
<1> HIDE DEF held, m
<1>10. ASSUME Len(items) = SampleSize PROVE held = items
  <2>1. m = Len(buffer) /\ n - m = Len(items)
    BY <1>2, <1>8, <1>10
  <2>2. \A i \in 1 .. Len(items) : held[i] = items[i]
    BY <1>2, <1>6, <2>1
  <2>3. QED
    BY <1>6, <2>1, <2>2, SeqEqual
<1>11. ASSUME Len(items) # 0 PROVE held # << >> /\ Last(held) = Last(items)
  <2>1. n - m \in 1 .. n - m /\ m + (n - m) = Len(buffer) + Len(items)
    BY <1>9, <1>11
  <2>2. held[n - m] = all[Len(buffer) + Len(items)]
    BY <1>6, <2>1
  <2>3. Len(items) \in 1 .. Len(items)
    BY <1>2, <1>11
  <2>4. held[n - m] = items[Len(items)]
    BY <1>2, <2>2, <2>3
  <2>5. Len(held) # 0
    BY <1>6, <1>7, <2>1
  <2>6. held # << >>
    BY <2>5
  <2>7. QED
    BY <1>6, <2>4, <2>6 DEF Last
<1>12. held \in Seq(T) /\ Len(held) <= SampleSize
  BY <1>6, <1>7
<1>13. QED
  BY <1>10, <1>11, <1>12 DEF held

-----------------------------------------------------------------------------
(* Replays *)

(* g holds what a replay of the first n events gives, one by one.          *)
IsRun(g, start, events, n) ==
    g = [k \in 0 .. n |-> IF k = 0 THEN start ELSE Recover(g[k-1], events[k])]

(* A replay can be carried out.                                            *)
LEMMA RunExists ==
    ASSUME NEW start, NEW events, NEW n \in Nat
    PROVE  \E g : IsRun(g, start, events, n)
<1> DEFINE Fails == {m \in Nat : \A g : ~IsRun(g, start, events, m)}
<1> SUFFICES ASSUME Fails # {} PROVE FALSE
  OBVIOUS
<1>1. Fails \in SUBSET Nat
  OBVIOUS
<1>2. PICK m \in Fails : \A k \in Fails : m <= k
  BY <1>1, LeastElement
<1>3. m # 0
  <2> DEFINE g == [k \in 0 .. 0 |-> start]
  <2>1. g = [k \in 0 .. 0 |-> IF k = 0 THEN start ELSE Recover(g[k-1], events[k])]
    OBVIOUS
  <2>2. IsRun(g, start, events, 0)
    BY <2>1 DEF IsRun
  <2>3. QED
    BY <1>2, <2>2
<1>4. m - 1 \in Nat /\ m \in Nat /\ m - 1 \notin Fails
  BY <1>2, <1>3
<1>5. PICK g : IsRun(g, start, events, m - 1)
  BY <1>4
<1> DEFINE h == [k \in 0 .. m |-> IF k = m THEN Recover(g[m-1], events[m]) ELSE g[k]]
<1>6. ASSUME NEW k \in 0 .. m
      PROVE  h[k] = IF k = 0 THEN start ELSE Recover(h[k-1], events[k])
  <2>1. CASE k = m
    <3>1. h[k] = Recover(g[m-1], events[m]) /\ h[k-1] = g[m-1]
      BY <1>3, <1>4, <2>1
    <3>2. QED
      BY <1>3, <2>1, <3>1
  <2>2. CASE k # m
    <3>1. k \in 0 .. m - 1 /\ h[k] = g[k]
      BY <1>4, <2>2
    <3>2. g[k] = IF k = 0 THEN start ELSE Recover(g[k-1], events[k])
      BY <1>5, <3>1 DEF IsRun
    <3>3. k # 0 => h[k-1] = g[k-1]
      BY <1>4, <3>1
    <3>4. QED
      BY <3>1, <3>2, <3>3
  <2>3. QED
    BY <2>1, <2>2
<1>7. h = [k \in 0 .. m |-> h[k]]
  OBVIOUS
<1> HIDE DEF h
<1>8. IsRun(h, start, events, m)
  BY <1>6, <1>7 DEF IsRun
<1>9. QED
  BY <1>2, <1>8

(* Replay carries one out.                                                 *)
LEMMA ReplayIsRun ==
    ASSUME NEW start, NEW events, Len(events) \in Nat
    PROVE  \E g : IsRun(g, start, events, Len(events)) /\ Replay(start, events) = g[Len(events)]
<1> DEFINE after == CHOOSE g : IsRun(g, start, events, Len(events))
<1>1. IsRun(after, start, events, Len(events))
  BY RunExists
<1>2. Replay(start, events) = after[Len(events)]
  BY Zenon DEF Replay, IsRun
<1>3. QED
  BY <1>1, <1>2

(* What a recovery may hold on its way.                                    *)
Held(x) == x \in SavedState /\ Len(x.recent) <= SampleSize

LEMMA SavedFacts ==
    /\ Hole \notin SavedState
    /\ \A x \in SavedState : x.avg \in Averages /\ x.recent \in Seq(Update)
    /\ \A avg \in Averages, recent \in Seq(Update) :
          /\ State(avg, recent) \in SavedState
          /\ State(avg, recent).avg = avg /\ State(avg, recent).recent = recent
BY DEF Hole, SavedState, State

(* A hole changes nothing, a state sets the averages and adds its updates. *)
LEMMA RecoverFacts ==
    ASSUME NEW x, Held(x), NEW e \in SavedState \cup {Hole}
    PROVE  /\ Held(Recover(x, e))
           /\ e = Hole => Recover(x, e) = x
           /\ e # Hole => /\ Recover(x, e).avg = e.avg
                          /\ Len(e.recent) = SampleSize => Recover(x, e).recent = e.recent
<1>1. CASE e = Hole
  BY <1>1 DEF Recover
<1>2. CASE e # Hole
  <2>1. /\ e \in SavedState /\ e.avg \in Averages /\ e.recent \in Seq(Update)
        /\ x.recent \in Seq(Update)
    BY <1>2, SavedFacts DEF Held
  <2> DEFINE held == Enqueue(x.recent, e.recent)
  <2>2. /\ held \in Seq(Update) /\ Len(held) <= SampleSize
        /\ Len(e.recent) = SampleSize => held = e.recent
    BY <2>1, EnqueueFacts
  <2>3. Recover(x, e) = State(e.avg, held)
    BY <1>2 DEF Recover, RecoverAggregateData
  <2> HIDE DEF held
  <2>4. QED
    BY <1>2, <2>1, <2>2, <2>3, SavedFacts DEF Held
<1>3. QED
  BY <1>1, <1>2

(* So every step of a replay holds what it may.                            *)
LEMMA RunHeld ==
    ASSUME NEW start, Held(start), NEW w \in Seq(SavedState \cup {Hole}),
           NEW g, IsRun(g, start, w, Len(w))
    PROVE  \A k \in 0 .. Len(w) : Held(g[k])
<1>1. Len(w) \in Nat /\ \A k \in 1 .. Len(w) : w[k] \in SavedState \cup {Hole}
  OBVIOUS
<1> DEFINE Bad == {k \in 0 .. Len(w) : ~Held(g[k])}
<1> SUFFICES ASSUME Bad # {} PROVE FALSE
  OBVIOUS
<1>2. Bad \in SUBSET Nat
  BY <1>1
<1>3. PICK k \in Bad : \A i \in Bad : k <= i
  BY <1>2, LeastElement
<1>4. g[k] = IF k = 0 THEN start ELSE Recover(g[k-1], w[k])
  BY DEF IsRun
<1>5. k # 0
  BY <1>3, <1>4
<1>6. k \in 1 .. Len(w) /\ k - 1 \in 0 .. Len(w) /\ k - 1 \notin Bad
  BY <1>1, <1>3, <1>5
<1>7. Held(g[k-1]) /\ w[k] \in SavedState \cup {Hole}
  BY <1>1, <1>6
<1>8. Held(Recover(g[k-1], w[k]))
  BY <1>7, RecoverFacts
<1>9. QED
  BY <1>3, <1>4, <1>5, <1>8

(* Only holes come after number m up to n.                                 *)
NoStates(w, m, n) == \A i \in m + 1 .. n : w[i] = Hole

(* Then nothing changes.                                                   *)
LEMMA RunStays ==
    ASSUME NEW start, NEW w, NEW n \in Nat, NEW h, IsRun(h, start, w, n),
           NEW m \in 0 .. n, NoStates(w, m, n)
    PROVE  h[n] = h[m]
<1> DEFINE Differ == {k \in m .. n : h[k] # h[m]}
<1> SUFFICES ASSUME Differ # {} PROVE FALSE
  OBVIOUS
<1>1. PICK k \in Differ : \A i \in Differ : k <= i
  <2>1. Differ \in SUBSET Nat
    OBVIOUS
  <2>2. QED
    BY <2>1, LeastElement
<1>2. k \in m + 1 .. n /\ k - 1 \in m .. n /\ k - 1 \notin Differ
  BY <1>1
<1>3. h[k] = Recover(h[k-1], w[k])
  BY <1>2 DEF IsRun
<1>4. QED
  BY <1>1, <1>2, <1>3 DEF Recover, NoStates

(* n is the number of the newest state among some events.                  *)
IsNewest(n, w) == n \in StatesIn(w) /\ \A i \in StatesIn(w) : i <= n

(* What a replay ends with is the newest state, if there is any.           *)
LEMMA ReplayFacts ==
    ASSUME NEW start, Held(start), NEW w \in Seq(SavedState \cup {Hole})
    PROVE  /\ Held(Replay(start, w))
           /\ StatesIn(w) = {} => Replay(start, w) = start
           /\ \A n : IsNewest(n, w) =>
                 /\ Replay(start, w).avg = w[n].avg
                 /\ Len(w[n].recent) = SampleSize => Replay(start, w).recent = w[n].recent
<1>1. /\ Len(w) \in Nat /\ DOMAIN w = 1 .. Len(w)
      /\ \A k \in 1 .. Len(w) : w[k] \in SavedState \cup {Hole}
  OBVIOUS
<1>2. PICK g : IsRun(g, start, w, Len(w)) /\ Replay(start, w) = g[Len(w)]
  BY <1>1, ReplayIsRun
<1>3. \A k \in 0 .. Len(w) : Held(g[k])
  BY <1>2, RunHeld
<1>4. Len(w) \in 0 .. Len(w) /\ 0 \in 0 .. Len(w)
  BY <1>1
<1>5. ASSUME StatesIn(w) = {} PROVE Replay(start, w) = start
  <2>1. NoStates(w, 0, Len(w))
    BY <1>1, <1>5 DEF NoStates, StatesIn
  <2>2. g[Len(w)] = g[0]
    BY <1>1, <1>2, <1>4, <2>1, RunStays
  <2>3. g[0] = start
    BY <1>2, <1>4 DEF IsRun
  <2>4. QED
    BY <1>2, <2>2, <2>3
<1>6. ASSUME NEW n, IsNewest(n, w)
      PROVE  /\ Replay(start, w).avg = w[n].avg
             /\ Len(w[n].recent) = SampleSize => Replay(start, w).recent = w[n].recent
  <2>1. n \in 1 .. Len(w) /\ w[n] # Hole /\ \A i \in StatesIn(w) : i <= n
    BY <1>1, <1>6 DEF IsNewest, StatesIn
  <2>2. NoStates(w, n, Len(w))
    <3> SUFFICES ASSUME NEW i \in n + 1 .. Len(w), w[i] # Hole PROVE FALSE
      BY DEF NoStates
    <3>1. i \in 1 .. Len(w) /\ ~(i <= n)
      BY <1>1, <2>1
    <3>2. QED
      BY <1>1, <2>1, <3>1 DEF StatesIn
  <2>3. n \in 0 .. Len(w) /\ n - 1 \in 0 .. Len(w) /\ n # 0
    BY <1>1, <2>1
  <2>4. g[Len(w)] = g[n]
    BY <1>1, <1>2, <2>2, <2>3, RunStays
  <2>5. g[n] = Recover(g[n-1], w[n])
    BY <1>2, <2>3 DEF IsRun
  <2>6. Held(g[n-1]) /\ w[n] \in SavedState \cup {Hole}
    BY <1>1, <1>3, <2>1, <2>3
  <2>7. QED
    BY <1>2, <2>1, <2>4, <2>5, <2>6, RecoverFacts
<1>7. QED
  BY <1>2, <1>3, <1>4, <1>5, <1>6

(* A recovery holds what it may.                                           *)
LEMMA RecoveredType ==
    ASSUME SoundStores, PersistenceType(SavedState \cup {Hole}, SavedState)
    PROVE  Held(Recovered(snapshots, written, deletedTo))
<1> DEFINE nothing == State(<< >>, << >>)
           start == IF snapshots = {} THEN nothing
                    ELSE RecoverAggregateData(nothing, LatestSnapshot(snapshots).state)
           read == EventsToReplay(snapshots, written, deletedTo)
<1>1. Held(nothing)
  <2>1. << >> \in Averages /\ << >> \in Seq(Update) /\ Len(<< >>) = 0
    BY EmptySeq DEF Averages
  <2>2. nothing \in SavedState /\ nothing.recent = << >>
    BY <2>1, SavedFacts
  <2>3. Len(nothing.recent) <= SampleSize
    BY <2>1, <2>2, SampleSizeAssumption
  <2>4. QED
    BY <2>2, <2>3 DEF Held
<1>2. Held(start)
  <2>1. CASE snapshots = {}
    BY <1>1, <2>1
  <2>2. CASE snapshots # {}
    <3>1. LatestSnapshot(snapshots).state \in SavedState
      BY <2>2, LatestSnapshotIsOne DEF PersistenceType
    <3>2. Held(Recover(nothing, LatestSnapshot(snapshots).state))
      BY <1>1, <3>1, RecoverFacts
    <3>3. QED
      BY <2>2, <3>1, <3>2, SavedFacts DEF Recover
  <2>3. QED
    BY <2>1, <2>2
<1>3. read \in Seq(SavedState \cup {Hole})
  BY EventsToReplayFacts DEF PersistenceType
<1>4. Recovered(snapshots, written, deletedTo) = Replay(start, read)
  BY DEF Recovered
<1> HIDE DEF start, read
<1>5. QED
  BY <1>2, <1>3, <1>4, ReplayFacts

-----------------------------------------------------------------------------
(* Types *)

(* The inductive invariant for the types.                                  *)
IInv ==
    /\ TypeOK
    /\ SoundStores
    /\ next \in Nat \ {0}

LEMMA InitIInv == Init => IInv
<1> SUFFICES ASSUME Init PROVE IInv
  OBVIOUS
<1>1. PersistenceInit
  BY DEF Init
<1>2. SoundStores
  BY <1>1, PersistenceInitSound
<1>3. PersistenceType(SavedState \cup {Hole}, SavedState)
  BY <1>1, EmptySeq DEF PersistenceInit, PersistenceType
<1>4. /\ << >> \in Averages /\ << >> \in Seq(Update) /\ << >> \in Seq(SavedState)
      /\ Len(<< >>) <= SampleSize
  BY EmptySeq, SampleSizeAssumption DEF Averages
<1>5. 0 \in 0 .. MaxMatches /\ 0 \in 0 .. MaxCrashes
  BY BoundsAssumption
<1>6. average = << >> /\ updates = << >> /\ saving = << >> /\ published = << >>
  BY DEF Init
<1>7. answered \in [Clients -> Answers]
  BY DEF Init, Answers
<1>8. TypeOK
  BY <1>3, <1>4, <1>5, <1>6, <1>7 DEF Init, TypeOK
<1>9. QED
  BY <1>2, <1>8 DEF Init, IInv

(* The mediator's part of the types.                                       *)
MediatorType ==
    /\ subscribing \in BOOLEAN /\ registered \in BOOLEAN
    /\ market \subseteq Names \X Clients
    /\ answered \in [Clients -> Answers]

(* Who is told what, and who is subscribed, has its type after any of      *)
(* their steps.                                                            *)
LEMMA MediatorStep ==
    ASSUME MediatorType,
           \/ DoSubscribe \/ DoSubscribeFails
           \/ \E c \in Clients : MarketSubscribe(c) \/ MarketUnsubscribe(c) \/ Terminated(c)
    PROVE  MediatorType' /\ UNCHANGED <<actor, history, store, calls>>
<1>1. CASE DoSubscribe \/ DoSubscribeFails
  BY <1>1 DEF DoSubscribe, DoSubscribeFails, MediatorType
<1>2. ASSUME NEW c \in Clients, MarketSubscribe(c) \/ MarketUnsubscribe(c) \/ Terminated(c)
      PROVE  MediatorType' /\ UNCHANGED <<actor, history, store, calls>>
  <2>1. UNCHANGED <<subscribing, registered, actor, history, store, calls>>
    BY <1>2 DEF MarketSubscribe, MarketUnsubscribe, Terminated
  <2>2. answered' \in [Clients -> Answers] /\ market' \subseteq market \cup {<<"TickerSymbol", c>>}
    <3>1. CASE MarketSubscribe(c) \/ Terminated(c)
      BY <3>1 DEF MarketSubscribe, Terminated, MediatorType, Answers
    <3>2. CASE MarketUnsubscribe(c)
      <4>1. PICK outcome \in UnsubscribeOutcomes("PersistenceId", c) :
               /\ market' = outcome[1]
               /\ answered' = [answered EXCEPT ![c] = outcome[2]]
        BY <3>2 DEF MarketUnsubscribe
      <4>2. outcome[1] \subseteq market /\ outcome[2] \in Answers
        BY <4>1 DEF UnsubscribeOutcomes, Answers
      <4>3. QED
        BY <4>1, <4>2 DEF MediatorType
    <3>3. QED
      BY <1>2, <3>1, <3>2
  <2>3. market' \subseteq Names \X Clients
    <3>1. <<"TickerSymbol", c>> \in Names \X Clients /\ market \subseteq Names \X Clients
      BY DEF Names, MediatorType
    <3>2. QED
      BY <2>2, <3>1
  <2>4. QED
    BY <2>1, <2>2, <2>3 DEF MediatorType
<1>3. QED
  BY <1>1, <1>2

(* A timer tick: the buffer takes the latest update.                       *)
LEMMA PublishFacts ==
    ASSUME TypeOK, PublishEvents
    PROVE  LET latest == [avg |-> average, time |-> Len(published) + 1] IN
           /\ latest \in Update
           /\ updates' \in Seq(Update) /\ Len(updates') <= SampleSize
           /\ updates' # << >> /\ Last(updates') = latest
           /\ State(average, updates') \in SavedState
           /\ saving' = Append(saving, State(average, updates'))
           /\ published' = Append(published, latest)
<1> DEFINE latest == [avg |-> average, time |-> Len(published) + 1]
<1>1. latest \in Update
  <2>1. Len(published) \in Nat /\ Len(published) < MaxUpdates /\ MaxUpdates \in Nat
    BY BoundsAssumption DEF TypeOK, PublishEvents
  <2>2. Len(published) + 1 \in 1 .. MaxUpdates
    BY <2>1
  <2>3. average \in Averages
    BY DEF TypeOK
  <2>4. QED
    BY <2>2, <2>3 DEF Update
<1>2. /\ updates' = Enqueue(updates, <<latest>>)
      /\ saving' = Append(saving, State(average, updates'))
      /\ published' = Append(published, latest)
  BY DEF PublishEvents
<1> HIDE DEF latest
<1>3. /\ <<latest>> \in Seq(Update) /\ Len(<<latest>>) = 1 /\ Len(<<latest>>) # 0
      /\ Last(<<latest>>) = latest
  BY <1>1 DEF Last
<1>4. /\ updates' \in Seq(Update) /\ Len(updates') <= SampleSize
      /\ updates' # << >> /\ Last(updates') = latest
  <2>1. updates \in Seq(Update)
    BY DEF TypeOK
  <2> DEFINE items == <<latest>>
  <2>2. items \in Seq(Update) /\ Len(items) # 0 /\ updates' = Enqueue(updates, items)
    BY <1>2, <1>3
  <2>3. Last(items) = latest
    BY <1>3
  <2> HIDE DEF items
  <2>4. QED
    BY <2>1, <2>2, <2>3, EnqueueFacts
<1>5. State(average, updates') \in SavedState
  BY <1>4, SavedFacts DEF TypeOK
<1>6. QED
  BY <1>1, <1>2, <1>4, <1>5 DEF latest

(* A write leaves the types alone.                                         *)
LEMMA WriteMessageIInv ==
    ASSUME IInv, WriteMessage
    PROVE  IInv'
<1>1. /\ saving \in Seq(SavedState) /\ saving # << >>
      /\ written \in Seq(SavedState \cup {Hole})
  BY DEF IInv, TypeOK, PersistenceType, WriteMessage
<1>2. Head(saving) \in SavedState /\ saving' \in Seq(SavedState)
  BY <1>1 DEF WriteMessage
<1> DEFINE events == <<Head(saving)>>
<1>3. /\ events \in Seq(SavedState \cup {Hole})
      /\ [i \in DOMAIN events |-> Hole] \in Seq(SavedState \cup {Hole})
  <2>1. events \in Seq(SavedState \cup {Hole}) /\ DOMAIN events = 1 .. 1
    BY <1>2
  <2> HIDE DEF events
  <2>2. [i \in DOMAIN events |-> Hole] \in Seq(SavedState \cup {Hole})
    BY <2>1
  <2>3. QED
    BY <2>1, <2>2
<1>4. Write(events) \/ Reject(events)
  BY DEF WriteMessage
<1> HIDE DEF events
<1>5. /\ written' \in Seq(SavedState \cup {Hole})
      /\ UNCHANGED <<deletedTo, snapshots, requests, acks>>
  <2>1. CASE Write(events)
    <3>1. written' = written \o events /\ UNCHANGED <<deletedTo, snapshots, requests, acks>>
      BY <2>1 DEF Write, calls
    <3>2. QED
      BY <1>1, <1>3, <3>1, ConcatProperties
  <2>2. CASE Reject(events)
    <3> DEFINE holes == [i \in DOMAIN events |-> Hole]
    <3>1. written' = written \o holes /\ UNCHANGED <<deletedTo, snapshots, requests, acks>>
      BY <2>2 DEF Reject, calls
    <3>2. holes \in Seq(SavedState \cup {Hole})
      BY <1>3
    <3> HIDE DEF holes
    <3>3. QED
      BY <1>1, <3>1, <3>2, ConcatProperties
  <2>3. QED
    BY <1>4, <2>1, <2>2
<1>6. SoundStores'
  BY <1>5, UnchangedSound DEF IInv
<1>7. PersistenceType(SavedState \cup {Hole}, SavedState)'
  BY <1>5 DEF IInv, TypeOK, PersistenceType
<1>8. /\ UNCHANGED <<up, average, updates, next, mediator, matches, published, crashes>>
      /\ rejected' \in BOOLEAN
  BY DEF WriteMessage, IInv, TypeOK
<1>9. QED
  BY <1>2, <1>6, <1>7, <1>8 DEF IInv, TypeOK, mediator

(* A stop and a start.                                                     *)
LEMMA CrashIInv ==
    ASSUME IInv, Crash
    PROVE  IInv'
<1>1. SoundStores'
  BY ForgetCallsSound DEF Crash, IInv
<1>2. requests' = {} /\ acks' = {} /\ UNCHANGED <<written, deletedTo, snapshots>>
  BY DEF Crash, ForgetCalls, store
<1>3. PersistenceType(SavedState \cup {Hole}, SavedState)'
  BY <1>2 DEF IInv, TypeOK, PersistenceType
<1>4. /\ << >> \in Averages /\ << >> \in Seq(Update) /\ << >> \in Seq(SavedState)
      /\ Len(<< >>) <= SampleSize
  BY EmptySeq, SampleSizeAssumption DEF Averages
<1>5. average' = << >> /\ updates' = << >> /\ saving' = << >> /\ next' = 1
  BY DEF Crash
<1>6. crashes' \in 0 .. MaxCrashes
  BY BoundsAssumption DEF Crash, IInv, TypeOK
<1>7. /\ up' \in BOOLEAN /\ subscribing' \in BOOLEAN /\ registered' \in BOOLEAN
      /\ market' \subseteq Names \X Clients /\ UNCHANGED <<answered, matches, published, rejected>>
  BY DEF Crash, IInv, TypeOK
<1>8. QED
  BY <1>1, <1>3, <1>4, <1>5, <1>6, <1>7 DEF IInv, TypeOK

LEMMA PingIInv ==
    ASSUME IInv, Ping
    PROVE  IInv'
<1> DEFINE state == Recovered(snapshots, written, deletedTo)
<1>1. /\ average' = state.avg /\ updates' = state.recent /\ RecoverNumbers
      /\ next' = Len(written') + 1 /\ up' = TRUE /\ subscribing' = TRUE
      /\ UNCHANGED <<saving, registered, market, answered, history>>
  BY DEF Ping, Start
<1>2. Held(state)
  BY RecoveredType DEF IInv, TypeOK
<1> HIDE DEF state
<1>3. average' \in Averages /\ updates' \in Seq(Update) /\ Len(updates') <= SampleSize
  BY <1>1, <1>2, SavedFacts DEF Held
<1>4. SoundStores'
  BY <1>1, JournalSound DEF IInv
<1>5. written \in Seq(SavedState \cup {Hole})
  BY DEF IInv, TypeOK, PersistenceType
<1>6. PICK m \in 0 .. Len(written) : written' = SubSeq(written, 1, m)
  BY <1>1, <1>5, WithoutTrailingHolesFacts DEF RecoverNumbers
<1>7. written' \in Seq(SavedState \cup {Hole})
  BY <1>5, <1>6
<1>8. PersistenceType(SavedState \cup {Hole}, SavedState)'
  BY <1>1, <1>7 DEF RecoverNumbers, calls, IInv, TypeOK, PersistenceType
<1>9. next' \in Nat \ {0}
  <2>1. Len(written') \in Nat
    BY <1>7
  <2>2. QED
    BY <1>1, <2>1
<1>10. QED
  BY <1>1, <1>3, <1>4, <1>8, <1>9 DEF IInv, TypeOK, history

(* Every step of the aggregator and of those around it keeps the           *)
(* invariant.                                                              *)
LEMMA NextIInv == IInv /\ [Next]_vars => IInv'
<1> SUFFICES ASSUME IInv, [Next]_vars PROVE IInv'
  OBVIOUS
<1>1. ASSUME UNCHANGED <<store, calls>>
      PROVE  SoundStores' /\ PersistenceType(SavedState \cup {Hole}, SavedState)'
  BY <1>1, UnchangedSound DEF IInv, TypeOK, PersistenceType, store, calls
<1>2. CASE ReceiveMatch
  <2>1. /\ matches \in Nat /\ matches < MaxMatches /\ matches' = matches + 1 /\ MaxMatches \in Nat
        /\ average' \in {average, Append(average, matches + 1)}
        /\ UNCHANGED <<up, updates, saving, next, mediator, published, crashes, rejected, store, calls>>
    BY <1>2, BoundsAssumption DEF ReceiveMatch, IInv, TypeOK
  <2>2. matches + 1 \in 1 .. MaxMatches /\ matches' \in 0 .. MaxMatches
    BY <2>1
  <2>3. average' \in Averages
    <3>1. average \in Seq(1 .. MaxMatches)
      BY DEF IInv, TypeOK, Averages
    <3>2. Append(average, matches + 1) \in Seq(1 .. MaxMatches)
      BY <2>2, <3>1, AppendProperties
    <3>3. QED
      BY <2>1, <3>1, <3>2 DEF Averages
  <2>4. QED
    BY <1>1, <2>1, <2>2, <2>3 DEF IInv, TypeOK, mediator
<1>3. CASE PublishEvents
  <2> DEFINE latest == [avg |-> average, time |-> Len(published) + 1]
  <2>1. /\ latest \in Update
        /\ updates' \in Seq(Update) /\ Len(updates') <= SampleSize
        /\ State(average, updates') \in SavedState
        /\ saving' = Append(saving, State(average, updates'))
        /\ published' = Append(published, latest)
    BY <1>3, PublishFacts DEF IInv
  <2> HIDE DEF latest
  <2>2. saving \in Seq(SavedState) /\ published \in Seq(Update)
    BY DEF IInv, TypeOK
  <2>3. saving' \in Seq(SavedState) /\ published' \in Seq(Update)
    BY <2>1, <2>2, AppendProperties
  <2>4. UNCHANGED <<up, average, next, mediator, matches, crashes, rejected, store, calls>>
    BY <1>3 DEF PublishEvents
  <2>5. QED
    BY <1>1, <2>1, <2>3, <2>4 DEF IInv, TypeOK, mediator
<1>4. CASE HandlePersisted
  <2>1. UNCHANGED <<up, average, updates, saving, mediator, history>>
    BY <1>4 DEF HandlePersisted
  <2>2. next' \in Nat \ {0} /\ next \in 1 .. Len(written)
    BY <1>4 DEF HandlePersisted, IInv, TypeOK, PersistenceType
  <2>3. SoundStores' /\ PersistenceType(SavedState \cup {Hole}, SavedState)'
    <3>1. CASE written[next] = Hole
      BY <1>1, <1>4, <3>1 DEF HandlePersisted
    <3>2. CASE written[next] # Hole
      <4>1. SaveWhenDue(next, SnapshotEveryN, written[next])
        BY <1>4, <3>2 DEF HandlePersisted
      <4>2. written[next] \in SavedState
        BY <2>2, <3>2 DEF IInv, TypeOK, PersistenceType
      <4>3. SoundStores'
        BY <4>1, SaveWhenDueSound DEF IInv
      <4>4. PersistenceType(SavedState \cup {Hole}, SavedState)'
        BY <4>1, <4>2, SaveWhenDueType DEF IInv, TypeOK
      <4>5. QED
        BY <4>3, <4>4
    <3>3. QED
      BY <3>1, <3>2
  <2>4. QED
    BY <2>1, <2>2, <2>3 DEF IInv, TypeOK, mediator, history
<1>5. CASE CleanUp \/ Stores
  <2>1. UNCHANGED <<actor, mediator, history>>
    BY <1>5 DEF CleanUp, Stores
  <2>2. SoundStores'
    BY <1>5, SaveSnapshotSuccessSound, StoresActSound DEF CleanUp, Stores, IInv
  <2>3. PersistenceType(SavedState \cup {Hole}, SavedState)'
    BY <1>5, SaveSnapshotSuccessType, StoresActType DEF CleanUp, Stores, IInv, TypeOK
  <2>4. QED
    BY <2>1, <2>2, <2>3 DEF IInv, TypeOK, actor, mediator, history
<1>6. CASE \/ DoSubscribe \/ DoSubscribeFails
           \/ \E c \in Clients : MarketSubscribe(c) \/ MarketUnsubscribe(c) \/ Terminated(c)
  <2>1. MediatorType
    BY DEF IInv, TypeOK, MediatorType
  <2>2. MediatorType' /\ UNCHANGED <<actor, history, store, calls>>
    BY <1>6, <2>1, MediatorStep
  <2>3. QED
    BY <1>1, <2>2 DEF IInv, TypeOK, MediatorType, actor, history
<1>7. CASE UNCHANGED vars
  BY <1>1, <1>7 DEF vars, actor, mediator, history, IInv, TypeOK
<1>8. QED
  BY <1>2, <1>3, <1>4, <1>5, <1>6, <1>7, WriteMessageIInv, CrashIInv, PingIInv DEF Next

THEOREM Invariance == Spec => []IInv
BY InitIInv, NextIInv, PTL DEF Spec

THEOREM TypeCorrect == Spec => []TypeOK
<1>1. IInv => TypeOK
  BY DEF IInv
<1>2. QED
  BY <1>1, Invariance, PTL

THEOREM AggregatorKeepsWhatItNeeds == Spec => []NothingNeededIsDeleted
<1>1. IInv => NothingNeededIsDeleted
  BY SoundIsEnough DEF IInv
<1>2. QED
  BY <1>1, Invariance, PTL

-----------------------------------------------------------------------------
(* What a recovery restores *)

(* A snapshot, stored or being stored, is the state of its number.         *)
IsJournaled(n, x) == n \in StatesIn(written) /\ written[n] = x

SnapshotsAreJournaled ==
    /\ \A s \in snapshots : IsJournaled(s.seq, s.state)
    /\ \A r \in requests : r.op = "SaveSnapshot" => IsJournaled(r.seq, r.state)

(* The journal keeps its states.                                           *)
LEMMA StatesStay ==
    ASSUME NEW T, written \in Seq(T), NEW events \in Seq(T),
           Write(events) \/ Reject(events) \/ RecoverNumbers
    PROVE  \A n \in StatesIn(written) : n \in StatesIn(written)' /\ written'[n] = written[n]
<1>1. Len(written) \in Nat /\ DOMAIN written = 1 .. Len(written)
  OBVIOUS
<1>2. ASSUME NEW U, NEW v \in Seq(U), NEW w \in Seq(U), NEW n \in 1 .. Len(v)
      PROVE  n \in DOMAIN (v \o w) /\ (v \o w)[n] = v[n]
  OBVIOUS
<1>3. CASE Write(events) \/ Reject(events)
  <2>1. PICK w \in Seq(T \cup {Hole}) : written' = written \o w
    <3>1. CASE Write(events)
      <4>1. written' = written \o events /\ events \in Seq(T \cup {Hole})
        BY <3>1 DEF Write
      <4>2. QED
        BY <4>1
    <3>2. CASE Reject(events)
      <4> DEFINE holes == [i \in DOMAIN events |-> Hole]
      <4>1. written' = written \o holes
        BY <3>2 DEF Reject
      <4>2. DOMAIN events = 1 .. Len(events) /\ Len(events) \in Nat
        OBVIOUS
      <4>3. holes \in Seq(T \cup {Hole})
        BY <4>2
      <4> HIDE DEF holes
      <4>4. QED
        BY <4>1, <4>3
    <3>3. QED
      BY <1>3, <3>1, <3>2
  <2>2. written \in Seq(T \cup {Hole})
    OBVIOUS
  <2>3. \A n \in 1 .. Len(written) : n \in DOMAIN written' /\ written'[n] = written[n]
    BY <1>2, <2>1, <2>2
  <2>4. QED
    BY <1>1, <2>3 DEF StatesIn
<1>4. CASE RecoverNumbers
  <2>1. PICK m \in 0 .. Len(written) :
           /\ written' = SubSeq(written, 1, m)
           /\ \A i \in m + 1 .. Len(written) : written[i] = Hole
    BY <1>4, WithoutTrailingHolesFacts DEF RecoverNumbers
  <2>2. ASSUME NEW n \in StatesIn(written)
        PROVE  n \in 1 .. m /\ written[n] # Hole
    BY <1>1, <2>1 DEF StatesIn
  <2>3. \A n \in 1 .. m : n \in DOMAIN written' /\ written'[n] = written[n]
    BY <1>1, <2>1
  <2>4. QED
    BY <2>2, <2>3 DEF StatesIn
<1>5. QED
  BY <1>3, <1>4

(* So snapshots stay what they are.                                        *)
LEMMA SnapshotsStay ==
    ASSUME SnapshotsAreJournaled,
           \A n \in StatesIn(written) : n \in StatesIn(written)' /\ written'[n] = written[n],
           snapshots' \subseteq snapshots,
           \A r \in requests' : r.op = "SaveSnapshot" => r \in requests
    PROVE  SnapshotsAreJournaled'
BY DEF SnapshotsAreJournaled, IsJournaled

LEMMA KeptSnapshots == Spec => []SnapshotsAreJournaled
<1>1. Init => SnapshotsAreJournaled
  BY DEF Init, PersistenceInit, SnapshotsAreJournaled
<1>2. IInv /\ SnapshotsAreJournaled /\ [Next]_vars => SnapshotsAreJournaled'
  <2> SUFFICES ASSUME IInv, SnapshotsAreJournaled, [Next]_vars PROVE SnapshotsAreJournaled'
    OBVIOUS
  <2>1. written \in Seq(SavedState \cup {Hole}) /\ saving \in Seq(SavedState)
    BY DEF IInv, TypeOK, PersistenceType
  <2>2. ASSUME UNCHANGED <<store, calls>> PROVE SnapshotsAreJournaled'
    <3>1. UNCHANGED <<written, snapshots, requests>>
      BY <2>2 DEF store, calls
    <3>2. QED
      BY <3>1 DEF SnapshotsAreJournaled, IsJournaled, StatesIn
  <2>3. CASE WriteMessage
    <3>1. saving # << >> /\ (Write(<<Head(saving)>>) \/ Reject(<<Head(saving)>>))
      BY <2>3 DEF WriteMessage
    <3>2. Head(saving) \in SavedState
      BY <2>1, <3>1
    <3> DEFINE events == <<Head(saving)>>
    <3>3. events \in Seq(SavedState \cup {Hole})
      BY <3>2
    <3> HIDE DEF events
    <3>4. Write(events) \/ Reject(events)
      BY <3>1 DEF events
    <3>5. \A n \in StatesIn(written) : n \in StatesIn(written)' /\ written'[n] = written[n]
      BY <2>1, <3>3, <3>4, StatesStay
    <3>6. UNCHANGED <<snapshots, requests>>
      BY <3>4 DEF Write, Reject, calls
    <3>7. QED
      BY <3>5, <3>6, SnapshotsStay
  <2>4. CASE HandlePersisted
    <3>1. next \in 1 .. Len(written)
      BY <2>4 DEF HandlePersisted, IInv, TypeOK, PersistenceType
    <3>2. CASE written[next] = Hole
      BY <2>2, <2>4, <3>2 DEF HandlePersisted
    <3>3. CASE written[next] # Hole
      <4>1. /\ UNCHANGED <<written, snapshots>>
            /\ \A r \in requests' : \/ r \in requests
                                    \/ r.seq = next /\ r.state = written[next]
        BY <2>4, <3>3 DEF HandlePersisted, SaveWhenDue, store
      <4>2. IsJournaled(next, written[next])
        BY <2>1, <3>1, <3>3 DEF IsJournaled, StatesIn
      <4>3. QED
        BY <4>1, <4>2 DEF SnapshotsAreJournaled, IsJournaled, StatesIn
    <3>4. QED
      BY <3>2, <3>3
  <2>5. CASE CleanUp \/ Stores
    <3>1. UNCHANGED written
      BY <2>5 DEF CleanUp, Stores, SaveSnapshotSuccess, StoresAct, SaveSnapshot, DeleteSnapshots,
                  DeleteMessages, store
    <3>2. \A r \in requests' : r.op = "SaveSnapshot" => r \in requests
      <4>1. CASE CleanUp
        <5>1. PICK seq \in acks :
                 requests' = requests \cup {[op |-> "DeleteSnapshots", upTo |-> seq - 1],
                                            [op |-> "DeleteMessages", upTo |-> seq]}
          BY <4>1 DEF CleanUp, SaveSnapshotSuccess
        <5> DEFINE a == [op |-> "DeleteSnapshots", upTo |-> seq - 1]
                   b == [op |-> "DeleteMessages", upTo |-> seq]
        <5>2. a.op # "SaveSnapshot" /\ b.op # "SaveSnapshot" /\ requests' = requests \cup {a, b}
          BY <5>1
        <5> HIDE DEF a, b
        <5>3. QED
          BY <5>2
      <4>2. CASE Stores
        BY <4>2 DEF Stores, StoresAct, SaveSnapshot, DeleteSnapshots, DeleteMessages
      <4>3. QED
        BY <2>5, <4>1, <4>2
    <3>3. \A s \in snapshots' : s \in snapshots \/ \E r \in requests :
             r.op = "SaveSnapshot" /\ s.seq = r.seq /\ s.state = r.state
      <4>1. CASE CleanUp
        BY <4>1 DEF CleanUp, SaveSnapshotSuccess, store
      <4>2. CASE Stores /\ SaveSnapshot
        BY <4>2 DEF SaveSnapshot
      <4>3. CASE Stores /\ (DeleteSnapshots \/ DeleteMessages)
        BY <4>3 DEF DeleteSnapshots, DeleteMessages
      <4>4. QED
        BY <2>5, <4>1, <4>2, <4>3 DEF Stores, StoresAct
    <3>4. QED
      BY <3>1, <3>2, <3>3 DEF SnapshotsAreJournaled, IsJournaled, StatesIn
  <2>6. CASE Crash
    <3>1. requests' = {} /\ UNCHANGED <<written, snapshots>>
      BY <2>6 DEF Crash, ForgetCalls, store
    <3>2. QED
      BY <3>1 DEF SnapshotsAreJournaled, IsJournaled, StatesIn
  <2>7. CASE Ping
    <3>1. RecoverNumbers
      BY <2>7 DEF Ping, Start
    <3>2. \A n \in StatesIn(written) : n \in StatesIn(written)' /\ written'[n] = written[n]
      BY <2>1, <3>1, StatesStay, EmptySeq
    <3>3. UNCHANGED <<snapshots, requests>>
      BY <3>1 DEF RecoverNumbers, calls
    <3>4. QED
      BY <3>2, <3>3, SnapshotsStay
  <2>8. CASE \/ ReceiveMatch \/ PublishEvents \/ DoSubscribe \/ DoSubscribeFails
             \/ \E c \in Clients : MarketSubscribe(c) \/ MarketUnsubscribe(c) \/ Terminated(c)
             \/ UNCHANGED vars
    BY <2>2, <2>8 DEF ReceiveMatch, PublishEvents, DoSubscribe, DoSubscribeFails, MarketSubscribe,
                      MarketUnsubscribe, Terminated, vars
  <2>9. QED
    BY <2>3, <2>4, <2>5, <2>6, <2>7, <2>8 DEF Next
<1>3. QED
  BY <1>1, <1>2, Invariance, PTL DEF Spec

(* Then a recovery ends with the newest state of the journal, whether it   *)
(* comes from the latest snapshot or from the events after it.             *)
LEMMA RecoveryFacts ==
    ASSUME IInv, SnapshotsAreJournaled
    PROVE  LET state == Recovered(snapshots, written, deletedTo) IN
           /\ StatesIn(written) = {} => state.avg = << >>
           /\ \A n : IsNewest(n, written) =>
                 /\ state.avg = written[n].avg
                 /\ Len(written[n].recent) = SampleSize => state.recent = written[n].recent
<1> DEFINE nothing == State(<< >>, << >>)
           latest == LatestSnapshot(snapshots)
           start == IF snapshots = {} THEN nothing ELSE RecoverAggregateData(nothing, latest.state)
           read == EventsToReplay(snapshots, written, deletedTo)
           state == Recovered(snapshots, written, deletedTo)
<1>1. /\ written \in Seq(SavedState \cup {Hole}) /\ Len(written) \in Nat
      /\ DOMAIN written = 1 .. Len(written) /\ SoundStores
  BY DEF IInv, TypeOK, PersistenceType
<1>2. Held(nothing) /\ nothing.avg = << >>
  <2>1. << >> \in Averages /\ << >> \in Seq(Update) /\ Len(<< >>) = 0
    BY EmptySeq DEF Averages
  <2>2. nothing \in SavedState /\ nothing.recent = << >> /\ nothing.avg = << >>
    BY <2>1, SavedFacts
  <2>3. Len(nothing.recent) <= SampleSize
    BY <2>1, <2>2, SampleSizeAssumption
  <2>4. QED
    BY <2>2, <2>3 DEF Held
<1>3. state = Replay(start, read) /\ read \in Seq(SavedState \cup {Hole})
  BY <1>1, EventsToReplayFacts DEF Recovered
<1>4. CASE snapshots = {}
  <2>1. start = nothing /\ read = written
    BY <1>1, <1>4, EventsToReplayFacts
  <2> HIDE DEF nothing, read, state
  <2>2. QED
    BY <1>1, <1>2, <1>3, <2>1, ReplayFacts DEF state
<1>5. CASE snapshots # {}
  <2>1. latest \in snapshots /\ IsJournaled(latest.seq, latest.state)
    BY <1>1, <1>5, LatestSnapshotIsOne DEF SnapshotsAreJournaled
  <2> DEFINE m == latest.seq
  <2>2. m \in 1 .. Len(written) /\ written[m] # Hole /\ written[m] = latest.state
    BY <1>1, <2>1 DEF IsJournaled, StatesIn
  <2>3. start = Recover(nothing, written[m])
    BY <1>5, <2>2 DEF Recover
  <2>4. read = SubSeq(written, m + 1, Len(written))
    BY <1>1, <1>5, EventsAfterTheLatest
  <2> HIDE DEF m, read, start, state, nothing, latest
  <2>5. /\ Held(start) /\ start.avg = written[m].avg
        /\ Len(written[m].recent) = SampleSize => start.recent = written[m].recent
    <3>1. written[m] \in SavedState \cup {Hole}
      BY <1>1, <2>2
    <3>2. QED
      BY <1>2, <2>2, <2>3, <3>1, RecoverFacts
  <2>6. /\ Len(read) = Len(written) - m /\ DOMAIN read = 1 .. Len(written) - m
        /\ \A i \in 1 .. Len(written) - m : read[i] = written[m + i]
    <3>1. m \in 0 .. Len(written)
      BY <1>1, <2>2
    <3>2. /\ Len(read) = Len(written) - m
          /\ \A i \in 1 .. Len(written) - m : read[i] = written[m + i]
      BY <1>1, <2>4, <3>1, RestFacts
    <3>3. DOMAIN read = 1 .. Len(read)
      BY <1>3
    <3>4. QED
      BY <3>2, <3>3
  <2>7. ASSUME NEW n, IsNewest(n, written)
        PROVE  /\ state.avg = written[n].avg
               /\ Len(written[n].recent) = SampleSize => state.recent = written[n].recent
    <3>1. n \in 1 .. Len(written) /\ written[n] # Hole /\ \A i \in StatesIn(written) : i <= n
      BY <1>1, <2>7 DEF IsNewest, StatesIn
    <3>2. m <= n
      BY <1>1, <2>2, <3>1 DEF StatesIn
    <3>3. \A i \in StatesIn(read) : m + i \in StatesIn(written) /\ m + i <= n /\ i \in 1 .. Len(written) - m
      <4> SUFFICES ASSUME NEW i \in StatesIn(read)
                   PROVE  m + i \in StatesIn(written) /\ m + i <= n /\ i \in 1 .. Len(written) - m
        OBVIOUS
      <4>1. i \in 1 .. Len(written) - m /\ written[m + i] # Hole
        BY <2>6 DEF StatesIn
      <4>2. m + i \in 1 .. Len(written)
        BY <1>1, <2>2, <4>1
      <4>3. m + i \in StatesIn(written)
        BY <1>1, <4>1, <4>2 DEF StatesIn
      <4>4. QED
        BY <3>1, <4>1, <4>3
    <3>4. CASE n = m
      <4>1. StatesIn(read) = {}
        <5> SUFFICES ASSUME NEW i \in StatesIn(read) PROVE FALSE
          OBVIOUS
        <5>1. m + i <= m /\ i \in 1 .. Len(written) - m
          BY <3>3, <3>4
        <5>2. QED
          BY <1>1, <2>2, <5>1
      <4>2. state = start
        BY <1>3, <2>5, <4>1, ReplayFacts
      <4>3. QED
        BY <2>5, <3>4, <4>2
    <3>5. CASE n # m
      <4>1. n - m \in 1 .. Len(written) - m /\ m + (n - m) = n
        BY <1>1, <2>2, <3>1, <3>2, <3>5
      <4>2. read[n - m] = written[n]
        BY <2>6, <4>1
      <4>3. n - m \in StatesIn(read)
        BY <2>6, <3>1, <4>1, <4>2 DEF StatesIn
      <4>4. \A i \in StatesIn(read) : i <= n - m
        <5> SUFFICES ASSUME NEW i \in StatesIn(read) PROVE i <= n - m
          OBVIOUS
        <5>1. m + i <= n /\ i \in 1 .. Len(written) - m
          BY <3>3
        <5>2. QED
          BY <1>1, <2>2, <3>1, <5>1
      <4>5. IsNewest(n - m, read)
        BY <4>3, <4>4 DEF IsNewest
      <4>6. QED
        BY <1>3, <2>5, <4>2, <4>5, ReplayFacts
    <3>6. QED
      BY <3>4, <3>5
  <2>8. StatesIn(written) # {}
    BY <1>1, <2>2 DEF StatesIn
  <2>9. QED
    BY <2>7, <2>8 DEF state
<1>6. QED
  BY <1>4, <1>5

(* The newest state is the one of the greatest number.                     *)
LEMMA NewestFacts ==
    ASSUME NEW T, NEW w \in Seq(T), StatesIn(w) # {}
    PROVE  \E n : IsNewest(n, w) /\ Newest(w) = w[n]
<1>1. Len(w) \in Nat /\ StatesIn(w) \in SUBSET (0 .. Len(w))
  BY DEF StatesIn
<1>2. Max(StatesIn(w)) \in StatesIn(w) /\ \A i \in StatesIn(w) : i <= Max(StatesIn(w))
  BY <1>1, GreatestElement
<1>3. QED
  BY <1>2 DEF IsNewest, Newest

(* A recovery at any moment gives the averages of the newest state in the  *)
(* journal, whatever has been deleted, rejected, lost or is under way.     *)
THEOREM RecoveryRestoresTheAverages == Spec => []RecoveryKeepsTheAverages
<1>1. IInv /\ SnapshotsAreJournaled => RecoveryKeepsTheAverages
  <2> SUFFICES ASSUME IInv, SnapshotsAreJournaled PROVE RecoveryKeepsTheAverages
    OBVIOUS
  <2>1. written \in Seq(SavedState \cup {Hole})
    BY DEF IInv, TypeOK, PersistenceType
  <2>2. QED
    BY <2>1, RecoveryFacts, NewestFacts DEF RecoveryKeepsTheAverages
<1>2. QED
  BY <1>1, Invariance, KeptSnapshots, PTL

(* And the price history too, once there is enough of it to fill the       *)
(* buffer of the newest state.                                             *)
THEOREM RecoveryRestoresTheHistory == Spec => []FullHistoryIsRestored
<1>1. IInv /\ SnapshotsAreJournaled => FullHistoryIsRestored
  <2> SUFFICES ASSUME IInv, SnapshotsAreJournaled PROVE FullHistoryIsRestored
    OBVIOUS
  <2>1. written \in Seq(SavedState \cup {Hole})
    BY DEF IInv, TypeOK, PersistenceType
  <2>2. QED
    BY <2>1, RecoveryFacts, NewestFacts DEF FullHistoryIsRestored
<1>2. QED
  BY <1>1, Invariance, KeptSnapshots, PTL

-----------------------------------------------------------------------------
(* What the journal follows *)

(* What the journal holds and is being sent.                               *)
Saved == written \o saving

(* Matches are counted in the order in which they were published.          *)
InOrder(avg) ==
    /\ \A i \in DOMAIN avg : avg[i] <= matches
    /\ \A i, j \in DOMAIN avg : i < j => avg[i] < avg[j]

(* A state ends with a published update, of its averages.                  *)
SoundState(x) ==
    /\ x.recent # << >> /\ InOrder(x.avg)
    /\ LET latest == Last(x.recent) IN
          latest.time \in DOMAIN published /\ published[latest.time] = latest /\ latest.avg = x.avg

(* A later state has a later update, and averages that count more.         *)
Grows(x, y) == Last(x.recent).time < Last(y.recent).time /\ IsPrefix(x.avg, y.avg)

StatesAreSound ==
    /\ \A n \in StatesIn(Saved) : SoundState(Saved[n])
    /\ \A m, n \in StatesIn(Saved) : m < n => Grows(Saved[m], Saved[n])

(* The averages of a running aggregator go on from those of all states.    *)
AverageGoesOn ==
    /\ InOrder(average)
    /\ up => \A n \in StatesIn(Saved) : IsPrefix(Saved[n].avg, average)

(* Without a stop or a rejection, every update has its state.              *)
NothingIsMissing ==
    /\ ~up => saving = << >> /\ crashes > 0
    /\ crashes = 0 /\ ~rejected => StatesIn(Saved) = DOMAIN Saved /\ Len(Saved) = Len(published)

Follows == StatesAreSound /\ AverageGoesOn /\ NothingIsMissing

(* What a prefix is.                                                       *)
LEMMA PrefixFacts ==
    ASSUME NEW T, NEW s \in Seq(T), NEW t \in Seq(T)
    PROVE  IsPrefix(s, t) <=> Len(s) <= Len(t) /\ \A i \in 1 .. Len(s) : s[i] = t[i]
<1>1. Len(s) \in Nat /\ Len(t) \in Nat
  OBVIOUS
<1>2. SubSeq(s, 1, Len(s)) = s
  BY SubSeqFull
<1>3. ASSUME Len(s) <= Len(t)
      PROVE  SubSeq(t, 1, Len(s)) = s <=> \A i \in 1 .. Len(s) : s[i] = t[i]
  <2> DEFINE v == SubSeq(t, 1, Len(s))
  <2>1. v \in Seq(T) /\ Len(v) = Len(s) /\ \A i \in 1 .. Len(s) : v[i] = t[i]
    BY <1>1, <1>3
  <2> HIDE DEF v
  <2>2. ASSUME \A i \in 1 .. Len(s) : s[i] = t[i] PROVE v = s
    BY <2>1, <2>2, SeqEqual
  <2>3. QED
    BY <2>1, <2>2 DEF v
<1>4. QED
  BY <1>2, <1>3 DEF IsPrefix

LEMMA PrefixStays ==
    ASSUME NEW T, NEW s \in Seq(T), NEW t \in Seq(T), NEW x \in T
    PROVE  IsPrefix(s, s) /\ (IsPrefix(s, t) => IsPrefix(s, Append(t, x)))
<1>1. IsPrefix(s, s)
  BY PrefixFacts
<1>2. ASSUME IsPrefix(s, t) PROVE IsPrefix(s, Append(t, x))
  <2>1. Len(s) <= Len(t) /\ \A i \in 1 .. Len(s) : s[i] = t[i]
    BY <1>2, PrefixFacts
  <2> DEFINE v == Append(t, x)
  <2>2. v \in Seq(T) /\ Len(v) = Len(t) + 1 /\ \A i \in 1 .. Len(t) : v[i] = t[i]
    BY AppendProperties
  <2>3. Len(s) \in Nat /\ Len(t) \in Nat
    OBVIOUS
  <2> HIDE DEF v
  <2>4. Len(s) <= Len(v) /\ \A i \in 1 .. Len(s) : s[i] = v[i]
    BY <2>1, <2>2, <2>3
  <2>5. IsPrefix(s, v)
    BY <2>2, <2>4, PrefixFacts
  <2>6. QED
    BY <2>5 DEF v
<1>3. QED
  BY <1>1, <1>2

(* The sequence of what is saved.                                          *)
LEMMA SavedType ==
    ASSUME TypeOK
    PROVE  /\ written \in Seq(SavedState \cup {Hole}) /\ saving \in Seq(SavedState \cup {Hole})
           /\ Saved \in Seq(SavedState \cup {Hole})
           /\ Len(Saved) = Len(written) + Len(saving)
           /\ \A n \in 1 .. Len(written) + Len(saving) :
                 Saved[n] = IF n <= Len(written) THEN written[n] ELSE saving[n - Len(written)]
           /\ DOMAIN Saved = 1 .. Len(Saved)
           /\ \A n \in StatesIn(Saved) : Saved[n] \in SavedState
           /\ \A n \in StatesIn(written) : n \in StatesIn(Saved) /\ Saved[n] = written[n]
<1>1. written \in Seq(SavedState \cup {Hole}) /\ saving \in Seq(SavedState \cup {Hole})
  BY DEF TypeOK, PersistenceType
<1>2. /\ Saved \in Seq(SavedState \cup {Hole})
      /\ Len(Saved) = Len(written) + Len(saving)
      /\ \A n \in 1 .. Len(written) + Len(saving) :
            Saved[n] = IF n <= Len(written) THEN written[n] ELSE saving[n - Len(written)]
  BY <1>1, ConcatProperties DEF Saved
<1>3. DOMAIN Saved = 1 .. Len(Saved)
  BY <1>2
<1>4. \A n \in StatesIn(Saved) : Saved[n] \in SavedState
  BY <1>2, <1>3 DEF StatesIn
<1>5. ASSUME NEW n \in StatesIn(written) PROVE n \in StatesIn(Saved) /\ Saved[n] = written[n]
  <2>1. n \in 1 .. Len(written) /\ written[n] # Hole /\ Len(written) \in Nat /\ Len(saving) \in Nat
    BY <1>1 DEF StatesIn
  <2>2. n \in 1 .. Len(written) + Len(saving) /\ n <= Len(written)
    BY <2>1
  <2>3. QED
    BY <1>2, <1>3, <2>1, <2>2 DEF StatesIn
<1>6. QED
  BY <1>1, <1>2, <1>3, <1>4, <1>5

(* Fewer states, with the same publications, are as sound.                 *)
LEMMA FewerStates ==
    ASSUME StatesAreSound, UNCHANGED <<published, matches>>,
           \A n \in StatesIn(Saved)' : n \in StatesIn(Saved) /\ Saved'[n] = Saved[n]
    PROVE  StatesAreSound'
<1>1. \A avg : InOrder(avg)' <=> InOrder(avg)
  BY DEF InOrder
<1>2. \A x : SoundState(x)' <=> SoundState(x)
  BY <1>1 DEF SoundState
<1>3. \A x, y : Grows(x, y)' <=> Grows(x, y)
  BY DEF Grows
<1>4. \A n \in StatesIn(Saved)' : SoundState(Saved'[n])
  BY DEF StatesAreSound
<1>5. \A m, n \in StatesIn(Saved)' : m < n => Grows(Saved'[m], Saved'[n])
  BY DEF StatesAreSound
<1>6. \A n \in StatesIn(Saved)' : SoundState(Saved[n])'
  BY <1>2, <1>4 DEF SoundState, InOrder
<1>7. \A m, n \in StatesIn(Saved)' : m < n => Grows(Saved[m], Saved[n])'
  BY <1>5 DEF Grows
<1>8. QED
  BY <1>6, <1>7 DEF StatesAreSound

(* A write, or its rejection.                                              *)
LEMMA WriteFollows ==
    ASSUME IInv, Follows, WriteMessage
    PROVE  Follows'
<1>1. /\ saving # << >> /\ saving' = Tail(saving)
      /\ UNCHANGED <<up, average, published, matches, crashes>> /\ up
  BY DEF WriteMessage
<1> DEFINE k == Len(written)
           c == Len(saving)
<1>2. /\ written \in Seq(SavedState \cup {Hole}) /\ saving \in Seq(SavedState \cup {Hole})
      /\ Saved \in Seq(SavedState \cup {Hole})
      /\ Len(Saved) = k + c /\ DOMAIN Saved = 1 .. Len(Saved)
      /\ \A n \in 1 .. k + c : Saved[n] = IF n <= k THEN written[n] ELSE saving[n - k]
      /\ k \in Nat /\ c \in Nat /\ c > 0
  <2>1. Len(saving) \in Nat /\ Len(saving) > 0 /\ Len(written) \in Nat
    BY <1>1, SavedType DEF IInv
  <2>2. QED
    BY <2>1, SavedType DEF IInv
<1>3. TypeOK'
  BY WriteMessageIInv DEF IInv
<1>4. PICK e \in {Hole, Head(saving)} :
         /\ written' = written \o <<e>>
         /\ (e = Head(saving) /\ rejected' = rejected) \/ (e = Hole /\ rejected' = TRUE)
  <2>1. CASE Write(<<Head(saving)>>) /\ UNCHANGED rejected
    BY <2>1 DEF Write
  <2>2. CASE Reject(<<Head(saving)>>) /\ rejected' = TRUE
    <3>1. [i \in DOMAIN <<Head(saving)>> |-> Hole] = <<Hole>>
      OBVIOUS
    <3>2. QED
      BY <2>2, <3>1 DEF Reject
  <2>3. QED
    BY <2>1, <2>2 DEF WriteMessage
<1>5. /\ saving' \in Seq(SavedState \cup {Hole}) /\ Len(saving') = c - 1
      /\ \A i \in 1 .. c - 1 : saving'[i] = saving[i + 1]
      /\ Head(saving) = saving[1]
  BY <1>1, <1>2, HeadTailProperties
<1>6. /\ written' \in Seq(SavedState \cup {Hole}) /\ Len(written') = k + 1
      /\ \A i \in 1 .. k : written'[i] = written[i]
      /\ written'[k + 1] = e
  <2>1. written' = Append(written, e)
    BY <1>2, <1>4
  <2>2. e \in SavedState \cup {Hole}
    BY <1>2, <1>4, <1>5
  <2>3. QED
    BY <1>2, <2>1, <2>2, AppendProperties
<1>7. /\ Len(Saved)' = Len(written') + Len(saving')
      /\ \A n \in 1 .. Len(written') + Len(saving') :
            Saved'[n] = IF n <= Len(written') THEN written'[n] ELSE saving'[n - Len(written')]
      /\ DOMAIN Saved' = 1 .. Len(Saved')
  <2>1. /\ written' \in Seq(SavedState \cup {Hole}) /\ saving' \in Seq(SavedState \cup {Hole})
    BY <1>5, <1>6
  <2>2. Saved' = written' \o saving'
    BY DEF Saved
  <2>3. Saved' \in Seq(SavedState \cup {Hole})
    BY <2>1, <2>2, ConcatProperties
  <2>4. QED
    BY <2>1, <2>2, <2>3, ConcatProperties
<1> HIDE DEF k, c
<1>8. Len(Saved') = k + c /\ (k + 1) + (c - 1) = k + c
  BY <1>2, <1>5, <1>6, <1>7
<1>9. ASSUME NEW n \in 1 .. k + c
      PROVE  Saved'[n] = Saved[n] \/ (Saved'[n] = Hole /\ e = Hole)
  <2>1. Saved'[n] = IF n <= k + 1 THEN written'[n] ELSE saving'[n - (k + 1)]
    BY <1>5, <1>6, <1>7, <1>8
  <2>2. Saved[n] = IF n <= k THEN written[n] ELSE saving[n - k]
    BY <1>2
  <2>3. CASE n <= k
    <3>1. n \in 1 .. k /\ n <= k + 1
      BY <1>2, <2>3
    <3>2. QED
      BY <1>6, <2>1, <2>2, <3>1
  <2>4. CASE n = k + 1
    <3>1. ~(n <= k) /\ n <= k + 1 /\ n - k = 1
      BY <1>2, <2>4
    <3>2. QED
      BY <1>4, <1>5, <1>6, <2>1, <2>2, <2>4, <3>1
  <2>5. CASE n > k + 1
    <3>1. /\ ~(n <= k) /\ ~(n <= k + 1) /\ n - (k + 1) \in 1 .. c - 1
          /\ (n - (k + 1)) + 1 = n - k
      BY <1>2, <2>5
    <3>2. QED
      BY <1>5, <2>1, <2>2, <3>1
  <2>6. QED
    BY <1>2, <2>3, <2>4, <2>5
<1>10. \A n \in StatesIn(Saved)' : n \in StatesIn(Saved) /\ Saved'[n] = Saved[n]
  BY <1>2, <1>7, <1>8, <1>9 DEF StatesIn
<1>11. StatesAreSound'
  BY <1>1, <1>10, FewerStates DEF Follows
<1>12. AverageGoesOn'
  <2>1. InOrder(average)'
    BY <1>1 DEF Follows, AverageGoesOn, InOrder
  <2>2. \A n \in StatesIn(Saved)' : IsPrefix(Saved'[n].avg, average')
    BY <1>1, <1>10 DEF Follows, AverageGoesOn
  <2>3. QED
    BY <2>1, <2>2 DEF AverageGoesOn
<1>13. NothingIsMissing'
  <2> SUFFICES ASSUME crashes' = 0, ~rejected'
               PROVE  StatesIn(Saved)' = DOMAIN Saved' /\ Len(Saved)' = Len(published)'
    BY <1>1 DEF NothingIsMissing
  <2>1. crashes = 0 /\ ~rejected /\ e = Head(saving)
    BY <1>1, <1>4
  <2>2. StatesIn(Saved) = DOMAIN Saved /\ Len(Saved) = Len(published)
    BY <2>1 DEF Follows, NothingIsMissing
  <2>3. e # Hole
    <3>1. saving \in Seq(SavedState)
      BY DEF IInv, TypeOK
    <3>2. Head(saving) \in SavedState
      BY <1>1, <3>1
    <3>3. QED
      BY <2>1, <3>2, SavedFacts
  <2>4. \A n \in 1 .. k + c : Saved'[n] = Saved[n]
    BY <1>9, <2>3
  <2>5. QED
    BY <1>1, <1>2, <1>7, <1>8, <2>2, <2>4 DEF StatesIn
<1>14. QED
  BY <1>11, <1>12, <1>13 DEF Follows

(* An update is published, and its state sent to the journal.              *)
LEMMA PublishFollows ==
    ASSUME IInv, Follows, PublishEvents
    PROVE  Follows'
<1> DEFINE latest == [avg |-> average, time |-> Len(published) + 1]
           x == State(average, updates')
           n == Len(Saved)
           p == Len(published)
<1>1. /\ latest \in Update
      /\ updates' \in Seq(Update) /\ updates' # << >> /\ Last(updates') = latest
      /\ x \in SavedState
      /\ saving' = Append(saving, x)
      /\ published' = Append(published, latest)
  BY PublishFacts DEF IInv
<1>2. UNCHANGED <<up, average, written, matches, crashes, rejected>> /\ up
  BY DEF PublishEvents, store
<1>3. /\ Saved \in Seq(SavedState \cup {Hole}) /\ n \in Nat /\ DOMAIN Saved = 1 .. n
      /\ \A i \in StatesIn(Saved) : Saved[i] \in SavedState
  BY SavedType DEF IInv
<1>4. x.avg = average /\ x.recent = updates' /\ x # Hole
  <2>1. average \in Averages
    BY DEF IInv, TypeOK
  <2>2. QED
    BY <1>1, <2>1, SavedFacts
<1>5. latest.avg = average /\ latest.time = p + 1
  OBVIOUS
<1>6. published \in Seq(Update) /\ p \in Nat /\ DOMAIN published = 1 .. p
  BY DEF IInv, TypeOK
<1> HIDE DEF latest, x, n, p
<1>7. /\ DOMAIN published' = 1 .. p + 1 /\ Len(published') = p + 1
      /\ published'[p + 1] = latest /\ \A i \in 1 .. p : published'[i] = published[i]
  BY <1>1, <1>6, AppendProperties DEF p
<1>8. Saved' = Append(Saved, x)
  <2>1. /\ written \in Seq(SavedState \cup {Hole}) /\ saving \in Seq(SavedState \cup {Hole})
        /\ x \in SavedState \cup {Hole}
    BY <1>1, SavedType DEF IInv
  <2>2. written \o Append(saving, x) = Append(written \o saving, x)
    BY <2>1
  <2>3. Saved' = written \o Append(saving, x)
    BY <1>1, <1>2 DEF Saved
  <2>4. QED
    BY <2>2, <2>3 DEF Saved
<1>9. /\ Len(Saved') = n + 1 /\ DOMAIN Saved' = 1 .. n + 1
      /\ Saved'[n + 1] = x /\ \A i \in 1 .. n : Saved'[i] = Saved[i]
  <2>1. x \in SavedState \cup {Hole}
    BY <1>1
  <2>2. QED
    BY <1>3, <1>8, <2>1, AppendProperties DEF n
<1>10. /\ StatesIn(Saved)' = StatesIn(Saved) \cup {n + 1}
       /\ \A i \in StatesIn(Saved) : i \in 1 .. n /\ Saved'[i] = Saved[i]
  <2>1. \A i : i \in 1 .. n + 1 <=> i \in 1 .. n \/ i = n + 1
    BY <1>3
  <2>2. QED
    BY <1>3, <1>4, <1>9, <2>1 DEF StatesIn
<1>11. \A avg : InOrder(avg)' <=> InOrder(avg)
  BY <1>2 DEF InOrder
<1>12. InOrder(average)
  BY DEF Follows, AverageGoesOn
<1>13. ASSUME NEW i \in StatesIn(Saved)
       PROVE  /\ SoundState(Saved[i])' /\ Last(Saved[i].recent).time < p + 1
              /\ IsPrefix(Saved[i].avg, average)
  <2> DEFINE y == Saved[i]
             u == Last(y.recent)
  <2>1. /\ y.recent # << >> /\ InOrder(y.avg)
        /\ u.time \in DOMAIN published /\ published[u.time] = u /\ u.avg = y.avg
    BY DEF Follows, StatesAreSound, SoundState
  <2>2. Saved'[i] = y
    BY <1>10
  <2> HIDE DEF y
  <2>3. u.time \in 1 .. p /\ u.time \in 1 .. p + 1 /\ u.time < p + 1
    BY <1>6, <2>1
  <2>4. published'[u.time] = u
    BY <1>7, <2>1, <2>3
  <2>5. SoundState(y)'
    <3>1. InOrder(y.avg)'
      <4>1. \A avg : InOrder(avg) => InOrder(avg)'
        BY <1>11
      <4>2. InOrder(Saved'[i].avg)
        BY <2>1, <2>2
      <4>3. QED
        BY <1>2, <4>2 DEF InOrder, y
    <3>2. y' = y
      BY <2>2 DEF y
    <3>3. u' = u /\ y'.recent # << >> /\ u.time \in DOMAIN published' /\ u.avg = y'.avg
      BY <1>7, <2>1, <2>3, <3>2
    <3>4. QED
      BY <2>4, <3>1, <3>3 DEF SoundState
  <2>6. IsPrefix(y.avg, average)
    BY <1>2 DEF Follows, AverageGoesOn, y
  <2>7. QED
    BY <2>3, <2>5, <2>6 DEF y
<1>14. StatesAreSound'
  <2>1. ASSUME NEW i \in StatesIn(Saved)' PROVE SoundState(Saved[i])'
    <3>1. CASE i \in StatesIn(Saved)
      BY <1>13, <3>1
    <3>2. CASE i = n + 1
      <4>1. Saved'[i] = x
        BY <1>9, <3>2
      <4>2. Last(x.recent) = latest
        BY <1>1, <1>4
      <4>3. latest.time \in DOMAIN published' /\ published'[latest.time] = latest
        BY <1>5, <1>6, <1>7
      <4>4. /\ Saved'[i].avg = average /\ average' = average
            /\ Saved'[i].recent # << >> /\ Last(Saved'[i].recent) = latest
        BY <1>1, <1>2, <1>4, <4>1, <4>2
      <4>5. InOrder(Saved[i].avg)'
        BY <1>2, <1>12, <4>4 DEF InOrder
      <4>6. QED
        BY <1>5, <4>3, <4>4, <4>5 DEF SoundState
    <3>3. QED
      BY <1>10, <2>1, <3>1, <3>2
  <2>2. ASSUME NEW i \in StatesIn(Saved)', NEW j \in StatesIn(Saved)', i < j
        PROVE  Grows(Saved[i], Saved[j])'
    <3>1. i \in StatesIn(Saved)
      <4>1. CASE i = n + 1
        <5>1. \A k \in StatesIn(Saved)' : k <= n + 1 /\ k \in Nat
          BY <1>3, <1>10
        <5>2. QED
          BY <1>3, <2>2, <4>1, <5>1
      <4>2. QED
        BY <1>10, <2>2, <4>1
    <3>2. CASE j \in StatesIn(Saved)
      <4>1. Grows(Saved[i], Saved[j])
        BY <2>2, <3>1, <3>2 DEF Follows, StatesAreSound
      <4>2. Saved'[i] = Saved[i] /\ Saved'[j] = Saved[j]
        BY <1>10, <3>1, <3>2
      <4>3. QED
        BY <4>1, <4>2 DEF Grows
    <3>3. CASE j = n + 1
      <4>1. Saved'[i] = Saved[i] /\ Saved'[j] = x
        BY <1>9, <1>10, <3>1, <3>3
      <4>2. Last(x.recent).time = p + 1 /\ x.avg = average
        BY <1>1, <1>4, <1>5
      <4>3. Last(Saved[i].recent).time < p + 1 /\ IsPrefix(Saved[i].avg, average)
        BY <1>13, <3>1
      <4>4. QED
        BY <4>1, <4>2, <4>3 DEF Grows
    <3>4. QED
      BY <1>10, <2>2, <3>2, <3>3
  <2>3. QED
    BY <2>1, <2>2 DEF StatesAreSound
<1>15. AverageGoesOn'
  <2>1. InOrder(average)'
    BY <1>2, <1>12 DEF InOrder
  <2>2. ASSUME NEW i \in StatesIn(Saved)' PROVE IsPrefix(Saved'[i].avg, average)
    <3>1. CASE i \in StatesIn(Saved)
      BY <1>10, <1>13, <3>1
    <3>2. CASE i = n + 1
      <4>1. average \in Seq(1 .. MaxMatches)
        BY DEF IInv, TypeOK, Averages
      <4>2. IsPrefix(average, average)
        BY <4>1, PrefixFacts
      <4>3. QED
        BY <1>4, <1>9, <3>2, <4>2
    <3>3. QED
      BY <1>10, <2>2, <3>1, <3>2
  <2>3. QED
    BY <1>2, <2>1, <2>2 DEF AverageGoesOn
<1>16. NothingIsMissing'
  <2> SUFFICES ASSUME crashes' = 0, ~rejected'
               PROVE  StatesIn(Saved)' = DOMAIN Saved' /\ Len(Saved)' = Len(published)'
    BY <1>2 DEF NothingIsMissing
  <2>1. StatesIn(Saved) = DOMAIN Saved /\ n = p
    BY <1>2 DEF Follows, NothingIsMissing, n, p
  <2>2. DOMAIN Saved' = DOMAIN Saved \cup {n + 1}
    BY <1>3, <1>9
  <2>3. QED
    BY <1>7, <1>9, <1>10, <2>1, <2>2
<1>17. QED
  BY <1>14, <1>15, <1>16 DEF Follows

(* When nothing is being sent, what is saved is what the journal holds.    *)
LEMMA NothingSent ==
    ASSUME NEW T, NEW w \in Seq(T)
    PROVE  w \o << >> = w
BY ConcatEmptySeq

(* A stop loses the averages and what is being sent.                       *)
LEMMA CrashFollows ==
    ASSUME IInv, Follows, Crash
    PROVE  Follows'
<1>1. /\ UNCHANGED <<written, published, matches>> /\ crashes' = crashes + 1
      /\ average' = << >> /\ saving' = << >> /\ up' = FALSE
  BY DEF Crash, ForgetCalls, store
<1>2. written \in Seq(SavedState \cup {Hole})
  BY SavedType DEF IInv
<1>3. Saved' = written
  <2>1. Saved' = written \o << >>
    BY <1>1 DEF Saved
  <2>2. QED
    BY <1>2, <2>1, NothingSent
<1>4. \A n \in StatesIn(Saved)' : n \in StatesIn(Saved) /\ Saved'[n] = Saved[n]
  BY <1>3, SavedType DEF IInv
<1>5. StatesAreSound'
  BY <1>1, <1>4, FewerStates DEF Follows
<1>6. AverageGoesOn'
  <2>1. DOMAIN << >> = {}
    BY EmptySeq
  <2>2. InOrder(average)'
    BY <1>1, <2>1 DEF InOrder
  <2>3. QED
    BY <1>1, <2>2 DEF AverageGoesOn
<1>7. NothingIsMissing'
  <2>1. crashes' > 0
    BY <1>1 DEF IInv, TypeOK
  <2>2. QED
    BY <1>1, <2>1 DEF NothingIsMissing
<1>8. QED
  BY <1>5, <1>6, <1>7 DEF Follows

(* A recovery takes up the averages of the newest state, which go on from  *)
(* those of all the others.                                                *)
LEMMA PingFollows ==
    ASSUME IInv, SnapshotsAreJournaled, Follows, Ping
    PROVE  Follows'
<1> DEFINE state == Recovered(snapshots, written, deletedTo)
<1>1. /\ ~up /\ up' = TRUE /\ average' = state.avg /\ RecoverNumbers
      /\ UNCHANGED <<saving, matches, published, crashes, rejected>>
  BY DEF Ping, Start, history
<1>2. /\ StatesIn(written) = {} => state.avg = << >>
      /\ \A n : IsNewest(n, written) => state.avg = written[n].avg
  BY RecoveryFacts
<1> HIDE DEF state
<1>3. saving = << >> /\ crashes > 0
  BY <1>1 DEF Follows, NothingIsMissing
<1>4. written \in Seq(SavedState \cup {Hole}) /\ Saved = written /\ Saved' = written'
  <2>1. /\ written \in Seq(SavedState \cup {Hole})
        /\ written' \in Seq(SavedState \cup {Hole})
    BY PingIInv DEF IInv, TypeOK, PersistenceType
  <2>2. Saved = written
    BY <1>3, <2>1, NothingSent DEF Saved
  <2>3. Saved' = written' \o << >>
    BY <1>1, <1>3 DEF Saved
  <2>4. QED
    BY <2>1, <2>2, <2>3, NothingSent
<1>5. ASSUME NEW n \in StatesIn(Saved)'
      PROVE  n \in StatesIn(Saved) /\ Saved'[n] = Saved[n]
  <2>1. PICK m \in 0 .. Len(written) : written' = SubSeq(written, 1, m)
    BY <1>1, <1>4, WithoutTrailingHolesFacts DEF RecoverNumbers
  <2>2. Len(written) \in Nat /\ DOMAIN written = 1 .. Len(written)
    BY <1>4
  <2>3. \A i \in DOMAIN written' : i \in DOMAIN written /\ written'[i] = written[i]
    BY <1>4, <2>1, <2>2
  <2>4. QED
    BY <1>4, <2>3 DEF StatesIn
<1>6. StatesAreSound'
  BY <1>1, <1>5, FewerStates DEF Follows
<1>7. AverageGoesOn'
  <2>1. CASE StatesIn(written) = {}
    <3>1. DOMAIN << >> = {} /\ average' = << >>
      BY <1>1, <1>2, <2>1, EmptySeq
    <3>2. InOrder(average)'
      BY <3>1 DEF InOrder
    <3>3. QED
      BY <1>4, <1>5, <2>1, <3>2 DEF AverageGoesOn
  <2>2. CASE StatesIn(written) # {}
    <3>1. PICK n : IsNewest(n, written)
      BY <1>4, <2>2, NewestFacts
    <3>2. /\ average' = Saved[n].avg /\ n \in StatesIn(Saved)
          /\ \A i \in StatesIn(Saved) : i <= n
      BY <1>1, <1>2, <1>4, <3>1 DEF IsNewest
    <3>3. InOrder(average)'
      <4>1. InOrder(Saved[n].avg)
        BY <3>2 DEF Follows, StatesAreSound, SoundState
      <4>2. QED
        BY <1>1, <3>2, <4>1 DEF InOrder
    <3>4. ASSUME NEW i \in StatesIn(Saved)'
          PROVE  IsPrefix(Saved'[i].avg, average')
      <4>1. i \in StatesIn(Saved) /\ Saved'[i] = Saved[i]
        BY <1>5
      <4>2. i \in Nat /\ n \in Nat
        BY <1>4, <3>2, <4>1 DEF StatesIn
      <4>3. CASE i = n
        <5>1. Saved[n] \in SavedState
          BY <3>2, SavedType DEF IInv
        <5>2. Saved[n].avg \in Seq(1 .. MaxMatches)
          BY <5>1, SavedFacts DEF Averages
        <5>3. IsPrefix(Saved[n].avg, Saved[n].avg)
          BY <5>2, PrefixFacts
        <5>4. QED
          BY <3>2, <4>1, <4>3, <5>3
      <4>4. CASE i < n
        <5>1. Grows(Saved[i], Saved[n])
          BY <3>2, <4>1, <4>4 DEF Follows, StatesAreSound
        <5>2. QED
          BY <3>2, <4>1, <5>1 DEF Grows
      <4>5. i <= n
        BY <3>2, <4>1
      <4>6. QED
        BY <4>2, <4>3, <4>4, <4>5
    <3>5. QED
      BY <3>3, <3>4 DEF AverageGoesOn
  <2>3. QED
    BY <2>1, <2>2
<1>8. NothingIsMissing'
  BY <1>1, <1>3 DEF NothingIsMissing
<1>9. QED
  BY <1>6, <1>7, <1>8 DEF Follows

(* A match that is taken up is later than all that are counted.            *)
LEMMA ReceiveMatchFollows ==
    ASSUME IInv, Follows, ReceiveMatch
    PROVE  Follows'
<1>1. /\ UNCHANGED <<up, saving, written, published, crashes, rejected>>
      /\ matches' = matches + 1 /\ matches \in Nat /\ matches + 1 \in 1 .. MaxMatches
      /\ average' = average \/ average' = Append(average, matches + 1)
  BY BoundsAssumption DEF ReceiveMatch, store, IInv, TypeOK
<1>2. Saved' = Saved /\ Saved \in Seq(SavedState \cup {Hole})
  BY <1>1, SavedType DEF Saved, IInv
<1>3. ASSUME NEW x \in Averages, NEW i \in DOMAIN x PROVE x[i] \in Nat
  <2>1. x \in Seq(1 .. MaxMatches)
    BY DEF Averages
  <2>2. ASSUME NEW T, NEW y \in Seq(T), NEW j \in DOMAIN y PROVE y[j] \in T
    OBVIOUS
  <2>3. x[i] \in 1 .. MaxMatches
    BY <2>1, <2>2
  <2>4. QED
    BY <2>3
<1>4. ASSUME NEW avg \in Averages, InOrder(avg)
      PROVE  /\ \A i \in DOMAIN avg : avg[i] <= matches + 1
             /\ \A i, j \in DOMAIN avg : i < j => avg[i] < avg[j]
  BY <1>1, <1>3, <1>4 DEF InOrder
<1>5. StatesAreSound'
  <2>1. ASSUME NEW n \in StatesIn(Saved) PROVE SoundState(Saved[n])'
    <3>1. SoundState(Saved[n]) /\ Saved[n].avg \in Averages
      BY SavedFacts, SavedType DEF Follows, StatesAreSound, IInv
    <3>2. InOrder(Saved[n].avg)'
      <4> DEFINE avg == Saved[n].avg
      <4>1. InOrder(avg)
        BY <3>1 DEF SoundState
      <4>2. /\ \A i \in DOMAIN avg : avg[i] <= matches + 1
            /\ \A i, j \in DOMAIN avg : i < j => avg[i] < avg[j]
        BY <1>4, <3>1, <4>1
      <4>3. QED
        BY <1>1, <1>2, <4>2 DEF InOrder
    <3>3. QED
      BY <1>1, <1>2, <3>1, <3>2 DEF SoundState
  <2>2. ASSUME NEW m \in StatesIn(Saved), NEW n \in StatesIn(Saved), m < n
        PROVE  Grows(Saved[m], Saved[n])'
    <3>1. Grows(Saved[m], Saved[n])
      BY <2>2 DEF Follows, StatesAreSound
    <3>2. QED
      BY <1>2, <3>1 DEF Grows
  <2>3. QED
    BY <1>2, <2>1, <2>2 DEF StatesAreSound
<1>6. average \in Averages /\ average \in Seq(1 .. MaxMatches) /\ InOrder(average)
  BY DEF IInv, TypeOK, Averages, Follows, AverageGoesOn
<1>7. CASE average' = average
  <2>1. InOrder(average)'
    BY <1>1, <1>4, <1>6, <1>7 DEF InOrder
  <2>2. AverageGoesOn'
    BY <1>1, <1>2, <1>7, <2>1 DEF Follows, AverageGoesOn
  <2>3. QED
    BY <1>1, <1>2, <1>5, <2>2 DEF Follows, NothingIsMissing
<1>8. CASE average' = Append(average, matches + 1)
  <2> DEFINE k == Len(average)
  <2>1. /\ k \in Nat /\ DOMAIN average = 1 .. k /\ DOMAIN average' = 1 .. k + 1
        /\ average'[k + 1] = matches + 1 /\ \A i \in 1 .. k : average'[i] = average[i]
    BY <1>1, <1>6, <1>8, AppendProperties
  <2> HIDE DEF k
  <2>2. \A i \in 1 .. k : average[i] \in Nat /\ average[i] <= matches
    BY <1>3, <1>6, <2>1 DEF InOrder
  <2>3. InOrder(average)'
    <3>1. \A i \in 1 .. k + 1 : i \in 1 .. k \/ i = k + 1
      BY <2>1
    <3>2. ASSUME NEW i \in 1 .. k + 1 PROVE average'[i] <= matches + 1
      BY <1>1, <2>1, <2>2, <3>1
    <3>3. ASSUME NEW i \in 1 .. k + 1, NEW j \in 1 .. k + 1, i < j
          PROVE  average'[i] < average'[j]
      <4>1. i \in 1 .. k
        BY <2>1, <3>3
      <4>2. CASE j \in 1 .. k
        <5>1. average[i] < average[j]
          BY <1>6, <2>1, <3>3, <4>1, <4>2 DEF InOrder
        <5>2. QED
          BY <2>1, <4>1, <4>2, <5>1
      <4>3. CASE j = k + 1
        BY <1>1, <2>1, <2>2, <4>1, <4>3
      <4>4. QED
        BY <3>1, <4>2, <4>3
    <3>4. QED
      BY <1>1, <2>1, <3>2, <3>3 DEF InOrder
  <2>4. ASSUME up, NEW n \in StatesIn(Saved) PROVE IsPrefix(Saved[n].avg, average')
    <3>1. Saved[n].avg \in Seq(1 .. MaxMatches)
      BY SavedFacts, SavedType DEF IInv, Averages
    <3>2. IsPrefix(Saved[n].avg, average)
      BY <2>4 DEF Follows, AverageGoesOn
    <3>3. QED
      BY <1>1, <1>6, <1>8, <3>1, <3>2, PrefixStays
  <2>5. AverageGoesOn'
    BY <1>1, <1>2, <2>3, <2>4 DEF AverageGoesOn
  <2>6. QED
    BY <1>1, <1>2, <1>5, <2>5 DEF Follows, NothingIsMissing
<1>9. QED
  BY <1>1, <1>7, <1>8

LEMMA KeptFollows == Spec => []Follows
<1>1. Init => Follows
  <2> SUFFICES ASSUME Init PROVE Follows
    OBVIOUS
  <2>1. /\ up = TRUE /\ average = << >> /\ saving = << >> /\ published = << >>
        /\ written = << >>
    BY DEF Init, PersistenceInit
  <2>2. Saved = << >>
    BY <2>1, EmptySeq, ConcatEmptySeq DEF Saved
  <2>3. DOMAIN << >> = {} /\ Len(<< >>) = 0
    BY EmptySeq
  <2>4. StatesIn(Saved) = {}
    BY <2>2, <2>3 DEF StatesIn
  <2>5. InOrder(average)
    BY <2>1, <2>3 DEF InOrder
  <2>6. QED
    BY <2>1, <2>2, <2>3, <2>4, <2>5
       DEF Follows, StatesAreSound, AverageGoesOn, NothingIsMissing
<1>2. IInv /\ SnapshotsAreJournaled /\ Follows /\ [Next]_vars => Follows'
  <2> SUFFICES ASSUME IInv, SnapshotsAreJournaled, Follows, [Next]_vars PROVE Follows'
    OBVIOUS
  <2>1. ASSUME UNCHANGED <<up, average, saving, written, matches, published, crashes, rejected>>
        PROVE  Follows'
    <3>1. Saved' = Saved
      BY <2>1 DEF Saved
    <3>2. StatesAreSound'
      BY <2>1, <3>1, FewerStates DEF Follows
    <3>3. AverageGoesOn'
      BY <2>1, <3>1 DEF Follows, AverageGoesOn, InOrder
    <3>4. NothingIsMissing'
      BY <2>1, <3>1 DEF Follows, NothingIsMissing
    <3>5. QED
      BY <3>2, <3>3, <3>4 DEF Follows
  <2>2. CASE HandlePersisted
    <3>1. UNCHANGED written
      BY <2>2 DEF HandlePersisted, SaveWhenDue, store
    <3>2. QED
      BY <2>1, <2>2, <3>1 DEF HandlePersisted, history
  <2>3. CASE CleanUp \/ Stores
    <3>1. UNCHANGED written
      BY <2>3 DEF CleanUp, Stores, SaveSnapshotSuccess, StoresAct, SaveSnapshot,
                  DeleteSnapshots, DeleteMessages, store
    <3>2. QED
      BY <2>1, <2>3, <3>1 DEF CleanUp, Stores, actor, history
  <2>4. CASE \/ DoSubscribe \/ DoSubscribeFails
             \/ \E c \in Clients : MarketSubscribe(c) \/ MarketUnsubscribe(c) \/ Terminated(c)
    <3>1. UNCHANGED <<actor, history, store>>
      BY <2>4 DEF DoSubscribe, DoSubscribeFails, MarketSubscribe, MarketUnsubscribe, Terminated
    <3>2. QED
      BY <2>1, <3>1 DEF actor, history, store
  <2>5. CASE UNCHANGED vars
    BY <2>1, <2>5 DEF vars, actor, history, store
  <2>6. QED
    BY <2>2, <2>3, <2>4, <2>5, WriteFollows, PublishFollows, CrashFollows, PingFollows,
       ReceiveMatchFollows DEF Next
<1>3. QED
  BY <1>1, <1>2, Invariance, KeptSnapshots, PTL DEF Spec

(* The states written and being written end with updates as they were      *)
(* published, in their order; with all of them, unless the actor stopped   *)
(* or a write was rejected.                                                *)
THEOREM JournalFollows == Spec => []JournalFollowsPublications
<1>1. IInv /\ Follows => JournalFollowsPublications
  <2> SUFFICES ASSUME IInv, Follows PROVE JournalFollowsPublications
    OBVIOUS
  <2>1. \A n \in StatesIn(Saved) : SoundState(Saved[n])
    BY DEF Follows, StatesAreSound
  <2>2. \A m, n \in StatesIn(Saved) : m < n => Last(Saved[m].recent).time < Last(Saved[n].recent).time
    BY DEF Follows, StatesAreSound, Grows
  <2>3. ASSUME crashes = 0, ~rejected PROVE Cardinality(StatesIn(Saved)) = Len(published)
    <3>1. StatesIn(Saved) = DOMAIN Saved /\ Len(Saved) = Len(published)
      BY <2>3 DEF Follows, NothingIsMissing
    <3>2. DOMAIN Saved = 1 .. Len(Saved) /\ Len(Saved) \in Nat
      BY SavedType DEF IInv
    <3>3. \A k \in Nat : Cardinality(1 .. k) = k
      <4> SUFFICES ASSUME NEW k \in Nat PROVE Cardinality(1 .. k) = k
        OBVIOUS
      <4>1. 1 \in Int /\ k \in Int /\ (IF 1 > k THEN 0 ELSE k - 1 + 1) = k
        OBVIOUS
      <4>2. QED
        BY <4>1, FS_Interval
    <3>4. QED
      BY <3>1, <3>2, <3>3
  <2>4. QED
    BY <2>1, <2>2, <2>3 DEF JournalFollowsPublications, Saved, SoundState
<1>2. QED
  BY <1>1, Invariance, KeptFollows, PTL

(* A running aggregator goes on from the newest state in the journal, and  *)
(* counts no match twice or out of order.                                  *)
THEOREM AveragesGoOn == Spec => []AveragesExtendTheStored
<1>1. IInv /\ Follows => AveragesExtendTheStored
  <2> SUFFICES ASSUME IInv, Follows PROVE AveragesExtendTheStored
    OBVIOUS
  <2>1. ASSUME up, StatesIn(written) # {} PROVE IsPrefix(Newest(written).avg, average)
    <3>1. PICK n : IsNewest(n, written) /\ Newest(written) = written[n]
      BY <2>1, SavedType, NewestFacts DEF IInv
    <3>2. n \in StatesIn(Saved) /\ Saved[n] = written[n]
      BY <3>1, SavedType DEF IInv, IsNewest
    <3>3. QED
      BY <2>1, <3>1, <3>2 DEF Follows, AverageGoesOn
  <2>2. \A i, j \in DOMAIN average : i < j => average[i] < average[j]
    BY DEF Follows, AverageGoesOn, InOrder
  <2>3. QED
    BY <2>1, <2>2 DEF AveragesExtendTheStored
<1>2. QED
  BY <1>1, Invariance, KeptFollows, PTL
-----------------------------------------------------------------------------
(* The refinement *)

(* What PriceSeries sees of the aggregator.                                *)
Seen == <<up, average, matches, published, BeingKept, Kept>>

(* The newest state is any that no state comes after.                      *)
LEMMA NewestIs ==
    ASSUME NEW T, NEW w \in Seq(T), NEW n, IsNewest(n, w)
    PROVE  StatesIn(w) # {} /\ Newest(w) = w[n]
<1>1. StatesIn(w) # {} /\ \A i \in StatesIn(w) : i \in Nat
  BY DEF IsNewest, StatesIn
<1>2. PICK m : IsNewest(m, w) /\ Newest(w) = w[m]
  BY <1>1, NewestFacts
<1>3. m \in Nat /\ n \in Nat /\ m <= n /\ n <= m
  BY <1>1, <1>2 DEF IsNewest
<1>4. m = n
  BY <1>3
<1>5. QED
  BY <1>1, <1>2, <1>4

(* A function on the first n numbers is a sequence.                        *)
LEMMA FunctionAsSeq ==
    ASSUME NEW T, NEW n \in Nat, NEW f \in [1 .. n -> T]
    PROVE  f \in Seq(T) /\ Len(f) = n
OBVIOUS

(* The numbers of the updates being kept.                                  *)
LEMMA BeingKeptFacts ==
    ASSUME NEW n \in Nat, DOMAIN saving = 1 .. n
    PROVE  LET all == {Last(saving[i].recent).time : i \in 1 .. n} IN
           /\ BeingKept \in Seq(all) /\ Len(BeingKept) = n
           /\ \A i \in 1 .. n : BeingKept[i] = Last(saving[i].recent).time
<1> DEFINE all == {Last(saving[i].recent).time : i \in 1 .. n}
<1>1. BeingKept = [i \in 1 .. n |-> Last(saving[i].recent).time]
  BY DEF BeingKept
<1>2. BeingKept \in [1 .. n -> all]
  BY <1>1
<1>3. \A i \in 1 .. n : BeingKept[i] = Last(saving[i].recent).time
  BY <1>1
<1> HIDE DEF all
<1>4. BeingKept \in Seq(all) /\ Len(BeingKept) = n
  BY <1>2, FunctionAsSeq
<1>5. QED
  BY <1>3, <1>4 DEF all

(* The update kept last is as it was published, with the averages a        *)
(* recovery gives.                                                         *)
LEMMA KeptFacts ==
    ASSUME IInv, Follows
    PROVE  /\ StatesIn(written) = {} => Kept = 0
           /\ \A n : IsNewest(n, written) =>
                 Kept # 0 /\ published[Kept].avg = written[n].avg
<1>1. written \in Seq(SavedState \cup {Hole}) /\ published \in Seq(Update)
  BY DEF IInv, TypeOK, PersistenceType
<1>2. ASSUME NEW n, IsNewest(n, written)
      PROVE  Kept # 0 /\ published[Kept].avg = written[n].avg
  <2>1. Kept = Last(written[n].recent).time
    BY <1>1, <1>2, NewestIs DEF Kept
  <2>2. n \in StatesIn(Saved) /\ Saved[n] = written[n]
    BY <1>2, SavedType DEF IInv, IsNewest
  <2>3. SoundState(written[n])
    BY <2>2 DEF Follows, StatesAreSound
  <2> DEFINE latest == Last(written[n].recent)
  <2>4. /\ latest.time \in DOMAIN published /\ published[latest.time] = latest
        /\ latest.avg = written[n].avg
    BY <2>3 DEF SoundState
  <2> HIDE DEF latest
  <2>5. latest.time # 0
    BY <1>1, <2>4
  <2>6. QED
    BY <2>1, <2>4, <2>5 DEF latest
<1>3. QED
  BY <1>2 DEF Kept

(* It is the same while the states of the journal are.                     *)
LEMMA SameKept ==
    ASSUME IInv, written' \in Seq(SavedState \cup {Hole}),
           \A n : n \in StatesIn(written)' <=> n \in StatesIn(written),
           \A n \in StatesIn(written) : written'[n] = written[n]
    PROVE  Kept' = Kept
<1>1. written \in Seq(SavedState \cup {Hole}) /\ StatesIn(written)' = StatesIn(written)
  BY DEF IInv, TypeOK, PersistenceType
<1>2. CASE StatesIn(written) = {}
  BY <1>1, <1>2 DEF Kept
<1>3. CASE StatesIn(written) # {}
  <2>1. PICK n : IsNewest(n, written) /\ Newest(written) = written[n]
    BY <1>1, <1>3, NewestFacts
  <2>2. n \in StatesIn(written) /\ IsNewest(n, written')
    BY <1>1, <2>1 DEF IsNewest, StatesIn
  <2>3. Newest(written') = written'[n]
    BY <2>2, NewestIs
  <2>4. Newest(written)' = Newest(written)
    BY <2>1, <2>2, <2>3 DEF Newest, StatesIn
  <2>5. QED
    BY <1>1, <2>4 DEF Kept
<1>4. QED
  BY <1>2, <1>3

LEMMA InitRefinesSeries == Init => Series!Init
<1> SUFFICES ASSUME Init PROVE Series!Init
  OBVIOUS
<1>1. /\ written = << >> /\ saving = << >> /\ up = TRUE /\ average = << >>
      /\ matches = 0 /\ published = << >>
  BY DEF Init, PersistenceInit
<1>2. DOMAIN << >> = {}
  BY EmptySeq
<1>3. Kept = 0
  BY <1>1, <1>2 DEF Kept, StatesIn
<1>4. BeingKept = << >>
  BY <1>1, <1>2 DEF BeingKept
<1>5. QED
  BY <1>1, <1>3, <1>4 DEF Series!Init

(* The tick of the timer publishes an update, and one is to be kept.       *)
LEMMA PublishRefines ==
    ASSUME IInv, PublishEvents
    PROVE  Series!Publish
<1> DEFINE t == Len(published) + 1
           latest == [avg |-> average, time |-> t]
           x == State(average, updates')
           k == Len(saving)
<1>1. /\ Last(updates') = latest /\ updates' \in Seq(Update) /\ x \in SavedState
      /\ saving' = Append(saving, x) /\ published' = Append(published, latest)
  BY PublishFacts DEF IInv
<1>2. up /\ average # << >> /\ UNCHANGED <<up, average, matches, written>>
  BY DEF PublishEvents, store
<1>3. Last(x.recent).time = t
  <2>1. x.recent = updates'
    BY <1>1, SavedFacts DEF IInv, TypeOK
  <2>2. latest.time = t
    OBVIOUS
  <2> HIDE DEF latest, t, x
  <2>3. QED
    BY <1>1, <2>1, <2>2
<1>4. saving \in Seq(SavedState) /\ k \in Nat /\ DOMAIN saving = 1 .. k
  BY DEF IInv, TypeOK
<1> HIDE DEF x, t, latest, k
<1>5. /\ DOMAIN saving' = 1 .. k + 1 /\ saving'[k + 1] = x
      /\ \A i \in 1 .. k : saving'[i] = saving[i]
  BY <1>1, <1>4, AppendProperties DEF k
<1>6. BeingKept' = Append(BeingKept, t)
  <2> DEFINE times == {Last(saving[i].recent).time : i \in 1 .. k}
             all == times \cup {t}
             v == Append(BeingKept, t)
             w == BeingKept'
  <2>1. /\ BeingKept \in Seq(all) /\ Len(BeingKept) = k
        /\ \A i \in 1 .. k : BeingKept[i] = Last(saving[i].recent).time
    <3>1. /\ BeingKept \in Seq(times) /\ Len(BeingKept) = k
          /\ \A i \in 1 .. k : BeingKept[i] = Last(saving[i].recent).time
      BY <1>4, BeingKeptFacts
    <3> HIDE DEF times
    <3>2. QED
      BY <3>1
  <2>2. /\ v \in Seq(all) /\ Len(v) = k + 1 /\ v[k + 1] = t
        /\ \A i \in 1 .. k : v[i] = BeingKept[i]
    BY <2>1, AppendProperties
  <2>3. w = [i \in 1 .. k + 1 |-> Last(saving'[i].recent).time]
    BY <1>5 DEF BeingKept
  <2>4. ASSUME NEW i \in 1 .. k + 1 PROVE w[i] = v[i] /\ w[i] \in all
    <3>1. w[i] = Last(saving'[i].recent).time
      BY <2>3
    <3>2. CASE i = k + 1
      BY <1>3, <1>5, <2>2, <3>1, <3>2
    <3>3. CASE i # k + 1
      <4>1. i \in 1 .. k
        BY <1>4, <3>3
      <4>2. QED
        BY <1>5, <2>1, <2>2, <3>1, <4>1
    <3>4. QED
      BY <3>2, <3>3
  <2> HIDE DEF all, v
  <2>5. w \in [1 .. k + 1 -> all] /\ k + 1 \in Nat
    BY <1>4, <2>3, <2>4
  <2> HIDE DEF w
  <2>6. w \in Seq(all) /\ Len(w) = k + 1
    BY <2>5, FunctionAsSeq
  <2>7. w = v
    BY <2>2, <2>4, <2>6, SeqEqual
  <2>8. QED
    BY <2>7 DEF v, w
<1>7. Kept' = Kept
  BY <1>2 DEF Kept, StatesIn, Newest
<1>8. QED
  BY <1>1, <1>2, <1>6, <1>7 DEF Series!Publish, latest, t

(* The journal takes a state, whose update is the newest kept; or rejects  *)
(* it.                                                                     *)
LEMMA WriteRefines ==
    ASSUME IInv, WriteMessage
    PROVE  Series!Keep
<1> DEFINE k == Len(written)
           c == Len(saving)
<1>1. /\ saving # << >> /\ saving' = Tail(saving) /\ up
      /\ UNCHANGED <<up, average, published, matches>>
  BY DEF WriteMessage
<1>2. /\ saving \in Seq(SavedState) /\ written \in Seq(SavedState \cup {Hole})
      /\ k \in Nat /\ DOMAIN written = 1 .. k /\ c \in Nat /\ DOMAIN saving = 1 .. c
  BY DEF IInv, TypeOK, PersistenceType
<1>3. written' \in Seq(SavedState \cup {Hole})
  BY WriteMessageIInv DEF IInv, TypeOK, PersistenceType
<1>4. c > 0 /\ Head(saving) = saving[1] /\ Head(saving) \in SavedState
  BY <1>1, <1>2
<1>5. DOMAIN saving' = 1 .. c - 1 /\ \A i \in 1 .. c - 1 : saving'[i] = saving[i + 1]
  <2>1. saving' \in Seq(SavedState) /\ Len(saving') = c - 1
        /\ \A i \in 1 .. c - 1 : saving'[i] = saving[i + 1]
    BY <1>1, <1>2, HeadTailProperties
  <2>2. QED
    BY <2>1
<1>6. PICK e \in {Hole, Head(saving)} : written' = written \o <<e>>
  <2>1. CASE Write(<<Head(saving)>>)
    BY <2>1 DEF Write
  <2>2. CASE Reject(<<Head(saving)>>)
    <3>1. [i \in DOMAIN <<Head(saving)>> |-> Hole] = <<Hole>>
      OBVIOUS
    <3>2. QED
      BY <2>2, <3>1 DEF Reject
  <2>3. QED
    BY <2>1, <2>2 DEF WriteMessage
<1>7. /\ DOMAIN written' = 1 .. k + 1 /\ written'[k + 1] = e
      /\ \A i \in 1 .. k : written'[i] = written[i]
  <2>1. written' = Append(written, e)
    BY <1>2, <1>6
  <2>2. e \in SavedState \cup {Hole}
    BY <1>4
  <2>3. QED
    BY <1>2, <2>1, <2>2, AppendProperties
<1> HIDE DEF k, c
<1>8. \A n : n \in 1 .. k + 1 <=> n \in 1 .. k \/ n = k + 1
  BY <1>2
<1> DEFINE all == {Last(saving[i].recent).time : i \in 1 .. c}
<1>9. /\ BeingKept \in Seq(all) /\ Len(BeingKept) = c
      /\ \A i \in 1 .. c : BeingKept[i] = Last(saving[i].recent).time
      /\ BeingKept # << >> /\ Head(BeingKept) = Last(Head(saving).recent).time
  <2>1. /\ BeingKept \in Seq(all) /\ Len(BeingKept) = c
        /\ \A i \in 1 .. c : BeingKept[i] = Last(saving[i].recent).time
    BY <1>2, BeingKeptFacts
  <2> HIDE DEF all
  <2>2. BeingKept # << >> /\ Head(BeingKept) = BeingKept[1] /\ 1 \in 1 .. c
    BY <1>2, <1>4, <2>1
  <2>3. QED
    BY <1>4, <2>1, <2>2
<1>10. BeingKept' = Tail(BeingKept)
  <2> DEFINE v == Tail(BeingKept)
             w == BeingKept'
  <2>1. w = [i \in 1 .. c - 1 |-> Last(saving'[i].recent).time]
    BY <1>5 DEF BeingKept
  <2> HIDE DEF all
  <2>2. v \in Seq(all) /\ Len(v) = c - 1 /\ \A i \in 1 .. c - 1 : v[i] = BeingKept[i + 1]
    BY <1>9, HeadTailProperties
  <2>3. ASSUME NEW i \in 1 .. c - 1 PROVE w[i] = v[i] /\ w[i] \in all
    <3>1. i + 1 \in 1 .. c
      BY <1>2
    <3>2. w[i] = BeingKept[i + 1]
      BY <1>5, <1>9, <2>1, <3>1
    <3>3. BeingKept[i + 1] \in all
      BY <1>9, <3>1 DEF all
    <3>4. QED
      BY <2>2, <3>2, <3>3
  <2> HIDE DEF v
  <2>4. w \in [1 .. c - 1 -> all] /\ c - 1 \in Nat
    BY <1>2, <1>4, <2>1, <2>3
  <2> HIDE DEF w
  <2>5. w \in Seq(all) /\ Len(w) = c - 1
    BY <2>4, FunctionAsSeq
  <2>6. w = v
    BY <2>2, <2>3, <2>5, SeqEqual
  <2>7. QED
    BY <2>6 DEF v, w
<1> HIDE DEF all
<1>11. CASE e = Hole
  <2>1. \A n : n \in StatesIn(written)' <=> n \in StatesIn(written)
    BY <1>2, <1>7, <1>8, <1>11 DEF StatesIn
  <2>2. \A n \in StatesIn(written) : written'[n] = written[n]
    BY <1>2, <1>7 DEF StatesIn
  <2>3. Kept' = Kept
    BY <1>3, <2>1, <2>2, SameKept
  <2>4. QED
    BY <1>1, <1>9, <1>10, <2>3 DEF Series!Keep
<1>12. CASE e # Hole
  <2>1. k + 1 \in StatesIn(written') /\ \A i \in StatesIn(written') : i <= k + 1
    BY <1>2, <1>7, <1>8, <1>12 DEF StatesIn
  <2>2. IsNewest(k + 1, written')
    BY <2>1 DEF IsNewest
  <2>3. StatesIn(written') # {} /\ Newest(written') = e
    BY <1>3, <1>7, <2>2, NewestIs
  <2>4. Kept' = Last(e.recent).time
    BY <2>3 DEF Kept, StatesIn, Newest
  <2>5. QED
    BY <1>1, <1>6, <1>9, <1>10, <1>12, <2>4 DEF Series!Keep
<1>13. QED
  BY <1>11, <1>12

(* A stop is seen as one.                                                  *)
LEMMA StopRefines ==
    ASSUME Crash
    PROVE  Series!Stop
<1>1. /\ up /\ up' = FALSE /\ average' = << >> /\ saving' = << >>
      /\ UNCHANGED <<matches, published, written>>
  BY DEF Crash, ForgetCalls, store
<1>2. BeingKept' = << >>
  <2>1. DOMAIN << >> = {}
    BY EmptySeq
  <2>2. QED
    BY <1>1, <2>1 DEF BeingKept
<1>3. Kept' = Kept
  BY <1>1 DEF Kept, StatesIn, Newest
<1>4. QED
  BY <1>1, <1>2, <1>3 DEF Series!Stop

(* A recovery is a start that goes on from the newest update kept.         *)
LEMMA StartRefines ==
    ASSUME IInv, SnapshotsAreJournaled, Follows, Ping
    PROVE  Series!Start
<1> DEFINE state == Recovered(snapshots, written, deletedTo)
<1>1. /\ ~up /\ up' = TRUE /\ average' = state.avg /\ RecoverNumbers
      /\ UNCHANGED <<saving, matches, published>>
  BY DEF Ping, Start, history
<1>2. /\ StatesIn(written) = {} => state.avg = << >>
      /\ \A n : IsNewest(n, written) => state.avg = written[n].avg
  BY RecoveryFacts
<1> HIDE DEF state
<1>3. written \in Seq(SavedState \cup {Hole}) /\ written' \in Seq(SavedState \cup {Hole})
  BY PingIInv DEF IInv, TypeOK, PersistenceType
<1>4. Kept' = Kept
  <2>1. \A n \in StatesIn(written) : n \in StatesIn(written)' /\ written'[n] = written[n]
    BY <1>1, <1>3, StatesStay, EmptySeq
  <2>2. \A n \in StatesIn(written)' : n \in StatesIn(written)
    <3>1. PICK m \in 0 .. Len(written) : written' = SubSeq(written, 1, m)
      BY <1>1, <1>3, WithoutTrailingHolesFacts DEF RecoverNumbers
    <3>2. Len(written) \in Nat /\ DOMAIN written = 1 .. Len(written)
      BY <1>3
    <3>3. \A i \in DOMAIN written' : i \in DOMAIN written /\ written'[i] = written[i]
      BY <1>3, <3>1, <3>2
    <3>4. QED
      BY <3>3 DEF StatesIn
  <2>3. QED
    BY <1>3, <2>1, <2>2, SameKept
<1>5. average' = IF Kept = 0 THEN << >> ELSE published[Kept].avg
  <2>1. CASE StatesIn(written) = {}
    BY <1>1, <1>2, <2>1, KeptFacts
  <2>2. CASE StatesIn(written) # {}
    <3>1. PICK n : IsNewest(n, written)
      BY <1>3, <2>2, NewestFacts
    <3>2. QED
      BY <1>1, <1>2, <3>1, KeptFacts
  <2>3. QED
    BY <2>1, <2>2
<1>6. BeingKept' = BeingKept
  BY <1>1 DEF BeingKept
<1>7. QED
  BY <1>1, <1>4, <1>5, <1>6 DEF Series!Start

(* Every step of the aggregator is a step of PriceSeries, or one it does   *)
(* not see.                                                                *)
LEMMA NextRefinesSeries ==
    IInv /\ SnapshotsAreJournaled /\ Follows /\ [Next]_vars => [Series!Next]_Series!vars
<1> SUFFICES ASSUME IInv, SnapshotsAreJournaled, Follows, [Next]_vars
             PROVE  Series!Next \/ UNCHANGED Seen
  BY DEF Seen, Series!vars
<1>1. ASSUME UNCHANGED <<up, average, saving, written, matches, published>>
      PROVE  UNCHANGED Seen
  BY <1>1 DEF Seen, BeingKept, Kept, StatesIn, Newest
<1>2. CASE ReceiveMatch
  <2>1. /\ matches' = matches + 1 /\ UNCHANGED <<up, saving, written, published>>
        /\ \/ up /\ average' = Append(average, matches')
           \/ UNCHANGED average
    BY <1>2 DEF ReceiveMatch, store
  <2>2. BeingKept' = BeingKept /\ Kept' = Kept
    BY <2>1 DEF BeingKept, Kept, StatesIn, Newest
  <2>3. Series!Take
    BY <2>1, <2>2 DEF Series!Take
  <2>4. QED
    BY <2>3 DEF Series!Next
<1>3. CASE HandlePersisted
  <2>1. UNCHANGED written
    BY <1>3 DEF HandlePersisted, SaveWhenDue, store
  <2>2. QED
    BY <1>1, <1>3, <2>1 DEF HandlePersisted, history
<1>4. CASE CleanUp \/ Stores
  <2>1. UNCHANGED written
    BY <1>4 DEF CleanUp, Stores, SaveSnapshotSuccess, StoresAct, SaveSnapshot,
                DeleteSnapshots, DeleteMessages, store
  <2>2. QED
    BY <1>1, <1>4, <2>1 DEF CleanUp, Stores, actor, history
<1>5. CASE \/ DoSubscribe \/ DoSubscribeFails
           \/ \E c \in Clients : MarketSubscribe(c) \/ MarketUnsubscribe(c) \/ Terminated(c)
  <2>1. UNCHANGED <<actor, history, store>>
    BY <1>5 DEF DoSubscribe, DoSubscribeFails, MarketSubscribe, MarketUnsubscribe, Terminated
  <2>2. QED
    BY <1>1, <2>1 DEF actor, history, store
<1>6. CASE UNCHANGED vars
  BY <1>1, <1>6 DEF vars, actor, history, store
<1>7. QED
  BY <1>2, <1>3, <1>4, <1>5, <1>6, PublishRefines, WriteRefines, StopRefines, StartRefines
     DEF Next, Series!Next

(* Through every stop, recovery, rejected write and clean-up, at whatever  *)
(* moment, the aggregator publishes one series of updates, and goes on     *)
(* from the newest that the journal has taken.                             *)
THEOREM AggregatorKeepsItsPromise == Spec => ImplementsPriceSeries
<1>1. Spec => [][Series!Next]_Series!vars
  BY NextRefinesSeries, Invariance, KeptSnapshots, KeptFollows, PTL DEF Spec
<1>2. Spec => Series!Init
  BY InitRefinesSeries, PTL DEF Spec
<1>3. QED
  BY <1>1, <1>2, PTL DEF ImplementsPriceSeries, Series!Spec
=============================================================================
