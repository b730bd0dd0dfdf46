--------------------------- MODULE MatchAggregator ---------------------------
(***************************************************************************)
(* The persistent actor that averages the trades of one ticker symbol and  *)
(* publishes price and volume every ten seconds, on top of the journal and *)
(* the snapshot store of Persistence; with what surrounds it: the order    *)
(* book that publishes Match events, the DistributedPubSub mediator, the   *)
(* clients that subscribe to market events and the heartbeat of            *)
(* PriceInitiatorActor, which starts the actor again.                      *)
(*                                                                         *)
(* Abstractions.  An average is the sequence of the matches it has taken   *)
(* up: that determines its value.  Price and volume change together and    *)
(* are kept in two buffers of one length, so one update and one buffer     *)
(* stand for both.  Updates are ten seconds apart: their times differ.     *)
(* While a handler waits for the mediator the actor takes no message, so   *)
(* the wait and its outcome are one step.                                  *)
(***************************************************************************)
EXTENDS Persistence, SequencesExt

CONSTANTS
    SampleSize,      \* capacity of the buffers (DefaultSampleSize)
    SnapshotEveryN,  \* a snapshot is saved every so many events
    Clients,         \* those who subscribe to market events
    MaxMatches,      \* bound on the matches the order book publishes
    MaxUpdates,      \* bound on the updates published
    MaxCrashes       \* bound on the stops of the actor

ASSUME SampleSizeAssumption == SampleSize \in Nat \ {0}
ASSUME SnapshotEveryNAssumption == SnapshotEveryN \in Nat \ {0}
ASSUME BoundsAssumption == {MaxMatches, MaxUpdates, MaxCrashes} \subseteq Nat

VARIABLES
    up,           \* the actor is running
    average,      \* _matchAggregate; << >> is null
    updates,      \* _priceUpdates and _volumeUpdates, oldest first
    saving,       \* the states PersistAsync has sent to the journal
    next,         \* sequence number of the event whose handler runs next
    subscribing,  \* a DoSubscribe is in the mailbox, or scheduled
    registered,   \* the mediator has this actor on the Match topic
    market,       \* the mediator's subscribers of market topics
    answered,     \* what each client was told last
    matches,      \* history: matches published by the order book
    published,    \* history: updates published
    crashes,      \* history: stops of the actor
    rejected      \* history: the journal has rejected a write

actor == <<up, average, updates, saving, next>>
mediator == <<subscribing, registered, market, answered>>
history == <<matches, published, crashes, rejected>>
vars == <<actor, mediator, history, store, calls>>

(* An operator that stands just before another one of nearly its name, or  *)
(* its effect, is a mutated form of it, as in Matching.                    *)

-----------------------------------------------------------------------------
(* States, buffers and topics *)

Averages == Seq(1 .. MaxMatches)
Update == [avg : Averages, time : 1 .. MaxUpdates]

(* A MatchAggregatorSnapshot, as an event and as a snapshot.               *)
SavedState == [type : {"State"}, avg : Averages, recent : Seq(Update)]

State(avg, recent) == [type |-> "State", avg |-> avg, recent |-> recent]

(* The circular buffer overwrites its oldest items when it is full.        *)
Enqueue(buffer, items) ==
    LET all == buffer \o items
    IN  SubSeq(all, Max({1, Len(all) - SampleSize + 1}), Len(all))

(* Topics of the two names that occur: the ticker symbol, and the          *)
(* PersistenceId made of it.                                               *)
Names == {"TickerSymbol", "PersistenceId"}

(* What a client may have been told.                                       *)
Answers == {"none", "MarketSubscribeAck", "MarketSubscribeNack",
            "MarketUnsubscribeAck", "MarketUnsubscribeNack"}

-----------------------------------------------------------------------------
(* Recovery *)

RecoverFirstOnly(current, saved) ==
    State(saved.avg, IF current.recent = << >> THEN saved.recent ELSE current.recent)

RecoverUnbounded(current, saved) ==
    State(saved.avg, current.recent \o saved.recent)

(* The averages start from the saved ones; the saved updates are added to  *)
(* those the buffers hold.                                                 *)
RecoverAggregateData(current, saved) ==
    State(saved.avg, Enqueue(current.recent, saved.recent))

Recover(current, event) ==
    IF event = Hole THEN current ELSE RecoverAggregateData(current, event)

Replay(start, events) ==
    LET after[k \in 0 .. Len(events)] ==
          IF k = 0 THEN start ELSE Recover(after[k-1], events[k])
    IN  after[Len(events)]

Recovered(stored, events, deleted) ==
    Replay(IF stored = {} THEN State(<< >>, << >>)
           ELSE RecoverAggregateData(State(<< >>, << >>), LatestSnapshot(stored).state),
           EventsToReplay(stored, events, deleted))

-----------------------------------------------------------------------------

TypeOK ==
    /\ up \in BOOLEAN
    /\ average \in Averages
    /\ updates \in Seq(Update) /\ Len(updates) <= SampleSize
    /\ saving \in Seq(SavedState)
    /\ next \in Nat
    /\ PersistenceType(SavedState \cup {Hole}, SavedState)
    /\ subscribing \in BOOLEAN
    /\ registered \in BOOLEAN
    /\ market \subseteq Names \X Clients
    /\ answered \in [Clients -> Answers]
    /\ matches \in 0 .. MaxMatches
    /\ published \in Seq(Update)
    /\ crashes \in 0 .. MaxCrashes
    /\ rejected \in BOOLEAN

Init ==
    /\ up = TRUE
    /\ average = << >>
    /\ updates = << >>
    /\ saving = << >>
    /\ next = 1
    /\ PersistenceInit
    /\ subscribing = TRUE
    /\ registered = FALSE
    /\ market = {}
    /\ answered = [c \in Clients |-> "none"]
    /\ matches = 0
    /\ published = << >>
    /\ crashes = 0
    /\ rejected = FALSE

-----------------------------------------------------------------------------
(* Matches and updates *)

(* The order book publishes a match.  A registered aggregator takes it up, *)
(* unless the message is lost on the way.                                  *)
ReceiveMatch ==
    /\ matches < MaxMatches
    /\ matches' = matches + 1
    /\ \/ up /\ registered /\ average' = Append(average, matches + 1)
       \/ UNCHANGED average
    /\ UNCHANGED <<up, updates, saving, next, mediator, published, crashes, rejected, store, calls>>

SavedBeforeAdded ==
    /\ up /\ average # << >>
    /\ Len(published) < MaxUpdates
    /\ LET latest == [avg |-> average, time |-> Len(published) + 1] IN
        /\ updates' = Enqueue(updates, <<latest>>)
        /\ saving' = Append(saving, State(average, updates))
        /\ published' = Append(published, latest)
    /\ UNCHANGED <<up, average, next, mediator, matches, crashes, rejected, store, calls>>

(* The timer: the latest update goes to the buffers, the state is sent to  *)
(* the journal without waiting for it, the update is published.            *)
PublishEvents ==
    /\ up /\ average # << >>
    /\ Len(published) < MaxUpdates
    /\ LET latest == [avg |-> average, time |-> Len(published) + 1] IN
        /\ updates' = Enqueue(updates, <<latest>>)
        /\ saving' = Append(saving, State(average, updates'))
        /\ published' = Append(published, latest)
    /\ UNCHANGED <<up, average, next, mediator, matches, crashes, rejected, store, calls>>

(* The journal takes the states in the order they were sent.               *)
WriteMessage ==
    /\ up /\ saving # << >>
    /\ saving' = Tail(saving)
    /\ \/ Write(<<Head(saving)>>) /\ UNCHANGED rejected
       \/ Reject(<<Head(saving)>>) /\ rejected' = TRUE
    /\ UNCHANGED <<up, average, updates, next, mediator, matches, published, crashes>>

(* The handler of a persisted state, which may run long after the state    *)
(* was current; a rejection is only logged.                                *)
HandlePersisted ==
    /\ up /\ next <= Len(written)
    /\ next' = next + 1
    /\ IF written[next] = Hole THEN UNCHANGED <<store, calls>>
       ELSE SaveWhenDue(next, SnapshotEveryN, written[next])
    /\ UNCHANGED <<up, average, updates, saving, mediator, history>>

CleanUp == up /\ SaveSnapshotSuccess /\ UNCHANGED <<actor, mediator, history>>

Stores == StoresAct /\ UNCHANGED <<actor, mediator, history>>

-----------------------------------------------------------------------------
(* Subscriptions *)

(* DoSubscribe: the mediator's acknowledgement comes in time.              *)
DoSubscribe ==
    /\ up /\ subscribing
    /\ subscribing' = FALSE
    /\ registered' = TRUE
    /\ UNCHANGED <<market, answered, actor, history, store, calls>>

GivesUpSubscribing ==
    /\ up /\ subscribing
    /\ registered' \in {registered, TRUE}
    /\ subscribing' = FALSE
    /\ UNCHANGED <<market, answered, actor, history, store, calls>>

(* It does not; the mediator may have registered the actor all the same.   *)
(* Another DoSubscribe is scheduled.                                       *)
DoSubscribeFails ==
    /\ up /\ subscribing
    /\ registered' \in {registered, TRUE}
    /\ UNCHANGED <<subscribing, market, answered, actor, history, store, calls>>

(* MarketSubscribe: acknowledged, or refused because the mediator did not  *)
(* answer in time, whether or not it has made the subscription.            *)
MarketSubscribe(c) ==
    /\ up
    /\ LET made == market \cup {<<"TickerSymbol", c>>} IN
        \/ market' = made /\ answered' = [answered EXCEPT ![c] = "MarketSubscribeAck"]
        \/ /\ market' \in {market, made}
           /\ answered' = [answered EXCEPT ![c] = "MarketSubscribeNack"]
    /\ UNCHANGED <<subscribing, registered, actor, history, store, calls>>

(* The mediator carries out an Unsubscribe from a topic it has, and        *)
(* answers, in time or not.  Of a topic that nobody is on it says nothing: *)
(* the Ask times out.                                                      *)
UnsubscribeOutcomes(name, c) ==
    LET made == market \ {<<name, c>>} IN
    IF \E m \in market : m[1] = name
    THEN {<<made, "MarketUnsubscribeAck">>} \cup ({market, made} \X {"MarketUnsubscribeNack"})
    ELSE {<<market, "MarketUnsubscribeNack">>}

(* MarketUnsubscribe: the topic is named after the PersistenceId, and      *)
(* MarketSubscribe puts nobody on that.                                    *)
MarketUnsubscribe(c) ==
    /\ up
    /\ \E outcome \in UnsubscribeOutcomes("PersistenceId", c) :
        /\ market' = outcome[1]
        /\ answered' = [answered EXCEPT ![c] = outcome[2]]
    /\ UNCHANGED <<subscribing, registered, actor, history, store, calls>>

(* A client stops: the mediator watches its subscribers and drops it, and  *)
(* so does the handler of Terminated.                                      *)
Terminated(c) ==
    /\ market' = {m \in market : m[2] # c}
    /\ answered' = [answered EXCEPT ![c] = "none"]
    /\ UNCHANGED <<subscribing, registered, actor, history, store, calls>>

-----------------------------------------------------------------------------
(* Stops and restarts *)

(* The actor stops: its shard is handed over, or its node goes, and then   *)
(* the subscriptions its mediator holds go too.                            *)
Crash ==
    /\ up /\ crashes < MaxCrashes
    /\ crashes' = crashes + 1
    /\ up' = FALSE
    /\ average' = << >>
    /\ updates' = << >>
    /\ saving' = << >>
    /\ next' = 1
    /\ subscribing' = FALSE
    /\ registered' = FALSE
    /\ market' \in {market, {}}
    /\ ForgetCalls
    /\ UNCHANGED <<answered, matches, published, rejected>>

StartsAfresh ==
    /\ up' = TRUE
    /\ RecoverNumbers
    /\ next' = Len(written') + 1
    /\ subscribing' = TRUE
    /\ UNCHANGED <<average, updates, saving, registered, market, answered, history>>

(* A new incarnation recovers and tells itself to subscribe.               *)
Start ==
    LET state == Recovered(snapshots, written, deletedTo) IN
    /\ up' = TRUE
    /\ average' = state.avg
    /\ updates' = state.recent
    /\ RecoverNumbers
    /\ next' = Len(written') + 1
    /\ subscribing' = TRUE
    /\ UNCHANGED <<saving, registered, market, answered, history>>

(* The heartbeat of PriceInitiatorActor pings the entity: its shard region *)
(* starts one that is not there.  A ping to a running one changes nothing. *)
Ping == ~up /\ Start

Next ==
    \/ ReceiveMatch \/ PublishEvents \/ WriteMessage \/ HandlePersisted
    \/ CleanUp \/ Stores
    \/ DoSubscribe \/ DoSubscribeFails
    \/ \E c \in Clients : MarketSubscribe(c) \/ MarketUnsubscribe(c) \/ Terminated(c)
    \/ Crash \/ Ping

(* The heartbeat repeats for ever; and DoSubscribe is retried until the    *)
(* mediator answers in time, which it does one day.                        *)
Fairness == WF_vars(Ping) /\ WF_vars(DoSubscribe)

Spec == Init /\ [][Next]_vars /\ Fairness

(* For the one question about unsubscribing: a client that is refused asks *)
(* again, until an answer says otherwise.                                  *)
InsistentSpec ==
    /\ Spec
    /\ \A c \in Clients :
          WF_vars(answered[c] = "MarketUnsubscribeNack" /\ MarketUnsubscribe(c))

-----------------------------------------------------------------------------
(* Properties *)

(* The numbers of the states among some events, and the newest of them.    *)
StatesIn(events) == {n \in DOMAIN events : events[n] # Hole}
Newest(events) == events[Max(StatesIn(events))]

(* Whatever has been deleted, rejected or is still under way, a recovery   *)
(* at this moment gives the averages of the newest state in the journal.   *)
RecoveryKeepsTheAverages ==
    Recovered(snapshots, written, deletedTo).avg =
        IF StatesIn(written) = {} THEN << >> ELSE Newest(written).avg

(* And once the buffer in that state is full, it gives exactly that        *)
(* buffer, from however many states it is put together.                    *)
FullHistoryIsRestored ==
    StatesIn(written) # {} /\ Len(Newest(written).recent) = SampleSize =>
        Recovered(snapshots, written, deletedTo).recent = Newest(written).recent

(* The journal follows the publications: the newest updates of the states  *)
(* written and being written are updates as they were published, in that   *)
(* order; and all of them, unless the actor stopped or a write was         *)
(* rejected.                                                               *)
JournalFollowsPublications ==
    LET saved == written \o saving
        newest(n) == Last(saved[n].recent)
    IN  /\ \A n \in StatesIn(saved) :
              /\ saved[n].recent # << >>
              /\ newest(n) = published[newest(n).time]
              /\ newest(n).avg = saved[n].avg
        /\ \A m, n \in StatesIn(saved) : m < n => newest(m).time < newest(n).time
        /\ crashes = 0 /\ ~rejected => Cardinality(StatesIn(saved)) = Len(published)

(* A running aggregator never falls behind what it has stored: its         *)
(* averages extend those of the newest state in the journal, and count no  *)
(* match twice, nor any out of order.                                      *)
AveragesExtendTheStored ==
    /\ up /\ StatesIn(written) # {} => IsPrefix(Newest(written).avg, average)
    /\ \A i, j \in DOMAIN average : i < j => average[i] < average[j]

(* However often it stops, the aggregator is started again and registers   *)
(* for matches again.                                                      *)
AggregatorComesBack == ~up ~> (up /\ registered)

(* "Fetch the N most recent price and volume updates": those held are      *)
(* different ones, in the order of time.                                   *)
HistoryIsInOrder ==
    \A i, j \in DOMAIN updates : i < j => updates[i].time < updates[j].time

(* "Unsubscribe to trade events for the specified ticker symbol": a client *)
(* that is told it could not be unsubscribed, and asks again whenever it   *)
(* is, is off the topic in the end.                                        *)
UnsubscribingTakesEffect ==
    \A c \in Clients :
        answered[c] = "MarketUnsubscribeNack" ~>
            (answered[c] # "MarketUnsubscribeNack" \/ <<"TickerSymbol", c>> \notin market)

(* The numbers of the updates whose states are being written, and that of  *)
(* the newest one written.                                                 *)
BeingKept == [i \in DOMAIN saving |-> Last(saving[i].recent).time]

Kept == IF StatesIn(written) = {} THEN 0 ELSE Last(Newest(written).recent).time

Series == INSTANCE PriceSeries WITH keeping <- BeingKept, kept <- Kept

(* The aggregator keeps the promise of PriceSeries: whatever its snapshots *)
(* and deletions do, a new incarnation goes on from the newest update that *)
(* the journal has taken.                                                  *)
ImplementsPriceSeries == Series!Spec
=============================================================================
