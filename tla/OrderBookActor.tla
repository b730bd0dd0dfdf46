--------------------------- MODULE OrderBookActor ---------------------------
(***************************************************************************)
(* The persistent actor of one ticker symbol, on top of the journal and    *)
(* the snapshot store of Persistence.                                      *)
(*                                                                         *)
(* An order updates the matching engine first; the order and the events it *)
(* caused are then written with one PersistAll, and one handler per event  *)
(* confirms the order to its sender, publishes the event and, every        *)
(* SnapshotInterval events, saves a snapshot.  While a PersistAll is under *)
(* way the actor takes no other message.  The process may stop between any *)
(* two of these steps and is recovered from what was stored.               *)
(*                                                                         *)
(* Abstractions.  Of prices used twice the engine keeps the CHOOSEn order  *)
(* in its index, so that replaying the same calls gives the same engine,   *)
(* as the program does.                                                    *)
(***************************************************************************)
EXTENDS OrderBookEvents, Persistence

CONSTANTS
    SnapshotInterval,  \* a snapshot is saved every so many events
    MaxRedelivered     \* bound on how many orders are delivered a second time

ASSUME SnapshotIntervalAssumption == SnapshotInterval \in Nat \ {0}
ASSUME MaxRedeliveredAssumption == MaxRedelivered \in Nat

VARIABLES
    up,          \* the actor is running
    engine,      \* _matchingEngine
    stage,       \* "idle", "writing" (PersistAll sent), "handling" (its handlers run)
    batch,       \* the events of the PersistAll being written
    next,        \* sequence number of the event whose handler runs next
    book,        \* history: the engine seen from outside: the order being written is
                 \* not in it; while the actor is down, what it will start with
    confirmed,   \* history: ids of the orders confirmed to their senders
    published,   \* history: sequence numbers of the published events
    deliveries,  \* history: how often each order was delivered
    crashed,     \* history: the process has stopped at some time
    diverged,    \* history: this incarnation had a write rejected, or started from a snapshot
    everDiverged \* history: some incarnation has diverged

actor == <<up, engine, stage, batch, next>>
history == <<book, confirmed, published, deliveries, crashed, diverged, everDiverged>>
vars == <<actor, store, calls, history>>

(* An operator that stands just before another one of nearly its name, or  *)
(* its effect, is a mutated form of it, as in Matching.                    *)

-----------------------------------------------------------------------------
(* Events *)

(* What the journal holds under a number.                                  *)
Event == TradeEvent \cup {Hole}

-----------------------------------------------------------------------------
(* Recovery *)

Call(e, o) == CHOOSE r \in WithOrder(e, o) : TRUE

(* Fill and Match events do not touch the engine when they are replayed.   *)
RecoverEvent(e, event) ==
    IF event.type = "Order" THEN Call(e, event.order).engine ELSE e

Replay(start, events) ==
    LET after[n \in 0 .. Len(events)] ==
            IF n = 0 THEN start ELSE RecoverEvent(after[n-1], events[n])
    IN  after[Len(events)]

(* The engine a new incarnation ends up with: the latest snapshot offered, *)
(* then the events after it that the journal still has.                    *)
Recovered(stored, events, deleted) ==
    Replay(IF stored = {} THEN NewEngine ELSE FromSnapshot(LatestSnapshot(stored).state),
           EventsToReplay(stored, events, deleted))

-----------------------------------------------------------------------------

TypeOK ==
    /\ up \in BOOLEAN
    /\ {engine, book} \subseteq Engine
    /\ stage \in {"idle", "writing", "handling"}
    /\ batch \in Seq(Event)
    /\ next \in Nat
    /\ PersistenceType(Event, [Sides -> SUBSET Order])
    /\ confirmed \subseteq OrderIds
    /\ published \in Seq(Nat)
    /\ deliveries \in [Orders -> 0 .. 2]
    /\ crashed \in BOOLEAN
    /\ diverged \in BOOLEAN
    /\ everDiverged \in BOOLEAN

Init ==
    /\ up = TRUE
    /\ engine = NewEngine
    /\ book = NewEngine
    /\ stage = "idle"
    /\ batch = << >>
    /\ next = 1
    /\ PersistenceInit
    /\ confirmed = {}
    /\ published = << >>
    /\ deliveries = [o \in Orders |-> 0]
    /\ crashed = FALSE
    /\ diverged = FALSE
    /\ everDiverged = FALSE

-----------------------------------------------------------------------------
(* The actor *)

(* Orders come in ConfirmableMessages, to be redelivered by a sender that  *)
(* got no Confirmation (the PersistenceSupervisor the source refers to): a *)
(* confirmed order may come again too, its Confirmation may be lost.  How  *)
(* many come a second time is the bound of the model.                      *)
Deliverable(o) ==
    \/ deliveries[o] = 0
    \/ /\ deliveries[o] = 1
       /\ Cardinality({p \in Orders : deliveries[p] = 2}) < MaxRedelivered

ConfirmAtOnce(o) ==
    /\ up /\ stage = "idle"
    /\ Deliverable(o)
    /\ deliveries' = [deliveries EXCEPT ![o] = @ + 1]
    /\ LET r == Call(engine, o) IN
        /\ engine' = r.engine
        /\ batch' = PersistableEvents(o, r.trades)
    /\ stage' = "writing"
    /\ confirmed' = confirmed \cup {o.id}
    /\ UNCHANGED <<up, next, store, calls, book, published, crashed, diverged, everDiverged>>

(* ProcessBid / ProcessAsk: the engine first, then PersistAll.  A          *)
(* duplicate the engine ignores is written all the same.                   *)
Process(o) ==
    /\ up /\ stage = "idle"
    /\ Deliverable(o)
    /\ deliveries' = [deliveries EXCEPT ![o] = @ + 1]
    /\ LET r == Call(engine, o) IN
        /\ engine' = r.engine
        /\ batch' = PersistableEvents(o, r.trades)
    /\ stage' = "writing"
    /\ UNCHANGED <<up, next, store, calls, book,
                   confirmed, published, crashed, diverged, everDiverged>>

(* PersistTrade: the handler of one written event.                         *)
PersistTrade ==
    /\ up /\ stage = "handling"
    /\ confirmed' = IF written[next].type = "Order"
                    THEN confirmed \cup {written[next].order.id} ELSE confirmed
    /\ published' = Append(published, next)
    /\ SaveWhenDue(next, SnapshotInterval, GetSnapshot(engine))
    /\ next' = next + 1
    /\ stage' = IF next = Len(written) THEN "idle" ELSE "handling"
    /\ UNCHANGED <<up, engine, batch, book, deliveries, crashed, diverged, everDiverged>>

(* The mailbox is looked at only between two orders.                       *)
CleanUp ==
    /\ up /\ stage = "idle"
    /\ SaveSnapshotSuccess
    /\ UNCHANGED <<actor, history>>

-----------------------------------------------------------------------------
(* The journal and the stores *)

WriteFirstEvent ==
    /\ up /\ stage = "writing"
    /\ Write(<<Head(batch)>>)
    /\ batch' = Tail(batch)
    /\ next' = Len(written) + 1
    /\ stage' = IF Len(batch) = 1 THEN "handling" ELSE "writing"
    /\ book' = engine
    /\ UNCHANGED <<up, engine, confirmed, published, deliveries, crashed, diverged, everDiverged>>

(* The events of one PersistAll are written atomically.                    *)
WriteMessages ==
    /\ up /\ stage = "writing"
    /\ Write(batch)
    /\ batch' = << >>
    /\ next' = Len(written) + 1
    /\ stage' = "handling"
    /\ book' = engine
    /\ UNCHANGED <<up, engine, confirmed, published, deliveries, crashed, diverged, everDiverged>>

RejectMessagesHandled ==
    /\ up /\ stage = "writing"
    /\ Reject(batch)
    /\ batch' = << >>
    /\ next' = Len(written) + 1
    /\ stage' = "handling"
    /\ diverged' = TRUE
    /\ everDiverged' = TRUE
    /\ book' = engine
    /\ UNCHANGED <<up, engine, confirmed, published, deliveries, crashed>>

(* A rejected write runs no handler; the actor logs it and goes on, with   *)
(* the engine it has.                                                      *)
RejectMessages ==
    /\ up /\ stage = "writing"
    /\ Reject(batch)
    /\ batch' = << >>
    /\ stage' = "idle"
    /\ diverged' = TRUE
    /\ everDiverged' = TRUE
    /\ book' = engine
    /\ UNCHANGED <<up, engine, next, confirmed, published, deliveries, crashed>>

Stores == StoresAct /\ UNCHANGED <<actor, history>>

-----------------------------------------------------------------------------
(* Stops and restarts *)

(* The process stops, the shard is handed over, or a failed write stops    *)
(* the actor: what was not stored is gone.                                 *)
Crash ==
    /\ up
    /\ up' = FALSE
    /\ engine' = NewEngine
    /\ stage' = "idle"
    /\ batch' = << >>
    /\ next' = 1
    /\ ForgetCalls
    /\ crashed' = TRUE
    /\ diverged' = FALSE
    /\ book' = Recovered(snapshots, written, deletedTo)
    /\ UNCHANGED <<confirmed, published, deliveries, everDiverged>>

Restart ==
    /\ ~up
    /\ up' = TRUE
    /\ RecoverNumbers
    /\ engine' = Recovered(snapshots, written, deletedTo)
    /\ diverged' = (snapshots # {})
    /\ everDiverged' = (everDiverged \/ snapshots # {})
    /\ UNCHANGED <<stage, batch, next, book, confirmed, published, deliveries, crashed>>

Next ==
    \/ \E o \in Orders : Process(o)
    \/ WriteMessages \/ RejectMessages \/ PersistTrade
    \/ Stores \/ CleanUp
    \/ Crash \/ Restart

Spec == Init /\ [][Next]_vars

-----------------------------------------------------------------------------
(* Properties *)

(* The quantity of the Fill events of an order in the journal.             *)
JournaledFills(id) == Total(FillAmounts(id, written))

Journaled(id) ==
    \E i \in DOMAIN written : written[i].type = "Order" /\ written[i].order.id = id

(* Unless the journal has rejected a write of this incarnation, or it      *)
(* started from a snapshot, the engine is what replaying the journal       *)
(* gives, plus the calls of the write under way: a crash at any moment     *)
(* loses at most the order being written.                                  *)
EngineMatchesJournal ==
    up /\ ~diverged => engine = Replay(NewEngine, written \o batch)

(* As long as that has been so for every incarnation: of a journaled order *)
(* that was delivered once, the Fill events in the journal and what the    *)
(* events leave open of it add up to its quantity.  An order and its fills *)
(* are stored together or not at all, through every crash.                 *)
JournalAccountsForTheBook ==
    ~everDiverged =>
        \A o \in Orders :
            Journaled(o.id) /\ deliveries[o] = 1 =>
                o.qty = JournaledFills(o.id) + LeftOpen(Replay(NewEngine, written), o.id)

(* A sender that got its Confirmation may forget its order: the order has  *)
(* been written to the journal.                                            *)
ConfirmedIsJournaled == \A id \in confirmed : Journaled(id)

(* Events are published in journal order, each at most once and only when  *)
(* it is written; if the process never stopped, none is left out.          *)
PublishedFollowsJournal ==
    /\ \A i, j \in DOMAIN published : i < j => published[i] < published[j]
    /\ \A i \in DOMAIN published :
           published[i] \in DOMAIN written /\ written[published[i]] # Hole
    /\ ~crashed =>
          \A n \in DOMAIN written :
             written[n] # Hole /\ (stage = "handling" => n < next) => n \in Range(published)

(* No two orders of one side have the same limit price.                    *)
PricesDistinct ==
    \A x, y \in Orders : x.side = y.side /\ x.price = y.price => x = y

(* The engine with the orders of a snapshot.                               *)
EngineOf(state) ==
    [orders |-> state,
     index |-> [side \in Sides |-> CHOOSE ix \in PriceIndexes(state[side]) : TRUE]]

(* A snapshot is taken by the handler of one event of a batch whose        *)
(* effects the engine already has.  It is still a sound cut: its orders,   *)
(* and the events after its sequence number applied to them, give the open *)
(* orders of the whole journal, even when the number is in mid-batch.      *)
SnapshotsAreSoundCuts ==
    PricesDistinct /\ ~everDiverged =>
        \A s \in snapshots :
            Replay(EngineOf(s.state), SubSeq(written, s.seq + 1, Len(written))).orders
                = Replay(NewEngine, written).orders

(* "Recreate a matching engine from a saved OrderbookSnapshot": a recovery *)
(* that starts from the first snapshot there is ends with the open orders  *)
(* that the whole history of events leaves open.                           *)
RecoveryRestoresTheBook ==
    ~everDiverged =>
        Recovered(snapshots, written, deletedTo).orders = Replay(NewEngine, written).orders
-----------------------------------------------------------------------------
(* The promise to the others *)

(* A snapshot disturbs the book as soon as a recovery has to start from it. *)
Promise == INSTANCE OrderBook WITH
    journal <- [n \in {i \in DOMAIN written : written[i] # Hole} |-> written[n]],
    intact <- ~everDiverged /\ (up \/ snapshots = {}),
    due <- IF stage = "handling" THEN next ELSE 0

(* The persistent actor, with its journal, snapshots, stops and            *)
(* recoveries, does what OrderBook promises: an order and its events are   *)
(* placed at once, handled in order, and the trades are those of one       *)
(* engine that no crash sets back, until a write has been rejected or a    *)
(* recovery has started from a snapshot.                                   *)
ImplementsOrderBook == Promise!Spec
=============================================================================
