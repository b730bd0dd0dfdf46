# A verification project for the Akka.CQRS trading sample

The repository is a cluster of services that trade stocks. Traders place bids
and asks; one persistent order book per ticker symbol matches them, journals
what happened and publishes it; aggregators turn the trades into moving
averages of price and volume; command line and web clients follow those. This
directory holds TLA+ models of its logic, the TLC runs that check them, and
proofs for TLAPS.

Paths below are relative to `src/` of the repository unless they name a file of
this directory.

## The system

| Part | State it keeps | Operations |
|---|---|---|
| `Akka.CQRS.Matching/MatchingEngine.cs` with `Akka.CQRS/Entities/Order.cs` | open bids and asks by id; one price index per side | `WithBid`, `WithAsk`, `GetSnapshot`, `FromSnapshot` |
| `Akka.CQRS.TradeProcessor.Actors/OrderBookActor.cs` | the engine of one symbol; through Akka.Persistence a journal and snapshots | orders with or without confirmation, handlers of persisted events, snapshots and clean-up, recovery, trade subscriptions |
| `OrderBookMasterActor.cs` | its children, one per symbol | start and forward |
| `BidderActor.cs`, `AskerActor.cs` | own orders, own fills, confirmation counter | subscribe (retry after 5 s), place an order every 10 s, take fills |
| `Akka.CQRS.Subscriptions` | topics and subscribers, in memory or in the DistributedPubSub mediator | subscribe, unsubscribe, publish |
| `Akka.CQRS.Pricing.Actors/MatchAggregator.cs` | averages, two circular buffers of updates, journal, snapshots | take a match, publish every 10 s, answer queries, recover, market subscriptions |
| `Akka.CQRS.Pricing/Views` | averages (`EMWA`, `MatchAggregate`), `PriceHistory` | pure |
| `Akka.CQRS.Pricing.Subscriptions` | as the trade subscriptions, for market events | |
| `PriceInitiatorActor.cs`, `ClientHandlerActor.cs` | the symbols to ping | heartbeat every 30 s; subscriptions for web clients |
| `Akka.CQRS.Pricing.Cli/PriceTrackingActor.cs` | one of three states, a stash, a timeout | fetch history, subscribe, print updates |
| `Akka.CQRS.Pricing.Web/Actors` | the cluster client | subscribe to all, again after 15 s of silence, forward |
| `Akka.CQRS.Infrastructure`, the `*.Service` projects, serialization | configuration, routing by symbol, wiring | |

How they interact. Traders tell orders, wrapped in a `ConfirmableMessage`, to a
proxy of the shard region `orderBook`; Cluster.Sharding starts the
`OrderBookActor` of the symbol on some node and moves it when nodes leave. The
actor calls its `MatchingEngine` synchronously, writes the order and the
resulting `Fill` and `Match` events with one `PersistAll`, and then, event by
event, confirms the order to its sender and publishes to the topic of the symbol
and the event type. Traders subscribe to `Fill`, match aggregators to `Match`.
The aggregator's own events go out on market topics, to the tracker of the
command line and, through the cluster client receptionist, to the web node.

### What is hard about it

- **The engine keeps each side twice**, in a dictionary and in a price-ordered
  `SortedSet`, and matches from one while it changes the other. The set compares
  prices only, so orders with one price hide each other; `FillOrders` and
  `HasMatches` compute with separate remainders.
- **The engine runs ahead of the journal.** It is updated before `PersistAll`;
  the journal may reject the write, or the process may stop first.
- **Recovery replays orders, not fills**, from a snapshot taken in the middle of
  a batch, while old snapshots and events are deleted asynchronously.
- **Delivery.** Confirmations, published events and subscriptions can be lost;
  orders may be redelivered after they were filled.
- **The read side** saves whole lists per event and replays them onto buffers
  that are not empty, persists asynchronously, and subscribes once per
  incarnation.
- **Clients** race timeouts against acknowledgements.

What makes each part correct: the *engine* loses, invents and doubles no
quantity, settles within both limits, and rests an order only when nothing is
left to trade it with; the *order book* confirms and publishes only what is
journaled, journals an order with its fills or not at all, and comes back from
any crash with the book the journal describes; *traders* count every fill once;
*subscriptions* deliver to exactly those subscribed; the *aggregator* publishes
averages of the matches it has seen and recovers its history; the *tracker* and
the *web feed* eventually show live prices again after a failure.

## Modules

| Module | What it is |
|---|---|
| `Matching` | `MatchingEngine` and `Order` as operators: given an engine and an order, the possible results of a call |
| `MatchingEngine` | the engine as a state machine: any sequence of deliveries, with a log of the trades |
| `OrderBookEvents` | the events an order book makes of an order and its trades |
| `OrderBook` | the abstract order book: what it promises to those around it |
| `Persistence` | what both persistent actors use of Akka.Persistence: journal, snapshot store, calls under way, what a recovery reads |
| `OrderBookActor` | the persistent order book of a symbol with crashes and recovery; implements `OrderBook` |
| `Trading` | bidders and askers, the mediator and a lossy network around `OrderBook` |
| `PriceSeries` | the abstract aggregator: one published series of averages that stops do not break off |
| `MatchAggregator` | the price aggregator of a symbol with what surrounds it: order book, mediator, clients, heartbeat; implements `PriceSeries` |
| `PricingCluster` | the nodes of the pricing service: shard region and mediators, with nodes killed and aggregators moved |
| `PriceTracking` | the command `price track` in that cluster |
| `WebFeed` | the web node's subscription through the cluster client in that cluster |
| `MCMatchingEngine`, `MCOrderBookActor`, `MCTrading` | instances for TLC; the other modules are instantiated by their `.cfg` files directly |
| `MatchingProofs`, `CallProofs`, `PersistenceProofs` | lemmas about the operators of `Matching` (sums among them), `OrderBookEvents` and `Persistence` |
| `MatchingEngineProofs`, `OrderBookActorProofs`, `TradingProofs`, `MatchAggregatorProofs`, `PriceTrackingProofs` | the inductive invariants and the theorems |

`OrderBook` is the joint between the write side's two halves: `OrderBookActor` is
shown to implement it, and `Trading` builds on it instead of on the actor with
its journal, so that each half stays small enough for TLC.

### Matching

The two sides are mirror images in the code (`WithAsk`/`WithBid`), so an engine
is a record of two functions of the side: `orders[side]`, the values of the
dictionary, and `index[side]`, the sequence an enumeration of the `SortedSet`
yields. `PriceIndexes(orders)` is every `SortedSet` those orders can give: one
order of each price, ascending, whichever survives. `HasMatches(o, ix)` is the set
of positions that loop selects, from what the entries before each one offer
(`Offered`); `Traces(o, ix)` is the loop over those matches, written as what is left
of the incoming order after each entry, from which `FillOrders` computes what is
sold. The two remainders are separate, as in the code. `UpdateOrders`, `Rested` and
`Reindexed` are what the call does to the dictionaries and indexes afterwards, and
`WithOrder` adds the check for duplicates. There is one trace, so a call is
nondeterministic only in which of the equals an index keeps.

Abstractions: fills of an order are kept as their sum; quantities are whole and
positive, as the traders draw them (`BidderActor.CreateBid`, 1 to 19), so doubles
are exact and `Epsilon` never decides; timestamps, the symbol and the aggregate
quantities of a snapshot are left out. Traders' random decimal prices are a set
of naturals: the engine only compares them.

### MatchingEngine

`DeliverNew` delivers an order with a fresh id, `Redeliver` one that was
delivered before, whether it is open, partly filled or complete: orders come in
`ConfirmableMessage`s, whose purpose is that an unconfirmed sender sends again.
`log`, `submitted`, `deliveries` and `accepted` are history.

### Persistence

Akka.Persistence and its MongoDb plugins are not in the repository; this module
is their behaviour as the actors rely on it. `written` is the journal by sequence
number, of which `deletedTo` says how much has been deleted. A batch is written
at once (`Write`) or rejected (`Reject`), when its numbers become `Hole`s that
recovery gives out again if they are trailing. `SaveSnapshot`, `DeleteSnapshots`
and `DeleteMessages` are asynchronous: `requests` holds the calls under way, which
are carried out in any order. A call that fails is one that is not carried out
before a crash; the actors have no handlers for the failure messages.
`SaveSnapshotSuccess`, the same handler in both actors, is here too. Nothing of
an actor that has stopped is still under way when the next one recovers.

### OrderBookActor

| Code | Model |
|---|---|
| `ProcessBid`, `ProcessAsk` | `Process`: engine, then `PersistAll`; `stage` keeps the actor from taking another message |
| the journal writes or rejects the batch | `WriteMessages` (atomic), `RejectMessages` (numbers used, no handler runs, the actor goes on) |
| `PersistTrade`, once per event | `PersistTrade`: confirm, publish, snapshot every `SnapshotInterval` events |
| `SaveSnapshotSuccess` | `CleanUp`: request both deletions |
| snapshot store and journal | `Stores` |
| stop of the process, hand-off, failed write | `Crash`: volatile state, mailbox and calls under way are gone |
| `Recovers` | `Restart`: the latest snapshot, then the events after it |

To keep replay deterministic, as
the program's is, the engine keeps the `CHOOSE`n one of orders with one price.
`diverged` and `everDiverged` remember whether a write was rejected or
a recovery started from a snapshot. The properties that speak of the journal's
book are conditional on that: a rejected write knowingly leaves the engine ahead
of the journal, and recovery from a snapshot does not restore the book at all
(see the findings), so after either nothing of the kind holds.

`TradeSubscribe`, `TradeUnsubscribe`, `Terminated` and `GetOrderBookSnapshot` have
no action: the deployed actor has the NoOp subscription manager
(`OrderBookActor.cs:48`), whose answers change no state. That Cluster.Sharding runs
one incarnation at a time is assumed.

### OrderBook

`Place` takes an order and puts it and all its events into the journal; `Handle`
runs the handler of the event that is due, which confirms the order and
publishes; `Stop` leaves out the handlers that have not run; `Disturb` is what the
actor does to its engine when a write is rejected or a recovery starts from a
snapshot. Sequence numbers may skip, since rejected batches use them up. The
refinement mapping is the `INSTANCE` at the end of `OrderBookActor`: the journal
without its holes, `intact` while nothing has diverged and no snapshot stands
ready to be recovered from, `due` the event being handled.

| Step of `OrderBookActor` | Step of `OrderBook` |
|---|---|
| `Process`, `Stores`, `CleanUp`, `Restart` | none |
| `WriteMessages` | `Place` |
| `PersistTrade` | `Handle` |
| `RejectMessages` | `Disturb` |
| `Crash` | `Stop`, or `Disturb` if a snapshot is in the store |

### Trading

| Code (`BidderActor`, and `AskerActor` likewise) | Model |
|---|---|
| `DoSubscribe`, answered in time | `Subscribe` |
| the mediator's answer is late; `DoSubscribe` again after 5 s | `SubscribeFails`, whether or not the mediator made the subscription |
| `DoBid`, every 10 s | `Send` |
| `Command<Fill>` | `TakeFill` |
| the order book | `Arrive`, `Handle`, `BookStops`, `BookIsDisturbed`: the actions of `OrderBook` with the messages that go in and out |
| network and mailbox | `underWay` and `mail` are sets: anything may overtake anything; `Lose` |

A trader restarted would draw a new id and forget its orders; that is left out. A
subscription that another node's mediator has not heard of yet is a loss of the
messages it would have passed on. For an engine that the journal does not explain,
`BookIsDisturbed` takes two representatives: the empty one, and the present one
with one order more.

### MatchAggregator

| Code | Model |
|---|---|
| `Command<Match>` | `ReceiveMatch`: taken up if registered, unless lost |
| `Command<PublishEvents>`, on the timer | `PublishEvents`: buffers, `PersistAsync`, publication |
| the journal takes the saved states one by one | `WriteMessage` |
| handler of `PersistAsync` | `HandlePersisted`, later and between any other messages |
| `SaveSnapshotSuccess`, the stores | `CleanUp`, `Stores` |
| `DoSubscribe`, `OnReplaySuccess` | `DoSubscribe`, `DoSubscribeFails`; `Start` sets `subscribing` |
| `MarketSubscribe`, `MarketUnsubscribe`, `Terminated` | the actions of these names; an acknowledgement may come too late though the mediator did its part. `MarketUnsubscribe` names a topic nobody is on, of which the mediator says nothing (`UnsubscribeOutcomes`): it is always refused |
| `Recovers`, `RecoverAggregateData` | `Start`, `Recovered`, `Replay`, `RecoverAggregateData` |
| `PriceInitiatorActor` | `Ping` |

Abstractions: an average (`EMWA`, `MatchAggregate`) is the sequence of the
matches it has taken up, which determines its value; price and volume, which are
always updated together, are one; updates are ten seconds apart, so their times
are numbers counted up; a handler that awaits the mediator takes no other
message, so the wait and its outcome are one step. `FetchPriceAndVolume` only
reads the buffers.

### PriceSeries

What those who follow the prices can rely on, without events, snapshots, deletions
or replays. `Take` counts a match or never hears of it; `Publish` adds the averages
to the series, to be kept as well; `Keep` keeps the oldest update still to be kept,
or drops it; `Stop` forgets the averages and what was still to be kept; `Start` goes
on with the averages of the newest update that was kept. The refinement mapping is
the `INSTANCE` at the end of `MatchAggregator`: `keeping` is the numbers of the newest
updates in the states being written, `kept` that of the newest state in the journal,
or 0.

| Step of `MatchAggregator` | Step of `PriceSeries` |
|---|---|
| `ReceiveMatch` | `Take` |
| `PublishEvents` | `Publish` |
| `WriteMessage` | `Keep` |
| `Crash` | `Stop` |
| `Ping` | `Start` |
| all others | none |

`PriceSeries` says nothing of the buffers of updates: what a recovery makes of those
is the finding `price_history`, and `FullHistoryIsRestored` is what remains true.

### PricingCluster, PriceTracking, WebFeed

An aggregator subscribes its clients at the mediator of its own node
(`MatchAggregator.cs:221`); the subscription stays there when the aggregator moves,
and goes with the node. `PricingCluster` is that: `Ping` starts an aggregator on a
node, `Kill`, `Join` and `Move` are what happens to nodes and aggregators, `subs`
is what the mediators know.

| Code of `PriceTrackingActor` | Model |
|---|---|
| `WaitingForPriceHistory`: snapshot, timeout of 1 s | `TakeSnapshot`, `TimeoutForHistory` |
| `WaitingForSubscribeAck`: ack, timeout of 1 s | `TakeAck`, `TimeoutForAck` |
| `PriceUpdates` | `TakeUpdate` |
| `PreStart`: fetch every 3 s | `FetchAgain` |
| `MatchAggregator` as it sees it | `AnswerFetch`, `AnswerSubscribe`, `Publish` |

Updates are numbered in the order they are published, so an order of what is
shown can be spoken of. A subscription has two answers, since both the subscriber
and the sender are told. Messages may be overtaken, except updates from one
mediator; `Lose` loses any of them. After a move between two subscriptions two
mediators pass on every update, which is why `ShownInOrder` speaks of aggregators
that have not moved.

| Code of the web node | Model |
|---|---|
| `StockEventConfiguratorActor`: `Start`, `ReceiveTimeout` of 15 s | `Start`, `Timeout` |
| `ClusterClient`: a contact, buffered messages | `Connect`, `asked`, `contact` |
| `ClientHandlerActor.SubscribeClientAll` | `HandleAll`: a `MarketSubscribe` for every symbol |
| `MatchAggregator` | `AnswerSubscribe` |
| the receptionist's response tunnel, gone after 30 s of silence | `TunnelStops`, which takes its subscriptions along |

The subscriber the aggregator sees is the tunnel on the contact node, so the web
node has as many subscriber identities as there are nodes.

## Runs

### `matching_engine` (pass)

Four orders, each delivered up to twice, sides, prices 1..3 and sizes 1..2
chosen freely: 232,788 states up to symmetry. Four orders reach every case of a
call: an order that takes two others and part of neither, a partial fill on
either side, equal prices on both, a duplicate of an open, a partly filled and a
completed order. With two sizes a fill completes the incoming order, the resting
one or both. The engine never stops by itself; the bound on deliveries does, so
deadlock is not checked.

- `IndexesAreFresh`: the indexes are indexes of the current open orders.
- `FillsAccountForAcceptances`: for each order, fills so far and what is open
  add up to its size times the number of times it was accepted as new.
- `NotCrossed`: the book does not rest crossed while no price is used twice on
  a side. The condition is needed: of two asks with one price the index hides
  one, and a bid may rest above it.
- `SettledWithinLimits`: every trade is between the limits of its orders.
- `RestsOnlyWhenExhausted`: an order that rests leaves nothing in the index it
  could have traded with.
- `MatchesAreTraded`: the orders `HasMatches` selects are those that get a fill, of
  more than nothing, and no others do: the two remainders of a call agree.
- `BuyersGetTheCheapestAsks`: a bid never leaves a cheaper ask open than one it
  traded with.

### `order_book_actor` (pass)

Two asks and a bid that takes one and part of the other, in any order of arrival,
one of them delivered twice, snapshot every fourth event: 202,238 states. The
nine or more events of such a history give two snapshots, so saves and deletions
of both overlap; a snapshot falls at the start of a batch or inside one depending
on the order of arrival. Crashes are not bounded. Deadlock is checked:
an actor that is up may crash, one that is down may restart, so this says little
more than that no expression gets stuck.

- `EngineMatchesJournal`: the engine is the replay of the journal and of the
  batch being written.
- `JournalAccountsForTheBook`: fills in the journal and what the journal leaves
  open add up, for orders delivered once.
- `ConfirmedIsJournaled`: a confirmed order is in the journal.
- `PublishedFollowsJournal`: publications follow journal order, at most once
  each, only of written events, and are complete unless the process stopped.
- `NothingNeededIsDeleted`: whatever is deleted is covered by a stored snapshot.
- `SnapshotsAreSoundCuts`: a snapshot taken in mid-batch, with the events after
  its number applied to it, gives the journal's book. (Replaying an order a
  snapshot already contains is ignored as a duplicate, and the fills of a batch
  are not replayed; were the order event the last of its batch, a snapshot before
  it would count it twice.)

- `ImplementsOrderBook` (refinement): every step is a step of `OrderBook` or
  none, so that a crash at any moment leaves an order placed with all its events
  or not at all.

### `trading` (pass)

Two traders, one with two asks and one with a bid that takes one and part of the
other: 351,288 states. There are fills of complete and of partly filled orders, on
both sides, and fills that a trader is sent which concern another's order.
Subscriptions may fail any number of times; losses, stops and disturbances are
not bounded (orders are sent once, so their number is). The system rests when all
is settled or lost, except that a disturbance is always possible, so deadlock
says little.

- `FillsAreJournaled`: what a trader has counted is in the journal, published,
  its own and counted once.
- `NotOverfilled`: while the book is intact no trader counts more than it asked for.
- `NothingIsForgotten`: until something fails, an order sent is on its way or in the
  journal, and every fill in the journal has an owner who has counted it, has it in
  the mail, or is still to be sent it. This is why a trader must have subscribed
  before it sends: the fills of its order may be published at once.
- `TradesAreSettled` (liveness): unless something is lost or the book stops, all
  orders are placed and every fill is counted by its owner. Fairness: a trader asks
  the mediator until it answers and places orders on a timer; mailboxes are
  processed.

### `match_aggregator` (pass)

Two matches, four publications, buffers of two, a snapshot every second event, a
client, two stops: 337,955 states. Four publications over buffers of two overwrite
a full buffer, and give two snapshots whose clean-up overlaps; with two stops a
recovery can follow a recovery. Writes may be rejected at any time. Deadlock is
checked; the client may always act, so it shows only that no expression gets
stuck.

- `RecoveryKeepsTheAverages`: a recovery at any moment gives the averages of the
  newest stored state, whatever was deleted or is under way.
- `FullHistoryIsRestored`: a full buffer in the newest state is recovered exactly,
  though it is put together from several overlapping states.
- `JournalFollowsPublications`: the newest updates of the states written and being
  written are a subsequence of what was published, and all of it unless the actor
  stopped or a write was rejected.
- `AveragesExtendTheStored`: a running aggregator is never behind its journal and
  counts no match twice.
- `ImplementsPriceSeries` (refinement): every step is a step of `PriceSeries` or none,
  so that a recovery from any mixture of snapshot and events goes on with the
  averages of exactly the newest update that was kept.
- `AggregatorComesBack` (liveness): after every stop the aggregator runs and is
  registered for matches again. Fairness: `Ping`, since `PriceInitiatorActor`
  repeats its heartbeat every 30 seconds and shard regions start an entity that is
  pinged; and `DoSubscribe`, since it is scheduled again 5 seconds after each
  failure and the mediator is taken to answer in time eventually. Nothing else is
  assumed fair. Stops are bounded, so the property says that it comes back once
  it is left alone.

### `price_tracking` (pass)

Two nodes, one kill, one move, one lost message or failed subscription, three
updates: 586,671 states. With two nodes there is one that survives; one kill and
one move together let the aggregator leave a node and come back to it. Three
updates are enough for one before the acknowledgement and two after it.

- `ShownInOrder`: what is shown never goes back.
- `NoGapOnceLive`: without failures no update is missed, once one is shown.
- `LiveIsHeardOrAsking`: a tracker that takes itself for live is passed the prices or
  has a request under way, unless a node was killed or two things failed.
- `OneFaultIsSurvived` (liveness): with one message lost or one subscription
  refused, a tracker that takes itself for live hears the prices, unless a node is
  killed. Fairness: the tracker's mailbox and its timeouts, the heartbeat that
  starts the aggregator, which answers subscriptions. Nodes need not join again, nor
  aggregators move.

### `web_feed` (pass)

Two nodes, two symbols, one kill, one move, one fault: 98,702 states. Two symbols
let one be heard while the other is not, the case in which the timeout of 15
seconds does not come.

- `SilenceEnds` (liveness): a web node that hears nothing hears something again.
- `OneRequestIsForAll` (liveness): once nothing more fails and every aggregator
  runs, a request under way brings the events of all symbols back. Fairness: the
  configurator's mailbox, its timeout while it hears nothing, the client's search
  for a contact, the heartbeat, and answers to each request. It is not promised that
  a request will be made while one symbol is heard and another is not, and the
  code makes none.

### Runs that end in a violation

| Run | What the source says | What happens |
|---|---|---|
| `sellers_price` | "If we're selling, we want the highest possible price" (`MatchingEngine.cs:258`) | the `SortedSet` enumerates ascending whatever the `OrderBy` before it; an ask takes the lowest bid at or above its limit first |
| `snapshot_state` | "The full state of the current order book" (`OrderbookSnapshot.cs:18`) | of orders with one price the snapshot has one |
| `recovery_of_the_book` | "Recreate a matching engine from a saved OrderbookSnapshot" (`MatchingEngine.cs:56`) | the engine made from a snapshot is empty; after the clean-up the open orders are lost |
| `price_history` | "Fetch the N most recent price and volume updates" (`FetchPriceAndVolume.cs:8`) | the stored states overlap and are all enqueued at recovery; a buffer that was not full repeats its entries |
| `market_unsubscribe` | "Unsubscribe to trade events for the specified ticker symbol" (`MarketUnsubscribe.cs:6`) | the topic is named after the `PersistenceId` and nobody is on it: the mediator does not answer, the `Ask` times out, and the client is refused however often it asks, and stays subscribed |
| `failover_of_the_feed` | "What you should see is that the pricing data for the other two nodes you're connected to remains consistent both before, during, and after the fail-over" (`README.md:285`) | the tracker's subscription goes with the node that is killed; the aggregator comes up elsewhere and knows nothing of it, and a live tracker never asks again |

The first two need no redelivery, the third a single crash; `price_history` needs
one stop, `market_unsubscribe` none, `failover_of_the_feed` one killed node and no
other fault. `market_unsubscribe` is about a client that asks again whenever it is
refused (`InsistentSpec`): the fairness of its requests belongs to the question, not
to the code, and makes it the strongest one, since no retry helps. Were the topic
named by the ticker symbol, the property would hold.

The mutated operators that stand in the modules just before the definitions they
alter (`MatchStrict`, `DeleteItsOwnSnapshot`, ...) show that each property can fail:
put in place of the original, each makes TLC report the property named for it in
`PROJECT.json`.

Of the engine and the order book no liveness is checked, and no fairness assumed:
an actor that is killed again and again places nothing.

## Proofs

The theorems hold for every value of the constants: any number of orders, prices,
traders, nodes, crashes. The assumptions are the named `ASSUME`s beside the constants.

| Theorem | States of its module's `Spec` |
|---|---|
| `MatchingEngineProofs!TypeCorrect`, `IndexesStayFresh`, `NeverCrossed`, `RestsOnlyExhausted`, `MatchesGetTraded` | `[]TypeOK`, `[]IndexesAreFresh`, `[]NotCrossed`, `RestsOnlyWhenExhausted`, `MatchesAreTraded` |
| `MatchingEngineProofs!SettledBetweenLimits`, `CheapestAsksFirst`, `BookAgreesWithFills` | `[]SettledWithinLimits`, `BuyersGetTheCheapestAsks`, `[]FillsAccountForAcceptances` |
| `OrderBookActorProofs!TypeCorrect`, `JournalGivesTheEngine`, `ConfirmedOrdersAreJournaled`, `PublishedInJournalOrder`, `BookKeepsWhatItNeeds` | `[]TypeOK`, `[]EngineMatchesJournal`, `[]ConfirmedIsJournaled`, `[]PublishedFollowsJournal`, `[]NothingNeededIsDeleted` |
| `OrderBookActorProofs!JournalAccounts`, `SnapshotsCutSoundly` | `[]JournalAccountsForTheBook`, `[]SnapshotsAreSoundCuts` |
| `OrderBookActorProofs!BookKeepsItsPromise` | `ImplementsOrderBook`, the refinement |
| `TradingProofs!TypeCorrect`, `CountedFillsAreJournaled`, `NobodyIsOverfilled` | `[]TypeOK`, `[]FillsAreJournaled`, `[]NotOverfilled` |
| `TradingProofs!NoTradeIsForgotten`, `SettledAtRest` | `[]NothingIsForgotten`, and that without a failure the system at rest is `Settled` |
| `MatchAggregatorProofs!TypeCorrect`, `AggregatorKeepsWhatItNeeds` | `[]TypeOK`, `[]NothingNeededIsDeleted` |
| `MatchAggregatorProofs!RecoveryRestoresTheAverages`, `RecoveryRestoresTheHistory` | `[]RecoveryKeepsTheAverages`, `[]FullHistoryIsRestored` |
| `MatchAggregatorProofs!JournalFollows`, `AveragesGoOn` | `[]JournalFollowsPublications`, `[]AveragesExtendTheStored` |
| `MatchAggregatorProofs!AggregatorKeepsItsPromise` | `ImplementsPriceSeries`, the refinement |
| `PriceTrackingProofs!TypeCorrect`, `PricesAreShownInOrder`, `NothingIsMissed` | `[]TypeOK`, `ShownInOrder`, `NoGapOnceLive` |
| `PriceTrackingProofs!ALiveTrackerIsHeardOrAsking` | `[]LiveIsHeardOrAsking` |

Each rests on an inductive invariant `IInv` (theorem `Invariance` where it is worth
citing). What needs more than that has an invariant of its own that is inductive
given `IInv`: the accounts of the engine and of the order book, the cuts, the ledger
of the traders and what they have not forgotten, what the aggregator's journal
follows, and the requests of the tracker. All of them were checked
by TLC, on the instances of the runs, before they were proved.

**Sums and replays.** A sum (`Total`) and a replay are recursive functions, of
which the library's induction theorems cannot be used here. The proofs reason
about the sequence of intermediate results instead, by the least place where it
would go wrong. `MatchingProofs` has the lemmas about sums this gives: of a
concatenation (`TotalConcat`), of one entry and of the others (`TotalOne`,
`TotalWithout`), of entries picked once each (`TotalPicked`).

**The engine.** `TypeOK` is not inductive: that an order is not filled beyond its
size needs every open order to have something left (`OpenOrder`), and that updates
hit the right orders needs ids to be unique on a side, the sides to be finite and
the indexes to be indexes of them: `SoundEngine`. `NotCrossed` speaks of submitted
prices, so it also needs every open order to be one that was submitted at that
price (`OpenWasSubmitted`), with one id per submission (`SubmittedOK`).
The step splits as the code does. `MatchingProofs` shows that what `HasMatches` has
still to cover is at every entry what the loop has left to sell (`RemaindersAgree`),
so that the entries traded with are its matches (`HitsAreMatches`), which is what
`MatchesAreTraded` needs; that a trace only decreases (`TraceFacts`), that while
something is left every match is filled
completely (`LeftBefore`, `Exhausted`), that the entries traded with are
consecutive, so that the trades returned are exactly theirs (`HitsAreConsecutive`,
`TradesAreHits`), that the sides stay sound and the rebuilt indexes are indexes
(`UpdateOrdersSound`, `RestedSound`, `ReindexedSound`), and puts it together for a
call (`ResultsSound`). `StepNotCrossed` and `StepCheapestAsks` are the heart: while
prices are distinct an index hides nothing (`IndexIsComplete`), and what it lists
before the last trade has been traded away.

`FillsAccountForAcceptances` is inductive with the remark that an id nobody has used
has no fills (`Accounts`), since the first delivery of an order starts from there. An
order must be open at most once, on one side (`OpenOnce`), or what is open of it is no
amount. Of a call it is shown that its trades take from each resting order what they
fill it for, and that the incoming order rests with what its trades have left.

**The stores.** `PersistenceProofs` has the invariant of any actor that writes,
snapshots and cleans up (`SoundStores`): whatever is deleted, or asked to be,
is covered by a snapshot in the store. Every operation keeps it, so both actors get
`NothingNeededIsDeleted` from it.

**The order book.** `CallProofs` shows that a call of a sound engine has a result,
which needs that a trace and an index always exist. `IInv` then ties engine and
journal together by stages: while a batch is being written, engine and batch are
the outcome of the book's own call; otherwise the engine is the book; what remains
to be handled is written and unpublished (`Stages`); and until something has
diverged the book is the replay of the journal (`BookIsReplayed`). The refinement
follows with one lemma per step.

`JournalAccountsForTheBook` speaks of orders delivered once. Its invariant
(`Accounts`) must also say that an order is journaled, or about to be, only if it was
delivered, and that one delivered once is not journaled while its batch is still to be
written: otherwise a write could journal it a second time. `SnapshotsAreSoundCuts`
holds because every handler of a batch takes its snapshot of an engine that has
already done with the whole batch: the events still to be handled must hold no order
event (`Cuts`), which is what putting the order before its fills brings about. The
snapshot lists an engine by its indexes, so it gives the engine again only where
prices are distinct, when there is one index (`OneIndex`).

**The traders.** Besides `FillsAreJournaled` the invariant says that published
events precede the one that is due (`PublishedBeforeDue`), hence that a number is
published once, and that mail to a trader holds only fills it has not counted
(`MailIsNew`). For `NotOverfilled`, the fills a trader has counted are entries of the
journal picked once each; what the journal fills an order for and what the book has
left of it never exceed the order's quantity, and are nothing before the order has
arrived (`Ledger`): so an arrival is the order's first.

For `NothingIsForgotten` the book must fill nobody else's orders: whatever it holds
open or has filled was sent by a trader (`OnlySentOrders`), of a call's trades because
they are between the incoming order and open ones; and who has sent an order has
subscribed (`SendersListen`). So a fill that is published goes into the mail of its
owner. A handler runs before the next order is placed, hence the fills of a new call
are all still due. `SettledAtRest` follows at once: where no mail and no handler is
left, the only place for a fill is with its owner.

**The aggregator.** Snapshots, stored or being stored, are states of the journal
(`SnapshotsAreJournaled`), and `SoundStores` keeps the latest one ahead of what was
deleted; so a recovery always ends with the newest state of the journal, whether that
comes from the snapshot or from an event after it (`RecoveryFacts`). Its averages are
taken over, and a full buffer pushes out whatever was recovered before it
(`RecoverFacts`). `Follows` ties journal, states under way, publications and running
averages together: each state ends with an update as published, later states have
later updates and averages that extend the earlier ones, the running averages extend
them all, and matches are counted in their order. The last needs that no average
counts a match still to come. A recovery keeps it because it takes up the newest
state, whose averages extend those of all the others. The refinement of
`PriceSeries` needs no invariant more: by `Follows` the newest update of each state is
the one published under its number, and has the averages of the state, and by
`RecoveryFacts` those are what a recovery restores. It has one lemma per kind of step.

**The tracker.** Nothing is on its way before the history is shown
(`NothingBeforeTheHistory`); an aggregator that has not moved has used one mediator
(`OneMediator`); what is on its way from it is newer than what was shown and in
order (`FeedsInOrder`), and complete without failures (`FeedsAreFull`); each
subscription is answered twice at most (`Counts`).

`LiveIsHeardOrAsking` needs to count: while no node was killed and no mediator has the
tracker for a subscriber, nothing has been acknowledged, so the requests under way and
the faults there were are at least one while it waits and at least two once it is live
(`AsksEnough`). An answer ends that, since the aggregator runs on a node that is up
(`HostLives`) and subscribes it there.

Only model-checked: liveness (`TradesAreSettled`, `AggregatorComesBack`,
`OneFaultIsSurvived`, `SilenceEnds`, `OneRequestIsForAll`), which with `ENABLED` is
out of the prover's reach, though `SettledAtRest` and `LiveIsHeardOrAsking` are the
safety that the first and the third of them rest on; and the types of `WebFeed`, whose properties are all
liveness. Every other invariant and action property of the passing runs is a theorem.

## Not modelled, and why

- `OrderBookMasterActor`, the in-memory publishers and the actor-based
  subscription managers: only tests use them. Sharding starts the order books, and
  the mediator publishes.
- `PriceHistory`: only its tests use it. (Its `Prune` keeps the entries its comment
  says to delete.)
- The arithmetic of the averages: decimals, with no property of the system about it.
- Routing, service hosts, HOCON configuration and container set-up: wiring without
  state of their own. That one symbol is served by one actor at a time is what the
  models assume of Cluster.Sharding.
- SignalR hub, controllers and console output: pure I/O. Serialization copies
  fields into generated classes. `wwwroot` holds vendored scripts, none of them
  the system's own logic, which is all in C#.

`PROJECT.json` lists every component with its status, under `map` the lines each
definition stands for, and under `hazards` what each part is exposed to and the
properties that would show it.

## What could come next

A trader's restart, with orders that outlive their owner; the composition of
`OrderBook` and `MatchAggregator`, so that matches lost before the aggregator
subscribes are counted against the journal of the order book.
