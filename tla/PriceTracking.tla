--------------------------- MODULE PriceTracking ---------------------------
(***************************************************************************)
(* The command `price track`: a PriceTrackingActor that asks for the price *)
(* history of a symbol, shows it, subscribes to the live prices and shows  *)
(* them, on a node that stays up; around it the pricing cluster.           *)
(*                                                                         *)
(* Messages may be overtaken, except updates that come through one         *)
(* mediator, and may be lost.  Updates are numbered as they are published. *)
(* A subscription has two answers, to the Subscriber and to the Sender,    *)
(* both the tracker; a MarketSubscribeNack has no handler and is left out. *)
(* In its first state the tracker stashes what is not a snapshot, but      *)
(* nothing else can come to it before it has subscribed.                   *)
(***************************************************************************)
EXTENDS PricingCluster

CONSTANTS
    Symbol,      \* the symbol tracked
    Tracker,     \* the tracker, as a subscriber
    MaxUpdates,  \* bound on the updates published
    MaxFaults    \* bound on the messages lost and subscriptions that fail

ASSUME SymbolAssumption == Symbols = {Symbol} /\ Tracker \notin Nodes
ASSUME MaxUpdatesAssumption == MaxUpdates \in Nat /\ MaxFaults \in Nat

VARIABLES
    mode,        \* the state the tracker is in
    history,     \* the last update of the history shown; 0: none
    current,     \* the last live update shown; 0: none
    fetching,    \* a FetchPriceAndVolume is on its way
    subscribing, \* the number of MarketSubscribes on their way
    snapshots,   \* the answers on their way: the last update of each
    acks,        \* the number of MarketSubscribeAcks on their way
    feed,        \* the updates on their way from each mediator
    published,   \* the number of updates published
    faults       \* history: messages lost and subscriptions that failed

tracker == <<mode, history, current>>
messages == <<fetching, subscribing, snapshots, acks, feed>>
vars == <<cluster, tracker, messages, published, faults>>

TypeOK ==
    /\ ClusterType({Tracker})
    /\ mode \in {"WaitingForPriceHistory", "WaitingForSubscribeAck", "PriceUpdates"}
    /\ history \in 0 .. MaxUpdates
    /\ current \in 0 .. MaxUpdates
    /\ fetching \in BOOLEAN
    /\ subscribing \in 0 .. 2
    /\ snapshots \subseteq 0 .. MaxUpdates
    /\ acks \in 0 .. 4
    /\ feed \in [Nodes -> Seq(1 .. MaxUpdates)]
    /\ published \in 0 .. MaxUpdates
    /\ faults \in 0 .. MaxFaults

(* PreStart: the tracker has asked for the history.                        *)
Init ==
    /\ ClusterInit
    /\ mode = "WaitingForPriceHistory"
    /\ history = 0
    /\ current = 0
    /\ fetching = TRUE
    /\ subscribing = 0
    /\ snapshots = {}
    /\ acks = 0
    /\ feed = [n \in Nodes |-> << >>]
    /\ published = 0
    /\ faults = 0

(* An operator that stands just before another one of nearly its name, or  *)
(* its effect, is a mutated form of it, as in Matching.                    *)

-----------------------------------------------------------------------------
(* The tracker *)

SubscribeWithoutBecoming ==
    /\ mode' = mode
    /\ subscribing' = subscribing + 1

(* The tracker asks for the live prices.                                   *)
BecomeWaitingForSubscribe ==
    /\ mode' = "WaitingForSubscribeAck"
    /\ subscribing' = subscribing + 1

ShowSnapshot ==
    \E last \in snapshots :
        /\ snapshots' = snapshots \ {last}
        /\ IF mode = "WaitingForPriceHistory"
           THEN history' = last /\ BecomeWaitingForSubscribe /\ UNCHANGED current
           ELSE current' = last /\ UNCHANGED <<mode, history, subscribing>>
        /\ UNCHANGED <<cluster, fetching, acks, feed, published, faults>>

(* A snapshot arrives.  Those after the first are not handled.             *)
TakeSnapshot ==
    \E last \in snapshots :
        /\ snapshots' = snapshots \ {last}
        /\ IF mode = "WaitingForPriceHistory"
           THEN history' = last /\ BecomeWaitingForSubscribe
           ELSE UNCHANGED <<mode, history, subscribing>>
        /\ UNCHANGED <<cluster, current, fetching, acks, feed, published, faults>>

(* No snapshot within a second: the tracker goes on without one.           *)
TimeoutForHistory ==
    /\ mode = "WaitingForPriceHistory"
    /\ BecomeWaitingForSubscribe
    /\ UNCHANGED <<cluster, history, current, fetching, snapshots, acks, feed, published, faults>>

AckAsksAgain ==
    /\ acks > 0
    /\ acks' = acks - 1
    /\ mode' = CASE mode = "WaitingForSubscribeAck" -> "PriceUpdates"
                 [] mode = "PriceUpdates" -> "WaitingForSubscribeAck"
                 [] OTHER -> mode
    /\ UNCHANGED <<cluster, history, current, fetching, subscribing, snapshots,
                   feed, published, faults>>

(* The first acknowledgement makes the tracker live, others change nothing. *)
TakeAck ==
    /\ acks > 0
    /\ acks' = acks - 1
    /\ mode' = IF mode = "WaitingForSubscribeAck" THEN "PriceUpdates" ELSE mode
    /\ UNCHANGED <<cluster, history, current, fetching, subscribing, snapshots,
                   feed, published, faults>>

TimeoutGivesUp ==
    /\ mode = "WaitingForSubscribeAck"
    /\ mode' = "PriceUpdates"
    /\ UNCHANGED <<cluster, history, current, fetching, subscribing, snapshots, acks, feed,
                   published, faults>>

(* No acknowledgement within a second: the tracker subscribes once more    *)
(* and takes itself for live.                                              *)
TimeoutForAck ==
    /\ mode = "WaitingForSubscribeAck"
    /\ mode' = "PriceUpdates"
    /\ subscribing' = subscribing + 1
    /\ UNCHANGED <<cluster, history, current, fetching, snapshots, acks, feed, published, faults>>

(* A live update is current, or dropped by a tracker not live yet.           *)
TakeUpdate ==
    \E n \in Nodes :
        /\ feed[n] # << >>
        /\ feed' = [feed EXCEPT ![n] = Tail(@)]
        /\ current' = IF mode = "PriceUpdates" THEN Head(feed[n]) ELSE current
        /\ UNCHANGED <<cluster, mode, history, fetching, subscribing, snapshots, acks,
                       published, faults>>

-----------------------------------------------------------------------------
(* The aggregator and the mediators *)

(* The schedule of PreStart asks for the history every three seconds.      *)
FetchAgain ==
    /\ ~fetching
    /\ fetching' = TRUE
    /\ UNCHANGED <<cluster, tracker, subscribing, snapshots, acks, feed, published, faults>>

(* FetchPriceAndVolume: the last update the aggregator holds may not be    *)
(* the last one published, if it has been recovered since.                 *)
AnswerFetch ==
    /\ fetching /\ host[Symbol] # NoNode
    /\ fetching' = FALSE
    /\ \E last \in IF kills + moves = 0 THEN {published} ELSE 0 .. published :
          snapshots' = snapshots \cup {last}
    /\ UNCHANGED <<cluster, tracker, subscribing, acks, feed, published, faults>>

(* MarketSubscribe: done and acknowledged twice, or refused because the    *)
(* mediator did not answer in time, whether or not it made the             *)
(* subscription.                                                           *)
AnswerSubscribe ==
    /\ subscribing > 0 /\ host[Symbol] # NoNode
    /\ subscribing' = subscribing - 1
    /\ \/ subs' = Registered(Symbol, Tracker) /\ acks' = acks + 2 /\ UNCHANGED faults
       \/ /\ faults < MaxFaults
          /\ faults' = faults + 1
          /\ subs' \in {subs, Registered(Symbol, Tracker)}
          /\ UNCHANGED acks
    /\ UNCHANGED <<alive, host, kills, moves, tracker, fetching, snapshots, feed, published>>

(* PublishEvents: every ten seconds a price update goes out to all the     *)
(* mediators, and from those to their subscribers.                         *)
Publish ==
    /\ host[Symbol] # NoNode
    /\ published < MaxUpdates
    /\ published' = published + 1
    /\ feed' = [n \in Nodes |-> IF n \in Feeding(Symbol, Tracker)
                                THEN Append(feed[n], published + 1) ELSE feed[n]]
    /\ UNCHANGED <<cluster, tracker, fetching, subscribing, snapshots, acks, faults>>

-----------------------------------------------------------------------------
(* Failures *)

(* A message is lost.                                                      *)
Lose ==
    /\ faults < MaxFaults
    /\ faults' = faults + 1
    /\ \/ fetching /\ fetching' = FALSE /\ UNCHANGED <<subscribing, snapshots, acks, feed>>
       \/ /\ subscribing > 0 /\ subscribing' = subscribing - 1
          /\ UNCHANGED <<fetching, snapshots, acks, feed>>
       \/ /\ \E last \in snapshots : snapshots' = snapshots \ {last}
          /\ UNCHANGED <<fetching, subscribing, acks, feed>>
       \/ /\ acks > 0 /\ acks' = acks - 1
          /\ UNCHANGED <<fetching, subscribing, snapshots, feed>>
       \/ /\ \E n \in Nodes : feed[n] # << >> /\ feed' = [feed EXCEPT ![n] = Tail(@)]
          /\ UNCHANGED <<fetching, subscribing, snapshots, acks>>
    /\ UNCHANGED <<cluster, tracker, published>>

(* A node is killed: what its mediator had under way is gone, and so may   *)
(* be the requests it held for its aggregator.                             *)
NodeIsKilled ==
    \E n \in Nodes :
        /\ Kill(n)
        /\ feed' = [feed EXCEPT ![n] = << >>]
        /\ fetching' \in {fetching, FALSE}
        /\ subscribing' \in 0 .. subscribing
        /\ UNCHANGED <<tracker, snapshots, acks, published, faults>>

ClusterActs ==
    /\ Ping(Symbol) \/ Move(Symbol) \/ \E n \in Nodes : Join(n)
    /\ UNCHANGED <<tracker, messages, published, faults>>

Start == Ping(Symbol) /\ UNCHANGED <<tracker, messages, published, faults>>

Next ==
    \/ TakeSnapshot \/ TimeoutForHistory \/ TakeAck \/ TimeoutForAck \/ TakeUpdate
    \/ FetchAgain \/ AnswerFetch \/ AnswerSubscribe \/ Publish
    \/ Lose \/ NodeIsKilled \/ ClusterActs

(* The tracker takes its messages, and its timeouts come when nothing      *)
(* else does; the heartbeat starts the aggregator, which answers.  Nodes   *)
(* need not join again, nor aggregators move.                              *)
Fairness ==
    /\ WF_vars(TakeSnapshot) /\ WF_vars(TakeAck) /\ WF_vars(TakeUpdate)
    /\ WF_vars(TimeoutForHistory) /\ WF_vars(TimeoutForAck)
    /\ WF_vars(Start) /\ WF_vars(AnswerSubscribe)

Spec == Init /\ [][Next]_vars /\ Fairness

-----------------------------------------------------------------------------
(* Properties *)

(* What is shown never goes back: a live update shown is newer than the    *)
(* history and than the one before, whatever is lost, however often the    *)
(* history is sent again and though the subscription is made twice.  The   *)
(* aggregator must not have moved: two subscriptions at two mediators pass *)
(* on everything twice.                                                    *)
ShownInOrder ==
    [][moves = 0 /\ TakeUpdate /\ mode = "PriceUpdates" =>
            current' > current /\ current' > history]_vars

(* Without failures a live tracker misses no update, though it drops those *)
(* that come before the acknowledgement.                                   *)
NoGapOnceLive ==
    [][kills = 0 /\ moves = 0 /\ faults = 0 /\ current > 0 =>
            current' \in {current, current + 1}]_vars

(* A mediator passes the prices of the symbol on to the tracker.           *)
Heard == Feeding(Symbol, Tracker) # {}

(* The retry is worth its while: one request or acknowledgement may be     *)
(* lost, or one subscription fail, and a tracker that takes itself for     *)
(* live will still hear the prices, unless a node is killed.               *)
OneFaultIsSurvived ==
    mode = "PriceUpdates" ~> (Heard \/ kills > 0 \/ faults > 1)

(* What that rests on, at every moment: a live tracker that no mediator    *)
(* has for a subscriber still has a request under way.                     *)
LiveIsHeardOrAsking ==
    mode = "PriceUpdates" /\ kills = 0 => Heard \/ subscribing > 0 \/ faults > 1

(* "The pricing data for the other two nodes you're connected to remains   *)
(* consistent both before, during, and after the fail-over": a tracker on  *)
(* a node that stays up and has shown a price goes on hearing them, or     *)
(* hears them again, after another node was killed.                        *)
FailoverIsFollowed == current > 0 ~> Heard
=============================================================================
