--------------------------- MODULE PricingCluster ---------------------------
(***************************************************************************)
(* The cluster of Akka.CQRS.Pricing.Service nodes as the clients of market *)
(* events meet it: the shard region that runs one MatchAggregator for each *)
(* ticker symbol on some node, and the DistributedPubSub mediator of every *)
(* node.  A MatchAggregator subscribes its clients at the mediator of the  *)
(* node it runs on, and there the subscription stays: it outlives a move   *)
(* of the aggregator, and goes with the node.  PriceTracking and WebFeed   *)
(* extend this module with a client each.                                  *)
(***************************************************************************)
EXTENDS Naturals, Sequences

CONSTANTS
    Nodes,      \* the nodes of the pricing service
    NoNode,     \* where an aggregator is that does not run
    Symbols,    \* ticker symbols
    MaxKills,   \* bound on the nodes that are killed
    MaxMoves    \* bound on the aggregators that are moved

ASSUME NoNodeAssumption == NoNode \notin Nodes
ASSUME MaxKillsAssumption == MaxKills \in Nat /\ MaxMoves \in Nat

VARIABLES
    alive,   \* the nodes that are up
    host,    \* the node each symbol's MatchAggregator runs on
    subs,    \* the mediators' subscribers: <<node, symbol, subscriber>>
    kills,   \* history: nodes killed
    moves    \* history: aggregators moved

cluster == <<alive, host, subs, kills, moves>>

ClusterType(Subscribers) ==
    /\ alive \subseteq Nodes
    /\ host \in [Symbols -> Nodes \cup {NoNode}]
    /\ subs \subseteq Nodes \X Symbols \X Subscribers
    /\ kills \in 0 .. MaxKills
    /\ moves \in 0 .. MaxMoves

ClusterInit ==
    /\ alive = Nodes
    /\ host = [s \in Symbols |-> NoNode]
    /\ subs = {}
    /\ kills = 0
    /\ moves = 0

-----------------------------------------------------------------------------

(* The ping of PriceInitiatorActor, on start and with every heartbeat, or  *)
(* a message for the symbol: an aggregator that does not run is started on *)
(* some node.                                                              *)
Ping(s) ==
    /\ host[s] = NoNode
    /\ \E n \in alive : host' = [host EXCEPT ![s] = n]
    /\ UNCHANGED <<alive, subs, kills, moves>>

(* The node is gone, with its mediator and its aggregators.                *)
Kill(n) ==
    /\ n \in alive /\ kills < MaxKills
    /\ kills' = kills + 1
    /\ alive' = alive \ {n}
    /\ host' = [s \in Symbols |-> IF host[s] = n THEN NoNode ELSE host[s]]
    /\ subs' = {x \in subs : n \notin {x[1], x[3]}}
    /\ UNCHANGED moves

(* A node joins again, with nothing.                                       *)
Join(n) ==
    /\ n \notin alive
    /\ alive' = alive \cup {n}
    /\ UNCHANGED <<host, subs, kills, moves>>

(* Cluster.Sharding stops an aggregator here, to be started elsewhere.     *)
Move(s) ==
    /\ host[s] # NoNode /\ moves < MaxMoves
    /\ moves' = moves + 1
    /\ host' = [host EXCEPT ![s] = NoNode]
    /\ UNCHANGED <<alive, subs, kills>>

(* MarketSubscribe, handled by a running aggregator: the subscription is   *)
(* made at its node's mediator.                                            *)
Registered(s, subscriber) == subs \cup {<<host[s], s, subscriber>>}

(* The mediators that pass the events of a symbol on to a subscriber.      *)
Feeding(s, subscriber) == {n \in alive : <<n, s, subscriber>> \in subs}
=============================================================================
