------------------------------ MODULE WebFeed ------------------------------
(***************************************************************************)
(* The web node: a StockEventConfiguratorActor that subscribes to the      *)
(* events of all symbols through a ClusterClient, the ClientHandlerActor   *)
(* of the node that takes its request, and the pricing cluster.            *)
(*                                                                         *)
(* The sender the handler sees, and subscribes, is the response tunnel the *)
(* receptionist of the contact node keeps for the client: a subscriber is  *)
(* the node of its tunnel.                                                 *)
(***************************************************************************)
EXTENDS PricingCluster

CONSTANT MaxFaults  \* bound on losses, refusals and lost contacts

ASSUME MaxFaultsAssumption == MaxFaults \in Nat

VARIABLES
    starting,  \* a Start is scheduled, or in the configurator's mailbox
    asked,     \* a SubscribeClientAll is held by the ClusterClient or on its way
    contact,   \* the node the ClusterClient is connected to
    requests,  \* the MarketSubscribes on their way: <<symbol, subscriber>>
    faults     \* history: losses, refusals and lost contacts

client == <<starting, asked, contact>>
vars == <<cluster, client, requests, faults>>

TypeOK ==
    /\ ClusterType(Nodes)
    /\ starting \in BOOLEAN
    /\ asked \in BOOLEAN
    /\ contact \in Nodes \cup {NoNode}
    /\ requests \subseteq Symbols \X Nodes
    /\ faults \in 0 .. MaxFaults

(* PreStart: a Start is scheduled and the ClusterClient looks for a node.  *)
Init ==
    /\ ClusterInit
    /\ starting = TRUE
    /\ asked = FALSE
    /\ contact = NoNode
    /\ requests = {}
    /\ faults = 0

(* The symbols whose events reach the web node through some tunnel.        *)
HeardBy(t) == {s \in Symbols : host[s] # NoNode /\ Feeding(s, t) # {}}
Heard == UNION {HeardBy(t) : t \in Nodes}
Silent == Heard = {}

(* An operator that stands just before another one of nearly its name, or  *)
(* its effect, is a mutated form of it, as in Matching.                    *)

-----------------------------------------------------------------------------
(* StockEventConfiguratorActor *)

Start ==
    /\ starting
    /\ starting' = FALSE
    /\ asked' = TRUE
    /\ UNCHANGED <<cluster, contact, requests, faults>>

TimeoutIsForwarded ==
    /\ ~starting
    /\ UNCHANGED vars

(* No message for 15 seconds: the configurator starts over.  The symbols   *)
(* heard send one every ten seconds, yet messages may be late.             *)
Timeout ==
    /\ ~starting
    /\ starting' = TRUE
    /\ UNCHANGED <<cluster, asked, contact, requests, faults>>

-----------------------------------------------------------------------------
(* ClientHandlerActor, behind the receptionist *)

HandleAllUnconnected ==
    /\ asked
    /\ asked' = FALSE
    /\ requests' = requests \cup Symbols \X {contact}
    /\ UNCHANGED <<cluster, starting, contact, faults>>

HandleOneSymbol ==
    /\ asked /\ contact # NoNode
    /\ asked' = FALSE
    /\ \E s \in Symbols : requests' = requests \cup {<<s, contact>>}
    /\ UNCHANGED <<cluster, starting, contact, faults>>

(* SubscribeClientAll: a MarketSubscribe for every symbol.                 *)
HandleAll ==
    /\ asked /\ contact # NoNode
    /\ asked' = FALSE
    /\ requests' = requests \cup Symbols \X {contact}
    /\ UNCHANGED <<cluster, starting, contact, faults>>

(* MarketSubscribe, at the aggregator: done, or refused because the        *)
(* mediator did not answer in time, whether or not it subscribed.  The     *)
(* answers go through the tunnel and are forwarded like any event.         *)
AnswerSubscribe(s, t) ==
    /\ <<s, t>> \in requests /\ host[s] # NoNode
    /\ requests' = requests \ {<<s, t>>}
    /\ \/ subs' = Registered(s, t) /\ UNCHANGED faults
       \/ /\ faults < MaxFaults
          /\ faults' = faults + 1
          /\ subs' \in {subs, Registered(s, t)}
    /\ UNCHANGED <<alive, host, kills, moves, client>>

-----------------------------------------------------------------------------
(* ClusterClient, receptionist and failures *)

(* The ClusterClient finds a node, and sends what it holds.                *)
Connect ==
    /\ contact = NoNode
    /\ contact' \in alive
    /\ UNCHANGED <<cluster, starting, asked, requests, faults>>

(* A message is lost, or the contact with a node that lives.               *)
Lose ==
    /\ faults < MaxFaults
    /\ faults' = faults + 1
    /\ \/ asked /\ asked' = FALSE /\ UNCHANGED <<contact, requests>>
       \/ contact # NoNode /\ contact' = NoNode /\ UNCHANGED <<asked, requests>>
       \/ /\ \E r \in requests : requests' = requests \ {r}
          /\ UNCHANGED <<asked, contact>>
    /\ UNCHANGED <<cluster, starting>>

(* A tunnel stops when nothing has come through it for 30 seconds.  A      *)
(* running aggregator answers the requests it gets sooner than that.       *)
TunnelStops(t) ==
    /\ HeardBy(t) = {}
    /\ \A s \in Symbols : <<s, t>> \in requests => host[s] = NoNode
    /\ subs' = {x \in subs : x[3] # t}
    /\ requests' = {r \in requests : r[2] # t}
    /\ UNCHANGED <<alive, host, kills, moves, client, faults>>

(* With a node go its tunnel and the requests it held for an aggregator.   *)
NodeIsKilled ==
    \E n \in Nodes :
        /\ Kill(n)
        /\ requests' \in SUBSET {r \in requests : r[2] # n}
        /\ contact' = IF contact = n THEN NoNode ELSE contact
        /\ UNCHANGED <<starting, asked, faults>>

Run == \E s \in Symbols : Ping(s) /\ UNCHANGED <<client, requests, faults>>

ClusterActs ==
    /\ \/ \E s \in Symbols : Move(s)
       \/ \E n \in Nodes : Join(n)
    /\ UNCHANGED <<client, requests, faults>>

Next ==
    \/ Start \/ Timeout \/ HandleAll
    \/ \E s \in Symbols, t \in Nodes : AnswerSubscribe(s, t)
    \/ Connect \/ Lose \/ (\E t \in Nodes : TunnelStops(t))
    \/ NodeIsKilled \/ Run \/ ClusterActs

(* The timeout must come only while nothing is heard.  The client connects *)
(* to some node, every aggregator is started and answers each request.     *)
Fairness ==
    /\ WF_vars(Start) /\ WF_vars(Silent /\ Timeout)
    /\ WF_vars(Connect) /\ WF_vars(HandleAll) /\ WF_vars(Run)
    /\ \A s \in Symbols, t \in Nodes : WF_vars(AnswerSubscribe(s, t))

Spec == Init /\ [][Next]_vars /\ Fairness

-----------------------------------------------------------------------------
(* Properties *)

(* Nothing more fails, and every aggregator runs again: one that takes     *)
(* longer than 30 seconds to start may find the tunnel of a request gone.  *)
Calm ==
    /\ kills = MaxKills /\ moves = MaxMoves /\ faults = MaxFaults
    /\ \A s \in Symbols : host[s] # NoNode

(* The receive timeout of the configurator: whatever was lost or killed,   *)
(* a web node that hears nothing will hear something.                      *)
SilenceEnds == Silent ~> ~Silent

(* SubscribeClientAll: once nothing more fails, a request still under way  *)
(* brings the events of all the symbols back, those the web node has been  *)
(* missing while it heard others among them.                               *)
OneRequestIsForAll == asked /\ Calm ~> Heard = Symbols
=============================================================================
