------------------------------ MODULE Trading ------------------------------
(***************************************************************************)
(* The traders of one ticker symbol (BidderActor, AskerActor, which differ *)
(* in the side of their orders only) around its order book: they subscribe *)
(* to the Fill events, then send orders and count the fills they get.      *)
(* The book is OrderBook, which OrderBookActor implements.                 *)
(*                                                                         *)
(* Orders and published fills are messages that may be overtaken or lost.  *)
(* A subscription another node's mediator has not heard of yet is a loss   *)
(* of the messages it would have passed on.  A trader suspends its mailbox *)
(* while it waits for the mediator, so the wait and its outcome are one    *)
(* step.  That the sender of an order is confirmed has no effect on a      *)
(* trader: it has no handler for Confirmation.                             *)
(***************************************************************************)
EXTENDS OrderBookEvents

CONSTANTS
    Traders,   \* the bidders and askers
    OrdersOf   \* the orders each trader is going to send

ASSUME OrdersOfAssumption ==
    /\ OrdersOf \in [Traders -> SUBSET Orders]
    /\ \A o \in Orders : \E t \in Traders : o \in OrdersOf[t]
    /\ \A t, u \in Traders : OrdersOf[t] \cap OrdersOf[u] # {} => t = u

VARIABLES
    journal, book, intact, confirmed, published, due,   \* the order book
    trading,     \* the traders that have become Bidding or Asking
    registered,  \* the mediator's subscribers of the topic of Fill events
    sent,        \* the orders sent: _bids and _asks of all traders
    underWay,    \* the orders on their way to the book
    mail,        \* the published fills on their way to each trader, by number
    fills,       \* _fills of each trader, as the numbers of the events
    faulty       \* history: a message was lost, or the book stopped or was disturbed

Book == INSTANCE OrderBook

bookVars == <<journal, book, intact, confirmed, published, due>>
traderVars == <<trading, sent, fills>>
netVars == <<registered, underWay, mail>>
vars == <<bookVars, traderVars, netVars, faulty>>

Own(t) == sent \cap OrdersOf[t]
OwnIds(t) == {o.id : o \in Own(t)}

(* The numbers of the Fill events in the journal.                          *)
FillNumbers == {n \in DOMAIN journal : journal[n].type = "Fill"}

TypeOK ==
    /\ DOMAIN journal \subseteq Nat
    /\ \A n \in DOMAIN journal : journal[n] \in TradeEvent
    /\ book \in Engine
    /\ intact \in BOOLEAN
    /\ confirmed \subseteq OrderIds
    /\ published \in Seq(Nat)
    /\ due \in Nat
    /\ trading \subseteq Traders /\ registered \subseteq Traders
    /\ sent \subseteq Orders /\ underWay \subseteq Orders
    /\ mail \in [Traders -> SUBSET Nat]
    /\ fills \in [Traders -> Seq(Nat)]
    /\ faulty \in BOOLEAN

Init ==
    /\ Book!Init
    /\ trading = {} /\ registered = {}
    /\ sent = {} /\ underWay = {}
    /\ mail = [t \in Traders |-> {}]
    /\ fills = [t \in Traders |-> << >>]
    /\ faulty = FALSE

(* An operator that stands just before another one of nearly its name, or  *)
(* its effect, is a mutated form of it, as in Matching.                    *)

-----------------------------------------------------------------------------
(* The traders *)

(* DoSubscribe: the mediator answers in time, the trader starts trading.   *)
Subscribe(t) ==
    /\ t \notin trading
    /\ registered' = registered \cup {t}
    /\ trading' = trading \cup {t}
    /\ UNCHANGED <<bookVars, sent, fills, underWay, mail, faulty>>

(* It does not, whether or not it has made the subscription: the trader    *)
(* will ask again.                                                         *)
SubscribeFails(t) ==
    /\ t \notin trading
    /\ registered' \in {registered, registered \cup {t}}
    /\ UNCHANGED <<bookVars, traderVars, underWay, mail, faulty>>

SendBeforeSubscribed(t) ==
    /\ \E o \in OrdersOf[t] \ sent :
        /\ sent' = sent \cup {o}
        /\ underWay' = underWay \cup {o}
    /\ UNCHANGED <<bookVars, trading, fills, registered, mail, faulty>>

(* DoBid / DoAsk: a new order is remembered and sent, once.                *)
Send(t) ==
    /\ t \in trading
    /\ \E o \in OrdersOf[t] \ sent :
        /\ sent' = sent \cup {o}
        /\ underWay' = underWay \cup {o}
    /\ UNCHANGED <<bookVars, trading, fills, registered, mail, faulty>>

CountAnyFill(t) ==
    \E n \in mail[t] :
        /\ mail' = [mail EXCEPT ![t] = @ \ {n}]
        /\ fills' = [fills EXCEPT ![t] = Append(@, n)]
        /\ UNCHANGED <<bookVars, trading, sent, registered, underWay, faulty>>

(* A fill reaches a trader, which counts it if it is one of its own        *)
(* orders; before it trades it has none.                                   *)
TakeFill(t) ==
    \E n \in mail[t] :
        /\ mail' = [mail EXCEPT ![t] = @ \ {n}]
        /\ fills' = [fills EXCEPT ![t] = IF t \in trading /\ journal[n].id \in OwnIds(t)
                                          THEN Append(@, n) ELSE @]
        /\ UNCHANGED <<bookVars, trading, sent, registered, underWay, faulty>>

-----------------------------------------------------------------------------
(* The order book and the messages *)

(* An order reaches the book.                                              *)
Arrive ==
    \E o \in underWay :
        /\ due' = Max(DOMAIN journal \cup {0}) + 1
        /\ Book!Place(o)
        /\ underWay' = underWay \ {o}
        /\ UNCHANGED <<traderVars, registered, mail, faulty>>

(* A handler of the book publishes: the mediator passes a fill on to the   *)
(* subscribers it has at this moment.                                      *)
Handle ==
    /\ Book!Handle
    /\ mail' = IF journal[due].type = "Fill"
               THEN [t \in Traders |-> IF t \in registered THEN mail[t] \cup {due} ELSE mail[t]]
               ELSE mail
    /\ UNCHANGED <<traderVars, registered, underWay, faulty>>

(* An order, or a fill, is lost.                                           *)
Lose ==
    /\ \/ \E o \in underWay : underWay' = underWay \ {o} /\ UNCHANGED mail
       \/ \E t \in Traders : \E n \in mail[t] :
             mail' = [mail EXCEPT ![t] = @ \ {n}] /\ UNCHANGED underWay
    /\ faulty' = TRUE
    /\ UNCHANGED <<bookVars, traderVars, registered>>

(* The book stops with handlers left to run.                               *)
BookStops ==
    /\ due # 0
    /\ Book!Stop
    /\ faulty' = TRUE
    /\ UNCHANGED <<traderVars, netVars>>

(* It is disturbed: the journal rejects the events of an order the engine  *)
(* has taken, or a recovery starts from a snapshot just taken.             *)
BookIsDisturbed ==
    /\ \/ /\ due = 0
          /\ \E o \in underWay :
                /\ underWay' = underWay \ {o}
                /\ \E r \in WithOrder(book, o) : book' = r.engine
       \/ book' = NewEngine /\ UNCHANGED underWay
    /\ Book!Disturb
    /\ faulty' = TRUE
    /\ UNCHANGED <<traderVars, registered, mail>>

Next ==
    \/ \E t \in Traders : Subscribe(t) \/ SubscribeFails(t) \/ Send(t) \/ TakeFill(t)
    \/ Arrive \/ Handle
    \/ Lose \/ BookStops \/ BookIsDisturbed

(* A trader asks the mediator again until it answers, which it does one    *)
(* day; it places orders on a timer.  What has not been lost is delivered, *)
(* and the handlers of a book that runs are run.                           *)
Fairness ==
    /\ \A t \in Traders : WF_vars(Subscribe(t)) /\ WF_vars(Send(t)) /\ WF_vars(TakeFill(t))
    /\ WF_vars(Arrive) /\ WF_vars(Handle)

Spec == Init /\ [][Next]_vars /\ Fairness

-----------------------------------------------------------------------------
(* Properties *)

(* What traders believe is in the journal: each fill a trader has counted  *)
(* is a published Fill event of an order it has sent, and is counted once, *)
(* though the subscription may have been made twice, fills go to all       *)
(* subscribers and the book may have stopped in between.                   *)
FillsAreJournaled ==
    \A t \in Traders :
        /\ \A i \in DOMAIN fills[t] :
              /\ fills[t][i] \in FillNumbers
              /\ journal[fills[t][i]].id \in OwnIds(t)
              /\ fills[t][i] \in Range(published)
        /\ \A i, j \in DOMAIN fills[t] : fills[t][i] = fills[t][j] => i = j

(* The quantity a trader has counted for one of its orders.                *)
Counted(t, o) ==
    Total([i \in DOMAIN fills[t] |->
              IF journal[fills[t][i]].id = o.id THEN journal[fills[t][i]].qty ELSE 0])

(* No trader is filled for more than it asked for, as long as the book is  *)
(* intact: losses and stops make it count less, never more.                *)
NotOverfilled ==
    intact => \A t \in Traders : \A o \in Own(t) : Counted(t, o) <= o.qty

(* Both sides agree on a trade in the end: unless something is lost or the *)
(* book stops, every order a trader has is sent and placed, and every fill *)
(* in the journal is counted by the trader that owns the order.            *)
Settled ==
    /\ sent = Orders
    /\ \A o \in Orders : \E n \in DOMAIN journal : journal[n] = OrderEvent(o)
    /\ \A n \in FillNumbers : \E t \in Traders :
          journal[n].id \in OwnIds(t) /\ n \in Range(fills[t])

TradesAreSettled == <>[](Settled \/ faulty)

(* What that rests on, at every moment: nothing of a trade is forgotten    *)
(* before it is settled.  An order sent is on its way or in the journal,   *)
(* and a fill in the journal has an owner who has counted it, has it in    *)
(* the mail, or is still to be sent it.                                    *)
NothingIsForgotten ==
    ~faulty =>
        /\ \A o \in sent :
              o \in underWay \/ \E n \in DOMAIN journal : journal[n] = OrderEvent(o)
        /\ \A n \in FillNumbers : \E t \in Traders :
              /\ journal[n].id \in OwnIds(t)
              /\ n \in Range(fills[t]) \/ n \in mail[t] \/ (due # 0 /\ n >= due)
=============================================================================
