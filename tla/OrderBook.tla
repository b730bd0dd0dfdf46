----------------------------- MODULE OrderBook -----------------------------
(***************************************************************************)
(* What the order book of a ticker symbol promises to those around it,     *)
(* with no word about snapshots, recoveries or a journal's internals:      *)
(* OrderBookActor is shown to implement it, Trading builds on it.          *)
(*                                                                         *)
(* An order is placed together with all the events it causes, or not at    *)
(* all.  Then its events are handled one by one, in order: the order is    *)
(* confirmed, each event is published.  A stop leaves out the handlers     *)
(* that have not run, and nothing else.  The trades are those of the       *)
(* matching engine on the orders in the journal, as long as the book is    *)
(* intact; a rejected write, or a recovery from a snapshot, disturbs it.   *)
(***************************************************************************)
EXTENDS OrderBookEvents

VARIABLES
    journal,    \* the events placed so far, by their sequence numbers
    book,       \* the engine that takes the next order
    intact,     \* nothing has disturbed the book
    confirmed,  \* ids of the orders confirmed to their senders
    published,  \* sequence numbers of the published events, in order
    due         \* the event whose handler runs next; 0: the book is idle

vars == <<journal, book, intact, confirmed, published, due>>

Init ==
    /\ journal = << >>
    /\ book = NewEngine
    /\ intact = TRUE
    /\ confirmed = {}
    /\ published = << >>
    /\ due = 0

-----------------------------------------------------------------------------

(* The journal with a batch of events from number first on.                *)
Extended(first, batch) ==
    [n \in DOMAIN journal \cup first .. first + Len(batch) - 1 |->
        IF n \in DOMAIN journal THEN journal[n] ELSE batch[n - first + 1]]

(* An idle book takes an order.  Its events get numbers that have not been *)
(* used; some may have been skipped.                                       *)
Place(o) ==
    /\ due = 0
    /\ due' \in Nat /\ due' > 0
    /\ \A n \in DOMAIN journal : n < due'
    /\ \E r \in WithOrder(book, o) :
        /\ journal' = Extended(due', PersistableEvents(o, r.trades))
        /\ book' = r.engine
    /\ UNCHANGED <<intact, confirmed, published>>

HandleFirstOnly ==
    /\ due \in DOMAIN journal
    /\ confirmed' = IF journal[due].type = "Order"
                    THEN confirmed \cup {journal[due].order.id} ELSE confirmed
    /\ published' = Append(published, due)
    /\ due' = 0
    /\ UNCHANGED <<journal, book, intact>>

(* The handler of the event that is due.  (Before it stands a mutated      *)
(* form, as in Matching.)                                                  *)
Handle ==
    /\ due \in DOMAIN journal
    /\ confirmed' = IF journal[due].type = "Order"
                    THEN confirmed \cup {journal[due].order.id} ELSE confirmed
    /\ published' = Append(published, due)
    /\ due' = IF due + 1 \in DOMAIN journal THEN due + 1 ELSE 0
    /\ UNCHANGED <<journal, book, intact>>

(* The book stops and comes back: handlers that have not run never will.   *)
Stop ==
    /\ due' = 0
    /\ UNCHANGED <<journal, book, intact, confirmed, published>>

(* It comes back with, or goes on with, an engine the journal does not     *)
(* explain.                                                                *)
Disturb ==
    /\ due' = 0
    /\ intact' = FALSE
    /\ book' \in Engine
    /\ UNCHANGED <<journal, confirmed, published>>

Next ==
    \/ \E o \in Orders : Place(o)
    \/ Handle \/ Stop \/ Disturb

Spec == Init /\ [][Next]_vars
=============================================================================
