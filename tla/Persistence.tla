---------------------------- MODULE Persistence ----------------------------
(***************************************************************************)
(* What the persistent actors use of Akka.Persistence: the event journal   *)
(* and the snapshot store of one PersistenceId, the calls of the running   *)
(* actor to them that are under way, and what a recovery reads.  Akka and  *)
(* MongoDb are not part of the repository: this is their behaviour as its  *)
(* actors rely on it.  OrderBookActor and MatchAggregator extend it with   *)
(* their state; each action says what becomes of the variables declared    *)
(* here.                                                                   *)
(***************************************************************************)
EXTENDS Integers, Sequences, FiniteSets, FiniteSetsExt

VARIABLES
    written,    \* every event written so far, by sequence number
    deletedTo,  \* DeleteMessages has removed the events up to this number
    snapshots,  \* the stored snapshots
    requests,   \* calls to the snapshot store and the journal under way
    acks        \* SaveSnapshotSuccess messages waiting in the actor's mailbox

store == <<written, deletedTo, snapshots>>
calls == <<requests, acks>>

(* The number of an event the journal rejected: used, and never read.      *)
Hole == [type |-> "Hole"]

PersistenceInit ==
    /\ written = << >>
    /\ deletedTo = 0
    /\ snapshots = {}
    /\ requests = {}
    /\ acks = {}

PersistenceType(Event, State) ==
    /\ written \in Seq(Event)
    /\ deletedTo \in Nat
    /\ snapshots \subseteq [seq : Nat, state : State]
    /\ acks \subseteq Nat
    /\ requests \subseteq
          [op : {"SaveSnapshot"}, seq : Nat, state : State]
            \cup [op : {"DeleteSnapshots", "DeleteMessages"}, upTo : Nat]

-----------------------------------------------------------------------------
(* The journal *)

(* The events of one write are stored together.                            *)
Write(events) ==
    /\ written' = written \o events
    /\ UNCHANGED <<deletedTo, snapshots, calls>>

(* A rejected write runs no handler and uses up its sequence numbers.      *)
Reject(events) ==
    /\ written' = written \o [i \in DOMAIN events |-> Hole]
    /\ UNCHANGED <<deletedTo, snapshots, calls>>

-----------------------------------------------------------------------------
(* Snapshots and clean-up *)

(* SaveSnapshot, called by the handler of event seq when it is due.        *)
SaveWhenDue(seq, interval, state) ==
    /\ requests' = IF seq % interval = 0
                   THEN requests \cup {[op |-> "SaveSnapshot", seq |-> seq, state |-> state]}
                   ELSE requests
    /\ UNCHANGED <<store, acks>>

(* A call to the snapshot store or the journal is carried out, in any      *)
(* order of the calls under way.  One that fails is one that is never      *)
(* carried out: the actors have no handlers for the failure messages.      *)
SaveSnapshot ==
    \E r \in requests :
        /\ r.op = "SaveSnapshot"
        /\ requests' = requests \ {r}
        /\ snapshots' = snapshots \cup {[seq |-> r.seq, state |-> r.state]}
        /\ acks' = acks \cup {r.seq}
        /\ UNCHANGED <<written, deletedTo>>

DeleteSnapshots ==
    \E r \in requests :
        /\ r.op = "DeleteSnapshots"
        /\ requests' = requests \ {r}
        /\ snapshots' = {s \in snapshots : s.seq > r.upTo}
        /\ UNCHANGED <<written, deletedTo, acks>>

DeleteMessages ==
    \E r \in requests :
        /\ r.op = "DeleteMessages"
        /\ requests' = requests \ {r}
        /\ deletedTo' = Max({deletedTo, r.upTo})
        /\ UNCHANGED <<written, snapshots, acks>>

StoresAct == SaveSnapshot \/ DeleteSnapshots \/ DeleteMessages

DeleteItsOwnSnapshot ==
    \E seq \in acks :
        /\ acks' = acks \ {seq}
        /\ requests' = requests \cup {[op |-> "DeleteSnapshots", upTo |-> seq],
                                      [op |-> "DeleteMessages", upTo |-> seq]}
        /\ UNCHANGED store

(* The handler of SaveSnapshotSuccess, the same in both actors, cleans up  *)
(* older snapshots and the events the new one covers.  (Before it stands a *)
(* mutated form, as in Matching.)                                          *)
SaveSnapshotSuccess ==
    \E seq \in acks :
        /\ acks' = acks \ {seq}
        /\ requests' = requests \cup {[op |-> "DeleteSnapshots", upTo |-> seq - 1],
                                      [op |-> "DeleteMessages", upTo |-> seq]}
        /\ UNCHANGED store

-----------------------------------------------------------------------------
(* Stops and recovery *)

(* With the actor go its mailbox and its calls under way.                  *)
ForgetCalls ==
    /\ requests' = {}
    /\ acks' = {}
    /\ UNCHANGED store

LatestSnapshot(stored) == CHOOSE s \in stored : \A t \in stored : t.seq <= s.seq

(* The events a recovery reads: those after the latest snapshot that have  *)
(* not been deleted.                                                       *)
EventsToReplay(stored, events, deleted) ==
    SubSeq(events,
           Max({deleted} \cup (IF stored = {} THEN {} ELSE {LatestSnapshot(stored).seq})) + 1,
           Len(events))

(* Numbers rejected at the end of the journal are given out again.         *)
WithoutTrailingHoles(events) ==
    LET kept == {i \in DOMAIN events : events[i] # Hole}
    IN  SubSeq(events, 1, IF kept = {} THEN 0 ELSE Max(kept))

(* The next incarnation goes on after the last event there is.             *)
RecoverNumbers ==
    /\ written' = WithoutTrailingHoles(written)
    /\ UNCHANGED <<deletedTo, snapshots, calls>>

-----------------------------------------------------------------------------

(* Events are deleted only when a stored snapshot covers them, whatever    *)
(* the order in which saves and deletions are carried out or fail: a       *)
(* recovery never misses an event that no snapshot replaces.               *)
NothingNeededIsDeleted ==
    deletedTo > 0 => \E s \in snapshots : s.seq >= deletedTo
=============================================================================
