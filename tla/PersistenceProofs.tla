------------------------- MODULE PersistenceProofs -------------------------
(***************************************************************************)
(* The snapshots, the clean-up they start and the journal: an invariant of *)
(* every actor built on Persistence, kept by each of its operations,       *)
(* however the calls under way are carried out, fail or are forgotten.     *)
(***************************************************************************)
EXTENDS Persistence, TLAPS, WellFoundedInduction, SequenceTheorems

(* A snapshot is stored that replaces the events up to n.                  *)
Covered(n) == \E s \in snapshots : s.seq >= n

(* What is under way is harmless: events are deleted only up to a number   *)
(* that is covered now and will stay so, for no deletion of snapshots      *)
(* reaches the newest of them.                                             *)
SoundCall(r) ==
    \/ r.op = "SaveSnapshot" /\ r.seq \in Nat \ {0}
    \/ r.op = "DeleteSnapshots" /\ r.upTo \in Nat /\ Covered(r.upTo + 1)
    \/ r.op = "DeleteMessages" /\ r.upTo \in Nat /\ Covered(r.upTo)

SoundStores ==
    /\ deletedTo \in Nat
    /\ \A s \in snapshots : s.seq \in Nat \ {0}
    /\ \E n \in Nat : \A s \in snapshots : s.seq <= n
    /\ \A n \in acks : n \in Nat \ {0} /\ Covered(n)
    /\ \A r \in requests : SoundCall(r)
    /\ deletedTo > 0 => Covered(deletedTo)

(* Nothing is stored at first.                                             *)
LEMMA PersistenceInitSound == PersistenceInit => SoundStores
BY DEF PersistenceInit, SoundStores

(* Sound stores are what NothingNeededIsDeleted asks for.                  *)
LEMMA SoundIsEnough == SoundStores => NothingNeededIsDeleted
BY DEF SoundStores, Covered, NothingNeededIsDeleted

(* A step that leaves the snapshots, their clean-up and the deletions      *)
(* alone keeps the stores sound.                                           *)
LEMMA UnchangedSound ==
    ASSUME SoundStores, UNCHANGED <<deletedTo, snapshots, requests, acks>>
    PROVE  SoundStores'
BY DEF SoundStores, SoundCall, Covered

(* A handler asks for a snapshot of its event.                             *)
LEMMA SaveWhenDueSound ==
    ASSUME SoundStores, NEW seq \in Nat \ {0}, NEW interval, NEW state,
           SaveWhenDue(seq, interval, state)
    PROVE  SoundStores'
<1>1. UNCHANGED <<deletedTo, snapshots, acks>>
  BY DEF SaveWhenDue, store
<1>2. \A r \in requests' : r \in requests \/ (r.op = "SaveSnapshot" /\ r.seq = seq)
  BY DEF SaveWhenDue
<1>3. QED
  BY <1>1, <1>2 DEF SoundStores, SoundCall, Covered

(* A snapshot is stored.                                                   *)
LEMMA SaveSnapshotSound ==
    ASSUME SoundStores, SaveSnapshot
    PROVE  SoundStores'
<1>1. PICK r \in requests :
        /\ r.op = "SaveSnapshot"
        /\ requests' = requests \ {r}
        /\ snapshots' = snapshots \cup {[seq |-> r.seq, state |-> r.state]}
        /\ acks' = acks \cup {r.seq}
        /\ UNCHANGED <<written, deletedTo>>
  BY DEF SaveSnapshot
<1>2. r.seq \in Nat \ {0}
  BY <1>1 DEF SoundStores, SoundCall
<1>3. \A n : Covered(n) => Covered(n)'
  BY <1>1 DEF Covered
<1>4. Covered(r.seq)'
  <2> DEFINE new == [seq |-> r.seq, state |-> r.state]
  <2>1. new \in snapshots' /\ new.seq = r.seq
    BY <1>1
  <2>2. r.seq >= r.seq
    BY <1>2
  <2> HIDE DEF new
  <2>3. QED
    BY <2>1, <2>2 DEF Covered
<1>5. QED
  BY <1>1, <1>2, <1>3, <1>4 DEF SoundStores, SoundCall

(* Snapshots are deleted, never the newest.                                *)
LEMMA DeleteSnapshotsSound ==
    ASSUME SoundStores, DeleteSnapshots
    PROVE  SoundStores'
<1>1. PICK r \in requests :
        /\ r.op = "DeleteSnapshots"
        /\ requests' = requests \ {r}
        /\ snapshots' = {s \in snapshots : s.seq > r.upTo}
        /\ UNCHANGED <<written, deletedTo, acks>>
  BY DEF DeleteSnapshots
<1>2. r.upTo \in Nat /\ Covered(r.upTo + 1)
  BY <1>1 DEF SoundStores, SoundCall
<1>3. ASSUME NEW n \in Nat, Covered(n) PROVE Covered(n)'
  <2>1. PICK s \in snapshots : s.seq >= n
    BY <1>3 DEF Covered
  <2>2. PICK t \in snapshots : t.seq >= r.upTo + 1
    BY <1>2 DEF Covered
  <2>3. s.seq \in Nat /\ t.seq \in Nat
    BY <2>1, <2>2 DEF SoundStores
  <2>4. CASE s.seq > r.upTo
    BY <1>1, <2>1, <2>4 DEF Covered
  <2>5. CASE ~(s.seq > r.upTo)
    <3>1. t.seq > r.upTo /\ t.seq >= n
      BY <1>2, <2>1, <2>2, <2>3, <2>5
    <3>2. QED
      BY <1>1, <2>2, <3>1 DEF Covered
  <2>6. QED
    BY <2>4, <2>5
<1>4. \A s \in snapshots' : s.seq \in Nat \ {0}
  BY <1>1 DEF SoundStores
<1>5. \A q \in requests' : SoundCall(q)'
  <2> SUFFICES ASSUME NEW q \in requests' PROVE SoundCall(q)'
    OBVIOUS
  <2>1. SoundCall(q)
    BY <1>1 DEF SoundStores
  <2>2. q.upTo \in Nat => q.upTo + 1 \in Nat
    OBVIOUS
  <2>3. QED
    BY <1>3, <2>1, <2>2 DEF SoundCall
<1>6. QED
  BY <1>1, <1>3, <1>4, <1>5 DEF SoundStores

(* Events are deleted, no more than are covered.                           *)
LEMMA DeleteMessagesSound ==
    ASSUME SoundStores, DeleteMessages
    PROVE  SoundStores'
<1>1. PICK r \in requests :
        /\ r.op = "DeleteMessages"
        /\ requests' = requests \ {r}
        /\ deletedTo' = Max({deletedTo, r.upTo})
        /\ UNCHANGED <<written, snapshots, acks>>
  BY DEF DeleteMessages
<1>2. r.upTo \in Nat /\ Covered(r.upTo) /\ deletedTo \in Nat
  BY <1>1 DEF SoundStores, SoundCall
<1>3. deletedTo' \in {deletedTo, r.upTo}
  BY <1>1, <1>2 DEF Max
<1>4. \A n : Covered(n)' <=> Covered(n)
  BY <1>1 DEF Covered
<1>5. QED
  BY <1>1, <1>2, <1>3, <1>4 DEF SoundStores, SoundCall

(* A call under way is carried out.                                        *)
LEMMA StoresActSound ==
    ASSUME SoundStores, StoresAct
    PROVE  SoundStores'
BY SaveSnapshotSound, DeleteSnapshotsSound, DeleteMessagesSound DEF StoresAct

(* The clean-up a stored snapshot starts.                                  *)
LEMMA SaveSnapshotSuccessSound ==
    ASSUME SoundStores, SaveSnapshotSuccess
    PROVE  SoundStores'
<1>1. PICK seq \in acks :
        /\ acks' = acks \ {seq}
        /\ requests' = requests \cup {[op |-> "DeleteSnapshots", upTo |-> seq - 1],
                                      [op |-> "DeleteMessages", upTo |-> seq]}
        /\ UNCHANGED store
  BY DEF SaveSnapshotSuccess
<1>2. seq \in Nat \ {0} /\ Covered(seq)
  BY <1>1 DEF SoundStores
<1>3. seq - 1 \in Nat /\ (seq - 1) + 1 = seq
  BY <1>2
<1>4. UNCHANGED <<deletedTo, snapshots>>
  BY <1>1 DEF store
<1>5. \A n : Covered(n)' <=> Covered(n)
  BY <1>4 DEF Covered
<1>6. ASSUME NEW q \in requests' PROVE SoundCall(q)'
  <2>1. CASE q \in requests
    BY <1>5, <2>1 DEF SoundStores, SoundCall
  <2>2. CASE q = [op |-> "DeleteSnapshots", upTo |-> seq - 1]
    BY <1>2, <1>3, <1>5, <2>2 DEF SoundCall
  <2>3. CASE q = [op |-> "DeleteMessages", upTo |-> seq]
    BY <1>2, <1>5, <2>3 DEF SoundCall
  <2>4. QED
    BY <1>1, <2>1, <2>2, <2>3
<1>7. QED
  BY <1>1, <1>4, <1>5, <1>6 DEF SoundStores

(* The actor stops.                                                        *)
LEMMA ForgetCallsSound ==
    ASSUME SoundStores, ForgetCalls
    PROVE  SoundStores'
BY DEF SoundStores, Covered, ForgetCalls, store

(* Writes, rejected writes and the numbers of a recovery.                  *)
LEMMA JournalSound ==
    ASSUME SoundStores, NEW events, Write(events) \/ Reject(events) \/ RecoverNumbers
    PROVE  SoundStores'
<1>1. UNCHANGED <<deletedTo, snapshots, requests, acks>>
  BY DEF Write, Reject, RecoverNumbers, calls
<1>2. QED
  BY <1>1, UnchangedSound

-----------------------------------------------------------------------------
(* The journal as a sequence *)

(* A non-empty set of numbers up to n has a greatest element, its Max.     *)
LEMMA GreatestElement ==
    ASSUME NEW n \in Nat, NEW S \in SUBSET (0 .. n), S # {}
    PROVE  Max(S) \in S /\ \A x \in S : x <= Max(S)
<1> DEFINE R == {ss \in Nat \X Nat : ss[1] < ss[2]}
           T == {n - x : x \in S}
<1>1. IsWellFoundedOn(R, Nat)
  <2>1. R = OpToRel(<, Nat)
    BY Zenon DEF OpToRel
  <2>2. QED
    BY NatLessThanWellFounded, <2>1, Zenon
<1> HIDE DEF R
<1>2. T \in SUBSET Nat /\ T # {}
  <2>1. \A x \in S : n - x \in Nat
    OBVIOUS
  <2>2. PICK x : x \in S
    OBVIOUS
  <2>3. n - x \in T
    BY <2>2
  <2>4. QED
    BY <2>1, <2>3
<1>3. PICK m \in T : \A x \in T : <<x, m>> \notin R
  BY <1>1, <1>2, WFMin
<1>4. PICK g \in S : m = n - g
  BY <1>3
<1>5. \A x \in S : x <= g
  <2> SUFFICES ASSUME NEW x \in S, ~(x <= g) PROVE FALSE
    OBVIOUS
  <2>1. n - x \in T /\ n - x \in Nat /\ m \in Nat /\ n - x < m
    BY <1>2, <1>4
  <2>2. <<n - x, m>> \in Nat \X Nat
    BY <2>1
  <2>3. <<n - x, m>>[1] < <<n - x, m>>[2]
    BY <2>1
  <2>4. <<n - x, m>> \in R
    BY <2>2, <2>3 DEF R
  <2>5. QED
    BY <1>3, <2>1, <2>4
<1>6. \A x \in S : g >= x
  BY <1>5
<1>7. Max(S) \in S /\ \A x \in S : Max(S) >= x
  BY <1>4, <1>6, Zenon DEF Max
<1>8. QED
  BY <1>7

(* What is read of a journal without the numbers that were never used: the *)
(* rest of it are holes.                                                   *)
LEMMA WithoutTrailingHolesFacts ==
    ASSUME NEW T, NEW events \in Seq(T)
    PROVE  \E m \in 0 .. Len(events) :
              /\ WithoutTrailingHoles(events) = SubSeq(events, 1, m)
              /\ m # 0 => events[m] # Hole
              /\ \A i \in m + 1 .. Len(events) : events[i] = Hole
<1> DEFINE kept == {i \in DOMAIN events : events[i] # Hole}
           m == IF kept = {} THEN 0 ELSE Max(kept)
<1>1. Len(events) \in Nat /\ DOMAIN events = 1 .. Len(events)
  OBVIOUS
<1>2. WithoutTrailingHoles(events) = SubSeq(events, 1, m)
  BY DEF WithoutTrailingHoles
<1>3. kept \in SUBSET (0 .. Len(events))
  BY <1>1
<1>4. kept # {} => Max(kept) \in kept /\ \A x \in kept : x <= Max(kept)
  BY <1>1, <1>3, GreatestElement
<1>5. m \in 0 .. Len(events) /\ (m # 0 => m \in kept)
  BY <1>1, <1>3, <1>4
<1>6. \A i \in m + 1 .. Len(events) : i \notin kept
  <2> SUFFICES ASSUME NEW i \in m + 1 .. Len(events), i \in kept PROVE FALSE
    OBVIOUS
  <2>1. i <= m
    BY <1>4
  <2>2. QED
    BY <1>1, <1>5, <2>1
<1> HIDE DEF m
<1>7. \A i \in m + 1 .. Len(events) : i \in DOMAIN events
  BY <1>1, <1>5
<1>8. QED
  BY <1>2, <1>5, <1>6, <1>7

(* The events after a number.                                              *)
LEMMA RestFacts ==
    ASSUME NEW T, NEW w \in Seq(T), NEW m \in 0 .. Len(w)
    PROVE  LET rest == SubSeq(w, m + 1, Len(w)) IN
           /\ rest \in Seq(T) /\ Len(rest) = Len(w) - m
           /\ \A i \in 1 .. Len(w) - m : rest[i] = w[m + i]
<1> DEFINE n == Len(w)
           rest == SubSeq(w, m + 1, n)
<1>1. n \in Nat /\ m \in Nat /\ m <= n
  OBVIOUS
<1>2. m + 1 \in 1 .. n + 1 /\ n \in (m + 1) - 1 .. n /\ n - (m + 1) + 1 = n - m
  BY <1>1
<1>3. /\ rest \in Seq(T) /\ Len(rest) = n - (m + 1) + 1
      /\ \A i \in 1 .. n - (m + 1) + 1 : rest[i] = w[(m + 1) + i - 1]
  <2>1. m + 1 \in Int /\ n \in Int /\ \A i \in m + 1 .. n : w[i] \in T
    BY <1>1
  <2>2. /\ rest \in Seq(T) /\ Len(rest) = IF m + 1 <= n THEN n - (m + 1) + 1 ELSE 0
        /\ \A i \in 1 .. n - (m + 1) + 1 : rest[i] = w[(m + 1) + i - 1]
    BY <2>1, SubSeqProperties
  <2>3. ~(m + 1 <= n) => n - (m + 1) + 1 = 0
    BY <1>1
  <2> HIDE DEF n, rest
  <2>4. QED
    BY <2>2, <2>3
<1>4. \A i \in 1 .. n - m : (m + 1) + i - 1 = m + i
  BY <1>1
<1> HIDE DEF n, rest
<1>5. QED
  BY <1>2, <1>3, <1>4 DEF n, rest

(* There is a latest snapshot, if there is any.                            *)
LEMMA LatestSnapshotIsOne ==
    ASSUME SoundStores, snapshots # {}
    PROVE  /\ LatestSnapshot(snapshots) \in snapshots
           /\ \A s \in snapshots : s.seq <= LatestSnapshot(snapshots).seq
<1> DEFINE numbers == {s.seq : s \in snapshots}
<1>1. PICK n \in Nat : \A s \in snapshots : s.seq <= n
  BY DEF SoundStores
<1>2. numbers \in SUBSET (0 .. n) /\ numbers # {}
  BY <1>1 DEF SoundStores
<1>3. Max(numbers) \in numbers /\ \A x \in numbers : x <= Max(numbers)
  BY <1>2, GreatestElement
<1>4. PICK s \in snapshots : s.seq = Max(numbers)
  BY <1>3
<1>5. \A t \in snapshots : t.seq <= s.seq
  BY <1>3, <1>4
<1>6. QED
  BY <1>4, <1>5 DEF LatestSnapshot

(* A recovery reads events of the journal; all of them, while there is no  *)
(* snapshot.                                                               *)
LEMMA EventsToReplayFacts ==
    ASSUME SoundStores, NEW T, written \in Seq(T)
    PROVE  LET read == EventsToReplay(snapshots, written, deletedTo) IN
           read \in Seq(T) /\ (snapshots = {} => read = written)
<1> DEFINE after == {deletedTo} \cup
                    (IF snapshots = {} THEN {} ELSE {LatestSnapshot(snapshots).seq})
<1>1. PICK n \in Nat : after \in SUBSET (0 .. n)
  <2>1. deletedTo \in Nat
    BY DEF SoundStores
  <2>2. CASE snapshots = {}
    <3>1. after = {deletedTo} /\ deletedTo \in 0 .. deletedTo
      BY <2>1, <2>2
    <3>2. after \in SUBSET (0 .. deletedTo)
      BY <3>1
    <3> HIDE DEF after
    <3>3. QED
      BY <2>1, <3>2
  <2>3. CASE snapshots # {}
    <3> DEFINE latest == LatestSnapshot(snapshots).seq
    <3>1. latest \in Nat
      BY <2>3, LatestSnapshotIsOne DEF SoundStores
    <3>2. after = {deletedTo, latest}
      BY <2>3
    <3> HIDE DEF latest, after
    <3>3. after \in SUBSET (0 .. deletedTo + latest) /\ deletedTo + latest \in Nat
      BY <2>1, <3>1, <3>2
    <3>4. QED
      BY <3>3
  <2>4. QED
    BY <2>2, <2>3
<1>2. Max(after) \in after
  <2>1. after # {}
    OBVIOUS
  <2> HIDE DEF after
  <2>2. QED
    BY <1>1, <2>1, GreatestElement
<1>3. EventsToReplay(snapshots, written, deletedTo)
        = SubSeq(written, Max(after) + 1, Len(written))
  BY DEF EventsToReplay
<1>4. snapshots = {} => Max(after) = 0
  BY <1>2 DEF SoundStores, Covered
<1> DEFINE first == Max(after) + 1
<1>5. first \in Nat \ {0} /\ (snapshots = {} => first = 1)
  <2>1. Max(after) \in Nat
    BY <1>1, <1>2
  <2>2. QED
    BY <1>4, <2>1
<1> HIDE DEF first, after
<1>6. SubSeq(written, first, Len(written)) \in Seq(T)
  BY <1>5
<1>7. SubSeq(written, 1, Len(written)) = written
  BY SubSeqFull
<1>8. QED
  BY <1>3, <1>5, <1>6, <1>7 DEF first

(* With a snapshot, it reads what comes after the latest: nothing newer    *)
(* has been deleted.                                                       *)
LEMMA EventsAfterTheLatest ==
    ASSUME SoundStores, snapshots # {}
    PROVE  EventsToReplay(snapshots, written, deletedTo)
              = SubSeq(written, LatestSnapshot(snapshots).seq + 1, Len(written))
<1> DEFINE latest == LatestSnapshot(snapshots).seq
<1>1. latest \in Nat /\ deletedTo \in Nat /\ deletedTo <= latest
  <2>1. LatestSnapshot(snapshots) \in snapshots /\ \A s \in snapshots : s.seq <= latest
    BY LatestSnapshotIsOne
  <2>2. latest \in Nat /\ deletedTo \in Nat /\ (deletedTo > 0 => Covered(deletedTo))
    BY <2>1 DEF SoundStores
  <2>3. \A s \in snapshots : s.seq \in Nat
    BY DEF SoundStores
  <2> HIDE DEF latest
  <2>4. QED
    BY <2>1, <2>2, <2>3 DEF Covered
<1>2. EventsToReplay(snapshots, written, deletedTo)
        = SubSeq(written, Max({deletedTo} \cup {latest}) + 1, Len(written))
  BY DEF EventsToReplay
<1> HIDE DEF latest
<1>3. Max({deletedTo} \cup {latest}) = latest
  <2> DEFINE S == {deletedTo} \cup {latest}
  <2>1. S \in SUBSET (0 .. latest) /\ latest \in S
    BY <1>1
  <2> HIDE DEF S
  <2>2. Max(S) \in S /\ latest <= Max(S)
    BY <1>1, <2>1, GreatestElement
  <2>3. Max(S) = latest
    <3>1. Max(S) \in 0 .. latest
      BY <2>1, <2>2
    <3>2. QED
      BY <1>1, <2>2, <3>1
  <2>4. QED
    BY <2>3 DEF S
<1>4. QED
  BY <1>2, <1>3 DEF latest

-----------------------------------------------------------------------------
(* Types *)

(* A call under way that is carried out leaves the types as they are.      *)
LEMMA StoresActType ==
    ASSUME NEW CONSTANT E, NEW CONSTANT S, PersistenceType(E, S), StoresAct
    PROVE  PersistenceType(E, S)'
<1> DEFINE saves == [op : {"SaveSnapshot"}, seq : Nat, state : S]
           deletes == [op : {"DeleteSnapshots", "DeleteMessages"}, upTo : Nat]
<1>1. \A r \in requests : r \in saves \/ r \in deletes
  BY DEF PersistenceType
<1>2. \A r \in saves : r.op = "SaveSnapshot" /\ r.seq \in Nat /\ r.state \in S
  OBVIOUS
<1>3. \A r \in deletes : r.op # "SaveSnapshot" /\ r.upTo \in Nat
  OBVIOUS
<1> HIDE DEF saves, deletes
<1>4. CASE SaveSnapshot
  <2>1. PICK r \in requests :
          /\ r.op = "SaveSnapshot"
          /\ requests' = requests \ {r}
          /\ snapshots' = snapshots \cup {[seq |-> r.seq, state |-> r.state]}
          /\ acks' = acks \cup {r.seq}
          /\ UNCHANGED <<written, deletedTo>>
    BY <1>4 DEF SaveSnapshot
  <2>2. r.seq \in Nat /\ r.state \in S
    BY <1>1, <1>2, <1>3, <2>1
  <2>3. [seq |-> r.seq, state |-> r.state] \in [seq : Nat, state : S]
    BY <2>2
  <2>4. QED
    BY <2>1, <2>2, <2>3 DEF PersistenceType
<1>5. CASE DeleteSnapshots
  BY <1>5 DEF DeleteSnapshots, PersistenceType
<1>6. CASE DeleteMessages
  <2>1. PICK r \in requests :
          /\ r.op = "DeleteMessages"
          /\ requests' = requests \ {r}
          /\ deletedTo' = Max({deletedTo, r.upTo})
          /\ UNCHANGED <<written, snapshots, acks>>
    BY <1>6 DEF DeleteMessages
  <2>2. r.upTo \in Nat /\ deletedTo \in Nat
    BY <1>1, <1>2, <1>3, <2>1 DEF PersistenceType
  <2>3. deletedTo' \in Nat
    BY <2>1, <2>2 DEF Max
  <2>4. QED
    BY <2>1, <2>3 DEF PersistenceType
<1>7. QED
  BY <1>4, <1>5, <1>6 DEF StoresAct

(* So does the clean-up.                                                   *)
LEMMA SaveSnapshotSuccessType ==
    ASSUME NEW CONSTANT E, NEW CONSTANT S, PersistenceType(E, S), SoundStores, SaveSnapshotSuccess
    PROVE  PersistenceType(E, S)'
<1>1. PICK seq \in acks :
        /\ acks' = acks \ {seq}
        /\ requests' = requests \cup {[op |-> "DeleteSnapshots", upTo |-> seq - 1],
                                      [op |-> "DeleteMessages", upTo |-> seq]}
        /\ UNCHANGED store
  BY DEF SaveSnapshotSuccess
<1>2. seq \in Nat /\ seq - 1 \in Nat
  BY <1>1 DEF SoundStores
<1>3. {[op |-> "DeleteSnapshots", upTo |-> seq - 1], [op |-> "DeleteMessages", upTo |-> seq]}
        \subseteq [op : {"DeleteSnapshots", "DeleteMessages"}, upTo : Nat]
  BY <1>2
<1>4. UNCHANGED <<written, deletedTo, snapshots>>
  BY <1>1 DEF store
<1>5. QED
  BY <1>1, <1>3, <1>4 DEF PersistenceType

(* And the request for a snapshot.                                         *)
LEMMA SaveWhenDueType ==
    ASSUME NEW CONSTANT E, NEW CONSTANT S, PersistenceType(E, S),
           NEW seq \in Nat, NEW interval, NEW state \in S, SaveWhenDue(seq, interval, state)
    PROVE  PersistenceType(E, S)'
<1>1. [op |-> "SaveSnapshot", seq |-> seq, state |-> state]
        \in [op : {"SaveSnapshot"}, seq : Nat, state : S]
  OBVIOUS
<1>2. UNCHANGED <<written, deletedTo, snapshots, acks>>
  BY DEF SaveWhenDue, store
<1>3. requests' \subseteq requests \cup {[op |-> "SaveSnapshot", seq |-> seq, state |-> state]}
  BY DEF SaveWhenDue
<1>4. QED
  BY <1>1, <1>2, <1>3 DEF PersistenceType
=============================================================================
