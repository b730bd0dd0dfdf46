----------------------------- MODULE PriceSeries -----------------------------
(***************************************************************************)
(* What the aggregator of a ticker symbol promises to those who follow its *)
(* prices, with no word about events, snapshots, deletions or replays:     *)
(* MatchAggregator is shown to implement it.                               *)
(*                                                                         *)
(* The updates published form one series, which a stop does not break off. *)
(* Every update is also to be kept, in the order of publication, without   *)
(* the aggregator waiting for it; a stop, or a journal that rejects it,    *)
(* may prevent that.  After a stop the averages are those of the newest    *)
(* update that has been kept: nothing that was published after it counts,  *)
(* and nothing that it counts is lost.                                     *)
(***************************************************************************)
EXTENDS Naturals, Sequences

VARIABLES
    up,         \* the aggregator is running
    average,    \* the matches counted; << >> is none
    matches,    \* matches there have been
    published,  \* the updates published, each with its number
    keeping,    \* numbers of the updates on their way to be kept
    kept        \* number of the newest update kept; 0: none is

vars == <<up, average, matches, published, keeping, kept>>

Init ==
    /\ up = TRUE
    /\ average = << >>
    /\ matches = 0
    /\ published = << >>
    /\ keeping = << >>
    /\ kept = 0

-----------------------------------------------------------------------------

(* A match is counted, or never heard of.                                  *)
Take ==
    /\ matches' = matches + 1
    /\ \/ up /\ average' = Append(average, matches')
       \/ UNCHANGED average
    /\ UNCHANGED <<up, published, keeping, kept>>

(* The averages are published, and are to be kept.                         *)
Publish ==
    /\ up /\ average # << >>
    /\ LET n == Len(published) + 1 IN
        /\ published' = Append(published, [avg |-> average, time |-> n])
        /\ keeping' = Append(keeping, n)
    /\ UNCHANGED <<up, average, matches, kept>>

(* An update is kept, or cannot be.                                        *)
Keep ==
    /\ up /\ keeping # << >>
    /\ keeping' = Tail(keeping)
    /\ kept' \in {kept, Head(keeping)}
    /\ UNCHANGED <<up, average, matches, published>>

Stop ==
    /\ up
    /\ up' = FALSE
    /\ average' = << >>
    /\ keeping' = << >>
    /\ UNCHANGED <<matches, published, kept>>

Start ==
    /\ ~up
    /\ up' = TRUE
    /\ average' = IF kept = 0 THEN << >> ELSE published[kept].avg
    /\ UNCHANGED <<matches, published, keeping, kept>>

Next == Take \/ Publish \/ Keep \/ Stop \/ Start

Spec == Init /\ [][Next]_vars
=============================================================================
