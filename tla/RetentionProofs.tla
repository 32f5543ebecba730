-------------------------- MODULE RetentionProofs --------------------------
(***************************************************************************)
(* The theorems about Retention, for any limits and any number of epochs.  *)
(* What an epoch needs when its turn to be deleted comes was settled when  *)
(* it began; the invariant says that of all epochs still kept.             *)
(***************************************************************************)
EXTENDS Retention, FiniteSetTheorems, WellFoundedInduction, TLAPS

USE RetentionAssumption

\* No entry is of an epoch beyond the next.
NotAhead ==
  /\ \A d \in DOMAIN voting : \A e \in voting[d] : e <= number + 1
  /\ \A e \in ready : e <= number + 1
  /\ timer <= number + 1

\* An epoch that has begun, other than a gap, has all entries that are looked for.
Complete ==
  \A e \in Epochs :
    /\ e <= number /\ e \notin gaps
    => /\ e \in voting.ballots \cup voting.results => e \in voting.candidates
       /\ e \in voting.results => e \in voting.ballots

\* A result that waits for its epoch has its list.
ReadyListed == number + 1 \in ready => number + 1 \in voting.candidates

IInv == TypeOK /\ NotAhead /\ Complete /\ ReadyListed /\ RemovalStopsAtGaps

Dictionaries == [ballots : SUBSET Epochs, results : SUBSET Epochs, candidates : SUBSET Epochs]

---------------------------------------------------------------------------
(* remove_old_epoch_data *)

\* What is old of results up to epoch n is Keep epochs behind n.
LEMMA OldIsBehind ==
  ASSUME NEW n \in Nat, NEW v \in Dictionaries, \A x \in v.results : x <= n,
         NEW e \in Old(v)
  PROVE  e + Keep <= n
<1> DEFINE newer == { x \in v.results : x > e }
<1>1. v.results \subseteq Epochs /\ e \in Epochs
  BY DEF Dictionaries, Old
<1>2. newer \subseteq (e + 1) .. n
  BY <1>1 DEF Epochs
<1>3. /\ IsFiniteSet((e + 1) .. n)
      /\ Cardinality((e + 1) .. n) = IF e + 1 > n THEN 0 ELSE n - (e + 1) + 1
  BY <1>1, FS_Interval DEF Epochs
<1>4. IsFiniteSet(newer) /\ Cardinality(newer) <= Cardinality((e + 1) .. n)
  BY <1>2, <1>3, FS_Subset
<1>5. Cardinality(newer) >= Keep
  BY DEF Old
<1>6. Cardinality(newer) \in Nat
  BY <1>4, FS_CardinalityType
<1>7. e <= n
  BY DEF Old
<1> HIDE DEF newer
<1> QED
  BY <1>1, <1>3, <1>4, <1>5, <1>6, <1>7 DEF Epochs

\* A removal deletes only what it gets to, keeps the types, and leaves a ballot
\* without its list only at an epoch that was incomplete before.
LEMMA RemovalShrinks ==
  ASSUME NEW v \in Dictionaries
  PROVE  /\ RemoveOldEpochData(v) \in Dictionaries
         /\ \A d \in {"ballots", "results", "candidates"} :
              /\ RemoveOldEpochData(v)[d] \subseteq v[d]
              /\ v[d] \ RemoveOldEpochData(v)[d] \subseteq Old(v)
         /\ \A e \in RemoveOldEpochData(v).results :
              /\ e \in v.ballots => e \in RemoveOldEpochData(v).ballots
              /\ e \in v.candidates => e \in RemoveOldEpochData(v).candidates
         /\ \A e \in RemoveOldEpochData(v).ballots :
              e \in v.candidates =>
                e \in RemoveOldEpochData(v).candidates \/ e \in Incomplete(v)
  BY DEF RemoveOldEpochData, Reached, Incomplete, Old, Dictionaries

\* initialize_epoch keeps the invariant: g are the gaps by then, n the epoch that
\* ends.
LEMMA InitializeKeeps ==
  ASSUME NEW n \in Nat, n + 1 \in Epochs, number <= n,
         NEW v \in Dictionaries, NEW g \in SUBSET Epochs,
         TypeOK, RemovalStopsAtGaps, gaps \subseteq g,
         \A d \in {"ballots", "results", "candidates"} : \A e \in v[d] : e <= n + 1,
         \A e \in Epochs : e \notin g =>
            /\ e \in v.ballots \cup v.results => e \in v.candidates
            /\ e \in v.results => e \in v.ballots,
         InitializeEpoch(n + 1, v), gaps' = g
  PROVE  /\ number' = n + 1 /\ over' = FALSE
         /\ voting' \in Dictionaries
         /\ \A d \in {"ballots", "results", "candidates"} : \A e \in voting'[d] : e <= n + 1
         /\ Complete'
         /\ raised' \subseteq g
         /\ raised' \subseteq Epochs
         /\ \A d \in {"ballots", "results", "candidates"}, e \in Epochs :
              e \in v[d] \ voting'[d] => e + Keep <= number'
<1>1. number' = n + 1 /\ over' = FALSE /\ voting' = RemoveOldEpochData(v)
      /\ raised' = raised \cup StopsAt(v)
  BY DEF InitializeEpoch
<1>2. Incomplete(v) \subseteq g /\ Incomplete(v) \subseteq Epochs
  BY DEF Incomplete, Old, Dictionaries
<1>3. voting' \in Dictionaries
  BY <1>1, RemovalShrinks
<1>4. \A d \in {"ballots", "results", "candidates"} : voting'[d] \subseteq v[d]
  BY <1>1, RemovalShrinks
<1>5. Complete'
  <2> SUFFICES ASSUME NEW e \in Epochs, e \notin g
               PROVE  /\ e \in voting'.ballots \cup voting'.results => e \in voting'.candidates
                      /\ e \in voting'.results => e \in voting'.ballots
    BY DEF Complete
  <2>1. e \notin Incomplete(v)
    BY <1>2
  <2>2. /\ voting'.ballots \subseteq v.ballots
        /\ voting'.results \subseteq v.results
    BY <1>4
  <2>3. /\ \A x \in voting'.results :
             /\ x \in v.ballots => x \in voting'.ballots
             /\ x \in v.candidates => x \in voting'.candidates
        /\ \A x \in voting'.ballots :
             x \in v.candidates => x \in voting'.candidates \/ x \in Incomplete(v)
    BY <1>1, RemovalShrinks
  <2> QED
    BY <2>1, <2>2, <2>3
<1>6. raised' \subseteq g /\ raised' \subseteq Epochs
  BY <1>1, <1>2 DEF StopsAt, RemovalStopsAtGaps, TypeOK
<1>7. ASSUME NEW d \in {"ballots", "results", "candidates"}, NEW e \in Epochs,
             e \in v[d] \ voting'[d]
      PROVE  e + Keep <= n + 1
  <2>1. e \in Old(v)
    BY <1>1, <1>7, RemovalShrinks
  <2>2. n + 1 \in Nat /\ \A x \in v.results : x <= n + 1
    OBVIOUS
  <2> QED
    BY <2>1, <2>2, OldIsBehind
<1> QED
  BY <1>1, <1>3, <1>4, <1>5, <1>6, <1>7

---------------------------------------------------------------------------

\* The dictionaries one step may touch are those the type names.
LEMMA VotingType ==
  ASSUME TypeOK
  PROVE  voting \in Dictionaries /\ DOMAIN voting = {"ballots", "results", "candidates"}
  BY DEF TypeOK, Dictionaries

\* The dictionaries begin as the invariant says.
LEMMA InitIInv == Init => IInv
<1> SUFFICES ASSUME Init PROVE IInv
  OBVIOUS
<1>1. voting \in Dictionaries
  BY DEF Init, Dictionaries
<1>2. 0 \in 0..MaxEpoch
  OBVIOUS
<1>3. TypeOK
  BY <1>1, <1>2 DEF Init, TypeOK, Dictionaries
<1> QED
  BY <1>3 DEF Init, IInv, NotAhead, Complete, ReadyListed, RemovalStopsAtGaps

\* What a step may forget of the dictionaries.
Forgets ==
  \A e \in Epochs, d \in DOMAIN voting : e \in voting[d] \ voting'[d] => e + Keep <= number'

\* What a vote, or the timer's result, adds.
LEMMA AdditionAdds ==
  ASSUME IInv, CastVote \/ HandleVote \/ TimerFires
  PROVE  /\ voting' \in Dictionaries
         /\ voting.ballots \subseteq voting'.ballots
         /\ voting.results \subseteq voting'.results
         /\ voting'.candidates = voting.candidates
         /\ \A e \in voting'.ballots : e \in voting.ballots \/ e = number + 1
         /\ \A e \in voting'.results :
              \/ e \in voting.results
              \/ e = number + 1
              \/ (e = timer /\ e \in voting.ballots)
<1>0. voting \in Dictionaries /\ DOMAIN voting = {"ballots", "results", "candidates"}
  BY VotingType DEF IInv
<1>1. CASE CastVote \/ HandleVote
  <2>1. number + 1 \in Epochs
    BY <1>1 DEF CastVote, HandleVote, NextEpoch
  <2>2. /\ WithBallot \in Dictionaries
        /\ WithBallot.ballots = voting.ballots \cup {number + 1}
        /\ WithBallot.results = voting.results
        /\ WithBallot.candidates = voting.candidates
    BY <1>0, <2>1 DEF WithBallot, NextEpoch, Dictionaries
  <2>3. \/ voting' = WithBallot
        \/ voting' = [WithBallot EXCEPT !.results = @ \cup {number + 1}]
    BY <1>1 DEF CastVote, HandleVote, NextEpoch
  <2> QED
    BY <2>1, <2>2, <2>3 DEF Dictionaries
<1>2. CASE TimerFires
  <2> DEFINE r == IF timer \in voting.ballots
                  THEN voting.results \cup {timer} ELSE voting.results
  <2>1. voting' = [voting EXCEPT !.results = r]
    BY <1>0, <1>2 DEF TimerFires, Dictionaries
  <2>2. r \in SUBSET Epochs /\ voting.results \subseteq r
    BY <1>0 DEF Dictionaries
  <2>3. \A e \in r : e \in voting.results \/ (e = timer /\ e \in voting.ballots)
    OBVIOUS
  <2> HIDE DEF r
  <2>4. /\ voting' \in Dictionaries
        /\ voting'.ballots = voting.ballots
        /\ voting'.results = r
        /\ voting'.candidates = voting.candidates
    BY <1>0, <2>1, <2>2 DEF Dictionaries
  <2> QED
    BY <2>2, <2>3, <2>4
<1> QED
  BY <1>1, <1>2

\* A ballot or a result of the next epoch, or a late result, is only added.
LEMMA AdditionKeeps ==
  ASSUME IInv, CastVote \/ HandleVote \/ TimerFires
  PROVE  IInv' /\ Forgets
<1>1. voting \in Dictionaries /\ DOMAIN voting = {"ballots", "results", "candidates"}
  BY VotingType DEF IInv
<1>2. number \in Nat /\ number' = number
  BY DEF IInv, TypeOK, CastVote, HandleVote, TimerFires
<1>3. /\ voting' \in Dictionaries
      /\ voting.ballots \subseteq voting'.ballots
      /\ voting.results \subseteq voting'.results
      /\ voting'.candidates = voting.candidates
      /\ \A e \in voting'.ballots : e \in voting.ballots \/ e = number + 1
      /\ \A e \in voting'.results :
           \/ e \in voting.results
           \/ e = number + 1
           \/ (e = timer /\ e \in voting.ballots)
  BY AdditionAdds
<1>4. timer' \in {0, timer, number + 1} /\ timer' \in 0..MaxEpoch
  BY DEF IInv, TypeOK, CastVote, HandleVote, TimerFires, NextEpoch, Epochs
<1>5. UNCHANGED <<over, ready, stuck, gaps, raised>>
  BY DEF CastVote, HandleVote, TimerFires
<1>6. TypeOK'
  BY <1>2, <1>3, <1>4, <1>5 DEF IInv, TypeOK, Dictionaries
<1>7. NotAhead'
  <2>1. DOMAIN voting' = {"ballots", "results", "candidates"}
    BY <1>3 DEF Dictionaries
  <2> QED
    BY <1>1, <1>2, <1>3, <1>4, <1>5, <2>1 DEF IInv, NotAhead
<1>8. Complete'
  BY <1>2, <1>3, <1>5 DEF IInv, Complete, Epochs
<1>9. ReadyListed' /\ RemovalStopsAtGaps'
  BY <1>2, <1>3, <1>5 DEF IInv, ReadyListed, RemovalStopsAtGaps
<1>10. Forgets
  <2>1. \A d \in {"ballots", "results", "candidates"} : voting[d] \subseteq voting'[d]
    BY <1>3
  <2> QED
    BY <1>1, <2>1 DEF Forgets
<1> QED
  BY <1>6, <1>7, <1>8, <1>9, <1>10 DEF IInv

\* A result, with the removal it may start.
LEMMA ResultKeeps ==
  ASSUME IInv, NEW accepted \in BOOLEAN, HandleResult(accepted)
  PROVE  IInv' /\ Forgets
<1> DEFINE e == number + 1
           v == [voting EXCEPT !.results = @ \cup {e},
                               !.candidates = IF accepted THEN @ \cup {e} ELSE @]
<1>1. voting \in Dictionaries /\ DOMAIN voting = {"ballots", "results", "candidates"}
  BY VotingType DEF IInv
<1>2. number \in Nat /\ e \in Epochs
  BY DEF IInv, TypeOK, HandleResult, NextEpoch
<1>3. /\ v \in Dictionaries
      /\ v.ballots = voting.ballots
      /\ v.results = voting.results \cup {e}
      /\ v.candidates = IF accepted THEN voting.candidates \cup {e} ELSE voting.candidates
  BY <1>1, <1>2 DEF Dictionaries
<1>4. \A d \in {"ballots", "results", "candidates"} :
         voting[d] \subseteq v[d] /\ \A x \in v[d] : x <= number + 1
  <2> HIDE DEF v
  <2>1. \A d \in {"ballots", "results", "candidates"} :
          voting[d] \subseteq v[d] /\ v[d] \subseteq voting[d] \cup {number + 1}
    BY <1>3
  <2>2. \A d \in {"ballots", "results", "candidates"} : \A x \in voting[d] : x <= number + 1
    BY <1>1 DEF IInv, NotAhead
  <2> QED
    BY <1>2, <2>1, <2>2
<1>5. /\ ready' = IF accepted THEN ready \cup {e} ELSE ready
      /\ UNCHANGED <<timer, stuck>>
  BY DEF HandleResult, NextEpoch
<1>6. CASE accepted /\ over
  <2> DEFINE g == IF e \in v.ballots THEN gaps ELSE gaps \cup {e}
  <2>1. InitializeEpoch(e, v) /\ gaps' = g
    BY <1>6 DEF HandleResult, NextEpoch
  <2>2. TypeOK /\ RemovalStopsAtGaps /\ gaps \subseteq g /\ g \in SUBSET Epochs
    BY <1>2 DEF IInv, TypeOK
  <2>3. \A x \in Epochs : x \notin g =>
            /\ x \in v.ballots \cup v.results => x \in v.candidates
            /\ x \in v.results => x \in v.ballots
    <3> TAKE x \in Epochs
    <3> HAVE x \notin g
    <3>1. x \notin gaps
      BY <2>2
    <3>2. CASE x <= number
      BY <1>2, <1>3, <3>1, <3>2 DEF IInv, Complete
    <3>3. CASE x = e
      BY <1>3, <1>6, <3>3
    <3>4. CASE x > e
      BY <1>2, <1>4, <3>4 DEF Epochs
    <3> HIDE DEF v, g
    <3> QED
      BY <1>2, <3>2, <3>3, <3>4 DEF Epochs
  <2> HIDE DEF v, g
  <2>4. /\ number' = number + 1 /\ over' = FALSE
        /\ voting' \in Dictionaries
        /\ \A d \in {"ballots", "results", "candidates"} : \A x \in voting'[d] : x <= number + 1
        /\ Complete'
        /\ raised' \subseteq g
        /\ raised' \subseteq Epochs
        /\ \A d \in {"ballots", "results", "candidates"}, x \in Epochs :
             x \in v[d] \ voting'[d] => x + Keep <= number'
    <3>1. number \in Nat /\ number + 1 \in Epochs /\ number <= number
      BY <1>2
    <3>2. v \in Dictionaries
      BY <1>3 DEF v
    <3>3. \A d \in {"ballots", "results", "candidates"} : \A x \in v[d] : x <= number + 1
      BY <1>4 DEF v
    <3> QED
      BY <2>1, <2>2, <2>3, <3>1, <3>2, <3>3, InitializeKeeps
  <2>5. TypeOK'
    <3>1. number' \in 0..MaxEpoch /\ timer' \in 0..MaxEpoch
      BY <1>2, <1>5, <2>2, <2>4 DEF TypeOK, Epochs
    <3>2. ready' \subseteq Epochs /\ stuck' \in BOOLEAN
      BY <1>2, <1>5, <2>2 DEF TypeOK
    <3> QED
      BY <3>1, <3>2, <2>1, <2>2, <2>4 DEF TypeOK, Dictionaries
  <2>6. NotAhead' /\ ReadyListed'
    <3>1. DOMAIN voting' = {"ballots", "results", "candidates"}
      BY <2>4 DEF Dictionaries
    <3>2. \A x \in ready' : x <= number + 1
      BY <1>2, <1>5 DEF IInv, NotAhead
    <3>3. timer' <= number + 1
      BY <1>5 DEF IInv, NotAhead
    <3>4. number' + 1 \notin ready'
      BY <1>2, <2>4, <3>2
    <3>5. TypeOK
      BY DEF IInv
    <3>6. \A x \in ready' : x <= number' + 1
      BY <1>2, <2>4, <3>2, <2>5 DEF TypeOK, Epochs
    <3>7. timer' <= number' + 1
      BY <1>2, <2>4, <3>3, <2>5 DEF TypeOK
    <3>8. \A d \in DOMAIN voting' : \A x \in voting'[d] : x <= number' + 1
      <4> TAKE d \in DOMAIN voting'
      <4> TAKE x \in voting'[d]
      <4>1. x <= number + 1 /\ x \in Epochs
        BY <3>1, <2>4 DEF Dictionaries
      <4> QED
        BY <1>2, <2>4, <4>1 DEF Epochs
    <3> QED
      BY <3>4, <3>6, <3>7, <3>8 DEF NotAhead, ReadyListed
  <2>7. RemovalStopsAtGaps'
    BY <1>5, <2>1, <2>2, <2>4 DEF RemovalStopsAtGaps, InitializeEpoch
  <2>8. Forgets
    BY <1>1, <1>4, <2>4 DEF Forgets
  <2> QED
    BY <2>4, <2>5, <2>6, <2>7, <2>8 DEF IInv
<1>7. CASE ~(accepted /\ over)
  <2>1. voting' = v /\ UNCHANGED <<number, over, gaps, raised>>
    BY <1>7 DEF HandleResult, NextEpoch
  <2> HIDE DEF v
  <2>2. TypeOK'
    BY <1>2, <1>3, <1>5, <2>1 DEF IInv, TypeOK, Dictionaries
  <2>3. NotAhead'
    <3>1. DOMAIN voting' = {"ballots", "results", "candidates"}
      BY <1>3, <2>1 DEF Dictionaries
    <3> QED
      BY <1>2, <1>4, <1>5, <2>1, <3>1 DEF IInv, NotAhead
  <2>4. Complete'
    BY <1>2, <1>3, <2>1 DEF IInv, Complete, Epochs
  <2>5. ReadyListed' /\ RemovalStopsAtGaps'
    BY <1>3, <1>5, <2>1 DEF IInv, ReadyListed, RemovalStopsAtGaps
  <2>6. Forgets
    BY <1>1, <1>4, <2>1 DEF Forgets
  <2> QED
    BY <2>2, <2>3, <2>4, <2>5, <2>6 DEF IInv
<1> QED
  BY <1>6, <1>7

\* The epoch moves on to n, by a catch-up or by its end, and none begins.
LEMMA MovedKeeps ==
  ASSUME IInv, NEW n \in Epochs, number <= n, number' = n, over' \in BOOLEAN,
         gaps' = gaps \cup (number + 1 .. n), UNCHANGED <<voting, raised>>,
         ready' \subseteq ready, \A x \in ready' : x <= n + 1,
         (n + 1 \in ready' /\ n = number) \/ n + 1 \notin ready',
         timer' \in 0..MaxEpoch, timer' <= n + 1,
         stuck' \in BOOLEAN, stuck' => stuck
  PROVE  IInv' /\ Forgets
<1>1. voting \in Dictionaries /\ DOMAIN voting = {"ballots", "results", "candidates"}
  BY VotingType DEF IInv
<1>2. number \in Nat /\ n \in Nat /\ (number + 1 .. n) \subseteq Epochs
  BY DEF IInv, TypeOK, Epochs
<1>3. TypeOK'
  BY <1>1, <1>2 DEF IInv, TypeOK, Dictionaries, Epochs
<1>4. NotAhead'
  <2>1. \A d \in DOMAIN voting : \A x \in voting[d] : x <= n + 1
    BY <1>1, <1>2 DEF IInv, NotAhead, Dictionaries, Epochs
  <2> QED
    BY <2>1 DEF NotAhead
<1>5. Complete'
  BY <1>2 DEF IInv, Complete, Epochs
<1>6. ReadyListed' /\ RemovalStopsAtGaps'
  BY DEF IInv, ReadyListed, RemovalStopsAtGaps
<1>7. Forgets
  BY DEF Forgets
<1> QED
  BY <1>3, <1>4, <1>5, <1>6, <1>7 DEF IInv

\* The end of epoch n, at or past the epoch that ran.
LEMMA EndKeeps ==
  ASSUME IInv, NEW n \in Epochs, number <= n, EpochEnds(n, number + 1 .. n),
         timer' = timer, stuck' \in BOOLEAN,
         stuck' => stuck \/ raised' # raised
  PROVE  IInv' /\ Forgets
<1>1. voting \in Dictionaries /\ DOMAIN voting = {"ballots", "results", "candidates"}
  BY VotingType DEF IInv
<1>2. number \in Nat /\ n \in Nat
  BY DEF IInv, TypeOK, Epochs
<1>3. ready' \subseteq ready /\ \A x \in ready' : x <= n + 1
  BY <1>2 DEF EpochEnds, IInv, NotAhead, TypeOK, Epochs
<1>4. \A d \in {"ballots", "results", "candidates"} : \A x \in voting[d] : x <= n + 1
  BY <1>1, <1>2 DEF IInv, NotAhead, Dictionaries, Epochs
<1>5. \A x \in Epochs : x <= n /\ x \notin gaps \cup (number + 1 .. n) =>
         /\ x \in voting.ballots \cup voting.results => x \in voting.candidates
         /\ x \in voting.results => x \in voting.ballots
  BY <1>2 DEF IInv, Complete, Epochs
<1>6. timer' \in 0..MaxEpoch /\ timer' <= n + 1
  BY <1>2 DEF IInv, NotAhead, TypeOK
<1>7. (number + 1 .. n) \subseteq Epochs
  BY <1>2 DEF Epochs
<1>8. CASE n + 1 \in ready'
  <2> DEFINE g == gaps \cup (number + 1 .. n) \cup ({n + 1} \ voting.ballots)
  <2>1. InitializeEpoch(n + 1, voting) /\ gaps' = g
    BY <1>8 DEF EpochEnds
  <2>2. n + 1 \in Epochs /\ n = number
    BY <1>2, <1>3, <1>8 DEF IInv, TypeOK, NotAhead
  <2>3. n + 1 \in voting.candidates
    BY <1>3, <1>8, <2>2 DEF IInv, ReadyListed
  <2>4. TypeOK /\ RemovalStopsAtGaps /\ gaps \subseteq g /\ g \in SUBSET Epochs
    BY <1>7, <2>2 DEF IInv, TypeOK
  <2>5. \A x \in Epochs : x \notin g =>
            /\ x \in voting.ballots \cup voting.results => x \in voting.candidates
            /\ x \in voting.results => x \in voting.ballots
    <3> TAKE x \in Epochs
    <3> HAVE x \notin g
    <3>1. CASE x <= n
      BY <1>5, <3>1
    <3>2. CASE x = n + 1
      BY <2>3, <3>2
    <3>3. CASE x > n + 1
      BY <1>1, <1>2, <1>4, <3>3 DEF Epochs
    <3> HIDE DEF g
    <3> QED
      BY <1>2, <3>1, <3>2, <3>3 DEF Epochs
  <2> HIDE DEF g
  <2>6. /\ number' = n + 1 /\ over' = FALSE
        /\ voting' \in Dictionaries
        /\ \A d \in {"ballots", "results", "candidates"} : \A x \in voting'[d] : x <= n + 1
        /\ Complete'
        /\ raised' \subseteq g
        /\ raised' \subseteq Epochs
        /\ \A d \in {"ballots", "results", "candidates"}, x \in Epochs :
             x \in voting[d] \ voting'[d] => x + Keep <= number'
    BY <1>1, <1>2, <1>4, <2>1, <2>2, <2>4, <2>5, InitializeKeeps
  <2>7. TypeOK'
    <3>1. number' \in 0..MaxEpoch
      BY <1>2, <2>2, <2>6 DEF Epochs
    <3>2. ready' \subseteq Epochs
      BY <1>3, <2>4 DEF TypeOK
    <3> QED
      BY <1>6, <2>1, <2>4, <2>6, <3>1, <3>2 DEF TypeOK, Dictionaries
  <2>8. NotAhead' /\ ReadyListed'
    <3>1. DOMAIN voting' = {"ballots", "results", "candidates"}
      BY <2>6 DEF Dictionaries
    <3>2. \A d \in DOMAIN voting' : \A x \in voting'[d] : x <= number' + 1
      <4> TAKE d \in DOMAIN voting'
      <4> TAKE x \in voting'[d]
      <4>1. x <= n + 1 /\ x \in Epochs
        BY <3>1, <2>6 DEF Dictionaries
      <4> QED
        BY <1>2, <2>6, <4>1 DEF Epochs
    <3>3. \A x \in ready' : x <= number' + 1
      BY <1>2, <1>3, <2>6, <2>7 DEF TypeOK, Epochs
    <3>4. timer' <= number' + 1
      BY <1>2, <1>6, <2>6
    <3>5. number' + 1 \notin ready'
      BY <1>2, <1>3, <2>6
    <3> QED
      BY <3>2, <3>3, <3>4, <3>5 DEF NotAhead, ReadyListed
  <2>9. RemovalStopsAtGaps'
    BY <2>1, <2>4, <2>6 DEF RemovalStopsAtGaps, InitializeEpoch
  <2>10. Forgets
    BY <1>1, <2>6 DEF Forgets
  <2> QED
    BY <2>6, <2>7, <2>8, <2>9, <2>10 DEF IInv
<1>9. CASE n + 1 \notin ready'
  <2>1. /\ number' = n
        /\ over' = TRUE
        /\ gaps' = gaps \cup (number + 1 .. n)
        /\ UNCHANGED <<voting, raised>>
    BY <1>9 DEF EpochEnds
  <2> QED
    BY <1>9, <2>1, MovedKeeps, <1>3, <1>6
<1> QED
  BY <1>8, <1>9

\* bootstrap: the epochs up to n are passed and nothing else changes.
LEMMA CatchUpKeeps ==
  ASSUME IInv, NEW n \in Epochs, NEW last \in BOOLEAN, CatchUp(n, last)
  PROVE  IInv' /\ Forgets
<1>1. number <= n /\ UNCHANGED <<timer, stuck>>
  BY DEF CatchUp
<1>2. stuck' \in BOOLEAN /\ (stuck' => stuck)
  BY <1>1 DEF IInv, TypeOK
<1>3. CASE last
  BY <1>1, <1>2, <1>3, EndKeeps DEF CatchUp
<1>4. CASE ~last
  <2>1. /\ number' = n /\ over' = FALSE
        /\ gaps' = gaps \cup (number + 1 .. n)
        /\ UNCHANGED <<voting, ready, raised>>
    BY <1>4 DEF CatchUp
  <2>2. \A x \in ready : x <= n + 1
    BY <1>1 DEF IInv, NotAhead, TypeOK, Epochs
  <2>3. timer' \in 0..MaxEpoch /\ timer' <= n + 1
    BY <1>1 DEF IInv, NotAhead, TypeOK, Epochs
  <2>4. (n + 1 \in ready' /\ n = number) \/ n + 1 \notin ready'
    BY <1>1, <2>1 DEF IInv, NotAhead, TypeOK, Epochs
  <2> QED
    BY <1>1, <1>2, <2>1, <2>2, <2>3, <2>4, MovedKeeps
<1> QED
  BY <1>3, <1>4

\* The end of an epoch, which starts the next or waits.
LEMMA EndLastSlotKeeps ==
  ASSUME IInv, NEW invalid \in BOOLEAN, EndLastSlot(invalid)
  PROVE  IInv' /\ Forgets
<1>1. number \in Epochs /\ number <= number
  BY DEF IInv, TypeOK, EndLastSlot, Epochs
<1>2. number + 1 .. number = {}
  BY <1>1 DEF Epochs
<1>3. EpochEnds(number, number + 1 .. number)
  BY <1>2 DEF EndLastSlot
<1>4. timer' = timer /\ stuck' \in BOOLEAN /\ (stuck' => stuck \/ raised' # raised)
  BY DEF EndLastSlot, IInv, TypeOK
<1> QED
  BY <1>1, <1>3, <1>4, EndKeeps

\* Every step keeps the invariant, and only a removal forgets.
LEMMA NextIInv == IInv /\ [Next]_vars => IInv' /\ (Forgets \/ UNCHANGED vars)
<1> SUFFICES ASSUME IInv, [Next]_vars PROVE IInv' /\ (Forgets \/ UNCHANGED vars)
  OBVIOUS
<1>1. CASE CastVote \/ HandleVote \/ TimerFires
  BY <1>1, AdditionKeeps
<1>2. CASE \E accepted \in BOOLEAN : HandleResult(accepted)
  BY <1>2, ResultKeeps
<1>3. CASE \E invalid \in BOOLEAN : EndLastSlot(invalid)
  BY <1>3, EndLastSlotKeeps
<1>4. CASE \E n \in Epochs, last \in BOOLEAN : CatchUp(n, last)
  BY <1>4, CatchUpKeeps
<1>5. CASE UNCHANGED vars
  BY <1>5 DEF vars, IInv, TypeOK, NotAhead, Complete, ReadyListed, RemovalStopsAtGaps
<1> QED
  BY <1>1, <1>2, <1>3, <1>4, <1>5 DEF Next

---------------------------------------------------------------------------
(* How much is kept *)

\* While the node elects every epoch itself, the three dictionaries agree on the
\* epochs that have begun, and stay below the limit.
InStep ==
  gaps = {} =>
    /\ \A e \in 1..number : /\ e \in voting.results <=> e \in voting.ballots
                            /\ e \in voting.results <=> e \in voting.candidates
    /\ number + 1 \in voting.candidates => number + 1 \in voting.results
    /\ Cardinality(voting.results \cap 1..number) < Limit

\* A set of naturals that has an element has a smallest one.
LEMMA Smallest ==
  ASSUME NEW S \in SUBSET Nat, S # {}
  PROVE  \E m \in S : \A k \in S : m <= k
<1> DEFINE R == OpToRel(<, Nat)
<1>1. IsWellFoundedOn(R, Nat)
  BY NatLessThanWellFounded
<1>2. \A x, y \in Nat : x < y => <<x, y>> \in R
  BY DEF OpToRel
<1> HIDE DEF R
<1>3. PICK m \in S : \A k \in S : ~ (<<k, m>> \in R)
  BY <1>1, WFMin
<1>4. m \in Nat /\ \A k \in S : k \in Nat /\ ~ (k < m)
  BY <1>2, <1>3
<1> QED BY <1>4

\* Of the results only the last Keep are not old.
LEMMA FewAreKept ==
  ASSUME NEW v \in Dictionaries
  PROVE  IsFiniteSet(v.results \ Old(v)) /\ Cardinality(v.results \ Old(v)) <= Keep
<1> DEFINE S == v.results
           R == S \ Old(v)
<1>1. S \subseteq Epochs /\ IsFiniteSet(Epochs)
  BY FS_Interval DEF Dictionaries, Epochs
<1>2. IsFiniteSet(S) /\ IsFiniteSet(R)
  BY <1>1, FS_Subset
<1>3. CASE R = {}
  <2>1. Cardinality(R) = 0
    BY <1>3, FS_EmptySet
  <2> QED BY <1>2, <2>1
<1>4. CASE R # {}
  <2>1. R \in SUBSET Nat
    BY <1>1 DEF Epochs
  <2>2. PICK m \in R : \A k \in R : m <= k
    BY <1>4, <2>1, Smallest
  <2> DEFINE newer == { x \in S : x > m }
  <2>3. IsFiniteSet(newer) /\ Cardinality(newer) \in Nat
    BY <1>2, FS_Subset, FS_CardinalityType
  <2>4. ~ (Cardinality(newer) >= Keep)
    BY <2>2 DEF Old
  <2>5. IsFiniteSet(newer \cup {m}) /\ Cardinality(newer \cup {m}) = Cardinality(newer) + 1
    <3>1. m \notin newer
      BY <2>1, <2>2
    <3> HIDE DEF newer
    <3> QED BY <2>3, <3>1, FS_AddElement
  <2>6. R \subseteq newer \cup {m}
    BY <2>1, <2>2
  <2>7. Cardinality(R) <= Cardinality(newer \cup {m})
    BY <2>5, <2>6, FS_Subset
  <2>8. Cardinality(R) \in Nat
    BY <1>2, FS_CardinalityType
  <2> HIDE DEF newer, R
  <2>9. Cardinality(R) <= Keep
    BY <2>3, <2>4, <2>5, <2>7, <2>8
  <2> QED BY <1>2, <2>9 DEF R
<1> QED BY <1>3, <1>4

\* A removal in which nothing is missing takes the same epochs from all three.
LEMMA RemovalIsEven ==
  ASSUME NEW v \in Dictionaries, Incomplete(v) = {}
  PROVE  LET after == RemoveOldEpochData(v) IN
         /\ IsFull(v) => /\ after.results = v.results \ Old(v)
                         /\ after.ballots = v.ballots \ Old(v)
                         /\ after.candidates = v.candidates \ Old(v)
         /\ ~IsFull(v) => after = v
<1>1. Reached(v) = Old(v)
  BY DEF Reached
<1> QED BY <1>1 DEF RemoveOldEpochData

\* An epoch that begins with a result, a list and a ballot leaves the dictionaries
\* in step.
LEMMA InitializeInStep ==
  ASSUME NEW n \in Nat, NEW v \in Dictionaries,
         \A e \in v.results \cup v.candidates : e <= n,
         \A e \in 1..n : /\ e \in v.results <=> e \in v.ballots
                         /\ e \in v.results <=> e \in v.candidates,
         InitializeEpoch(n, v)
  PROVE  InStep'
<1>1. /\ number' = n /\ voting' = RemoveOldEpochData(v) /\ Old(v) \subseteq v.results
      /\ v.results \subseteq 1..n /\ v.candidates \subseteq 1..n
  BY DEF InitializeEpoch, Old, Dictionaries, Epochs
<1>2. Incomplete(v) = {}
  <2>1. \A e \in Old(v) : e \in v.candidates /\ e \in v.ballots
    <3> TAKE e \in Old(v)
    <3>1. e \in v.results /\ e \in 1..n
      BY <1>1
    <3> QED BY <3>1
  <2> QED BY <2>1 DEF Incomplete
<1> DEFINE r == voting'.results
           b == voting'.ballots
           c == voting'.candidates
<1>3. /\ IsFull(v) => /\ r = v.results \ Old(v)
                      /\ b = v.ballots \ Old(v)
                      /\ c = v.candidates \ Old(v)
      /\ ~IsFull(v) => r = v.results /\ b = v.ballots /\ c = v.candidates
  BY <1>1, <1>2, RemovalIsEven
<1>4. Cardinality(r) < Limit
  <2>1. CASE IsFull(v)
    <3>1. IsFiniteSet(v.results \ Old(v)) /\ Cardinality(v.results \ Old(v)) <= Keep
      BY FewAreKept
    <3>2. Cardinality(v.results \ Old(v)) \in Nat
      BY <3>1, FS_CardinalityType
    <3>3. r = v.results \ Old(v)
      BY <1>3, <2>1
    <3> HIDE DEF r
    <3> QED BY <3>1, <3>2, <3>3
  <2>2. CASE ~IsFull(v)
    <3>1. v.results \subseteq Epochs /\ IsFiniteSet(Epochs)
      BY FS_Interval DEF Dictionaries, Epochs
    <3>2. Cardinality(v.results) \in Nat
      BY <3>1, FS_Subset, FS_CardinalityType
    <3>3. r = v.results /\ ~ (Cardinality(v.results) >= Limit)
      BY <1>3, <2>2 DEF IsFull
    <3> HIDE DEF r
    <3> QED BY <3>2, <3>3
  <2> QED BY <2>1, <2>2
<1> HIDE DEF r, b, c
<1>5. \A e \in 1..n : (e \in r <=> e \in b) /\ (e \in r <=> e \in c)
  BY <1>3
<1>6. r \cap 1..n = r
  BY <1>1, <1>3
<1>7. n + 1 \notin c
  BY <1>1, <1>3
<1> QED BY <1>1, <1>4, <1>5, <1>6, <1>7 DEF InStep, r, b, c

\* A step that adds a ballot or a result, and removes nothing, keeps the dictionaries in step.
LEMMA AdditionInStep ==
  ASSUME IInv, InStep, CastVote \/ HandleVote \/ TimerFires
  PROVE  InStep'
<1>1. /\ number \in Nat /\ number' = number /\ gaps' = gaps
      /\ number + 1 \notin 1..number
  BY DEF IInv, TypeOK, CastVote, HandleVote, TimerFires
<1>2. /\ voting.ballots \subseteq voting'.ballots
      /\ voting.results \subseteq voting'.results
      /\ voting'.candidates = voting.candidates
      /\ \A e \in voting'.ballots : e \in voting.ballots \/ e = number + 1
      /\ \A e \in voting'.results :
           \/ e \in voting.results
           \/ e = number + 1
           \/ (e = timer /\ e \in voting.ballots)
  BY AdditionAdds
<1>3. SUFFICES ASSUME gaps = {} PROVE InStep'
  BY <1>1 DEF InStep
<1>4. /\ \A e \in 1..number : /\ e \in voting.results <=> e \in voting.ballots
                              /\ e \in voting.results <=> e \in voting.candidates
      /\ number + 1 \in voting.candidates => number + 1 \in voting.results
      /\ Cardinality(voting.results \cap 1..number) < Limit
  BY <1>3 DEF InStep
<1>5. \A e \in 1..number : /\ e \in voting'.ballots <=> e \in voting.ballots
                           /\ e \in voting'.results <=> e \in voting.results
  BY <1>1, <1>2, <1>4
<1>6. voting'.results \cap 1..number = voting.results \cap 1..number
  BY <1>5
<1> QED BY <1>1, <1>2, <1>4, <1>5, <1>6 DEF InStep

\* A result that is accepted keeps the dictionaries in step.
LEMMA ResultInStep ==
  ASSUME IInv, InStep, NEW accepted \in BOOLEAN, HandleResult(accepted)
  PROVE  InStep'
<1> DEFINE e == number + 1
           v == [voting EXCEPT !.results = @ \cup {e},
                               !.candidates = IF accepted THEN @ \cup {e} ELSE @]
<1>1. number \in Nat /\ e \in Epochs /\ e \notin 1..number /\ e \in Nat
      /\ \A x \in 1..e : x \in 1..number \/ x = e
  BY DEF IInv, TypeOK, HandleResult, NextEpoch
<1>2. voting \in Dictionaries /\ \A d \in {"results", "candidates"} : \A x \in voting[d] : x <= e
  BY VotingType DEF IInv, NotAhead
<1>3. /\ v \in Dictionaries
      /\ v.ballots = voting.ballots
      /\ v.results = voting.results \cup {e}
      /\ v.candidates = IF accepted THEN voting.candidates \cup {e} ELSE voting.candidates
  BY <1>1, <1>2 DEF Dictionaries
<1>4. gaps' = {} => gaps = {}
  BY DEF HandleResult
<1>5. SUFFICES ASSUME gaps = {}, gaps' = {} PROVE InStep'
  BY <1>4 DEF InStep
<1>6. /\ \A x \in 1..number : /\ x \in voting.results <=> x \in voting.ballots
                              /\ x \in voting.results <=> x \in voting.candidates
      /\ Cardinality(voting.results \cap 1..number) < Limit
  BY <1>5 DEF InStep
<1>7. CASE accepted /\ over
  <2>1. InitializeEpoch(e, v) /\ gaps' = IF e \in v.ballots THEN gaps ELSE gaps \cup {e}
    BY <1>7 DEF HandleResult, NextEpoch
  <2>2. e \in v.ballots
    BY <1>5, <2>1
  <2> HIDE DEF v
  <2>3. \A x \in 1..e : /\ x \in v.results <=> x \in v.ballots
                        /\ x \in v.results <=> x \in v.candidates
    <3> HIDE DEF e
    <3> QED BY <1>1, <1>3, <1>6, <1>7, <2>2
  <2>4. \A x \in v.results \cup v.candidates : x <= e
    <3>1. /\ v.results \subseteq voting["results"] \cup {e}
          /\ v.candidates \subseteq voting["candidates"] \cup {e}
      BY <1>3
    <3> HIDE DEF e
    <3> QED BY <1>1, <1>2, <3>1
  <2> HIDE DEF e
  <2> QED BY <1>1, <1>3, <2>1, <2>3, <2>4, InitializeInStep
<1>8. CASE ~(accepted /\ over)
  <2>1. voting' = v /\ number' = number
    BY <1>8 DEF HandleResult, NextEpoch
  <2> HIDE DEF v
  <2>2. \A x \in 1..number : /\ x \in voting'.ballots <=> x \in voting.ballots
                             /\ x \in voting'.results <=> x \in voting.results
                             /\ x \in voting'.candidates <=> x \in voting.candidates
    <3> HIDE DEF e
    <3> QED BY <1>1, <1>3, <2>1
  <2>3. voting'.results \cap 1..number = voting.results \cap 1..number
    BY <2>2
  <2>4. number + 1 \in voting'.results
    BY <1>3, <2>1
  <2> QED BY <1>6, <2>1, <2>2, <2>3, <2>4 DEF InStep
<1> QED BY <1>7, <1>8

\* An epoch that ends on its own keeps the dictionaries in step; one that is passed
\* is a gap.
LEMMA EndInStep ==
  ASSUME IInv, InStep, NEW n \in Epochs, number <= n, EpochEnds(n, number + 1 .. n)
  PROVE  InStep'
<1>1. number \in Nat /\ n \in Nat
  BY DEF IInv, TypeOK, Epochs
<1>2. SUFFICES ASSUME gaps' = {} PROVE InStep'
  BY DEF InStep
<1>3. gaps = {} /\ number + 1 .. n = {}
  BY <1>2 DEF EpochEnds
<1>4. n = number
  <2>1. SUFFICES ASSUME n # number PROVE FALSE
    OBVIOUS
  <2>2. n \in number + 1 .. n
    BY <1>1, <2>1
  <2> QED BY <1>3, <2>2
<1>5. ready' \subseteq ready
  BY DEF EpochEnds
<1>6. CASE n + 1 \in ready'
  <2>1. InitializeEpoch(n + 1, voting) /\ n + 1 \in voting.ballots
    BY <1>2, <1>6 DEF EpochEnds
  <2>2. n + 1 \in voting.candidates /\ n + 1 \in voting.results
    BY <1>3, <1>4, <1>5, <1>6 DEF IInv, ReadyListed, InStep
  <2>3. \A x \in 1..(n + 1) : x \in 1..number \/ x = n + 1
    BY <1>1, <1>4
  <2>4. \A x \in 1..(n + 1) : /\ x \in voting.results <=> x \in voting.ballots
                              /\ x \in voting.results <=> x \in voting.candidates
    BY <1>3, <2>1, <2>2, <2>3 DEF InStep
  <2>5. voting \in Dictionaries /\ \A d \in {"results", "candidates"} : \A x \in voting[d] : x <= n + 1
    BY <1>4, VotingType DEF IInv, NotAhead
  <2>6. \A x \in voting["results"] \cup voting["candidates"] : x <= n + 1
    BY <2>5
  <2>7. n + 1 \in Nat
    BY <1>1
  <2> QED BY <2>1, <2>4, <2>5, <2>6, <2>7, InitializeInStep
<1>7. CASE n + 1 \notin ready'
  <2>1. number' = number /\ voting' = voting
    BY <1>4, <1>7 DEF EpochEnds
  <2> QED BY <1>3, <2>1 DEF InStep
<1> QED BY <1>6, <1>7

\* Every step keeps the dictionaries in step.
LEMMA NextInStep ==
  ASSUME IInv, InStep, [Next]_vars
  PROVE  InStep'
<1>1. number \in Nat
  BY DEF IInv, TypeOK
<1>2. CASE CastVote \/ HandleVote \/ TimerFires
  BY <1>2, AdditionInStep
<1>3. CASE \E accepted \in BOOLEAN : HandleResult(accepted)
  BY <1>3, ResultInStep
<1>4. CASE \E invalid \in BOOLEAN : EndLastSlot(invalid)
  <2>1. number \in Epochs /\ number <= number /\ EpochEnds(number, {})
    BY <1>4 DEF IInv, TypeOK, EndLastSlot, Epochs
  <2>2. number + 1 .. number = {}
    BY <1>1
  <2> QED BY <2>1, <2>2, EndInStep
<1>5. CASE \E n \in Epochs, last \in BOOLEAN : CatchUp(n, last)
  <2>1. PICK n \in Epochs, last \in BOOLEAN : CatchUp(n, last)
    BY <1>5
  <2>2. number <= n
    BY <2>1 DEF CatchUp
  <2>3. CASE last
    BY <2>1, <2>2, <2>3, EndInStep DEF CatchUp
  <2>4. CASE ~last
    <3>1. number' = n /\ gaps' = gaps \cup (number + 1 .. n) /\ voting' = voting
      BY <2>1, <2>4 DEF CatchUp
    <3>2. SUFFICES ASSUME gaps' = {} PROVE InStep'
      BY DEF InStep
    <3>3. n = number
      <4>1. SUFFICES ASSUME n # number PROVE FALSE
        OBVIOUS
      <4>2. n \in number + 1 .. n
        BY <1>1, <2>2, <4>1 DEF Epochs
      <4> QED BY <3>1, <3>2, <4>2
    <3> QED BY <3>1, <3>2, <3>3 DEF InStep
  <2> QED BY <2>3, <2>4
<1>6. CASE UNCHANGED vars
  BY <1>6 DEF vars, InStep
<1> QED BY <1>2, <1>3, <1>4, <1>5, <1>6 DEF Next

\* What is in step is within the limit: of each dictionary the epochs that have
\* begun are as many as the results, and of the others there is only the next.
LEMMA InStepIsBounded ==
  ASSUME IInv, InStep
  PROVE  DataBounded
<1>1. SUFFICES ASSUME gaps = {}
               PROVE  \A d \in {"results", "candidates", "ballots"} :
                        Cardinality(voting[d]) <= Limit
  BY DEF DataBounded
<1> DEFINE begun == voting.results \cap 1..number
<1>2. number \in Nat /\ IsFiniteSet(1..number)
  BY FS_Interval DEF IInv, TypeOK
<1>3. IsFiniteSet(begun) /\ Cardinality(begun) \in Nat /\ Cardinality(begun) < Limit
  <2>1. IsFiniteSet(begun)
    BY <1>2, FS_Intersection
  <2> QED BY <1>1, <2>1, FS_CardinalityType DEF InStep
<1>4. IsFiniteSet(begun \cup {number + 1})
      /\ Cardinality(begun \cup {number + 1}) = Cardinality(begun) + 1
  <2>1. number + 1 \notin begun
    BY <1>2
  <2> HIDE DEF begun
  <2> QED BY <1>3, <2>1, FS_AddElement
<1>5. ASSUME NEW d \in {"results", "candidates", "ballots"}
      PROVE  Cardinality(voting[d]) <= Limit
  <2>1. voting[d] \subseteq Epochs /\ \A x \in voting[d] : x <= number + 1
    BY VotingType DEF IInv, NotAhead, Dictionaries
  <2>2. \A x \in voting[d] : x \in 1..number \/ x = number + 1
    BY <1>2, <2>1 DEF Epochs
  <2>3. \A x \in 1..number : x \in voting[d] => x \in voting.results
    BY <1>1 DEF InStep
  <2>4. voting[d] \subseteq begun \cup {number + 1}
    BY <2>2, <2>3
  <2> HIDE DEF begun
  <2>5. IsFiniteSet(voting[d]) /\ Cardinality(voting[d]) <= Cardinality(begun) + 1
    BY <1>4, <2>4, FS_Subset
  <2>6. Cardinality(voting[d]) \in Nat
    BY <2>5, FS_CardinalityType
  <2> QED BY <1>3, <2>5, <2>6
<1> QED BY <1>5

---------------------------------------------------------------------------
(* The theorems *)

\* The inductive invariant.
THEOREM RetentionInvariant == Spec => []IInv
<1>1. Init => IInv
  BY InitIInv
<1>2. IInv /\ [Next]_vars => IInv'
  BY NextIInv
<1> QED
  BY <1>1, <1>2, PTL DEF Spec

\* All variables stay in their types.
THEOREM TypeCorrect == Spec => []TypeOK
<1>1. IInv => TypeOK
  BY DEF IInv
<1> QED
  BY <1>1, RetentionInvariant, PTL

\* A removal raises, and an invalid block stays uncounted, at gaps only.
THEOREM RemovalIsSafe == Spec => []RemovalStopsAtGaps
<1>1. IInv => RemovalStopsAtGaps
  BY DEF IInv
<1> QED
  BY <1>1, RetentionInvariant, PTL

\* A node that elects every epoch itself never keeps more than the limit.
THEOREM DataStaysBounded == Spec => []DataBounded
<1>1. Init => InStep
  <2> SUFFICES ASSUME Init PROVE InStep
    OBVIOUS
  <2>1. 1..number = {} /\ voting.candidates = {} /\ voting.results = {}
    BY DEF Init
  <2>2. Cardinality(voting.results \cap 1..number) = 0
    BY <2>1, FS_EmptySet
  <2> QED BY <2>1, <2>2 DEF InStep
<1>2. IInv /\ InStep /\ [Next]_vars => InStep'
  BY NextInStep
<1>3. IInv /\ InStep => DataBounded
  BY InStepIsBounded
<1> QED
  BY <1>1, <1>2, <1>3, RetentionInvariant, PTL DEF Spec

\* Only data of epochs at least Keep behind is forgotten.
THEOREM RecentDataKept == Spec => RecentKept
<1>1. IInv /\ [Next]_vars =>
        [\A e \in Epochs, d \in DOMAIN voting :
           e \in voting[d] \ voting'[d] => e + Keep <= number']_vars
  BY NextIInv DEF Forgets
<1> QED
  BY <1>1, RetentionInvariant, PTL DEF Spec, RecentKept

=============================================================================
