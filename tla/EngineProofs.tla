---------------------------- MODULE EngineProofs ----------------------------
(***************************************************************************)
(* The counters of the engine are exact and its steps are those of the     *)
(* schedule, so that what is proved of the schedule holds of the engine,   *)
(* whatever the tree of blocks and however well the environment behaves.   *)
(***************************************************************************)
EXTENDS Engine, FiniteSetTheorems, SequenceTheorems, TLAPS

Proved == INSTANCE EpochScheduleProofs

---------------------------------------------------------------------------
(* The schedule that the engine moves is the one of EpochScheduleProofs *)

\* The assumptions of the schedule are among those of the engine.
LEMMA Assumptions == Proved!EpochAssumption /\ Proved!ScheduleAssumption
<1>1. Proved!Cardinality(Members) = Cardinality(Members)
  BY DEF Proved!Cardinality, Cardinality
<1>2. Proved!EpochAssumption
  BY <1>1, EpochAssumption DEF Proved!EpochAssumption, Proved!IsFiniteSet, IsFiniteSet
<1>3. Proved!Bijection(1..Cardinality(Members), Members)
        = Bijection(1..Cardinality(Members), Members)
  BY DEF Proved!Bijection, Proved!Injection, Proved!Surjection, Proved!IsInjective,
         Bijection, Injection, Surjection, IsInjective
<1>4. Proved!Rankings = Rankings
  BY <1>1, <1>3 DEF Proved!Rankings, Rankings
<1> QED BY <1>2, <1>4, EngineAssumption DEF Proved!ScheduleAssumption

\* The operators of the two instances are the same: the order of the witnesses,
LEMMA SameReorderings ==
  \A list, seed, idx : Schedule!Reorderings(list, seed, idx) = Proved!Reorderings(list, seed, idx)
BY DEF Schedule!Reorderings, Proved!Reorderings, Schedule!Before, Proved!Before,
       Schedule!Bijection, Schedule!Injection, Schedule!Surjection, Schedule!IsInjective,
       Proved!Bijection, Proved!Injection, Proved!Surjection, Proved!IsInjective

\* what is asked of an epoch,
LEMMA SameQueries ==
  ASSUME NEW ep, NEW key
  PROVE  /\ Schedule!HasWitnesses(ep) <=> Proved!HasWitnesses(ep)
         /\ Schedule!IsWitness(ep, key) <=> Proved!IsWitness(ep, key)
         /\ Schedule!CurrentWitness(ep) = Proved!CurrentWitness(ep)
         /\ Schedule!SlotsRemaining(ep) = Proved!SlotsRemaining(ep)
         /\ Schedule!IsOver(ep) <=> Proved!IsOver(ep)
         /\ Schedule!NextEpochNumber(ep) = Proved!NextEpochNumber(ep)
         /\ Schedule!DowngradeBlocks(ep, key) <=> Proved!DowngradeBlocks(ep, key)
BY DEF Schedule!HasWitnesses, Proved!HasWitnesses, Schedule!IsWitness, Proved!IsWitness,
       Schedule!Range, Proved!Range, Schedule!CurrentWitness, Proved!CurrentWitness,
       Schedule!WitnessOfSlot, Proved!WitnessOfSlot, Schedule!SlotsRemaining,
       Proved!SlotsRemaining, Schedule!IsOver, Proved!IsOver, Schedule!NextEpochNumber,
       Proved!NextEpochNumber, Schedule!DowngradeBlocks, Proved!DowngradeBlocks

\* its slots,
LEMMA SameSteps ==
  ASSUME NEW ep, NEW key, NEW seed
  PROVE  /\ Schedule!IncrementWitness(ep, seed) = Proved!IncrementWitness(ep, seed)
         /\ Schedule!DowngradeWitness(ep, key) = Proved!DowngradeWitness(ep, key)
<1>1. Schedule!IncrementWitness(ep, seed) = Proved!IncrementWitness(ep, seed)
  BY SameQueries, SameReorderings DEF Schedule!IncrementWitness, Proved!IncrementWitness
<1>2. Schedule!DowngradeWitness(ep, key) = Proved!DowngradeWitness(ep, key)
  BY SameQueries DEF Schedule!DowngradeWitness, Proved!DowngradeWitness
<1> QED BY <1>1, <1>2

\* its beginning,
LEMMA SameElection ==
  ASSUME NEW number, NEW list, NEW st
  PROVE  /\ Schedule!Vote <=> Proved!Vote
         /\ Schedule!InitializeEpoch(number, list, st) <=> Proved!InitializeEpoch(number, list, st)
         /\ Schedule!AcceptResult(list) <=> Proved!AcceptResult(list)
<1>1. Schedule!Vote <=> Proved!Vote
  BY SameQueries DEF Schedule!Vote, Proved!Vote, Schedule!Epochs, Proved!Epochs
<1>2. Schedule!InitializeEpoch(number, list, st) <=> Proved!InitializeEpoch(number, list, st)
  BY DEF Schedule!InitializeEpoch, Proved!InitializeEpoch,
         Schedule!SetCandidatesAndWitnesses, Proved!SetCandidatesAndWitnesses,
         Schedule!NewEpoch, Proved!NewEpoch,
         Schedule!UnlessCatchingUp, Proved!UnlessCatchingUp
<1>3. Schedule!AcceptResult(list) <=> Proved!AcceptResult(list)
  BY SameQueries DEF Schedule!AcceptResult, Proved!AcceptResult,
     Schedule!InitializeEpoch, Proved!InitializeEpoch,
     Schedule!SetCandidatesAndWitnesses, Proved!SetCandidatesAndWitnesses,
     Schedule!NewEpoch, Proved!NewEpoch,
     Schedule!UnlessCatchingUp, Proved!UnlessCatchingUp, Schedule!Epochs, Proved!Epochs
<1> QED BY <1>1, <1>2, <1>3

\* its end,
LEMMA SameNextSlot ==
  ASSUME NEW ep, NEW st, NEW seed
  PROVE  Schedule!NextSlot(ep, st, seed) <=> Proved!NextSlot(ep, st, seed)
<1>1. \A moved : Schedule!EpochEnds(moved, st) <=> Proved!EpochEnds(moved, st)
  BY DEF Schedule!EpochEnds, Proved!EpochEnds, Schedule!NextEpochNumber, Proved!NextEpochNumber,
         Schedule!Restrict, Proved!Restrict,
         Schedule!InitializeEpoch, Proved!InitializeEpoch,
         Schedule!SetCandidatesAndWitnesses, Proved!SetCandidatesAndWitnesses,
         Schedule!NewEpoch, Proved!NewEpoch,
         Schedule!UnlessCatchingUp, Proved!UnlessCatchingUp
<1>2. Schedule!IncrementWitness(ep, seed) = Proved!IncrementWitness(ep, seed)
  BY SameSteps
<1>3. \A moved : Schedule!IsOver(moved) <=> Proved!IsOver(moved)
  BY SameQueries
<1> QED BY <1>1, <1>2, <1>3, SameQueries DEF Schedule!NextSlot, Proved!NextSlot

\* and the actions on it.
LEMMA SameSlots ==
  ASSUME NEW key, NEW seed, NEW number, NEW idx, NEW list
  PROVE  /\ Schedule!EndSlot(seed) <=> Proved!EndSlot(seed)
         /\ Schedule!MissSlot(seed) <=> Proved!MissSlot(seed)
         /\ Schedule!RejectBlock(key, seed) <=> Proved!RejectBlock(key, seed)
         /\ Schedule!FinishCatchUp(number, idx, list, seed)
              <=> Proved!FinishCatchUp(number, idx, list, seed)
<1>1. \A owner, past, skew : Schedule!Record(owner, past, skew) <=> Proved!Record(owner, past, skew)
  BY DEF Schedule!Record, Proved!Record
<1>2. Schedule!EndSlot(seed) <=> Proved!EndSlot(seed)
  BY <1>1, SameNextSlot, SameQueries DEF Schedule!EndSlot, Proved!EndSlot
<1>3. Schedule!MissSlot(seed) <=> Proved!MissSlot(seed)
  BY <1>1, SameNextSlot, SameQueries, SameSteps DEF Schedule!MissSlot, Proved!MissSlot
<1>4. Schedule!RejectBlock(key, seed) <=> Proved!RejectBlock(key, seed)
  BY <1>1, SameNextSlot, SameQueries, SameSteps DEF Schedule!RejectBlock, Proved!RejectBlock
<1>5. Schedule!FinishCatchUp(number, idx, list, seed)
        <=> Proved!FinishCatchUp(number, idx, list, seed)
  BY <1>1, SameNextSlot, SameQueries
     DEF Schedule!FinishCatchUp, Proved!FinishCatchUp, Schedule!NewEpoch, Proved!NewEpoch,
         Schedule!SetCandidatesAndWitnesses, Proved!SetCandidatesAndWitnesses
<1> QED BY <1>2, <1>3, <1>4, <1>5

\* So every step of one instance is a step of the other.
LEMMA SameNext == Schedule!Next <=> Proved!Next
BY SameElection, SameSlots
   DEF Schedule!Next, Proved!Next, Schedule!BeginCatchUp, Proved!BeginCatchUp,
       Schedule!Restart, Proved!Restart, Schedule!NewEpoch, Proved!NewEpoch,
       Schedule!Epochs, Proved!Epochs

---------------------------------------------------------------------------
(* Counting requests *)

Counts == [Blocks -> Nat]

\* There are finitely many requests.
LEMMA RequestsFinite ==
  ASSUME NEW times \in Counts
  PROVE  /\ IsFiniteSet(Requests(times))
         /\ Cardinality(Requests(times)) \in Nat
<1> DEFINE of == [b \in Blocks |-> {b} \X (1..times[b])]
           R == { {b} \X (1..times[b]) : b \in Blocks }
<1>1. IsFiniteSet(R)
  <2>1. of \in Surjection(Blocks, R)
    BY DEF Surjection
  <2> QED BY <2>1, EngineAssumption, FS_Surjection
<1>2. \A T \in R : IsFiniteSet(T)
  <2>1. ASSUME NEW b \in Blocks PROVE IsFiniteSet({b} \X (1..times[b]))
    <3>1. times[b] \in Int
      BY DEF Counts
    <3>2. IsFiniteSet({b})
      BY FS_Singleton
    <3>3. IsFiniteSet(1..times[b])
      BY <3>1, FS_Interval
    <3> QED BY <3>2, <3>3, FS_Product
  <2> QED BY <2>1
<1>3. IsFiniteSet(Requests(times))
  BY <1>1, <1>2, FS_UNION DEF Requests
<1> QED BY <1>3, FS_CardinalityType

\* A request is a block and a number up to the count of the block.
LEMMA InRequests ==
  ASSUME NEW times \in Counts
  PROVE  \A r : r \in Requests(times) <=>
                  \E b \in Blocks, k \in Nat : r = <<b, k>> /\ 1 <= k /\ k <= times[b]
<1>1. ASSUME NEW r, r \in Requests(times)
      PROVE  \E b \in Blocks, k \in Nat : r = <<b, k>> /\ 1 <= k /\ k <= times[b]
  <2>1. PICK b \in Blocks : r \in {b} \X (1..times[b])
    BY <1>1 DEF Requests
  <2>2. PICK k \in 1..times[b] : r = <<b, k>>
    BY <2>1
  <2> QED BY <2>2 DEF Counts
<1>2. ASSUME NEW b \in Blocks, NEW k \in Nat, 1 <= k, k <= times[b]
      PROVE  <<b, k>> \in Requests(times)
  <2>1. <<b, k>> \in {b} \X (1..times[b])
    BY <1>2 DEF Counts
  <2> QED BY <2>1 DEF Requests
<1> QED BY <1>1, <1>2

\* An answer takes one request away.
LEMMA RequestAnswered ==
  ASSUME NEW times \in Counts, NEW b \in Blocks, times[b] > 0
  PROVE  LET left == [times EXCEPT ![b] = @ - 1] IN
         /\ left \in Counts
         /\ Cardinality(Requests(left)) = Cardinality(Requests(times)) - 1
<1> DEFINE left == [times EXCEPT ![b] = @ - 1]
           last == <<b, times[b]>>
<1>1. /\ left \in Counts
      /\ \A c \in Blocks : left[c] = IF c = b THEN times[b] - 1 ELSE times[c]
  BY DEF Counts
<1>2. last \in Requests(times)
  <2>1. times[b] \in Nat /\ 1 <= times[b] /\ times[b] <= times[b]
    BY DEF Counts
  <2> QED BY <2>1, InRequests
<1> HIDE DEF left
<1>3. Requests(left) = Requests(times) \ {last}
  <2>1. ASSUME NEW c \in Blocks, NEW k \in Nat, 1 <= k
        PROVE  k <= left[c] <=> k <= times[c] /\ <<c, k>> # last
    <3>1. times[b] \in Nat /\ times[c] \in Nat
      BY DEF Counts
    <3> QED BY <1>1, <2>1, <3>1
  <2> HIDE DEF last
  <2>2. \A r : r \in Requests(left) <=> r \in Requests(times) /\ r # last
    BY <1>1, <2>1, InRequests
  <2> QED BY <2>2
<1>4. Cardinality(Requests(times) \ {last}) = Cardinality(Requests(times)) - 1
  BY <1>2, RequestsFinite, FS_RemoveElement
<1> QED BY <1>1, <1>3, <1>4 DEF left

\* New requests add up with those that are due.
LEMMA RequestsAdded ==
  ASSUME NEW due \in Counts, NEW new \in Counts
  PROVE  LET all == [b \in Blocks |-> due[b] + new[b]] IN
         /\ all \in Counts
         /\ Cardinality(Requests(all)) = Cardinality(Requests(due)) + Cardinality(Requests(new))
<1> DEFINE all == [b \in Blocks |-> due[b] + new[b]]
           added == { r \in Requests(all) : r \notin Requests(due) }
           shift == [r \in Requests(new) |-> <<r[1], due[r[1]] + r[2]>>]
<1>1. all \in Counts /\ \A b \in Blocks : all[b] = due[b] + new[b]
  BY DEF Counts
<1>2. \A b \in Blocks : due[b] \in Nat /\ new[b] \in Nat
  BY DEF Counts
<1> HIDE DEF all
<1>3. \A r : r \in added <=>
        \E b \in Blocks, k \in Nat : r = <<b, k>> /\ due[b] < k /\ k <= due[b] + new[b]
  <2>1. ASSUME NEW r, r \in added
        PROVE  \E b \in Blocks, k \in Nat : r = <<b, k>> /\ due[b] < k /\ k <= due[b] + new[b]
    <3>1. PICK b \in Blocks, k \in Nat : r = <<b, k>> /\ 1 <= k /\ k <= all[b]
      BY <1>1, <2>1, InRequests
    <3>2. ~(k <= due[b])
      BY <2>1, <3>1, InRequests
    <3> QED BY <1>1, <1>2, <3>1, <3>2
  <2>2. ASSUME NEW b \in Blocks, NEW k \in Nat, due[b] < k, k <= due[b] + new[b]
        PROVE  <<b, k>> \in added
    <3>1. <<b, k>> \in Requests(all)
      BY <1>1, <1>2, <2>2, InRequests
    <3>2. <<b, k>> \notin Requests(due)
      BY <1>2, <2>2, InRequests
    <3> QED BY <3>1, <3>2
  <2> QED BY <2>1, <2>2
<1>4. shift \in Bijection(Requests(new), added)
  <2>1. ASSUME NEW r \in Requests(new) PROVE shift[r] \in added
    <3>1. PICK b \in Blocks, k \in Nat : r = <<b, k>> /\ 1 <= k /\ k <= new[b]
      BY InRequests
    <3>2. shift[r] = <<b, due[b] + k>>
      BY <3>1
    <3>3. due[b] + k \in Nat /\ due[b] < due[b] + k /\ due[b] + k <= due[b] + new[b]
      BY <1>2, <3>1
    <3> QED BY <1>3, <3>2, <3>3
  <2>2. ASSUME NEW r \in Requests(new), NEW q \in Requests(new), shift[r] = shift[q]
        PROVE  r = q
    <3>1. PICK b \in Blocks, k \in Nat : r = <<b, k>>
      BY InRequests
    <3>2. PICK c \in Blocks, j \in Nat : q = <<c, j>>
      BY InRequests
    <3>3. <<b, due[b] + k>> = <<c, due[c] + j>>
      BY <2>2, <3>1, <3>2
    <3>4. b = c /\ due[b] + k = due[c] + j
      BY <3>3
    <3> QED BY <1>2, <3>1, <3>2, <3>4
  <2>3. ASSUME NEW a \in added PROVE \E r \in Requests(new) : shift[r] = a
    <3>1. PICK b \in Blocks, k \in Nat : a = <<b, k>> /\ due[b] < k /\ k <= due[b] + new[b]
      BY <1>3
    <3>2. k - due[b] \in Nat /\ 1 <= k - due[b] /\ k - due[b] <= new[b]
      BY <1>2, <3>1
    <3>3. <<b, k - due[b]>> \in Requests(new)
      BY <3>2, InRequests
    <3>4. shift[<<b, k - due[b]>>] = <<b, due[b] + (k - due[b])>>
      BY <3>3
    <3>5. due[b] + (k - due[b]) = k
      BY <1>2, <3>1
    <3> QED BY <3>1, <3>3, <3>4, <3>5
  <2> HIDE DEF shift, added
  <2>4. DOMAIN shift = Requests(new) /\ shift = [r \in Requests(new) |-> shift[r]]
    BY DEF shift
  <2>5. shift \in [Requests(new) -> added]
    BY <2>1, <2>4
  <2> QED BY <2>2, <2>3, <2>5 DEF Bijection, Injection, Surjection, IsInjective
<1>5. IsFiniteSet(added) /\ Cardinality(added) = Cardinality(Requests(new))
  BY <1>4, RequestsFinite, FS_Bijection DEF ExistsBijection
<1>6. Requests(all) = Requests(due) \cup added /\ Requests(due) \cap added = {}
  <2>1. Requests(due) \subseteq Requests(all)
    <3>1. ASSUME NEW r \in Requests(due) PROVE r \in Requests(all)
      <4>1. PICK b \in Blocks, k \in Nat : r = <<b, k>> /\ 1 <= k /\ k <= due[b]
        BY InRequests
      <4>2. k <= all[b]
        BY <1>1, <1>2, <4>1
      <4> QED BY <1>1, <4>1, <4>2, InRequests
    <3> QED BY <3>1
  <2> QED BY <2>1
<1>7. Cardinality(Requests(due) \cup added)
        = Cardinality(Requests(due)) + Cardinality(added) - Cardinality(Requests(due) \cap added)
  BY <1>5, RequestsFinite, FS_Union
<1>8. Cardinality(Requests(due) \cap added) = 0
  BY <1>6, FS_EmptySet
<1>9. Cardinality(Requests(due)) \in Nat /\ Cardinality(Requests(new)) \in Nat
  BY RequestsFinite
<1>10. Cardinality(Requests(all)) = Cardinality(Requests(due)) + Cardinality(Requests(new))
  <2> DEFINE all_ == Cardinality(Requests(all))
             due_ == Cardinality(Requests(due))
             new_ == Cardinality(Requests(new))
             both == Cardinality(Requests(due) \cap added)
  <2>1. all_ = due_ + new_ - both
    BY <1>5, <1>6, <1>7
  <2>2. both = 0 /\ due_ \in Nat /\ new_ \in Nat
    BY <1>8, <1>9
  <2> HIDE DEF all_, due_, new_, both
  <2>3. all_ = due_ + new_
    BY <2>1, <2>2
  <2> QED BY <2>3 DEF all_, due_, new_
<1> QED BY <1>1, <1>10 DEF all

---------------------------------------------------------------------------
(* Counting commits *)

CommitRequest == [block : Blocks, counted : BOOLEAN, number : Nat, idx : Nat]

Counted(requests) == { i \in DOMAIN requests : requests[i].counted }

\* The counted requests to commit can be counted.
LEMMA CountedFinite ==
  ASSUME NEW requests \in Seq(CommitRequest)
  PROVE  IsFiniteSet(Counted(requests)) /\ Cardinality(Counted(requests)) \in Nat
<1>1. DOMAIN requests = 1..Len(requests) /\ Len(requests) \in Nat
  OBVIOUS
<1>2. IsFiniteSet(1..Len(requests))
  BY <1>1, FS_Interval
<1>3. Counted(requests) \in SUBSET (1..Len(requests))
  BY <1>1 DEF Counted
<1> QED BY <1>2, <1>3, FS_Subset, FS_CardinalityType

\* A request to commit is counted once,
LEMMA CommitAppended ==
  ASSUME NEW requests \in Seq(CommitRequest), NEW r \in CommitRequest
  PROVE  Cardinality(Counted(Append(requests, r)))
           = Cardinality(Counted(requests)) + (IF r.counted THEN 1 ELSE 0)
<1> DEFINE n == Len(requests) + 1
<1>1. /\ DOMAIN Append(requests, r) = 1..n
      /\ DOMAIN requests = 1..(n - 1)
      /\ n \in Nat /\ n >= 1
      /\ \A i \in 1..(n - 1) : Append(requests, r)[i] = requests[i]
      /\ Append(requests, r)[n] = r
  OBVIOUS
<1> HIDE DEF n
<1>2. n \notin Counted(requests)
  BY <1>1 DEF Counted
<1>3. Cardinality(Counted(requests)) \in Nat /\ IsFiniteSet(Counted(requests))
  BY CountedFinite
<1>4. CASE r.counted
  <2>1. Counted(Append(requests, r)) = Counted(requests) \cup {n}
    BY <1>1, <1>4 DEF Counted
  <2> QED BY <1>2, <1>3, <1>4, <2>1, FS_AddElement
<1>5. CASE ~r.counted
  <2>1. Counted(Append(requests, r)) = Counted(requests)
    BY <1>1, <1>5 DEF Counted
  <2> QED BY <1>3, <1>5, <2>1
<1> QED BY <1>4, <1>5

\* and its answer, which is that of the first request, takes it away.
LEMMA CommitAnswered ==
  ASSUME NEW requests \in Seq(CommitRequest), requests # <<>>
  PROVE  Cardinality(Counted(Tail(requests)))
           = Cardinality(Counted(requests)) - (IF requests[1].counted THEN 1 ELSE 0)
<1> DEFINE n == Len(requests)
           left == Counted(requests) \ {1}
           shift == [i \in Counted(Tail(requests)) |-> i + 1]
<1>1. /\ DOMAIN Tail(requests) = 1..(n - 1)
      /\ DOMAIN requests = 1..n
      /\ n \in Nat /\ n >= 1
      /\ \A i \in 1..(n - 1) : Tail(requests)[i] = requests[i + 1]
      /\ Tail(requests) \in Seq(CommitRequest)
  OBVIOUS
<1> HIDE DEF n
<1>2. \A i : i \in Counted(Tail(requests)) <=> i \in 1..(n - 1) /\ requests[i + 1].counted
  BY <1>1 DEF Counted
<1>3. \A i : i \in left <=> i \in 2..n /\ requests[i].counted
  BY <1>1 DEF Counted
<1>4. shift \in Bijection(Counted(Tail(requests)), left)
  <2>1. ASSUME NEW i \in Counted(Tail(requests)) PROVE i \in Int /\ shift[i] = i + 1 /\ i + 1 \in left
    BY <1>1, <1>2, <1>3
  <2>2. ASSUME NEW i \in left PROVE i - 1 \in Counted(Tail(requests)) /\ shift[i - 1] = i
    <3>1. i \in 2..n /\ requests[i].counted
      BY <1>3
    <3>2. i - 1 \in 1..(n - 1) /\ (i - 1) + 1 = i
      BY <1>1, <3>1
    <3> QED BY <1>2, <3>1, <3>2
  <2>3. shift \in [Counted(Tail(requests)) -> left]
    BY <2>1
  <2> HIDE DEF shift, left
  <2>4. \A i, j \in Counted(Tail(requests)) : shift[i] = shift[j] => i = j
    BY <2>1
  <2>5. DOMAIN shift = Counted(Tail(requests))
    BY <2>3
  <2> QED BY <2>2, <2>3, <2>4, <2>5 DEF Bijection, Injection, Surjection, IsInjective
<1>5. IsFiniteSet(Counted(Tail(requests))) /\ IsFiniteSet(Counted(requests))
  BY <1>1, CountedFinite
<1>6. Cardinality(Counted(Tail(requests))) = Cardinality(left)
  BY <1>4, <1>5, FS_Bijection DEF ExistsBijection
<1>7. Cardinality(left) = IF 1 \in Counted(requests) THEN Cardinality(Counted(requests)) - 1
                          ELSE Cardinality(Counted(requests))
  BY <1>5, FS_RemoveElement
<1>8. 1 \in Counted(requests) <=> requests[1].counted
  BY <1>1 DEF Counted
<1>9. Cardinality(Counted(requests)) \in Nat
  BY CountedFinite
<1> QED BY <1>6, <1>7, <1>8, <1>9

---------------------------------------------------------------------------
(* Every step of the engine is one of the schedule *)

\* A block is a seed and has a signer.
LEMMA BlockFacts ==
  ASSUME NEW b \in Blocks
  PROVE  /\ b \in Seeds
         /\ b # Root => Signer(b) \in Members
<1>1. b \in Seq(Members) /\ b \in Seeds
  BY EngineAssumption
<1>2. ASSUME b # <<>> PROVE b[Len(b)] \in Members
  BY <1>1, <1>2
<1> QED BY <1>1, <1>2 DEF Signer, Root

\* Each handler moves the schedule by one of its events or leaves it alone.
LEMMA StepsOfSchedule == TypeOK /\ Next => Schedule!Next \/ UNCHANGED scheduleVars
<1> SUFFICES ASSUME TypeOK, Next PROVE Schedule!Next \/ UNCHANGED scheduleVars
  OBVIOUS
<1>1. CASE \E b \in Blocks \ {Root} : NewBlock(b) \/ RefuseBlock(b)
  BY <1>1 DEF NewBlock, RefuseBlock
<1>2. CASE \E b \in Blocks \ {Root} : ValidBlock(b)
  BY <1>2 DEF ValidBlock
<1>3. CASE \E b \in Blocks \ {Root} : InvalidBlock(b)
  <2>1. PICK b \in Blocks \ {Root} : Schedule!RejectBlock(Signer(b), head)
    BY <1>3 DEF InvalidBlock
  <2>2. Signer(b) \in Members /\ head \in Seeds
    BY BlockFacts DEF TypeOK
  <2> QED BY <2>1, <2>2 DEF Schedule!Next
<1>4. CASE CommittedBlock
  <2> DEFINE b == committing[1].block
  <2>1. b \in Seeds
    <3>1. committing \in Seq(CommitRequest)
      BY DEF TypeOK, CommitRequest
    <3>2. committing # <<>>
      BY <1>4 DEF CommittedBlock
    <3>3. committing[1] \in CommitRequest
      BY <3>1, <3>2
    <3> QED BY <3>3, BlockFacts DEF CommitRequest
  <2>2. \/ \E number \in Schedule!Epochs, idx \in 0..MaxIdx, list \in Lists :
             Schedule!FinishCatchUp(number, idx, list, b)
        \/ Schedule!EndSlot(b)
    BY <1>4 DEF CommittedBlock
  <2> HIDE DEF b
  <2> QED BY <2>1, <2>2 DEF Schedule!Next
<1>5. CASE FinalizeBlock
  BY <1>5 DEF FinalizeBlock
<1>6. CASE DeclareEmpty \/ MissSlot \/ \E s \in Members : EmptySlot(s)
  <2>1. head \in Seeds
    BY BlockFacts DEF TypeOK
  <2> QED BY <1>6, <2>1 DEF DeclareEmpty, MissSlot, EmptySlot, Schedule!Next
<1>7. CASE CastVote
  BY <1>7 DEF CastVote, Schedule!Next
<1>8. CASE \E list \in Lists : AcceptResult(list)
  BY <1>8 DEF AcceptResult, Schedule!Next
<1>9. CASE \E t \in Blocks : FastForward(t)
  BY <1>9 DEF FastForward, Schedule!Next
<1> QED BY <1>1, <1>2, <1>3, <1>4, <1>5, <1>6, <1>7, <1>8, <1>9 DEF Next

---------------------------------------------------------------------------
(* The counters *)

\* What the counters need to know of the schedule.
SlotTyped == epoch.number \in Nat /\ epoch.idx \in Nat

ValidationExact ==
  /\ checking \in Counts
  /\ waitingForValidation = Cardinality(Requests(checking))

CommitsExact ==
  /\ committing \in Seq(CommitRequest)
  /\ waitingForCommit = Cardinality(Counted(committing)) - uncounted
  /\ uncounted \in Nat

\* TypeOK and CountersExact, with the numbers the validator's side gives.
Inv ==
  /\ head \in Blocks
  /\ delivered \subseteq Blocks
  /\ cache \subseteq delivered
  /\ failed \subseteq Blocks
  /\ waitingForOwn \in BOOLEAN
  /\ building \in BOOLEAN
  /\ mine \subseteq Blocks
  /\ asked \in BOOLEAN
  /\ target \in Blocks
  /\ ValidationExact
  /\ CommitsExact

\* The counters are numbers because they count.
LEMMA InvImplies == Inv => TypeOK /\ CountersExact
<1>1. ValidationExact => waitingForValidation \in Nat
  BY RequestsFinite DEF ValidationExact
<1>2. CommitsExact => waitingForCommit \in Int
  BY CountedFinite DEF CommitsExact
<1> QED BY <1>1, <1>2
        DEF Inv, TypeOK, CountersExact, ValidationExact, CommitsExact, Counts, CommitRequest, Counted

\* check_blocks: as many more answers are due.
LEMMA CheckExact ==
  ASSUME ValidationExact, NEW times \in Counts, Check(times)
  PROVE  ValidationExact'
<1>1. checking' = [b \in Blocks |-> checking[b] + times[b]]
  BY DEF Check
<1>2. waitingForValidation' = waitingForValidation + Cardinality(Requests(times))
  BY DEF Check
<1> QED BY <1>1, <1>2, RequestsAdded DEF ValidationExact

\* An answer of the validator is counted down.
LEMMA AnswerExact ==
  ASSUME ValidationExact, NEW b \in Blocks, Answerable(b), Answer(b)
  PROVE  ValidationExact'
BY RequestAnswered DEF ValidationExact, Answerable, Answer

\* commit_block, counted or not.
LEMMA CommitExact ==
  ASSUME CommitsExact, SlotTyped, NEW b \in Blocks, NEW counted \in BOOLEAN,
         Commit(b, counted), uncounted' = uncounted,
         waitingForCommit' = waitingForCommit + (IF counted THEN 1 ELSE 0)
  PROVE  CommitsExact'
<1> DEFINE r == [block |-> b, counted |-> counted, number |-> epoch.number, idx |-> epoch.idx]
<1>1. r \in CommitRequest /\ r.counted = counted
  BY DEF SlotTyped, CommitRequest
<1>2. committing' = Append(committing, r)
  BY DEF Commit
<1> HIDE DEF r
<1>3. committing' \in Seq(CommitRequest)
  BY <1>1, <1>2 DEF CommitsExact
<1>4. Cardinality(Counted(committing'))
        = Cardinality(Counted(committing)) + (IF counted THEN 1 ELSE 0)
  BY <1>1, <1>2, CommitAppended DEF CommitsExact
<1>5. Cardinality(Counted(committing)) \in Nat
  BY CountedFinite DEF CommitsExact
<1> QED BY <1>3, <1>4, <1>5 DEF CommitsExact

\* BLOCK_COMMIT is counted down, counted or not.
LEMMA CommittedExact ==
  ASSUME CommitsExact, committing # <<>>, committing' = Tail(committing),
         waitingForCommit' = waitingForCommit - 1,
         uncounted' = IF committing[1].counted THEN uncounted ELSE uncounted + 1
  PROVE  CommitsExact'
<1>1. committing' \in Seq(CommitRequest)
  BY DEF CommitsExact
<1>2. Cardinality(Counted(committing'))
        = Cardinality(Counted(committing)) - (IF committing[1].counted THEN 1 ELSE 0)
  BY CommitAnswered DEF CommitsExact
<1>3. Cardinality(Counted(committing)) \in Nat
  BY CountedFinite DEF CommitsExact
<1> QED BY <1>1, <1>2, <1>3 DEF CommitsExact

---------------------------------------------------------------------------
(* Every action keeps the invariant of the engine *)

\* Nothing is requested at the start.
LEMMA InitInv == Init => Inv
<1> SUFFICES ASSUME Init PROVE Inv
  OBVIOUS
<1>1. ValidationExact
  <2>1. checking \in Counts /\ \A b \in Blocks : checking[b] = 0
    BY DEF Init, Counts
  <2>2. Requests(checking) = {}
    BY <2>1, InRequests
  <2> QED BY <2>1, <2>2, FS_EmptySet DEF Init, ValidationExact
<1>2. CommitsExact
  <2>1. Counted(<<>>) = {}
    BY DEF Counted
  <2> QED BY <2>1, FS_EmptySet DEF Init, CommitsExact
<1> QED BY <1>1, <1>2, EngineAssumption DEF Init, Inv

\* A set of blocks, each requested once.
LEMMA OnceCounts == ASSUME NEW blocks PROVE Once(blocks) \in Counts
BY DEF Once, Counts

\* Each handler keeps the counters and the types: a new block,
LEMMA NewBlockInv == ASSUME NEW b \in Blocks PROVE Inv /\ NewBlock(b) => Inv'
<1> SUFFICES ASSUME Inv, NewBlock(b) PROVE Inv'
  OBVIOUS
<1> DEFINE extends == Parent(b) = head /\ Signer(b) = Expected
           descends == state = "CATCHING_UP" /\ Traversable(cache', b, target)
           times == [c \in Blocks |->
                       IF c # b THEN 0
                       ELSE (IF extends THEN 1 ELSE 0) + (IF descends THEN 1 ELSE 0)]
<1>1. Check(times)
  BY DEF NewBlock
<1>2. times \in Counts
  BY DEF Counts
<1>3. ValidationExact'
  BY <1>1, <1>2, CheckExact DEF Inv
<1>4. CommitsExact'
  BY DEF NewBlock, Inv, CommitsExact
<1>5. /\ waitingForOwn' \in BOOLEAN
      /\ asked' \in BOOLEAN
  BY DEF NewBlock
<1>6. /\ head' = head /\ failed' = failed /\ building' = building
      /\ mine' = mine /\ target' = target
      /\ delivered' = delivered \cup {b} /\ cache' = cache \cup {b}
  BY DEF NewBlock
<1> QED BY <1>3, <1>4, <1>5, <1>6 DEF Inv

\* one refused,
LEMMA RefuseBlockInv == ASSUME NEW b \in Blocks PROVE Inv /\ RefuseBlock(b) => Inv'
<1> SUFFICES ASSUME Inv, RefuseBlock(b) PROVE Inv'
  OBVIOUS
<1>1. ValidationExact' /\ CommitsExact'
  BY DEF RefuseBlock, Inv, counters, ValidationExact, CommitsExact
<1> QED BY <1>1 DEF Inv, RefuseBlock, ownVars, catchUpVars

\* one found valid,
LEMMA ValidBlockInv == ASSUME NEW b \in Blocks PROVE Inv /\ SlotTyped /\ ValidBlock(b) => Inv'
<1> SUFFICES ASSUME Inv, SlotTyped, ValidBlock(b) PROVE Inv'
  OBVIOUS
<1>1. ValidationExact'
  <2>1. ValidationExact /\ Answerable(b) /\ Answer(b)
    BY DEF ValidBlock, Inv
  <2> QED BY <2>1, AnswerExact
<1>2. CommitsExact /\ uncounted' = uncounted /\ waitingForCommit \in Int
  BY InvImplies DEF ValidBlock, Inv, TypeOK
<1>3. CommitsExact'
  <2>1. CASE Commit(b, FALSE) /\ UNCHANGED waitingForCommit
    <3>1. waitingForCommit' = waitingForCommit + (IF FALSE THEN 1 ELSE 0)
      BY <1>2, <2>1
    <3>2. Commit(b, FALSE)
      BY <2>1
    <3> QED BY <1>2, <3>1, <3>2, CommitExact
  <2>2. CASE Commit(b, TRUE) /\ waitingForCommit' = waitingForCommit + 1
    BY <1>2, <2>2, CommitExact
  <2>3. CASE UNCHANGED <<committing, waitingForCommit>>
    BY <1>2, <2>3 DEF CommitsExact
  <2> QED BY <2>1, <2>2, <2>3 DEF ValidBlock
<1>4. failed' \subseteq Blocks
  BY DEF ValidBlock, Inv
<1> QED BY <1>1, <1>3, <1>4 DEF Inv, ValidBlock, blockVars, ownVars, catchUpVars

\* or not,
LEMMA InvalidBlockInv == ASSUME NEW b \in Blocks PROVE Inv /\ InvalidBlock(b) => Inv'
<1> SUFFICES ASSUME Inv, InvalidBlock(b) PROVE Inv'
  OBVIOUS
<1>1. ValidationExact'
  <2>1. ValidationExact /\ Answerable(b) /\ Answer(b)
    BY DEF InvalidBlock, Inv
  <2> QED BY <2>1, AnswerExact
<1>2. CommitsExact'
  BY DEF InvalidBlock, Inv, CommitsExact
<1>3. failed' \subseteq Blocks /\ building' \in BOOLEAN
  BY DEF InvalidBlock, Inv, StartSlot
<1> QED BY <1>1, <1>2, <1>3 DEF Inv, InvalidBlock, blockVars, catchUpVars

\* a commit,
LEMMA CommittedBlockInv == Inv /\ CommittedBlock => Inv'
<1> SUFFICES ASSUME Inv, CommittedBlock PROVE Inv'
  OBVIOUS
<1> DEFINE b == committing[1].block
<1>1. head' \in Blocks
  <2>1. committing \in Seq(CommitRequest) /\ committing # <<>> /\ head' = b
    BY DEF Inv, CommitsExact, CommittedBlock
  <2>2. committing[1] \in CommitRequest
    BY <2>1
  <2> QED BY <2>1, <2>2 DEF CommitRequest
<1>2. ValidationExact'
  <2>1. \E blocks : Check(Once(blocks))
    BY DEF CommittedBlock
  <2> QED BY <2>1, OnceCounts, CheckExact DEF Inv
<1>3. CommitsExact'
  <2>1. /\ committing # <<>> /\ committing' = Tail(committing)
        /\ waitingForCommit' = waitingForCommit - 1
        /\ uncounted' = IF committing[1].counted THEN uncounted ELSE uncounted + 1
    BY DEF CommittedBlock
  <2> QED BY <2>1, CommittedExact DEF Inv
<1>4. building' \in BOOLEAN
  BY DEF CommittedBlock, StartSlot
<1> QED BY <1>1, <1>2, <1>3, <1>4 DEF Inv, CommittedBlock, blockVars, catchUpVars

\* an own block,
LEMMA FinalizeBlockInv == Inv /\ FinalizeBlock => Inv'
<1> SUFFICES ASSUME Inv, FinalizeBlock PROVE Inv'
  OBVIOUS
<1>1. ValidationExact' /\ CommitsExact'
  BY DEF FinalizeBlock, Inv, counters, ValidationExact, CommitsExact
<1> QED BY <1>1 DEF Inv, FinalizeBlock, blockVars, catchUpVars

\* The actions that end a slot without a block touch no counter.
LEMMA SlotInv ==
  Inv /\ (DeclareEmpty \/ MissSlot \/ \E s \in Members : EmptySlot(s)) => Inv'
<1> SUFFICES ASSUME Inv,
                    UNCHANGED <<head, blockVars, counters, failed, waitingForOwn, mine, catchUpVars>>,
                    StartSlot
             PROVE  Inv'
  BY DEF DeclareEmpty, MissSlot, EmptySlot
<1>1. ValidationExact' /\ CommitsExact'
  BY DEF Inv, counters, ValidationExact, CommitsExact
<1> QED BY <1>1 DEF Inv, StartSlot, blockVars, catchUpVars

\* Votes and results leave the blocks alone.
LEMMA ElectionInv ==
  Inv /\ UNCHANGED <<head, blockVars, counters, failed, ownVars, catchUpVars>> => Inv'
<1> SUFFICES ASSUME Inv, UNCHANGED <<head, blockVars, counters, failed, ownVars, catchUpVars>>
             PROVE  Inv'
  OBVIOUS
<1>1. ValidationExact' /\ CommitsExact'
  BY DEF Inv, counters, ValidationExact, CommitsExact
<1> QED BY <1>1 DEF Inv, blockVars, ownVars, catchUpVars

\* the start of a catch-up.
LEMMA FastForwardInv == ASSUME NEW t \in Blocks PROVE Inv /\ FastForward(t) => Inv'
<1> SUFFICES ASSUME Inv, FastForward(t) PROVE Inv'
  OBVIOUS
<1>1. ValidationExact'
  <2>1. \E blocks : Check(Once(blocks))
    BY DEF FastForward
  <2> QED BY <2>1, OnceCounts, CheckExact DEF Inv
<1>2. CommitsExact'
  BY DEF FastForward, Inv, CommitsExact
<1>3. failed' \subseteq Blocks
  <2>1. \A k \in Common(t) : SubSeq(head, 1, k + 1) \in Blocks
    <3>1. ASSUME NEW k \in Common(t) PROVE k + 1 \in 0..Len(head)
      <4>1. head \in Seq(Members) /\ k \in 0..Len(head) - 1
        BY EngineAssumption DEF Inv, Common
      <4> QED BY <4>1
    <3> QED BY <3>1, EngineAssumption DEF Inv
  <2>2. \/ UNCHANGED failed
        \/ \E k \in Common(t) : failed' = failed \cup {SubSeq(head, 1, k + 1)}
    BY DEF FastForward
  <2>3. failed \subseteq Blocks
    BY DEF Inv
  <2>4. CASE \E k \in Common(t) : failed' = failed \cup {SubSeq(head, 1, k + 1)}
    <3>1. PICK k \in Common(t) : failed' = failed \cup {SubSeq(head, 1, k + 1)}
      BY <2>4
    <3>2. SubSeq(head, 1, k + 1) \in Blocks
      BY <2>1
    <3> QED BY <2>3, <3>1, <3>2
  <2> QED BY <2>2, <2>3, <2>4
<1> QED BY <1>1, <1>2, <1>3 DEF Inv, FastForward, blockVars, ownVars

---------------------------------------------------------------------------
(* The theorems *)

\* Every step keeps the invariant.
LEMMA NextInv == Inv /\ SlotTyped /\ [Next]_vars => Inv'
<1>1. ASSUME Inv, UNCHANGED vars PROVE Inv'
  BY <1>1, ElectionInv DEF vars
<1>2. ASSUME Inv, SlotTyped, Next PROVE Inv'
  <2>1. CASE \E b \in Blocks \ {Root} : NewBlock(b) \/ RefuseBlock(b)
    BY <1>2, <2>1, NewBlockInv, RefuseBlockInv
  <2>2. CASE \E b \in Blocks \ {Root} : ValidBlock(b) \/ InvalidBlock(b)
    BY <1>2, <2>2, ValidBlockInv, InvalidBlockInv
  <2>3. CASE CommittedBlock \/ FinalizeBlock
    BY <1>2, <2>3, CommittedBlockInv, FinalizeBlockInv
  <2>4. CASE DeclareEmpty \/ MissSlot \/ \E s \in Members : EmptySlot(s)
    BY <1>2, <2>4, SlotInv
  <2>5. CASE CastVote \/ \E list \in Lists : AcceptResult(list)
    BY <1>2, <2>5, ElectionInv DEF CastVote, AcceptResult
  <2>6. CASE \E t \in Blocks : FastForward(t)
    BY <1>2, <2>6, FastForwardInv
  <2> QED BY <1>2, <2>1, <2>2, <2>3, <2>4, <2>5, <2>6 DEF Next
<1> QED BY <1>1, <1>2

\* The two inductive invariants, of the engine and of its schedule, which need
\* each other: a commit is requested for a slot of the schedule, and a block of
\* the engine seeds the schedule.
THEOREM EngineInvariant == Spec => [](Inv /\ Proved!Inv)
<1>1. Init => Inv /\ Proved!Inv
  <2>1. Init => Proved!Init
    BY DEF Init, Schedule!Init, Proved!Init, Schedule!NewEpoch, Proved!NewEpoch
  <2> QED BY <2>1, InitInv, Proved!InitInv, Assumptions
<1>2. Inv /\ Proved!Inv /\ [Next]_vars => Inv' /\ Proved!Inv'
  <2>1. SUFFICES ASSUME Inv, Proved!Inv, [Next]_vars PROVE Inv' /\ Proved!Inv'
    OBVIOUS
  <2>2. SlotTyped
    BY <2>1 DEF Proved!Inv, Proved!TypeOK, Proved!EpochState, SlotTyped
  <2>3. Inv'
    BY <2>1, <2>2, NextInv
  <2>4. [Proved!Next]_Proved!vars
    <3>1. Next => Schedule!Next \/ UNCHANGED scheduleVars
      BY <2>1, StepsOfSchedule, InvImplies
    <3>2. Schedule!Next => Proved!Next
      BY SameNext
    <3> QED BY <2>1, <3>1, <3>2 DEF vars, scheduleVars, Proved!vars
  <2>5. Proved!Inv'
    BY <2>1, <2>4, Proved!NextInv, Assumptions
  <2> QED BY <2>3, <2>5
<1> QED BY <1>1, <1>2, PTL DEF Spec

\* Every variable of the engine keeps its type.
THEOREM TypeCorrect == Spec => []TypeOK
BY EngineInvariant, InvImplies, PTL

\* Neither counter ever misses or doubles an answer of the validator, but for the
\* commits of a catch-up, whatever blocks come in whatever order.
THEOREM CountersAreExact == Spec => []CountersExact
BY EngineInvariant, InvImplies, PTL

\* The engine moves its schedule by the actions of EpochSchedule that it is made of.
LEMMA EngineMovesSchedule == Spec => Schedule!Spec
<1>1. Init => Schedule!Init
  BY DEF Init
<1>2. Inv /\ [Next]_vars => [Schedule!Next]_Schedule!vars
  BY StepsOfSchedule, InvImplies DEF vars, scheduleVars, Schedule!vars
<1> QED BY <1>1, <1>2, EngineInvariant, PTL DEF Spec, Schedule!Spec

\* Among blocks, too, members stay in one place each, the engine's thread never
\* waits for a candidate, rounds are fair, results are used and States agree.
THEOREM ScheduleHoldsOfEngine ==
  Spec => [](/\ Proved!MembersConserved
             /\ Proved!DowngradeNeverBlocks
             /\ Proved!RoundRobin
             /\ Proved!NeverWaitsWithResult
             /\ Proved!StateMatchesSchedule)
<1>1. Spec => Proved!Spec
  <2>1. Schedule!Init => Proved!Init
    BY DEF Schedule!Init, Proved!Init, Schedule!NewEpoch, Proved!NewEpoch
  <2>2. [Schedule!Next]_Schedule!vars => [Proved!Next]_Proved!vars
    BY SameNext DEF Schedule!vars, Proved!vars
  <2>3. Schedule!Spec => Proved!Spec
    BY <2>1, <2>2, PTL DEF Schedule!Spec, Proved!Spec
  <2> QED BY <2>3, EngineMovesSchedule
<1>2. /\ Proved!Spec => []Proved!MembersConserved
      /\ Proved!Spec => []Proved!DowngradeNeverBlocks
      /\ Proved!Spec => []Proved!RoundRobin
      /\ Proved!Spec => []Proved!NeverWaitsWithResult
      /\ Proved!Spec => []Proved!StateMatchesSchedule
  BY Assumptions, Proved!MembersAreConserved, Proved!DowngradesNeverBlock,
     Proved!RoundsAreRoundRobin, Proved!ResultsAreUsed, Proved!StatesMatch
<1> QED BY <1>1, <1>2, PTL

---------------------------------------------------------------------------
(* One block at a time: in a network that keeps up, an engine has at most  *)
(* one block with its validator, the one of the running slot on top of the *)
(* head, and the slot waits for it.  For any tree in which members sign    *)
(* one block of a number.                                                  *)

\* Blocks and results arrive in time, and the engine never has to catch up.
KeepsUp == PromptBlocks /\ PromptResults /\ ~PeersAnswer

\* A block that is checked is the one of the running slot, for the first time.
ChecksOfSlot ==
  \A b \in Blocks : checking[b] # 0 =>
    /\ checking[b] = 1
    /\ Len(b) = Len(head) + 1 /\ Signer(b) = Expected
    /\ b \in delivered \ failed
    /\ committing = <<>>

\* So is a block in commit.
CommitOfSlot ==
  committing # <<>> =>
    /\ Len(committing) = 1
    /\ LET c == committing[1] IN
         /\ c.counted /\ c.number = epoch.number /\ c.idx = epoch.idx
         /\ Parent(c.block) = head
         /\ Len(c.block) = Len(head) + 1 /\ Signer(c.block) = Expected
         /\ \A a \in PathFrom(0, c.block) : a \in delivered \ failed

\* Failed blocks do not come back, and the head is not among them.
FailedArePast ==
  /\ failed \subseteq delivered
  /\ \A b \in failed \cap cache : Len(b) <= Len(head) + 1
  /\ \A a \in PathFrom(0, head) : a \in delivered \ failed

AncestorsDelivered == \A b \in delivered : PathFrom(0, b) \subseteq delivered

Steady ==
  /\ state # "CATCHING_UP"
  /\ uncounted = 0
  /\ ChecksOfSlot /\ CommitOfSlot /\ FailedArePast /\ AncestorsDelivered

\* No block is with the validator.
Quiet == committing = <<>> /\ \A b \in Blocks : checking[b] = 0

---------------------------------------------------------------------------
(* Blocks *)

\* A block is a sequence, and only the root has no signer.
LEMMA BlockLength ==
  ASSUME NEW b \in Blocks
  PROVE  b \in Seq(Members) /\ Len(b) \in Nat /\ (Len(b) = 0 => b = Root)
<1>1. b \in Seq(Members)
  BY EngineAssumption
<1>2. Len(b) \in Nat /\ (Len(b) = 0 => b = << >>)
  BY <1>1, EmptySeq
<1> QED
  BY <1>1, <1>2 DEF Root

\* The ancestors of a block are those of its parent, and the block.
LEMMA PathOfParent ==
  ASSUME NEW b \in Blocks, Len(b) > 0
  PROVE  /\ Len(Parent(b)) = Len(b) - 1
         /\ PathFrom(0, b) \subseteq PathFrom(0, Parent(b)) \cup {b}
         /\ b \in PathFrom(0, b)
<1> DEFINE n == Len(b)
<1>1. b \in Seq(Members) /\ n \in Nat
  BY BlockLength
<1>2. SubSeq(b, 1, n) = b
  BY <1>1, SubSeqFull
<1>3. /\ Parent(b) \in Seq(Members) /\ Len(Parent(b)) = n - 1
      /\ \A i \in 1..n - 1 : Parent(b)[i] = b[i]
  <2>1. \A i \in 1..n - 1 : b[i] \in Members
    BY <1>1
  <2>2. /\ SubSeq(b, 1, n - 1) \in Seq(Members)
        /\ Len(SubSeq(b, 1, n - 1)) = IF 1 <= n - 1 THEN n - 1 - 1 + 1 ELSE 0
        /\ \A i \in 1..n - 1 - 1 + 1 : SubSeq(b, 1, n - 1)[i] = b[1 + i - 1]
    BY <1>1, <2>1, SubSeqProperties
  <2>3. n - 1 - 1 + 1 = n - 1 /\ (IF 1 <= n - 1 THEN n - 1 - 1 + 1 ELSE 0) = n - 1
    <3>1. n \in Nat /\ n > 0
      BY <1>1
    <3> HIDE DEF n
    <3>2. CASE 1 <= n - 1
      BY <3>1, <3>2
    <3>3. CASE ~(1 <= n - 1)
      BY <3>1, <3>3
    <3> QED
      BY <3>2, <3>3
  <2>4. \A i \in 1..n - 1 : 1 + i - 1 = i
    BY <1>1
  <2> QED
    BY <2>2, <2>3, <2>4 DEF Parent
<1>4. ASSUME NEW k \in 1..n, k # n PROVE SubSeq(Parent(b), 1, k) = SubSeq(b, 1, k)
  <2>1. k \in 1..n - 1
    BY <1>1, <1>4
  <2>2. n - 1 \in 1..Len(b) /\ 1 \in 1..n - 1 - 1 + 1 /\ k \in 1..n - 1 - 1 + 1
        /\ 1 \in 1..Len(b)
    BY <1>1, <2>1
  <2>3. SubSeq(SubSeq(b, 1, n - 1), 1, k) = SubSeq(b, 1 + 1 - 1, 1 + k - 1)
    BY <1>1, <2>2, SubSeqOfSubSeq
  <2> QED
    BY <1>1, <2>1, <2>3 DEF Parent
<1>5. ASSUME NEW k \in 0 + 1..n PROVE SubSeq(b, 1, k) \in PathFrom(0, Parent(b)) \cup {b}
  <2>1. CASE k = n
    BY <1>2, <2>1
  <2>2. CASE k # n
    <3>1. k \in 1..n /\ k \in 0 + 1..Len(Parent(b))
      BY <1>1, <1>3, <1>5, <2>2
    <3> QED
      BY <1>4, <2>2, <3>1 DEF PathFrom
  <2> QED
    BY <2>1, <2>2
<1>6. b \in PathFrom(0, b)
  <2>1. n \in 0 + 1..Len(b)
    BY <1>1
  <2> QED
    BY <1>2, <2>1 DEF PathFrom
<1> QED
  BY <1>3, <1>5, <1>6 DEF PathFrom

\* A block is not among the ancestors of a shorter one.
LEMMA PathIsShorter ==
  ASSUME NEW b \in Blocks, NEW a \in PathFrom(0, b)
  PROVE  Len(a) <= Len(b)
<1>1. b \in Seq(Members) /\ Len(b) \in Nat
  BY BlockLength
<1>2. PICK k \in 0 + 1..Len(b) : a = SubSeq(b, 1, k)
  BY DEF PathFrom
<1>3. Len(a) = k
  <2>1. \A i \in 1..k : b[i] \in Members
    BY <1>1, <1>2
  <2> QED
    BY <1>1, <1>2, <2>1, SubSeqProperties
<1> QED
  BY <1>1, <1>2, <1>3
---------------------------------------------------------------------------
(* At most one block is with the validator *)

\* The block of the running slot is the only one that can be with the validator,
LEMMA OneChecked ==
  ASSUME OneBlockPerNumber, Inv, ChecksOfSlot,
         NEW a \in Blocks, checking[a] # 0, NEW b \in Blocks,
         Len(b) = Len(head) + 1, Signer(b) = Expected
  PROVE  a = b
<1>1. Len(a) = Len(b) /\ Signer(a) = Signer(b)
  BY DEF ChecksOfSlot
<1>2. head \in Blocks /\ Len(head) \in Nat
  BY BlockLength DEF Inv
<1>3. Len(Root) = 0
  BY EmptySeq DEF Root
<1>4. a # Root /\ b # Root
  BY <1>1, <1>2, <1>3
<1> QED
  BY <1>1, <1>4 DEF OneBlockPerNumber

\* The block in commit.
LEMMA BlockInCommit ==
  ASSUME Inv, CommitOfSlot, committing # <<>>
  PROVE  /\ committing[1] \in CommitRequest /\ committing[1].block \in Blocks
         /\ Tail(committing) = <<>>
         /\ committing[1].block \in PathFrom(0, committing[1].block)
         /\ \A i \in DOMAIN committing : i = 1
<1>1. committing \in Seq(CommitRequest) /\ Len(committing) = 1
  BY DEF Inv, CommitsExact, CommitOfSlot
<1>2. committing[1] \in CommitRequest /\ committing[1].block \in Blocks
  <2>1. committing[1] \in CommitRequest
    BY <1>1
  <2> QED
    BY <2>1 DEF CommitRequest
<1>3. Tail(committing) = <<>>
  <2>1. Tail(committing) \in Seq(CommitRequest) /\ Len(Tail(committing)) = 0
    BY <1>1, HeadTailProperties
  <2> QED
    BY <2>1, EmptySeq
<1>4. Len(committing[1].block) > 0
  <2>1. Len(committing[1].block) = Len(head) + 1 /\ Len(head) \in Nat
    BY BlockLength DEF Inv, CommitOfSlot
  <2> QED
    BY <2>1
<1> QED
  BY <1>1, <1>2, <1>3, <1>4, PathOfParent

\* or in commit.
LEMMA OneInCommit ==
  ASSUME OneBlockPerNumber, Inv, CommitOfSlot, committing # <<>>, NEW b \in Blocks,
         Len(b) = Len(head) + 1, Signer(b) = Expected
  PROVE  b = committing[1].block /\ b \in delivered
<1> DEFINE c == committing[1].block
<1>1. /\ c \in Blocks /\ c \in PathFrom(0, c)
      /\ Len(c) = Len(b) /\ Signer(c) = Signer(b) /\ PathFrom(0, c) \subseteq delivered
  BY BlockInCommit DEF CommitOfSlot
<1>2. head \in Blocks /\ Len(head) \in Nat /\ Len(Root) = 0
  BY BlockLength, EmptySeq DEF Inv, Root
<1>3. b # Root /\ c # Root
  BY <1>1, <1>2
<1> QED
  BY <1>1, <1>3 DEF OneBlockPerNumber

\* The main loop acts on counters that are exact: nothing is under way then.
LEMMA ZeroIsQuiet ==
  ASSUME Inv, Steady, waitingForValidation = 0, ~(waitingForCommit > 0)
  PROVE  Quiet
<1>1. ASSUME NEW b \in Blocks PROVE checking[b] = 0
  <2>1. checking \in Counts /\ Cardinality(Requests(checking)) = 0
    BY DEF Inv, ValidationExact
  <2>2. Requests(checking) = {}
    BY <2>1, RequestsFinite, FS_EmptySet
  <2>3. ~(1 <= 1 /\ 1 <= checking[b])
    BY <2>1, <2>2, InRequests
  <2> QED
    BY <2>1, <2>3 DEF Counts
<1>2. committing = <<>>
  <2> SUFFICES ASSUME committing # <<>> PROVE FALSE
    OBVIOUS
  <2>1. committing \in Seq(CommitRequest) /\ Len(committing) = 1 /\ committing[1].counted
    BY DEF Inv, CommitsExact, Steady, CommitOfSlot
  <2>2. 1 \in Counted(committing)
    BY <2>1 DEF Counted
  <2>3. IsFiniteSet(Counted(committing)) /\ Cardinality(Counted(committing)) \in Nat
    BY <2>1, CountedFinite
  <2>4. Cardinality(Counted(committing)) # 0
    BY <2>2, <2>3, FS_EmptySet
  <2>5. waitingForCommit = Cardinality(Counted(committing))
    BY <2>3 DEF Inv, CommitsExact, Steady
  <2> QED
    BY <2>3, <2>4, <2>5
<1> QED
  BY <1>1, <1>2 DEF Quiet

\* An engine with nothing under way is in order.
LEMMA QuietIsOfSlot == Quiet => ChecksOfSlot /\ CommitOfSlot
  BY DEF Quiet, ChecksOfSlot, CommitOfSlot

\* A step of the schedule that is no catch-up begins none.
LEMMA SlotIsNoCatchUp ==
  ASSUME state # "CATCHING_UP", NEW ep, NEW seed, Schedule!NextSlot(ep, state, seed)
  PROVE  state' # "CATCHING_UP"
BY DEF Schedule!NextSlot, Schedule!EpochEnds, Schedule!InitializeEpoch,
       Schedule!UnlessCatchingUp
---------------------------------------------------------------------------
(* Every step keeps the invariant *)

\* Steps with nothing under way before and after, that leave the chain alone.
LEMMA QuietKeepsSteady ==
  ASSUME Steady, Quiet, UNCHANGED <<head, blockVars, counters, failed>>,
         state' # "CATCHING_UP"
  PROVE  Steady'
<1>1. Quiet'
  BY DEF Quiet, counters
<1>2. ChecksOfSlot' /\ CommitOfSlot'
  BY <1>1 DEF Quiet, ChecksOfSlot, CommitOfSlot
<1> QED
  BY <1>2 DEF Steady, FailedArePast, AncestorsDelivered, PathFrom, blockVars, counters

\* Steps that move neither the chain nor the slot.
LEMMA StandingKeepsSteady ==
  ASSUME Steady, UNCHANGED <<head, blockVars, counters, failed, epoch>>,
         state' # "CATCHING_UP"
  PROVE  Steady'
BY DEF Steady, ChecksOfSlot, CommitOfSlot, FailedArePast, AncestorsDelivered, PathFrom,
       Expected, CurrentWitness, blockVars, counters

\* _handle_new_block: only the block of the running slot is checked.
LEMMA NewBlockSteady ==
  ASSUME OneBlockPerNumber, Inv, Steady, NEW b \in Blocks \ {Root}, NewBlock(b)
  PROVE  Steady'
<1> DEFINE extends == Parent(b) = head /\ Signer(b) = Expected
<1>1. /\ b \notin delivered /\ Parent(b) \in delivered
      /\ delivered' = delivered \cup {b} /\ cache' = cache \cup {b}
      /\ UNCHANGED <<state, epoch, head, committing, uncounted, failed>>
  BY DEF NewBlock, scheduleVars
<1>2. Expected' = Expected
  BY <1>1 DEF Expected
<1>3. Len(b) \in Nat /\ Len(b) > 0
  BY BlockLength
<1>4. AncestorsDelivered'
  <2>1. PathFrom(0, b) \subseteq PathFrom(0, Parent(b)) \cup {b}
    BY <1>3, PathOfParent
  <2> QED
    BY <1>1, <2>1 DEF Steady, AncestorsDelivered, PathFrom
<1>5. FailedArePast'
  <2>1. b \notin failed
    BY <1>1 DEF Steady, FailedArePast
  <2> QED
    BY <1>1, <2>1 DEF Steady, FailedArePast, PathFrom
<1>6. checking' = [c \in Blocks |-> checking[c] + IF c = b /\ extends THEN 1 ELSE 0]
  <2>1. checking' = [c \in Blocks |-> checking[c] +
          [d \in Blocks |-> IF d # b THEN 0
             ELSE (IF extends THEN 1 ELSE 0)
                + (IF state = "CATCHING_UP" /\ Traversable(cache', b, target)
                   THEN 1 ELSE 0)][c]]
    BY DEF NewBlock, Check
  <2>2. state # "CATCHING_UP"
    BY DEF Steady
  <2> HIDE DEF extends
  <2> QED
    BY <2>1, <2>2
<1>7. \A c \in Blocks : checking[c] \in Nat
  BY DEF Inv, ValidationExact, Counts
<1>8. checking[b] = 0
  BY <1>1, <1>7 DEF Steady, ChecksOfSlot
<1>9. ASSUME extends
      PROVE  Len(b) = Len(head) + 1 /\ Signer(b) = Expected /\ committing = <<>>
  <2>1. Len(b) = Len(head) + 1
    <3>1. Len(head) = Len(b) - 1
      BY <1>3, <1>9, PathOfParent
    <3> QED
      BY <1>3, <3>1
  <2>2. Signer(b) = Expected
    BY <1>9
  <2>3. committing = <<>>
    BY <1>1, <2>1, <2>2, OneInCommit DEF Steady
  <2> QED
    BY <2>1, <2>2, <2>3
<1>10. ChecksOfSlot'
  <2> SUFFICES ASSUME NEW c \in Blocks, checking'[c] # 0
               PROVE  /\ checking'[c] = 1
                      /\ Len(c) = Len(head) + 1 /\ Signer(c) = Expected
                      /\ c \in delivered' \ failed
                      /\ committing = <<>>
    BY <1>1, <1>2 DEF ChecksOfSlot
  <2>1. CASE c = b
    <3>1. extends /\ checking'[c] = 1
      <4> HIDE DEF extends
      <4> QED
        BY <1>6, <1>8, <2>1
    <3>2. b \notin failed
      BY <1>1 DEF Steady, FailedArePast
    <3> QED
      BY <1>1, <1>9, <2>1, <3>1, <3>2
  <2>2. CASE c # b
    <3>1. checking'[c] = checking[c]
      <4> HIDE DEF extends
      <4> QED
        BY <1>6, <1>7, <2>2
    <3> QED
      BY <1>1, <3>1 DEF Steady, ChecksOfSlot
  <2> QED
    BY <2>1, <2>2
<1>11. CommitOfSlot'
  BY <1>1, <1>2 DEF Steady, CommitOfSlot, PathFrom
<1> QED
  BY <1>1, <1>4, <1>5, <1>10, <1>11 DEF Steady

\* A refused block was with nobody.
LEMMA RefuseBlockSteady ==
  ASSUME Inv, Steady, NEW b \in Blocks \ {Root}, RefuseBlock(b)
  PROVE  Steady'
<1>1. /\ b \notin delivered /\ Parent(b) \in delivered /\ b \notin cache
      /\ delivered' = delivered \cup {b} /\ failed' = failed \cup {b}
      /\ UNCHANGED <<state, epoch, head, cache, checking, committing, uncounted>>
  BY DEF RefuseBlock, scheduleVars, counters, Inv
<1>2. Expected' = Expected
  BY <1>1 DEF Expected
<1>3. PathFrom(0, b) \subseteq PathFrom(0, Parent(b)) \cup {b}
  <2>1. Len(b) > 0
    BY BlockLength
  <2> QED
    BY <2>1, PathOfParent
<1>4. AncestorsDelivered'
  BY <1>1, <1>3 DEF Steady, AncestorsDelivered, PathFrom
<1>5. FailedArePast'
  BY <1>1 DEF Steady, FailedArePast, PathFrom
<1>6. ChecksOfSlot'
  BY <1>1, <1>2 DEF Steady, ChecksOfSlot
<1>7. CommitOfSlot'
  BY <1>1, <1>2 DEF Steady, CommitOfSlot, PathFrom
<1> QED
  BY <1>1, <1>4, <1>5, <1>6, <1>7 DEF Steady
\* The answer for the one block that is checked leaves nothing to answer.
LEMMA AnswerLeavesNone ==
  ASSUME OneBlockPerNumber, Inv, Steady, NEW b \in Blocks, Answerable(b), Answer(b)
  PROVE  /\ committing = <<>> /\ \A c \in Blocks : checking'[c] = 0
         /\ Len(b) = Len(head) + 1 /\ Signer(b) = Expected /\ b \in delivered
         /\ b \notin PathFrom(0, head)
<1>1. checking \in Counts /\ checking[b] # 0 /\ checking' = [checking EXCEPT ![b] = @ - 1]
  BY DEF Inv, ValidationExact, Answerable, Answer, Counts
<1>2. /\ checking[b] = 1 /\ committing = <<>>
      /\ Len(b) = Len(head) + 1 /\ Signer(b) = Expected /\ b \in delivered
  BY <1>1 DEF Steady, ChecksOfSlot
<1>3. ASSUME NEW c \in Blocks, c # b PROVE checking[c] = 0
  BY <1>2, <1>3, OneChecked DEF Steady
<1>4. \A c \in Blocks : checking'[c] = 0
  BY <1>1, <1>2, <1>3 DEF Counts
<1>5. b \notin PathFrom(0, head)
  <2>1. head \in Blocks /\ Len(head) \in Nat
    BY BlockLength DEF Inv
  <2>2. ~(Len(b) <= Len(head))
    BY <1>2, <2>1
  <2> QED
    BY <2>1, <2>2, PathIsShorter
<1> QED
  BY <1>2, <1>4, <1>5

\* A block is failed with nothing else under way.
LEMMA FailKeepsPast ==
  ASSUME Steady, NEW b, b \in delivered, b \notin PathFrom(0, head),
         Len(b) = Len(head) + 1, Len(head) \in Nat,
         failed' = failed \cup {b}, UNCHANGED <<head, delivered, cache>>
  PROVE  FailedArePast' /\ AncestorsDelivered'
BY DEF Steady, FailedArePast, AncestorsDelivered, PathFrom

\* _handle_valid_block: what is valid goes to commit and is not checked any more.
LEMMA ValidBlockSteady ==
  ASSUME OneBlockPerNumber, Inv, Steady, SlotTyped, NEW b \in Blocks \ {Root}, ValidBlock(b)
  PROVE  Steady'
<1>1. /\ committing = <<>> /\ \A c \in Blocks : checking'[c] = 0
      /\ Len(b) = Len(head) + 1 /\ Signer(b) = Expected /\ b \in delivered
      /\ b \notin PathFrom(0, head)
  BY AnswerLeavesNone DEF ValidBlock
<1>2. UNCHANGED <<state, epoch, head, delivered, cache, uncounted>>
  BY DEF ValidBlock, scheduleVars, blockVars
<1>3. ChecksOfSlot'
  BY <1>1 DEF ChecksOfSlot
<1>4. CASE Parent(b) = head
  <2>1. Commit(b, TRUE) /\ failed' = failed
    BY <1>1, <1>4 DEF ValidBlock, Steady
  <2> DEFINE c == [block |-> b, counted |-> TRUE, number |-> epoch.number, idx |-> epoch.idx]
  <2>2. committing' = <<c>>
    BY <1>1, <2>1 DEF Commit
  <2>3. \A a \in PathFrom(0, b) : a \in delivered \ failed
    <3>1. \A a \in PathFrom(0, b) : a \notin failed
      BY DEF ValidBlock, IsBad
    <3> QED
      BY <1>1, <3>1 DEF Steady, AncestorsDelivered
  <2>4. Expected' = Expected
    BY <1>2 DEF Expected
  <2>5. CommitOfSlot'
    <3>1. Len(committing') = 1 /\ committing'[1] = c
      BY <2>2
    <3> QED
      BY <1>1, <1>2, <1>4, <2>1, <2>3, <2>4, <3>1 DEF CommitOfSlot, PathFrom
  <2>6. FailedArePast' /\ AncestorsDelivered'
    BY <1>2, <2>1 DEF Steady, FailedArePast, AncestorsDelivered, PathFrom
  <2> QED
    BY <1>2, <1>3, <2>5, <2>6 DEF Steady
<1>5. CASE Parent(b) # head
  <2>1. failed' = failed \cup {b} /\ committing' = committing
    BY <1>5 DEF ValidBlock
  <2>2. Len(head) \in Nat
    BY BlockLength DEF Inv
  <2>3. FailedArePast' /\ AncestorsDelivered'
    BY <1>1, <1>2, <2>1, <2>2, FailKeepsPast
  <2>4. CommitOfSlot'
    BY <1>1, <2>1 DEF CommitOfSlot
  <2> QED
    BY <1>2, <1>3, <2>3, <2>4 DEF Steady
<1> QED
  BY <1>4, <1>5

\* _handle_invalid_block: the slot is passed with nothing under way.
LEMMA InvalidBlockSteady ==
  ASSUME OneBlockPerNumber, Inv, Steady, NEW b \in Blocks \ {Root}, InvalidBlock(b)
  PROVE  Steady'
<1>1. /\ committing = <<>> /\ \A c \in Blocks : checking'[c] = 0
      /\ Len(b) = Len(head) + 1 /\ Signer(b) = Expected /\ b \in delivered
      /\ b \notin PathFrom(0, head)
  BY AnswerLeavesNone DEF InvalidBlock
<1>2. /\ UNCHANGED <<head, delivered, cache, uncounted, committing>>
      /\ failed' = failed \cup {b}
  BY DEF InvalidBlock, blockVars
<1>3. ChecksOfSlot' /\ CommitOfSlot'
  BY <1>1, <1>2 DEF ChecksOfSlot, CommitOfSlot
<1>4. FailedArePast' /\ AncestorsDelivered'
  <2>1. Len(head) \in Nat
    BY BlockLength DEF Inv
  <2> QED
    BY <1>1, <1>2, <2>1, FailKeepsPast
<1>5. state' # "CATCHING_UP"
  BY SlotIsNoCatchUp DEF Steady, InvalidBlock, Schedule!RejectBlock
<1> QED
  BY <1>2, <1>3, <1>4, <1>5 DEF Steady

\* _handle_committed_block: the block passes its own slot.
LEMMA CommittedBlockSteady ==
  ASSUME Inv, Steady, CommittedBlock
  PROVE  Steady'
<1> DEFINE b == committing[1].block
<1>1. /\ b \in Blocks /\ committing[1].counted /\ Parent(b) = head
      /\ Len(b) = Len(head) + 1 /\ Len(head) \in Nat
      /\ \A a \in PathFrom(0, b) : a \in delivered \ failed
  <2>1. committing # <<>>
    BY DEF CommittedBlock
  <2> QED
    BY <2>1, BlockInCommit, BlockLength DEF Steady, CommitOfSlot, Inv
<1>2. /\ head' = b /\ committing' = <<>> /\ uncounted' = uncounted
      /\ UNCHANGED <<delivered, cache, failed>>
  BY <1>1, BlockInCommit DEF CommittedBlock, Steady, blockVars
<1>3. state' # "CATCHING_UP"
  BY SlotIsNoCatchUp DEF Steady, CommittedBlock, Schedule!EndSlot
<1>4. FailedArePast' /\ AncestorsDelivered'
  <2>1. \A f \in failed \cap cache : Len(f) <= Len(b) + 1
    <3> SUFFICES ASSUME NEW f \in failed \cap cache PROVE Len(f) <= Len(b) + 1
      OBVIOUS
    <3>1. Len(f) <= Len(head) + 1
      BY DEF Steady, FailedArePast
    <3>2. Len(f) \in Nat
      BY BlockLength DEF Inv
    <3> QED
      BY <1>1, <3>1, <3>2
  <2> QED
    BY <1>1, <1>2, <2>1 DEF Steady, FailedArePast, AncestorsDelivered, PathFrom
<1>5. CommitOfSlot'
  BY <1>2 DEF CommitOfSlot
<1>6. \A c \in Blocks : checking[c] = 0
  BY DEF CommittedBlock, Steady, ChecksOfSlot
<1>7. ASSUME NEW c \in Blocks, checking'[c] # 0
      PROVE  /\ checking'[c] = 1 /\ c \in cache
             /\ Len(c) = Len(b) + 1 /\ Signer(c) = CurrentWitness(epoch')
  <2>1. CASE NextCached(b) = {}
    <3>1. Check(Once({}))
      BY <2>1 DEF CommittedBlock
    <3> QED
      BY <1>6, <1>7, <3>1 DEF Check, Once
  <2>2. CASE NextCached(b) # {}
    <3>1. PICK n \in NextCached(b) : Check(Once({n}))
      BY <2>2 DEF CommittedBlock
    <3>2. checking'[c] = IF c = n THEN 1 ELSE 0
      BY <1>6, <3>1 DEF Check, Once
    <3> QED
      BY <1>7, <3>1, <3>2 DEF NextCached
  <2> QED
    BY <2>1, <2>2
<1>8. ChecksOfSlot'
  <2> SUFFICES ASSUME NEW c \in Blocks, checking'[c] # 0
               PROVE  /\ checking'[c] = 1
                      /\ Len(c) = Len(b) + 1 /\ Signer(c) = CurrentWitness(epoch')
                      /\ c \in delivered \ failed
    BY <1>2 DEF ChecksOfSlot, Expected
  <2>1. c \notin failed
    <3>1. c \in cache /\ Len(c) = Len(head) + 2
      BY <1>1, <1>7
    <3>2. ~(Len(c) <= Len(head) + 1)
      BY <1>1, <3>1
    <3> QED
      BY <3>1, <3>2 DEF Steady, FailedArePast
  <2> QED
    BY <1>7, <2>1 DEF Inv
<1> QED
  BY <1>2, <1>3, <1>4, <1>5, <1>8 DEF Steady
\* _finalize_block: the flag of the own block only.
LEMMA FinalizeBlockSteady == ASSUME Steady, FinalizeBlock PROVE Steady'
BY StandingKeepsSteady DEF FinalizeBlock, scheduleVars, Steady

\* Slots end without a block when nothing is under way.
LEMMA OwnSlotSteady ==
  ASSUME Inv, Steady, DeclareEmpty \/ MissSlot
  PROVE  Steady'
<1>1. Quiet
  BY ZeroIsQuiet DEF DeclareEmpty, MissSlot, MayAct, Waiting
<1>2. state' # "CATCHING_UP"
  BY SlotIsNoCatchUp DEF Steady, DeclareEmpty, MissSlot, Schedule!EndSlot, Schedule!MissSlot
<1> QED
  BY <1>1, <1>2, QuietKeepsSteady DEF DeclareEmpty, MissSlot

\* A slot passes without a block only when none is under way.
LEMMA EmptySlotSteady ==
  ASSUME KeepsUp, Inv, Steady, NEW s \in Members, EmptySlot(s)
  PROVE  Steady'
<1>1. Quiet
  <2>1. /\ \A b \in Blocks \ {Root} : Signer(b) = s => checking[b] = 0
        /\ \A i \in DOMAIN committing : Signer(committing[i].block) # s
        /\ s = Expected
    BY DEF EmptySlot, KeepsUp
  <2>2. ASSUME NEW b \in Blocks PROVE checking[b] = 0
    <3>1. Len(head) \in Nat /\ Len(Root) = 0
      BY BlockLength, EmptySeq DEF Inv, Root
    <3>2. checking[b] # 0 => b # Root /\ Signer(b) = Expected
      BY <3>1 DEF Steady, ChecksOfSlot
    <3> QED
      BY <2>1, <3>2
  <2>3. committing = <<>>
    <3> SUFFICES ASSUME committing # <<>> PROVE FALSE
      OBVIOUS
    <3>1. Signer(committing[1].block) = Expected /\ Len(committing) = 1
      BY DEF Steady, CommitOfSlot
    <3>2. 1 \in DOMAIN committing
      BY <3>1 DEF Inv, CommitsExact
    <3> QED
      BY <2>1, <3>1, <3>2
  <2> QED
    BY <2>2, <2>3 DEF Quiet
<1>2. state' # "CATCHING_UP"
  BY SlotIsNoCatchUp DEF Steady, EmptySlot, Schedule!EndSlot
<1> QED
  BY <1>1, <1>2, QuietKeepsSteady DEF EmptySlot

\* A result starts an epoch when nothing is under way, or does not start it yet.
LEMMA ElectionSteady ==
  ASSUME KeepsUp, Steady, CastVote \/ \E list \in Lists : AcceptResult(list)
  PROVE  Steady'
<1>1. CASE CastVote
  BY <1>1, StandingKeepsSteady DEF CastVote, Schedule!Vote
<1>2. ASSUME NEW list \in Lists, AcceptResult(list) PROVE Steady'
  <2>1. state' # "CATCHING_UP"
    BY <1>2 DEF AcceptResult, Schedule!AcceptResult, Schedule!InitializeEpoch,
                Schedule!UnlessCatchingUp, Steady
  <2>2. Schedule!IsOver(epoch) <=> IsOver(epoch)
    BY DEF Schedule!IsOver, IsOver, Schedule!SlotsRemaining, SlotsRemaining
  <2>3. CASE IsOver(epoch)
    <3>1. Quiet
      BY <1>2, <2>3 DEF AcceptResult, KeepsUp, Quiet
    <3> QED
      BY <1>2, <2>1, <3>1, QuietKeepsSteady DEF AcceptResult
  <2>4. CASE ~IsOver(epoch)
    BY <1>2, <2>1, <2>2, <2>4, StandingKeepsSteady DEF AcceptResult, Schedule!AcceptResult
  <2> QED
    BY <2>3, <2>4
<1> QED
  BY <1>1, <1>2

\* Every step keeps an engine steady that keeps up.
LEMMA StepSteady ==
  ASSUME KeepsUp, OneBlockPerNumber, Inv, SlotTyped, Steady, [Next]_vars
  PROVE  Steady'
<1>1. CASE \E b \in Blocks \ {Root} : NewBlock(b) \/ RefuseBlock(b)
  BY <1>1, NewBlockSteady, RefuseBlockSteady
<1>2. CASE \E b \in Blocks \ {Root} : ValidBlock(b) \/ InvalidBlock(b)
  BY <1>2, ValidBlockSteady, InvalidBlockSteady
<1>3. CASE CommittedBlock \/ FinalizeBlock \/ DeclareEmpty \/ MissSlot
  BY <1>3, CommittedBlockSteady, FinalizeBlockSteady, OwnSlotSteady
<1>4. CASE \E s \in Members : EmptySlot(s)
  BY <1>4, EmptySlotSteady
<1>5. CASE CastVote \/ \E list \in Lists : AcceptResult(list)
  BY <1>5, ElectionSteady
<1>6. CASE \E t \in Blocks : FastForward(t)
  BY <1>6 DEF FastForward, KeepsUp
<1>7. CASE UNCHANGED vars
  BY <1>7, StandingKeepsSteady DEF vars, scheduleVars, Steady
<1> QED
  BY <1>1, <1>2, <1>3, <1>4, <1>5, <1>6, <1>7 DEF Next

\* An engine starts with nothing under way.
LEMMA InitSteady == Init => Steady
<1> SUFFICES ASSUME Init PROVE Steady
  OBVIOUS
<1>1. Quiet
  BY DEF Init, Quiet
<1>2. PathFrom(0, Root) = {}
  <2>1. Len(Root) = 0
    BY EmptySeq DEF Root
  <2> QED
    BY <2>1 DEF PathFrom
<1>3. state # "CATCHING_UP"
  BY DEF Init, Schedule!Init
<1> QED
  BY <1>1, <1>2, <1>3, QuietIsOfSlot DEF Init, Steady, FailedArePast, AncestorsDelivered

---------------------------------------------------------------------------
(* The theorems *)

\* The inductive invariant: at most one block is with the validator, the one of the
\* running slot on top of the head.
THEOREM SteadyInvariant ==
  ASSUME KeepsUp, OneBlockPerNumber
  PROVE  Spec => []Steady
<1>1. Inv /\ Proved!Inv => SlotTyped
  BY DEF Proved!Inv, Proved!TypeOK, Proved!EpochState, SlotTyped
<1>2. Inv /\ Proved!Inv /\ Steady /\ [Next]_vars => Steady'
  BY <1>1, StepSteady
<1> QED
  BY <1>2, InitSteady, EngineInvariant, PTL DEF Spec

\* A block in commit keeps its slot: no empty slot, time-out, refusal or result passes
\* it before the block is committed.
THEOREM SlotIsHeld == KeepsUp => (Spec => []SlotHeldByCommit)
<1> SUFFICES ASSUME KeepsUp PROVE Spec => []SlotHeldByCommit
  OBVIOUS
<1>1. CASE OneBlockPerNumber
  <2>1. Inv /\ Steady => SlotHeldByCommit
    BY BlockInCommit DEF Steady, CommitOfSlot, SlotHeldByCommit
  <2>2. Spec => []Steady
    BY <1>1, SteadyInvariant
  <2> QED
    BY <2>1, <2>2, EngineInvariant, PTL
<1>2. CASE ~OneBlockPerNumber
  <2>1. SlotHeldByCommit
    BY <1>2 DEF SlotHeldByCommit
  <2> QED
    BY <2>1, PTL
<1> QED
  BY <1>1, <1>2

\* No block that is committed was failed before or is failed later.
THEOREM CommittedStays ==
  ASSUME KeepsUp, OneBlockPerNumber
  PROVE  Spec => []CommittedNotFailed
<1>1. Steady => CommittedNotFailed
  BY DEF Steady, FailedArePast, CommittedNotFailed
<1> QED
  BY <1>1, SteadyInvariant, PTL

\* Every commit extends the head.
THEOREM HeadGrows == KeepsUp => (Spec => HeadOnlyGrows)
<1> SUFFICES ASSUME KeepsUp PROVE Spec => HeadOnlyGrows
  OBVIOUS
<1>1. CASE OneBlockPerNumber
  <2>1. Steady /\ [Next]_vars => [OneBlockPerNumber /\ head' # head => Parent(head') = head]_vars
    <3> SUFFICES ASSUME Steady, Next, head' # head PROVE Parent(head') = head
      BY DEF vars
    <3>1. CommittedBlock
      BY DEF Next, NewBlock, RefuseBlock, ValidBlock, InvalidBlock, FinalizeBlock,
             DeclareEmpty, MissSlot, EmptySlot, CastVote, AcceptResult, FastForward
    <3> QED
      BY <3>1 DEF CommittedBlock, Steady, CommitOfSlot
  <2>2. Spec => []Steady
    BY <1>1, SteadyInvariant
  <2> QED
    BY <2>1, <2>2, PTL DEF Spec, HeadOnlyGrows
<1>2. CASE ~OneBlockPerNumber
  <2>1. [Next]_vars => [OneBlockPerNumber /\ head' # head => Parent(head') = head]_vars
    BY <1>2
  <2> QED
    BY <2>1, PTL DEF Spec, HeadOnlyGrows
<1> QED
  BY <1>1, <1>2

=============================================================================
