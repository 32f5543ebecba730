------------------------------- MODULE Epoch -------------------------------
(***************************************************************************)
(* The witness schedule of one epoch: the state of class Epoch and the     *)
(* functions that move it (src/consensus/pkg/engine/epoch.py).             *)
(*                                                                         *)
(* An epoch has a list of witnesses, each of which owns the slots whose    *)
(* index is congruent to its position, and a queue of candidates that wait *)
(* to replace a downgraded witness.                                        *)
(***************************************************************************)
EXTENDS Integers, Sequences, FiniteSets, Functions

CONSTANTS
  Members,          \* the keys of sawtooth.consensus.ddpoa.members
  NumSlots,         \* sawtooth.consensus.ddpoa.slots
  RoundsPerEpoch,   \* ROUNDS_PER_EPOCH
  NoKey,            \* Python's None, where a key is expected
  Hash(_, _, _)     \* concat_and_hash(witness, seed, index): a number

\* A node votes only when more than NumSlots peers are online
\* (DDPoANode.should_vote), so an epoch exists only with NumSlots below the
\* number of members.
ASSUME EpochAssumption ==
  /\ IsFiniteSet(Members)
  /\ NumSlots \in Nat \ {0}
  /\ NumSlots < Cardinality(Members)
  /\ RoundsPerEpoch \in Nat \ {0}
  /\ NoKey \notin Members

\* The candidate lists that an election can produce: every member once.
Rankings == Bijection(1..Cardinality(Members), Members)

EpochState ==
  [number : Nat, idx : Nat,
   witnesses : Seq(Members), candidates : Seq(Members)]

---------------------------------------------------------------------------
(* Construction *)

\* Epoch(number, slots): nothing elected yet.
NewEpoch(number) ==
  [number |-> number, idx |-> 0,
   witnesses |-> <<>>, candidates |-> <<>>]

\* Mutant: the rest of the list is not queued.
SetCandidatesAndWitnesses_NoQueue(ep, list) ==
  [ep EXCEPT !.witnesses = SubSeq(list, 1, NumSlots)]

\* set_candidates_and_witnesses on a new epoch.
SetCandidatesAndWitnesses(ep, list) ==
  [ep EXCEPT !.witnesses = SubSeq(list, 1, NumSlots),
             !.candidates = SubSeq(list, NumSlots + 1, Len(list))]

---------------------------------------------------------------------------
(* Queries *)

HasWitnesses(ep) == ep.witnesses # <<>>

IsWitness(ep, key) == key \in Range(ep.witnesses)

\* The owner of slot number idx.
WitnessOfSlot(ep, idx) == ep.witnesses[1 + (idx % Len(ep.witnesses))]

CurrentWitness(ep) ==
  IF HasWitnesses(ep) THEN WitnessOfSlot(ep, ep.idx) ELSE NoKey

SlotsRemaining(ep) ==
  Len(ep.witnesses) * RoundsPerEpoch - ep.idx

IsOver(ep) == ep.idx >= Len(ep.witnesses) * RoundsPerEpoch

IsInitialized(ep) == ~ (ep.idx = 0 /\ ~HasWitnesses(ep))

NextEpochNumber(ep) == ep.number + 1

FullCandidateList(ep) == ep.witnesses \o ep.candidates

---------------------------------------------------------------------------
(* Steps *)

\* The sort of reorder_witnesslist: by the hash of key, seed and slot index, and
\* stable, so that of equal hashes the one that stood first comes first.
Before(list, seed, idx, k, l) ==
  \/ Hash(list[k], seed, idx) < Hash(list[l], seed, idx)
  \/ Hash(list[k], seed, idx) = Hash(list[l], seed, idx) /\ k < l

\* reorder_witnesslist: the sorted list, as the set of the arrangements that are
\* sorted.
Reorderings(list, seed, idx) ==
  { [i \in DOMAIN list |-> list[q[i]]] :
      q \in { p \in Bijection(DOMAIN list, DOMAIN list) :
                \A i, j \in DOMAIN list :
                  i < j => Before(list, seed, idx, p[i], p[j]) } }

\* Mutant: the list is reordered after every slot, not only after a round.
IncrementWitness_EverySlot(ep, seed) ==
  LET moved == [ep EXCEPT !.idx = @ + 1] IN
  IF HasWitnesses(ep) /\ ~IsOver(moved)
  THEN { [moved EXCEPT !.witnesses = list] :
           list \in Reorderings(ep.witnesses, seed, moved.idx) }
  ELSE { moved }

\* increment_witness (idx is current_witness_idx).  The index moves first, then
\* the division by the number of witnesses may raise: without witnesses the
\* index has still moved.
IncrementWitness(ep, seed) ==
  LET moved == [ep EXCEPT !.idx = @ + 1] IN
  IF /\ HasWitnesses(ep)
     /\ moved.idx % Len(ep.witnesses) = 0
     /\ ~IsOver(moved)
  THEN { [moved EXCEPT !.witnesses = list] :
           list \in Reorderings(ep.witnesses, seed, moved.idx) }
  ELSE { moved }

\* downgrade_witness takes the head of the candidate queue, and would wait for
\* ever on an empty one.
DowngradeBlocks(ep, key) == IsWitness(ep, key) /\ ep.candidates = <<>>

\* Mutant: the downgraded witness is not put back.
DowngradeWitness_Lost(ep, key) ==
  IF IsWitness(ep, key)
  THEN [ep EXCEPT
         !.witnesses = [i \in DOMAIN @ |-> IF @[i] = key THEN Head(ep.candidates) ELSE @[i]],
         !.candidates = Tail(@)]
  ELSE ep

\* downgrade_witness: the first candidate takes the witness's place, the
\* witness goes to the back of the queue.
DowngradeWitness(ep, key) ==
  IF IsWitness(ep, key)
  THEN [ep EXCEPT
         !.witnesses = [i \in DOMAIN @ |-> IF @[i] = key THEN Head(ep.candidates) ELSE @[i]],
         !.candidates = Append(Tail(@), key)]
  ELSE ep

=============================================================================
