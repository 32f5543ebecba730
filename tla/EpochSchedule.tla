--------------------------- MODULE EpochSchedule ---------------------------
(***************************************************************************)
(* The schedule that one node follows: which epoch and slot it believes in *)
(* and in which State it is (class DDPoANode, ddpoa_node.py), moved by the *)
(* events its engine hands to it (ddpoa_engine.py).  The network and the   *)
(* validator are the environment: a slot ends when a block is committed or *)
(* declared empty, times out, or its block is found invalid, and a result  *)
(* of the election of the next epoch is accepted at any moment.            *)
(***************************************************************************)
EXTENDS Epoch

CONSTANTS
  VotingSlots,   \* VOTING_SLOTS
  Seeds,         \* the block ids that a witness list is reordered by
  Lists,         \* the candidate lists that elections produce
  MaxEpoch,      \* bound: no epoch after this one
  MaxIdx         \* bound: no slot index above this one

ASSUME ScheduleAssumption ==
  /\ VotingSlots \in Nat
  /\ Lists \subseteq Rankings
  /\ MaxEpoch \in Nat
  /\ MaxIdx \in Nat

VARIABLES
  epoch,     \* node.epoch
  state,     \* node.state
  elected,   \* ready_result and voting.candidates: accepted list by epoch
  voted,     \* the epochs that voting.ballots holds the node's own ballot for
  served,    \* history: the owners of the slots passed in this round
  skewed     \* history: a witness was replaced ahead of its turn this round

vars == <<epoch, state, elected, voted, served, skewed>>

States == {"IDLE", "ELECTION", "PRODUCTION", "WAITING_FOR_BOOTSTRAP", "CATCHING_UP"}

Epochs == 1..MaxEpoch

TypeOK ==
  /\ epoch \in EpochState
  /\ epoch.number \in 0..MaxEpoch
  /\ state \in States
  /\ DOMAIN elected \subseteq Epochs
  /\ elected \in [DOMAIN elected -> Lists]
  /\ voted \subseteq Epochs
  /\ served \subseteq Members \cup {NoKey}
  /\ skewed \in BOOLEAN

\* A node that starts on the genesis block elects the first epoch; any other
\* waits to be told where the network is.
Init ==
  /\ epoch = NewEpoch(0)
  /\ state \in {"IDLE", "WAITING_FOR_BOOTSTRAP"}
  /\ elected = <<>>
  /\ voted = {}
  /\ served = {}
  /\ skewed = FALSE

---------------------------------------------------------------------------
(* Epochs begin and end *)

\* The State a node moves to, unless it is catching up.
UnlessCatchingUp(st, new) == IF st = "CATCHING_UP" THEN st ELSE new

\* initialize_epoch
InitializeEpoch(number, list, st) ==
  /\ epoch' = SetCandidatesAndWitnesses(NewEpoch(number), list)
  /\ state' = UnlessCatchingUp(st, "PRODUCTION")

\* Mutant: the ended epoch leaves the State alone.
EpochEnds_KeepsState(ep, st) ==
  LET next == NextEpochNumber(ep) IN
  /\ elected' = Restrict(elected, DOMAIN elected \ {ep.number - 2})
  /\ IF next \in DOMAIN elected
     THEN InitializeEpoch(next, elected[next], st)
     ELSE epoch' = ep /\ state' = st

\* finalize_epoch, and the next epoch when its result is ready.
EpochEnds(ep, st) ==
  LET next == NextEpochNumber(ep) IN
  /\ elected' = Restrict(elected, DOMAIN elected \ {ep.number - 2})
  /\ IF next \in DOMAIN elected
     THEN InitializeEpoch(next, elected[next], UnlessCatchingUp(st, "IDLE"))
     ELSE /\ epoch' = ep
          /\ state' = UnlessCatchingUp(st, "IDLE")

\* next_slot, reached with the schedule ep and the State st.  Without witnesses
\* the index has moved and the raised ZeroDivisionError ends the handler.
NextSlot(ep, st, seed) ==
  /\ ep.idx < MaxIdx
  /\ \E moved \in IncrementWitness(ep, seed) :
       IF HasWitnesses(ep) /\ IsOver(moved)
       THEN EpochEnds(moved, st)
       ELSE /\ epoch' = moved
            /\ state' = st
            /\ UNCHANGED elected

\* The round's history: a slot of owner has passed, after those of past.
Record(owner, past, skew) ==
  IF epoch'.idx % NumSlots = 0
  THEN served' = {} /\ skewed' = FALSE
  ELSE served' = past \cup {owner} /\ skewed' = skew

---------------------------------------------------------------------------
(* The events *)

\* Mutant: the ballot is filed under the running epoch, not the next.
Vote_RunningEpoch ==
  /\ state \notin {"WAITING_FOR_BOOTSTRAP", "CATCHING_UP"}
  /\ SlotsRemaining(epoch) <= VotingSlots
  /\ epoch.number \notin voted
  /\ voted' = voted \cup {epoch.number}
  /\ state' = "ELECTION"
  /\ UNCHANGED <<epoch, elected, served, skewed>>

\* vote, when should_vote.  More than NumSlots peers may or may not be online.
Vote ==
  /\ state \notin {"WAITING_FOR_BOOTSTRAP", "CATCHING_UP"}
  /\ \/ SlotsRemaining(epoch) <= VotingSlots
     \/ IsOver(epoch)
     \/ epoch.number = 0
  /\ NextEpochNumber(epoch) \in Epochs \ voted
  /\ voted' = voted \cup {NextEpochNumber(epoch)}
  /\ state' = "ELECTION"
  /\ UNCHANGED <<epoch, elected, served, skewed>>

\* Mutant: the result is only stored, for next_slot to find.
AcceptResult_OnlyStores(list) ==
  LET next == NextEpochNumber(epoch) IN
  /\ next \in Epochs
  /\ elected' = [e \in DOMAIN elected \cup {next} |-> IF e = next THEN list ELSE elected[e]]
  /\ UNCHANGED <<epoch, state, voted, served, skewed>>

\* Mutant: the result starts its epoch whether or not this one is over.
AcceptResult_StartsAtOnce(list) ==
  LET next == NextEpochNumber(epoch) IN
  /\ next \in Epochs
  /\ elected' = [e \in DOMAIN elected \cup {next} |-> IF e = next THEN list ELSE elected[e]]
  /\ InitializeEpoch(next, list, state)
  /\ served' = {}
  /\ skewed' = FALSE
  /\ UNCHANGED voted

\* handle_vote_result with enough equal results for the next epoch.  A later
\* count may accept another list for the same epoch.
AcceptResult(list) ==
  LET next == NextEpochNumber(epoch) IN
  /\ next \in Epochs
  /\ elected' = [e \in DOMAIN elected \cup {next} |-> IF e = next THEN list ELSE elected[e]]
  /\ IF IsOver(epoch)
     THEN /\ InitializeEpoch(next, list, state)
          /\ served' = {}
          /\ skewed' = FALSE
     ELSE UNCHANGED <<epoch, state, served, skewed>>
  /\ UNCHANGED voted

\* A block is committed, or the owner of the slot declares it empty.  While
\* catching up, blocks are committed whatever the node's schedule says.
EndSlot(seed) ==
  /\ HasWitnesses(epoch) \/ state = "CATCHING_UP"
  /\ NextSlot(epoch, state, seed)
  /\ Record(CurrentWitness(epoch), served, skewed)
  /\ UNCHANGED voted

\* handle_missed_slot.  Without witnesses there is no signer to name and the
\* main loop's log line raises before the handler.
MissSlot(seed) ==
  /\ state \in {"PRODUCTION", "ELECTION"}
  /\ HasWitnesses(epoch)
  /\ ~DowngradeBlocks(epoch, CurrentWitness(epoch))
  /\ NextSlot(DowngradeWitness(epoch, CurrentWitness(epoch)), state, seed)
  /\ Record(CurrentWitness(epoch), served, skewed)
  /\ UNCHANGED voted

\* _handle_invalid_block: the signer of the block is downgraded and the slot is
\* passed, whoever owns it by now.
RejectBlock(key, seed) ==
  /\ HasWitnesses(epoch) \/ state = "CATCHING_UP"
  /\ ~DowngradeBlocks(epoch, key)
  /\ NextSlot(DowngradeWitness(epoch, key), state, seed)
  /\ Record(CurrentWitness(epoch), served, skewed \/ key # CurrentWitness(epoch))
  /\ UNCHANGED voted

\* fastforward
BeginCatchUp ==
  /\ state # "CATCHING_UP"
  /\ state' = "CATCHING_UP"
  /\ UNCHANGED <<epoch, elected, voted, served, skewed>>

\* _handle_committed_block on the target of the catch-up: bootstrap from the
\* block's payload, then next_slot.
FinishCatchUp(number, idx, list, seed) ==
  LET told == [SetCandidatesAndWitnesses(NewEpoch(number), list) EXCEPT !.idx = idx] IN
  /\ state = "CATCHING_UP"
  /\ NextSlot(told, "PRODUCTION", seed)
  /\ Record(CurrentWitness(told), {}, FALSE)
  /\ UNCHANGED voted

\* The process stops and is started again on a chain with blocks: everything
\* above is kept in memory only.
Restart ==
  /\ epoch' = NewEpoch(0)
  /\ state' = "WAITING_FOR_BOOTSTRAP"
  /\ elected' = <<>>
  /\ voted' = {}
  /\ served' = {}
  /\ skewed' = FALSE

Next ==
  \/ Vote
  \/ \E list \in Lists : AcceptResult(list)
  \/ \E seed \in Seeds : EndSlot(seed)
  \/ \E seed \in Seeds : MissSlot(seed)
  \/ \E key \in Members, seed \in Seeds : RejectBlock(key, seed)
  \/ BeginCatchUp
  \/ \E number \in Epochs, idx \in 0..MaxIdx, list \in Lists, seed \in Seeds :
       FinishCatchUp(number, idx, list, seed)
  \/ Restart

Spec == Init /\ [][Next]_vars

---------------------------------------------------------------------------
(* Properties *)

\* However many witnesses are downgraded, replaced and reordered, the witness
\* list keeps its length and every member is in exactly one place of the list
\* or the queue (downgrade_witness, reorder_witnesslist).
MembersConserved ==
  HasWitnesses(epoch) =>
    /\ Len(epoch.witnesses) = NumSlots
    /\ Len(epoch.candidates) = Cardinality(Members) - NumSlots
    /\ FullCandidateList(epoch) \in Rankings

\* Queue.get in downgrade_witness, which the engine's only thread would wait in
\* for ever, never meets an empty queue.
DowngradeNeverBlocks == \A key \in Members : ~DowngradeBlocks(epoch, key)

\* In a round every slot has another owner, also when slots are missed and the
\* list changes under the running index: only a block found invalid after its
\* signer's slot had passed can give a member two slots of a round.
RoundRobin ==
  HasWitnesses(epoch) /\ ~skewed => CurrentWitness(epoch) \notin served

\* A node never waits at the end of an epoch with the result of the next one
\* in its hands, whichever of the two comes first (next_slot reads
\* ready_result, handle_vote_result reads is_over).
NeverWaitsWithResult ==
  ~(IsOver(epoch) /\ NextEpochNumber(epoch) \in DOMAIN elected)

\* The State agrees with the schedule: an idle node, which neither produces nor
\* times slots out, has no slots left; a producing one has; and a node in
\* ELECTION has the ballot that rebroadcast_ballot looks up.
StateMatchesSchedule ==
  /\ state = "IDLE" => IsOver(epoch)
  /\ state = "PRODUCTION" => ~IsOver(epoch)
  /\ state = "ELECTION" => NextEpochNumber(epoch) \in voted

\* Outside a catch-up and a restart the epochs follow one another, and none is
\* cut short: the next begins only when all rounds of this one have been passed.
EpochNeverCutShort ==
  [][ epoch'.number \notin {epoch.number, 0} /\ state # "CATCHING_UP"
      => /\ epoch'.number = epoch.number + 1
         /\ epoch.idx + 1 >= Len(epoch.witnesses) * RoundsPerEpoch ]_vars

=============================================================================
