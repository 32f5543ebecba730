------------------------------ MODULE Network ------------------------------
(***************************************************************************)
(* The engines of all members in one epoch (ddpoa_engine.py): every node   *)
(* moves its own copy of the schedule by what it sees, a block, an         *)
(* EMPTY_SLOT message or a time-out, and nobody ever compares the copies.  *)
(*                                                                         *)
(* The nodes enter the epoch with the same list, which is Election's       *)
(* matter.  A block is the sequence of the signers from the last block     *)
(* before the epoch, as in Engine.  Every block is valid, its commit       *)
(* follows its check in one step (Engine has them apart), and the request  *)
(* that a block too far ahead also sends is CatchUp's.                     *)
(***************************************************************************)
EXTENDS Epoch

CONSTANTS
  Lists,         \* the lists that the election may have given
  PromptBlocks,  \* whether blocks are handled before a later EMPTY_SLOT
  Punctual,      \* whether a slot without a block ends everywhere within the
                 \* BLOCK_INTERVAL that follows it
  MaxCrashes     \* bound: so many nodes stop

ASSUME NetworkAssumption ==
  /\ Lists \subseteq Rankings
  /\ PromptBlocks \in BOOLEAN /\ Punctual \in BOOLEAN
  /\ MaxCrashes \in Nat

VARIABLES
  epoch,          \* [n]: the schedule
  head,           \* [n]: pre_committed_block
  cache,          \* [n]: block_cache (ten blocks, an epoch here has fewer)
  checking,       \* [n]: the blocks given to check_blocks, not yet answered
  waitingForOwn,  \* [n]: _waiting_for_own_block
  onTheWay,       \* [n]: the blocks and EMPTY_SLOT messages that will reach n
  crashed,        \* the nodes that have stopped
  skipped         \* history: [n]: whether the last slot ended without a block

blocks == <<head, cache, checking>>
vars == <<epoch, blocks, waitingForOwn, onTheWay, crashed, skipped>>

Root == <<>>

Parent(b) == SubSeq(b, 1, Len(b) - 1)

Signer(b) == b[Len(b)]

\* What a witness says in a slot: its block, or that it has none.
Message == [from : Members, slot : Nat, empty : BOOLEAN, block : Seq(Members)]

Expected(n) == CurrentWitness(epoch[n])

Running == Members \ crashed

---------------------------------------------------------------------------

TypeOK ==
  /\ epoch \in [Members -> EpochState]
  /\ head \in [Members -> Seq(Members)]
  /\ cache \in [Members -> SUBSET Seq(Members)]
  /\ checking \in [Members -> SUBSET Seq(Members)]
  /\ waitingForOwn \in [Members -> BOOLEAN]
  /\ onTheWay \in [Members -> SUBSET Message]
  /\ crashed \subseteq Members
  /\ skipped \in [Members -> BOOLEAN]
  /\ \A n \in Members : checking[n] \subseteq cache[n] /\ Cardinality(checking[n]) <= 1

Init ==
  /\ \E list \in Lists :
       epoch = [n \in Members |-> SetCandidatesAndWitnesses(NewEpoch(1), list)]
  /\ head = [n \in Members |-> Root]
  /\ cache = [n \in Members |-> {Root}]
  /\ checking = [n \in Members |-> {}]
  /\ waitingForOwn = [n \in Members |-> FALSE]
  /\ onTheWay = [n \in Members |-> {}]
  /\ crashed = {}
  /\ skipped = [n \in Members |-> FALSE]

---------------------------------------------------------------------------
(* Slots *)

\* _next_slot from schedule ep; the seed is the head.
NextSlot(n, ep, newHead, noBlock) ==
  /\ \E next \in IncrementWitness(ep, newHead) : epoch' = [epoch EXCEPT ![n] = next]
  /\ skipped' = [skipped EXCEPT ![n] = noBlock]

\* Nothing that n knows of stands between it and the end of its slot.
Idle(n) == ~waitingForOwn[n] /\ checking[n] = {}

\* n can only time out: its witness has stopped or is past the slot, and
\* nothing is on its way.
MustTimeOut(n) ==
  /\ Idle(n)
  /\ onTheWay[n] = {}
  /\ Expected(n) \in crashed \/ epoch[Expected(n)].idx > epoch[n].idx

\* Mutant: the slot ends before the witness is looked up.
MissedSlot_Next(n) ==
  DowngradeWitness(epoch[n], WitnessOfSlot(epoch[n], epoch[n].idx + 1))

\* What handle_missed_slot leaves of the schedule before _next_slot.
MissedSlot(n) == DowngradeWitness(epoch[n], Expected(n))

\* slot_is_missed and handle_missed_slot.  The cache is not looked into.
TimeOut(n) ==
  /\ n \in Running
  /\ ~IsOver(epoch[n])
  /\ Idle(n)
  /\ Punctual => MustTimeOut(n)
  /\ NextSlot(n, MissedSlot(n), head[n], TRUE)
  /\ UNCHANGED <<blocks, waitingForOwn, onTheWay, crashed>>

---------------------------------------------------------------------------
(* Producing *)

\* time_for_next_block and the conditions around it.  BLOCK_INTERVAL passes
\* before a witness acts.
MayAct(n) ==
  /\ n \in Running
  /\ ~IsOver(epoch[n])
  /\ Idle(n)
  /\ Expected(n) = n
  /\ Punctual /\ skipped[n] => \A m \in Running : epoch[m].idx >= epoch[n].idx

SendTo(nodes, msg) ==
  onTheWay' = [m \in Members |-> onTheWay[m] \cup IF m \in nodes THEN {msg} ELSE {}]

\* _finalize_block: the validator gives the block to all engines, its own too.
Produce(n) ==
  /\ MayAct(n)
  /\ SendTo(Members, [from |-> n, slot |-> epoch[n].idx, empty |-> FALSE,
                      block |-> Append(head[n], n)])
  /\ waitingForOwn' = [waitingForOwn EXCEPT ![n] = TRUE]
  /\ UNCHANGED <<epoch, blocks, crashed, skipped>>

\* Nothing to put in a block: broadcast_empty_slot, _next_slot.
DeclareEmpty(n) ==
  /\ MayAct(n)
  /\ SendTo(Members \ {n}, [from |-> n, slot |-> epoch[n].idx, empty |-> TRUE,
                            block |-> Root])
  /\ NextSlot(n, epoch[n], head[n], TRUE)
  /\ UNCHANGED <<blocks, waitingForOwn, crashed>>

---------------------------------------------------------------------------
(* Handling *)

\* Mutant: the parent is not compared.
Follows_AnyParent(n, b) == Signer(b) = Expected(n)

\* The block is the one that the schedule of n has next.
Follows(n, b) == Parent(b) = head[n] /\ Signer(b) = Expected(n)

Earlier(n, msg) == { m \in onTheWay[n] : m.slot < msg.slot }

Take(n, msg) == onTheWay' = [onTheWay EXCEPT ![n] = @ \ {msg}]

\* Mutant: the own block is waited for once more.
OwnBlockPending_Ever(n, b) == waitingForOwn[n]

OwnBlockPending(n, b) == waitingForOwn[n] /\ ~ (Follows(n, b) /\ Signer(b) = n)

\* _handle_new_block: a block that does not follow stays in the cache.
HandleNewBlock(n, msg) ==
  /\ ~msg.empty
  /\ Take(n, msg)
  /\ cache' = [cache EXCEPT ![n] = @ \cup {msg.block}]
  /\ checking' = [checking EXCEPT
       ![n] = @ \cup { b \in {msg.block} : Follows(n, b) }]
  /\ waitingForOwn' = [waitingForOwn EXCEPT ![n] = OwnBlockPending(n, msg.block)]
  /\ UNCHANGED <<epoch, head, crashed, skipped>>

\* EMPTY_SLOT: counts only if the sender is expected now.  The messages of one
\* sender come in order.  The cache is not looked into.
HandleEmptySlot(n, msg) ==
  /\ msg.empty
  /\ \A m \in Earlier(n, msg) : ~ (m.empty /\ m.from = msg.from)
  /\ PromptBlocks => checking[n] = {} /\ \A m \in Earlier(n, msg) : m.empty
  /\ Take(n, msg)
  /\ IF msg.from = Expected(n)
     THEN NextSlot(n, epoch[n], head[n], TRUE)
     ELSE UNCHANGED <<epoch, skipped>>
  /\ UNCHANGED <<blocks, waitingForOwn, crashed>>

Handle(n) ==
  /\ n \in Running
  /\ \E msg \in onTheWay[n] : HandleNewBlock(n, msg) \/ HandleEmptySlot(n, msg)

\* Mutant: the cache is not looked into.
NextCached_None(n, b, signer) == {{}}

\* block_by_num_and_signer: a block of the cache for the next slot, if any.
NextCached(n, b, signer) ==
  LET found == { c \in cache[n] : Len(c) = Len(b) + 1 /\ Signer(c) = signer }
  IN  IF found = {} THEN {{}} ELSE { {c} : c \in found }

\* _handle_valid_block and _handle_committed_block: the block is judged again,
\* by the schedule of now, and failed unless it follows.  After a commit, the
\* cache may have the block of the next slot.
BlockChecked(n) ==
  /\ n \in Running
  /\ \E b \in checking[n] :
       IF Follows(n, b)
       THEN /\ head' = [head EXCEPT ![n] = b]
            /\ NextSlot(n, epoch[n], b, FALSE)
            /\ \E next \in NextCached(n, b, CurrentWitness(epoch'[n])) :
                 checking' = [checking EXCEPT ![n] = (@ \ {b}) \cup next]
       ELSE /\ checking' = [checking EXCEPT ![n] = @ \ {b}]
            /\ UNCHANGED <<epoch, head, skipped>>
  /\ UNCHANGED <<cache, waitingForOwn, onTheWay, crashed>>

Crash(n) ==
  /\ n \in Running
  /\ Cardinality(crashed) < MaxCrashes
  /\ crashed' = crashed \cup {n}
  /\ UNCHANGED <<epoch, blocks, waitingForOwn, onTheWay, skipped>>

---------------------------------------------------------------------------

Step(n) == TimeOut(n) \/ Produce(n) \/ DeclareEmpty(n) \/ Handle(n) \/ BlockChecked(n)

Next == \E n \in Members : Step(n) \/ Crash(n)

\* The main loop of an engine that has not stopped goes on.
Spec == Init /\ [][Next]_vars /\ \A n \in Members : WF_vars(Step(n))

---------------------------------------------------------------------------
(* Properties *)

\* Nodes that are in the same slot have the same schedule and stand on the same
\* block: each expects the witness that the others expect, although one may have
\* seen a block, or timed out, long after another.
Agreement ==
  \A m, n \in Members :
    epoch[m].idx = epoch[n].idx => epoch[m] = epoch[n] /\ head[m] = head[n]

\* What one node has committed, every other has or can still commit.
NoFork ==
  \A m, n \in Members :
    Len(head[m]) <= Len(head[n]) => SubSeq(head[n], 1, Len(head[m])) = head[m]

\* The chains of all nodes are what SharedChain says: the chain is the longest of
\* them, and what a node commits is, block by block, what the longest one has.
Longest ==
  CHOOSE h \in { head[n] : n \in Members } : \A n \in Members : Len(head[n]) <= Len(h)

Shared ==
  INSTANCE SharedChain WITH
    Signers <- Members, chain <- Longest, committed <- head

ImplementsSharedChain == Shared!Spec

\* Only a witness that has stopped loses its place: no node takes a block or an
\* EMPTY_SLOT that it has yet to see for a missed slot.
KeepsItsPlace ==
  [][\A m, n \in Members :
       IsWitness(epoch[n], m) /\ ~IsWitness(epoch'[n], m) => m \in crashed]_vars

\* A node that goes on gets to the end of the epoch: the slots of nodes that
\* have stopped are timed out, and no block is waited for in vain.
EpochServed == \A n \in Members : <>(n \in crashed \/ IsOver(epoch[n]))

=============================================================================
