------------------------------- MODULE Engine -------------------------------
(***************************************************************************)
(* One engine beside its validator (class DDPoAEngine, ddpoa_engine.py):   *)
(* blocks are announced, checked, committed or failed by calls that are    *)
(* answered later, while slots pass, peers declare slots empty and the     *)
(* engine produces blocks of its own.  How a step moves the schedule is    *)
(* EpochSchedule's matter; when it may is decided here, by the counters    *)
(* and flags of the engine.                                                *)
(*                                                                         *)
(* A block is the sequence of the signers from the block the engine starts *)
(* on: its parent, its number and its signer are in its name.              *)
(***************************************************************************)
EXTENDS Epoch

CONSTANTS
  VotingSlots, Seeds, Lists, MaxEpoch, MaxIdx,   \* see EpochSchedule
  Me,              \* local_id
  Blocks,          \* bound: the blocks that may be made
  InvalidBlocks,   \* those that the validator finds invalid
  ClocksAgree,     \* whether no block seems to come from the future
  PromptBlocks,    \* whether blocks are handled before a later EMPTY_SLOT
  PromptResults,   \* whether no block is under way when a late result comes
  PeersAnswer      \* whether peers answer a BOOTSTRAP_REQUEST

Root == <<>>

Parent(b) == SubSeq(b, 1, Len(b) - 1)

Signer(b) == b[Len(b)]

ASSUME EngineAssumption ==
  /\ Lists \subseteq Rankings
  /\ VotingSlots \in Nat /\ MaxEpoch \in Nat /\ MaxIdx \in Nat
  /\ Me \in Members
  /\ Blocks \subseteq Seq(Members) /\ Root \in Blocks
  /\ IsFiniteSet(Blocks)
  /\ \A b \in Blocks : \A k \in 0..Len(b) : SubSeq(b, 1, k) \in Blocks
  /\ Blocks \subseteq Seeds
  /\ InvalidBlocks \subseteq Blocks \ {Root}
  /\ ClocksAgree \in BOOLEAN /\ PromptBlocks \in BOOLEAN
  /\ PromptResults \in BOOLEAN /\ PeersAnswer \in BOOLEAN

VARIABLES
  epoch, state, elected, voted, served, skewed,   \* see EpochSchedule
  head,         \* pre_committed_block
  delivered,    \* the blocks that BLOCK_NEW has announced
  cache,        \* block_cache (ten blocks, more than the bound lets be made)
  checking,     \* [block]: how many answers to check_blocks are due
  committing,   \* the requests to commit that are not answered, in order
  failed,       \* the blocks that the engine has failed or seen invalid
  waitingForValidation,
  waitingForCommit,
  waitingForOwn,   \* _waiting_for_own_block
  building,     \* whether the validator builds a block on head
  mine,         \* the blocks that the engine has finalized
  asked,        \* whether answers to a BOOTSTRAP_REQUEST may arrive
  target,       \* fastforward_target_id
  uncounted     \* history: the commits that were answered but never counted

scheduleVars == <<epoch, state, elected, voted, served, skewed>>
blockVars == <<delivered, cache>>
counters == <<checking, committing, waitingForValidation, waitingForCommit, uncounted>>
ownVars == <<waitingForOwn, building, mine>>
catchUpVars == <<asked, target>>
vars == <<scheduleVars, head, blockVars, counters, failed, ownVars, catchUpVars>>

Schedule == INSTANCE EpochSchedule

---------------------------------------------------------------------------
(* Blocks and the cache *)

OnPath(a, b) == Len(a) <= Len(b) /\ SubSeq(b, 1, Len(a)) = a

\* The ancestors of b that are longer than n, and b.
PathFrom(n, b) == { SubSeq(b, 1, k) : k \in n + 1 .. Len(b) }

\* traversable: the walk from one block reaches the other, which need not be
\* in the cache.
Traversable(blocks, from, to) ==
  OnPath(to, from) /\ PathFrom(Len(to), from) \subseteq blocks

\* longest_chain
CachedChain(from) ==
  { SubSeq(from, 1, k) : k \in { j \in 0..Len(from) : PathFrom(j - 1, from) \subseteq cache } }

Expected == CurrentWitness(epoch)

\* Mutant: a block in commit is not waited for.
Waiting_NotForCommit == waitingForOwn \/ waitingForValidation > 0

\* waiting
Waiting == waitingForOwn \/ waitingForValidation > 0 \/ waitingForCommit > 0

\* The validator answers for a block once its parent has been answered for, and
\* finds it invalid if an ancestor is.
IsBad(b) == \E a \in PathFrom(0, b) : a \in InvalidBlocks \cup failed

Answerable(b) == checking[b] > 0 /\ (b # Root => checking[Parent(b)] = 0)

---------------------------------------------------------------------------

TypeOK ==
  /\ head \in Blocks
  /\ delivered \subseteq Blocks
  /\ cache \subseteq delivered
  /\ checking \in [Blocks -> Nat]
  /\ committing \in Seq([block : Blocks, counted : BOOLEAN, number : Nat, idx : Nat])
  /\ failed \subseteq Blocks
  /\ waitingForValidation \in Nat
  /\ waitingForCommit \in Int
  /\ waitingForOwn \in BOOLEAN
  /\ building \in BOOLEAN
  /\ mine \subseteq Blocks
  /\ asked \in BOOLEAN
  /\ target \in Blocks
  /\ uncounted \in Nat

\* start: a new network, or a process that is started again on a chain.
Init ==
  /\ Schedule!Init
  /\ head = Root
  /\ delivered = {Root}
  /\ cache = {Root}
  /\ checking = [b \in Blocks |-> 0]
  /\ committing = <<>>
  /\ failed = {}
  /\ waitingForValidation = 0
  /\ waitingForCommit = 0
  /\ waitingForOwn = FALSE
  /\ building = FALSE
  /\ mine = {}
  /\ asked = (state = "WAITING_FOR_BOOTSTRAP")
  /\ target = Root
  /\ uncounted = 0

---------------------------------------------------------------------------
(* Calls to the validator *)

\* Mutant: the requests are not counted.
Check_Uncounted(times) ==
  /\ checking' = [b \in Blocks |-> checking[b] + times[b]]
  /\ UNCHANGED waitingForValidation

\* The requests for every block, numbered.
Requests(times) == UNION { {b} \X (1..times[b]) : b \in Blocks }

\* check_blocks, each with so many requests.
Check(times) ==
  /\ checking' = [b \in Blocks |-> checking[b] + times[b]]
  /\ waitingForValidation' =
       waitingForValidation + Cardinality(Requests(times))

Once(blocks) == [b \in Blocks |-> IF b \in blocks THEN 1 ELSE 0]

\* Mutant: an answer leaves the counter as it is.
Answer_Uncounted(b) ==
  /\ checking' = [checking EXCEPT ![b] = @ - 1]
  /\ UNCHANGED waitingForValidation

\* The answer to one request.
Answer(b) ==
  /\ checking' = [checking EXCEPT ![b] = @ - 1]
  /\ waitingForValidation' = waitingForValidation - 1

Commit(b, counted) ==
  committing' = Append(committing, [block |-> b, counted |-> counted,
                                    number |-> epoch.number, idx |-> epoch.idx])

\* The end of _next_slot: cancel_block, then initialize_block when the slot is
\* the engine's own.
StartSlot == building' = (CurrentWitness(epoch') = Me)

---------------------------------------------------------------------------
(* Blocks *)

\* _handle_new_block.  A block that extends the head is checked, and so is one
\* that descends from the target of a catch-up; both may be true of a block.
NewBlock(b) ==
  /\ b \notin delivered
  /\ Parent(b) \in delivered
  /\ Signer(b) # Me \/ b \in mine
  /\ delivered' = delivered \cup {b}
  /\ cache' = cache \cup {b}
  /\ LET extends == Parent(b) = head /\ Signer(b) = Expected
         descends == state = "CATCHING_UP" /\ Traversable(cache', b, target)
     IN  /\ Check([c \in Blocks |->
              IF c # b THEN 0
              ELSE (IF extends THEN 1 ELSE 0) + (IF descends THEN 1 ELSE 0)])
         /\ waitingForOwn' = (waitingForOwn /\ ~(extends /\ Signer(b) = Me))
         /\ asked' = (asked \/ /\ state # "WAITING_FOR_BOOTSTRAP"
                               /\ ~descends
                               /\ Len(b) > Len(head) + 1
                               /\ ~Waiting)
  /\ UNCHANGED <<scheduleVars, head, committing, waitingForCommit, uncounted,
                 failed, building, mine, target>>

\* _handle_new_block on a block from the future, by this node's clock.
RefuseBlock(b) ==
  /\ ~ClocksAgree
  /\ b \notin delivered
  /\ Parent(b) \in delivered
  /\ Signer(b) # Me
  /\ delivered' = delivered \cup {b}
  /\ failed' = failed \cup {b}
  /\ UNCHANGED <<scheduleVars, head, cache, counters, ownVars, catchUpVars>>

\* _handle_valid_block
ValidBlock(b) ==
  /\ Answerable(b) /\ ~IsBad(b)
  /\ Answer(b)
  /\ LET extends == Parent(b) = head IN
     IF extends /\ state = "CATCHING_UP"
     THEN Commit(b, FALSE) /\ UNCHANGED <<waitingForCommit, failed>>
     ELSE IF extends /\ Signer(b) = Expected
     THEN Commit(b, TRUE) /\ waitingForCommit' = waitingForCommit + 1 /\ UNCHANGED failed
     ELSE failed' = failed \cup {b} /\ UNCHANGED <<committing, waitingForCommit>>
  /\ UNCHANGED <<scheduleVars, head, blockVars, uncounted, ownVars, catchUpVars>>

\* _handle_invalid_block.  It counts down last, and so not at all if _next_slot
\* raises; what makes it raise, a removal of old epochs, is in Retention.
InvalidBlock(b) ==
  /\ Answerable(b) /\ IsBad(b)
  /\ Answer(b)
  /\ failed' = failed \cup {b}
  /\ Schedule!RejectBlock(Signer(b), head)
  /\ StartSlot
  /\ UNCHANGED <<head, blockVars, committing, waitingForCommit, uncounted,
                 waitingForOwn, mine, catchUpVars>>

\* Mutant: looks for the number of b itself.
NextCached_SameNumber(b) ==
  { n \in cache : Len(n) = Len(b) /\ n # Root /\ Signer(n) = CurrentWitness(epoch') }

\* The block after b that may be waiting in the cache: its number and signer are
\* compared, its parent is not.
NextCached(b) ==
  { n \in cache : Len(n) = Len(b) + 1 /\ Signer(n) = CurrentWitness(epoch') }

\* _handle_committed_block.  The payload of the target tells number, index and
\* candidates of the slot it was made for.
CommittedBlock ==
  /\ committing # <<>>
  /\ LET c == committing[1]
         b == c.block
     IN  /\ head' = b
         /\ waitingForCommit' = waitingForCommit - 1
         /\ uncounted' = IF c.counted THEN uncounted ELSE uncounted + 1
         /\ IF state = "CATCHING_UP" /\ Len(b) = Len(target)
            THEN \E number \in Schedule!Epochs, idx \in 0..MaxIdx, list \in Lists :
                   Schedule!FinishCatchUp(number, idx, list, b)
            ELSE Schedule!EndSlot(b)
         /\ IF NextCached(b) = {}
            THEN Check(Once({}))
            ELSE \E n \in NextCached(b) : Check(Once({n}))
  /\ committing' = Tail(committing)
  /\ StartSlot
  /\ UNCHANGED <<blockVars, failed, waitingForOwn, mine, catchUpVars>>

---------------------------------------------------------------------------
(* Slots *)

\* The main loop produces and times out slots in these states, with no block in
\* validation.
MayAct == state \in {"PRODUCTION", "ELECTION"} /\ waitingForValidation = 0 /\ ~Waiting

\* summarize_block and finalize_block succeed.
FinalizeBlock ==
  /\ MayAct
  /\ Expected = Me
  /\ building
  /\ LET b == Append(head, Me) IN
       /\ b \in Blocks \ mine
       /\ mine' = mine \cup {b}
  /\ waitingForOwn' = TRUE
  /\ building' = FALSE
  /\ UNCHANGED <<scheduleVars, head, blockVars, counters, failed, catchUpVars>>

\* summarize_block fails: nothing to put into a block, or none is being built.
DeclareEmpty ==
  /\ MayAct
  /\ Expected = Me
  /\ Schedule!EndSlot(head)
  /\ StartSlot
  /\ UNCHANGED <<head, blockVars, counters, failed, waitingForOwn, mine, catchUpVars>>

\* An EMPTY_SLOT message of the expected signer: it does not say of which slot.
EmptySlot(s) ==
  /\ s # Me /\ s = Expected
  /\ PromptBlocks =>
       /\ \A b \in Blocks \ {Root} : Signer(b) = s => checking[b] = 0
       /\ \A i \in DOMAIN committing : Signer(committing[i].block) # s
  /\ Schedule!EndSlot(head)
  /\ StartSlot
  /\ UNCHANGED <<head, blockVars, counters, failed, waitingForOwn, mine, catchUpVars>>

\* The slot has lasted too long: handle_missed_slot.
MissSlot ==
  /\ MayAct
  /\ Schedule!MissSlot(head)
  /\ StartSlot
  /\ UNCHANGED <<head, blockVars, counters, failed, waitingForOwn, mine, catchUpVars>>

---------------------------------------------------------------------------
(* Elections and catching up *)

CastVote ==
  /\ Schedule!Vote
  /\ UNCHANGED <<head, blockVars, counters, failed, ownVars, catchUpVars>>

\* handle_vote_result
AcceptResult(list) ==
  /\ PromptResults /\ IsOver(epoch) =>
       ~waitingForOwn /\ committing = <<>> /\ \A b \in Blocks : checking[b] = 0
  /\ Schedule!AcceptResult(list)
  /\ UNCHANGED <<head, blockVars, counters, failed, ownVars, catchUpVars>>

\* common_and_forked_block: the lengths at which the own chain has a block of the
\* chain of t.
Common(t) == { k \in 0..Len(head) - 1 : SubSeq(head, 1, k) \in CachedChain(t) }

\* fastforward to a block that enough peers have named.  A block that is not in
\* block_cache is looked for among the values of _bootstrap_cache, where an id is
\* never found.
FastForward(t) ==
  /\ PeersAnswer /\ asked
  /\ t # head
  /\ Schedule!BeginCatchUp
  /\ target' = t
  /\ IF t \in cache /\ Traversable(cache, t, head)
     THEN Check(Once(PathFrom(Len(head), t))) /\ UNCHANGED failed
     ELSE IF t \in cache /\ Common(t) # {}
     THEN \E k \in Common(t) :
          /\ \A j \in Common(t) : j <= k
          /\ failed' = failed \cup {SubSeq(head, 1, k + 1)}
          /\ Check(Once(PathFrom(k, t)))
     ELSE Check(Once({})) /\ UNCHANGED failed
  /\ UNCHANGED <<head, blockVars, committing, waitingForCommit, uncounted, ownVars, asked>>

---------------------------------------------------------------------------

Next ==
  \/ \E b \in Blocks \ {Root} : NewBlock(b) \/ RefuseBlock(b)
  \/ \E b \in Blocks \ {Root} : ValidBlock(b) \/ InvalidBlock(b)
  \/ CommittedBlock
  \/ FinalizeBlock \/ DeclareEmpty \/ MissSlot
  \/ \E s \in Members : EmptySlot(s)
  \/ CastVote
  \/ \E list \in Lists : AcceptResult(list)
  \/ \E t \in Blocks : FastForward(t)

Spec == Init /\ [][Next]_vars

\* The validator answers and announces the own blocks, and the main loop runs
\* until the slot is over or has lasted too long.
Fairness ==
  /\ \A b \in Blocks \ {Root} :
       /\ WF_vars(ValidBlock(b) \/ InvalidBlock(b))
       /\ WF_vars(NewBlock(b))
  /\ WF_vars(CommittedBlock)
  /\ WF_vars(FinalizeBlock \/ DeclareEmpty \/ MissSlot)

FairSpec == Spec /\ Fairness

---------------------------------------------------------------------------
(* Properties *)

\* The counters say what is under way: each answer that is due was counted once
\* and is uncounted once, on every path that a handler takes to its end, but for
\* the commits of a catch-up, which are uncounted only.
CountersExact ==
  /\ waitingForValidation = Cardinality(Requests(checking))
  /\ waitingForCommit =
       Cardinality({ i \in DOMAIN committing : committing[i].counted }) - uncounted

\* No member signs two blocks of the same number.
OneBlockPerNumber ==
  \A a, b \in Blocks \ {Root} : Len(a) = Len(b) /\ Signer(a) = Signer(b) => a = b

\* While a block is in commit the slot it was made for stays: it is not timed
\* out, declared empty or passed by another block, so its commit ends that slot.
\* It needs members that sign one block of a number: NextCached may also send the
\* validator a block of another parent, and its refusal passes the slot.
SlotHeldByCommit ==
  OneBlockPerNumber =>
    \A i \in DOMAIN committing :
      LET c == committing[i] IN
      c.number = epoch.number =>
        c.idx = epoch.idx /\ Signer(c.block) = Expected /\ Parent(c.block) = head

\* The chain of the engine only grows: a block is never committed beside the head.
\* (A slot passed under a block in commit could bring a second one.)
HeadOnlyGrows ==
  [][OneBlockPerNumber /\ head' # head => Parent(head') = head]_vars

\* A block once committed is never failed (_handle_valid_block fails a block
\* that is answered for a second time).
CommittedNotFailed == \A b \in PathFrom(0, head) : b \notin failed

\* Every slot of a running epoch passes: neither counter nor flag is left
\* standing on any path, to keep the main loop from acting for ever.
EverySlotPasses ==
  \A k \in 0..MaxIdx :
    (epoch.idx = k /\ state \in {"PRODUCTION", "ELECTION"} /\ ~IsOver(epoch))
      ~> (epoch.idx # k \/ IsOver(epoch))

=============================================================================
