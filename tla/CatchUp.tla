------------------------------ MODULE CatchUp ------------------------------
(***************************************************************************)
(* How a node that runs falls behind and catches up (ddpoa_engine.py): a   *)
(* block that does not follow its head makes it ask its peers, their       *)
(* answers are counted, and the block named most is what it fast-forwards  *)
(* to, as far as the block cache, which holds a few blocks only, has the   *)
(* blocks on the way.                                                      *)
(*                                                                         *)
(* All blocks are on one chain and valid, and a block is its number: forks *)
(* and invalid blocks are in Engine, as is the schedule, of which only     *)
(* matters here whether a block is of the signer that the node expects.    *)
(***************************************************************************)
EXTENDS Integers, Sequences, FiniteSets, Functions

CONSTANTS
  Peers,         \* the other members, all connected
  NumSlots,      \* sawtooth.consensus.ddpoa.slots
  Capacity,      \* blocks in the cache (10 in the code)
  MaxNum,        \* bound: the last block
  MaxRequests,   \* bound: so many requests are sent
  MaxRepeats     \* bound: so many blocks are announced a second time

Blocks == 0..MaxNum

ASSUME CatchUpAssumption ==
  /\ IsFiniteSet(Peers) /\ Peers # {}
  /\ NumSlots \in Nat \ {0}
  /\ Capacity \in Nat \ {0}
  /\ MaxNum \in Nat /\ MaxRequests \in Nat /\ MaxRepeats \in Nat

VARIABLES
  made,             \* the last block of the chain
  peerHead,         \* [p]: the last block that p has committed
  announced,        \* the last block that the validator has announced
  head,             \* pre_committed_block
  ids,              \* block_cache._cache_ids
  cached,           \* the keys of block_cache._cache
  checking,         \* [block]: how many answers to check_blocks are due
  committing,       \* the requests to commit that are not answered, in order
  failed,           \* the blocks given to fail_block
  waitingForCommit, \* _waiting_for_commit
  catchingUp,       \* state = CATCHING_UP
  target,           \* fastforward_target
  requested,        \* _has_requested_bootstrap
  messages,         \* bootstrap_messages_received: the heads named
  requests,         \* [p]: the requests on their way to p
  answers,          \* [p]: the answers on their way from p
  sent,             \* how many requests have been sent
  repeated,         \* history: the blocks that were announced twice
  dropped           \* history: the blocks whose handling raised

chain == <<made, peerHead, announced>>
blockCache == <<ids, cached>>
pipeline == <<checking, committing, failed, waitingForCommit>>
goalVars == <<catchingUp, target>>
asking == <<requested, requests, sent>>
history == <<repeated, dropped>>
vars == <<chain, head, blockCache, pipeline, goalVars, asking, messages, answers, history>>

---------------------------------------------------------------------------
(* The block cache *)

\* Mutant: one block more.
IsFull_OneMore(list) == Len(list) > Capacity + 1

IsFull(list) == Len(list) > Capacity

\* Mutant: takes ids off the list only.
AppendBlock_KeepsBlocks(n) ==
  LET list == Append(ids, n) IN
  /\ ids' = IF IsFull(list) THEN Tail(list) ELSE list
  /\ cached' = cached \cup {n}

\* append: the oldest id is taken off the list, then its block off the cache,
\* which raises KeyError if an older copy of the id took it along.
AppendBlock(n) ==
  LET list == Append(ids, n) IN
  IF IsFull(list)
  THEN /\ ids' = Tail(list)
       /\ cached' = (cached \cup {n}) \ {Head(list)}
  ELSE /\ ids' = list
       /\ cached' = cached \cup {n}

AppendRaises(n) ==
  LET list == Append(ids, n) IN IsFull(list) /\ Head(list) \notin cached \cup {n}

\* traversable
Traversable(blocks, from, to) == from >= to /\ to + 1 .. from \subseteq blocks

\* longest_chain
CachedChain(from) == { k \in 0..from : k .. from \subseteq cached }

\* common_and_forked_block: the blocks below the head on the chain of t.
Common(t) == { k \in CachedChain(t) : k < head }

---------------------------------------------------------------------------
(* Counting answers *)

Online == Cardinality(Peers) + 1

\* consensus_amount
ConsensusAmount ==
  LET twoThirds == 1 + ((2 * Online) \div 3) IN
  IF twoThirds > NumSlots THEN twoThirds ELSE NumSlots

\* Mutant: the block before is taken for the next one.
Names_Next(h, b) == b = h \/ b = h + 1

\* A BOOTSTRAP message names the head of its sender and the block before.
Names(h, b) == b = h \/ b = h - 1

Count(msgs, b) == Cardinality({ i \in DOMAIN msgs : Names(msgs[i], b) })

\* b is the block named most, the highest one of several.
NamedMost(msgs, b) ==
  \A c \in -1..MaxNum \ {b} :
    \/ Count(msgs, c) < Count(msgs, b)
    \/ Count(msgs, c) = Count(msgs, b) /\ c < b

---------------------------------------------------------------------------

TypeOK ==
  /\ made \in Blocks
  /\ peerHead \in [Peers -> Blocks]
  /\ announced \in Blocks
  /\ head \in Blocks
  /\ ids \in Seq(Blocks) /\ Len(ids) <= Capacity
  /\ cached \subseteq Blocks
  /\ checking \in [Blocks -> Nat]
  /\ committing \in Seq(Blocks)
  /\ failed \subseteq Blocks
  /\ waitingForCommit \in Int
  /\ catchingUp \in BOOLEAN
  /\ target \in Blocks
  /\ requested \in BOOLEAN
  /\ messages \in Seq(Blocks) /\ Len(messages) < Online - 1
  /\ requests \in [Peers -> 0..MaxRequests]
  /\ answers \in [Peers -> Seq(Blocks)]
  /\ sent \in 0..MaxRequests
  /\ repeated \subseteq Blocks
  /\ dropped \subseteq Blocks

Init ==
  /\ made = 0
  /\ peerHead = [p \in Peers |-> 0]
  /\ announced = 0
  /\ head = 0
  /\ ids = <<0>>
  /\ cached = {0}
  /\ checking = [b \in Blocks |-> 0]
  /\ committing = <<>>
  /\ failed = {}
  /\ waitingForCommit = 0
  /\ catchingUp = FALSE
  /\ target = 0
  /\ requested = FALSE
  /\ messages = <<>>
  /\ requests = [p \in Peers |-> 0]
  /\ answers = [p \in Peers |-> <<>>]
  /\ sent = 0
  /\ repeated = {}
  /\ dropped = {}

---------------------------------------------------------------------------
(* The rest of the network *)

MakeBlock ==
  /\ made < MaxNum
  /\ made' = made + 1
  /\ UNCHANGED <<peerHead, announced, head, blockCache, pipeline, goalVars, asking,
                 messages, answers, history>>

PeerCommits(p) ==
  /\ peerHead[p] < made
  /\ peerHead' = [peerHead EXCEPT ![p] = @ + 1]
  /\ UNCHANGED <<made, announced, head, blockCache, pipeline, goalVars, asking,
                 messages, answers, history>>

\* A peer handles a BOOTSTRAP_REQUEST.
PeerAnswers(p) ==
  /\ requests[p] > 0
  /\ requests' = [requests EXCEPT ![p] = @ - 1]
  /\ answers' = [answers EXCEPT ![p] = Append(@, peerHead[p])]
  /\ UNCHANGED <<chain, head, blockCache, pipeline, goalVars, requested, sent,
                 messages, history>>

---------------------------------------------------------------------------
(* Blocks *)

Check(blocks) ==
  checking' = [b \in Blocks |-> checking[b] + IF b \in blocks THEN 1 ELSE 0]

Waiting == waitingForCommit > 0 \/ \E b \in Blocks : checking[b] > 0

\* broadcast_bootstrap_request, which may not get through to all peers.
Ask ==
  /\ requested' = TRUE
  /\ sent' = sent + 1
  /\ \E reached \in SUBSET Peers :
       requests' = [p \in Peers |-> requests[p] + IF p \in reached THEN 1 ELSE 0]

\* _handle_new_block.  A second request is sent when six seconds have passed.
NewBlock(n, expected) ==
  /\ n <= made
  /\ \/ n = announced + 1 /\ UNCHANGED repeated
     \/ /\ n \in 1..announced
        /\ Cardinality(repeated) < MaxRepeats
        /\ repeated' = repeated \cup {n}
  /\ announced' = IF n > announced THEN n ELSE announced
  /\ AppendBlock(n)
  /\ IF AppendRaises(n)
     THEN dropped' = dropped \cup {n} /\ UNCHANGED <<checking, asking>>
     ELSE LET extends == n = head + 1 /\ expected
              descends == catchingUp /\ Traversable(cached', n, target)
          IN  /\ checking' = [checking EXCEPT ![n] =
                   @ + (IF extends THEN 1 ELSE 0) + (IF descends THEN 1 ELSE 0)]
              /\ IF ~descends /\ n > head + 1 /\ ~Waiting /\ sent < MaxRequests
                 THEN Ask \/ (requested /\ UNCHANGED asking)
                 ELSE UNCHANGED asking
              /\ UNCHANGED dropped
  /\ UNCHANGED <<made, peerHead, head, committing, failed, waitingForCommit, goalVars,
                 messages, answers>>

\* The validator answers for a block after it has answered for the one before,
\* whether or not that one is committed by then.
Answerable(n) ==
  /\ checking[n] > 0
  /\ \A b \in 0 .. n - 1 : checking[b] = 0

Answer(n) == checking' = [checking EXCEPT ![n] = @ - 1]

\* A block that was failed, and what follows it, is invalid from then on.
IsBad(n) == \E b \in failed : b <= n

\* Mutant: in a catch-up too, only blocks of the expected signer are committed.
ValidBlock_Expected(n, expected) ==
  /\ Answerable(n) /\ ~IsBad(n)
  /\ Answer(n)
  /\ IF n = head + 1 /\ expected
     THEN /\ committing' = Append(committing, n)
          /\ waitingForCommit' = IF catchingUp THEN waitingForCommit ELSE waitingForCommit + 1
          /\ UNCHANGED failed
     ELSE /\ failed' = failed \cup {n}
          /\ UNCHANGED <<committing, waitingForCommit>>
  /\ UNCHANGED <<chain, head, blockCache, goalVars, asking, messages, answers, history>>

\* _handle_valid_block
ValidBlock(n, expected) ==
  /\ Answerable(n) /\ ~IsBad(n)
  /\ Answer(n)
  /\ IF n = head + 1 /\ (catchingUp \/ expected)
     THEN /\ committing' = Append(committing, n)
          /\ waitingForCommit' = IF catchingUp THEN waitingForCommit ELSE waitingForCommit + 1
          /\ UNCHANGED failed
     ELSE /\ failed' = failed \cup {n}
          /\ UNCHANGED <<committing, waitingForCommit>>
  /\ UNCHANGED <<chain, head, blockCache, goalVars, asking, messages, answers, history>>

\* _handle_invalid_block, without its slot
InvalidBlock(n) ==
  /\ Answerable(n) /\ IsBad(n)
  /\ Answer(n)
  /\ UNCHANGED <<chain, head, blockCache, committing, failed, waitingForCommit,
                 goalVars, asking, messages, answers, history>>

\* _handle_committed_block
CommittedBlock(expected) ==
  /\ committing # <<>>
  /\ LET n == committing[1] IN
       /\ head' = n
       /\ IF catchingUp /\ n = target
          THEN catchingUp' = FALSE /\ requested' = FALSE /\ messages' = <<>>
          ELSE UNCHANGED <<catchingUp, requested, messages>>
       /\ Check({n + 1} \cap cached \cap IF expected THEN Blocks ELSE {})
  /\ committing' = Tail(committing)
  /\ waitingForCommit' = waitingForCommit - 1
  /\ UNCHANGED <<chain, blockCache, failed, target, requests, sent, answers, history>>

---------------------------------------------------------------------------
(* Catching up *)

\* Mutant: begins anew from a catch-up that is under way.
Begin_Again(t) ==
  /\ catchingUp' = TRUE
  /\ target' = t
  /\ Check(IF t \in cached /\ Traversable(cached, t, head) THEN head + 1 .. t ELSE {})
  /\ UNCHANGED failed

\* The part of fastforward that is run once: the way to the target, or else to the
\* block where the own chain seems to have forked off, is checked; a target that
\* is not in the cache is not looked for where it might be.
Begin(t) ==
  IF catchingUp
  THEN UNCHANGED <<catchingUp, target, checking, failed>>
  ELSE /\ catchingUp' = TRUE
       /\ target' = t
       /\ IF t \in cached /\ Traversable(cached, t, head)
          THEN Check(head + 1 .. t) /\ UNCHANGED failed
          ELSE IF t \in cached /\ Common(t) # {}
          THEN \E k \in Common(t) :
               /\ \A j \in Common(t) : j <= k
               /\ failed' = failed \cup {k + 1}
               /\ Check(k + 1 .. t)
          ELSE Check({}) /\ UNCHANGED failed

\* A BOOTSTRAP message: each one counts, also a second one of the same peer.
HandleBootstrap(p) ==
  /\ answers[p] # <<>>
  /\ answers' = [answers EXCEPT ![p] = Tail(@)]
  /\ LET msgs == Append(messages, Head(answers[p])) IN
     \E most \in -1..MaxNum :
       LET enough == Count(msgs, most) >= ConsensusAmount - 1
           arrived == enough /\ most = head
           all == ~arrived /\ Len(msgs) = Online - 1
       IN  /\ NamedMost(msgs, most)
           /\ IF enough /\ ~arrived
              THEN Begin(most)
              ELSE UNCHANGED <<catchingUp, target, checking, failed>>
           /\ messages' = IF arrived \/ all THEN <<>> ELSE msgs
           /\ requested' = (requested /\ ~arrived /\ ~all)
  /\ UNCHANGED <<chain, head, blockCache, committing, waitingForCommit, requests, sent,
                 history>>

---------------------------------------------------------------------------

Next ==
  \/ MakeBlock
  \/ \E p \in Peers : PeerCommits(p) \/ PeerAnswers(p) \/ HandleBootstrap(p)
  \/ \E n \in Blocks, expected \in BOOLEAN : NewBlock(n, expected) \/ ValidBlock(n, expected)
  \/ \E n \in Blocks : InvalidBlock(n)
  \/ \E expected \in BOOLEAN : CommittedBlock(expected)

Spec == Init /\ [][Next]_vars

\* The validator answers.
Fairness ==
  /\ \A n \in Blocks :
       WF_vars((\E expected \in BOOLEAN : ValidBlock(n, expected)) \/ InvalidBlock(n))
  /\ WF_vars(\E expected \in BOOLEAN : CommittedBlock(expected))

FairSpec == Spec /\ Fairness

---------------------------------------------------------------------------
(* Properties *)

\* A catch-up does what Following says: its target is a block that a peer has
\* committed, and it is left only by committing it, with no block left out.
Follows ==
  INSTANCE Following WITH
    goal <- IF catchingUp THEN target ELSE -1,
    confirmed <- {0} \cup { n \in Blocks : \E p \in Peers : n <= peerHead[p] }

ImplementsFollowing == Follows!Spec

\* The block cache has the latest blocks, and eviction raises, which leaves the
\* block just announced unhandled, only after a block was announced twice.
CacheHasLatest ==
  /\ cached \subseteq Range(ids)
  /\ Range(ids) \ cached \subseteq repeated
  /\ dropped # {} => repeated # {}

\* The target is a block that so many of the members online have committed as the
\* docstring of consensus_amount asks for, the node itself taken as one of them.
TargetIsAgreed ==
  catchingUp => Cardinality({ p \in Peers : peerHead[p] >= target }) + 1 >= ConsensusAmount

\* As long as one request was sent, and so no peer has been counted twice, a node
\* catches up only to what that many have.
OneRequestAgrees == sent <= 1 => TargetIsAgreed

\* The next block of a catch-up, once it is being checked, is committed, whoever
\* signed it and whatever else is being checked or committed; unless the node has
\* failed a block below it, which it does with a block that was being checked twice
\* and is committed by the time of the second answer (_handle_valid_block).
CatchUpAdvances ==
  \A n \in Blocks :
    (catchingUp /\ n = head + 1 /\ n <= target /\ checking[n] > 0 /\ ~IsBad(n))
      ~> (head >= n \/ \E b \in failed : b < n)

=============================================================================
