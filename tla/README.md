# A formal model of DDPoA

TLA+ modules, TLC configurations and TLAPS proofs for the Delegated Proof of
Authority with Downgrade engine in `src/consensus/pkg/engine/`.

Contents: 1 the system, 2 the modules, 3 the runs, 4 bounds and fairness,
5 the proofs, 6 where code and documentation disagree, 7 what is not modelled
and the plan.

## 1. The system

Every node runs one engine beside a Sawtooth validator. The members of the
network and the number of *slots* are on-chain settings. The members elect,
epoch by epoch, a *candidate list*; its first `slots` members are the witnesses,
which own the slots of the epoch in turn, for `ROUNDS_PER_EPOCH` rounds; the
others wait in a queue to replace a witness that is downgraded.

| Component | State | Operations | Interacts with |
|---|---|---|---|
| `Epoch` (`epoch.py`) | number, witness index, witness list, candidate queue | set the lists, next slot, reorder, downgrade | called by `DDPoANode` |
| `DDPoANode` (`ddpoa_node.py`) | epoch, `State`, `ready_result`, broadcast timer, peer scores | vote, rebroadcast, handle a ballot or a result, begin and end an epoch, bootstrap | the engine's main loop calls it; a timer thread runs `broadcast_result` |
| `VotingSystem` (`voting_system.py`) | ballots, results, accepted lists, by epoch | store, tally, count, forget | `DDPoANode`; the STV library `stvpoll` |
| `Communicator`, `Peer`, `ConsensusNode` (`consensus_messaging.py`, `consensus_node.py`) | connected flag per peer, inbox queue, last time seen | connect, ping, send, broadcast, check on peers | gRPC threads put messages into the queue, the main loop takes them out |
| `DDPoAEngine` (`ddpoa_engine.py`) | last committed block, slot start, counters of blocks in validation and commit, catch-up target | handlers of validator notifications and peer messages, the main loop | the validator, `DDPoANode`, `BlockCache` |
| Bootstrap and catch-up (`ddpoa_engine.py`) | bootstrap messages, cached blocks, target | request, answer, choose a target, fast-forward, resolve a fork | peers, the validator |
| `BlockCache` (`ddpoa_engine.py`) | the ten latest blocks | append with eviction, look-ups, walks to an ancestor | the engine |
| `main.py`, `pkg/config` | – | arguments, paths, logging | starts the engine |
| `testing/`, `scripts/`, `grafana/` | – | compose files, workload, metrics, an integration test | outside the program |

What is hard about it:

* *Ordering.* A result may be accepted before or after the last slot of the
  epoch, a ballot before or after the node's own, an empty-slot message before
  or after the commit it depends on.
* *Partial views.* A quorum is two thirds of the peers a node is connected to
  at that moment, so nodes with different connections count differently, and
  the first epoch starts on an exact equality with that number.
* *Concurrency.* A node has one main thread, one timer thread and the gRPC
  threads; the timer thread shares the ballots with the main thread.
* *A list that changes under a running index.* Downgrades and reorderings
  change the witness list while `current_witness_idx` walks over it.
* *Loss and restart.* Sends to a broken peer are forgotten; a node keeps
  nothing on disk and is told the schedule by a block when it comes back.
* *No common clock of slots.* Each node moves its schedule by what it sees, a
  block, an `EMPTY_SLOT` message or a timeout, which reach it by different ways;
  the copies are never compared.
* *Several dictionaries in step.* Ballots, results and accepted lists are
  deleted together, and so are the ids and the blocks of the cache.

What makes each part correct: every member is in exactly one place of the
schedule; a round is fair; epochs follow one another whole, and start when both
their conditions hold, whichever comes last; an accepted list has a quorum
behind it and, as far as the code achieves it, is the same everywhere; the
election ends; the engine's counters return to zero, so that it neither stops
producing nor commits beside the schedule.

## 2. The modules

| Module | What it is |
|---|---|
| `Epoch` | class `Epoch` as operators on a record: no behaviour of its own |
| `EpochSchedule` | one node's schedule and `State`, moved by the events of its engine |
| `MCEpochSchedule` | hash and candidate lists for TLC |
| `EpochProofs` | lemmas about `Epoch` |
| `EpochScheduleProofs` | the inductive invariant of `EpochSchedule` and its theorems |
| `Election` | the election of an epoch between all nodes |
| `MCElection` | the tally and the symmetry for TLC |
| `Engine` | one engine and its validator: blocks, counters, own blocks, catch-up; moves its schedule by the actions of `EpochSchedule` |
| `MCEngine` | block trees, hash and lists for TLC |
| `EngineProofs` | the inductive invariant of `Engine`, the counters, what the schedule's theorems say of it, and what holds of it in a network that keeps up |
| `Network` | the engines of all members through an epoch: who expects whom, forks, nodes that stop |
| `MCNetwork` | hash and lists for TLC |
| `SharedChain` | what the engines of a network promise, abstractly: one chain, block by block |
| `NetworkProofs` | the inductive invariant of `Network`, its safety properties, and that it implements `SharedChain` |
| `ElectionProofs` | the inductive invariant of `Election`: quorums and disagreement |
| `Retention`, `MCRetention` | the dictionaries of the voting system and the removal of old epochs |
| `RetentionProofs` | the inductive invariant of `Retention` |
| `Following` | what a catch-up promises, abstractly |
| `CatchUp`, `MCCatchUp` | falling behind, asking, counting answers, the block cache, fast-forward; implements `Following` |
| `CatchUpProofs` | the inductive invariant of `CatchUp`, and that it implements `Following` |
| `Connections`, `MCConnections` | the connections of one node: announcements, connect threads, pings, silence |
| `ConnectionsProofs` | the inductive invariant of `Connections` |

The parts meet like this. `Engine` is written with the actions of
`EpochSchedule`, so what is proved of a schedule holds of an engine's. `Network` takes the schedule of `Epoch` for every member
and lets the blocks and messages of one be the inputs of the others. What
`Engine` leaves open (`asked`: any block may be the target) is what `CatchUp`
works out, on one chain; what `Election` leaves open (a peer gets connected when
it can be reached) is what `Connections` works out, for one node. `Retention`
has the events of `Election` and `EpochSchedule` that touch the dictionaries.

### Epoch, EpochSchedule

The record `[number, idx, witnesses, candidates]` is the object `Epoch`; `idx`
is `current_witness_idx`. `IncrementWitness` returns the set of possible results:
the order of the hashes is what `Hash` says, and of equal hashes the witness that
stood first comes first, as Python's sort is stable. It is one at most
(`SortedOnce`, `IncrementOnce`), which is why nodes that agree before a round agree
after it.
A candidate list is a `Ranking`, every member once: `break_ties` fills the STV
result up to all members.

| Action | Code |
|---|---|
| `Vote` | `should_vote` and `vote`, called in the main loop outside `WAITING_FOR_BOOTSTRAP` and `CATCHING_UP` |
| `AcceptResult` | `handle_vote_result` when it triggers, with `initialize_epoch` |
| `EndSlot` | `_next_slot` after a commit or an `EMPTY_SLOT` message, with `finalize_epoch` and `initialize_epoch` |
| `MissSlot` | `handle_missed_slot`: downgrade, then next slot |
| `RejectBlock` | `_handle_invalid_block`: the same for the signer of the block |
| `BeginCatchUp`, `FinishCatchUp` | `fastforward`; `bootstrap` from the target's payload, then next slot |
| `Restart` | a new process on a chain that has blocks |

How a result comes about is left open here (any list, any time, also a second
one for the same epoch): `Election` says how. `served` and `skewed` are history,
read by no action: they say who owned a slot in this round.

### Election

All nodes together, with channels that are FIFO per sender and receiver (a send
waits for its call to return), a set of connected peers per node, and links that
break and mend. A node fills one ballot per epoch, so a ballot is its voter, and
`Tally` maps a set of voters to a list. The actions are `CastVote`,
`Rebroadcast`, `HandleVote`, the three steps of the timer thread (`TimerFires`
reads the ballots, `TimerStores` writes the own result, `TimerSends`
broadcasts), `HandleResult`, `NextSlot`, `StartUpEnds` and the four of the
links. `reported` is history: the voter sets a node has tallied.

`Mesh` and `Started` say how far connections and start-up are at the beginning.
`MustVoteFirst` is the one restriction of the interleaving: the main loop takes
one message per turn and then votes if it should, so a node that waits for the
first epoch never takes a second message with its own vote due. It is a little
stricter than the loop, which may take one: after the `continue` of
`ddpoa_engine.py:161`, or when a connection comes up between line 190 and the
next message.

### Engine

The engine of one node, `Me`, between its validator and its peers. A block is
the sequence of the signers since the block the engine started on, so its
parent, number and signer are in its name and `Blocks` is a tree. `epoch`,
`state`, `elected`, `voted`, `served` and `skewed` are those of `EpochSchedule`,
whose actions are used as they are; the module says when they happen.

| Variable | Code |
|---|---|
| `head` | `pre_committed_block` |
| `cache`, `delivered` | the block cache; the blocks announced so far |
| `waitingForValidation`, `waitingForCommit`, `waitingForOwn` | the counters and the flag of those names |
| `checking`, `committing` | what is really under way in the validator: answers due to `check_blocks`, and to `commit_block` in order |
| `failed` | blocks given to `fail_block`, refused or found invalid |
| `building`, `mine` | the block the validator builds; the ones finalized |
| `asked`, `target` | a `BOOTSTRAP_REQUEST` whose answers may still come; the target of the catch-up |
| `uncounted` | history: commits of a catch-up |

| Action | Code |
|---|---|
| `NewBlock`, `RefuseBlock` | `_handle_new_block`, and its early return on a time stamp ahead of the own clock |
| `ValidBlock`, `InvalidBlock`, `CommittedBlock` | the handlers of the validator's three answers |
| `FinalizeBlock`, `DeclareEmpty`, `MissSlot` | the main loop in `PRODUCTION` or `ELECTION` |
| `EmptySlot`, `AcceptResult`, `CastVote` | `_handle_peer_msgs` and the vote of the main loop |
| `FastForward` | `fastforward`, when enough peers have named a block |

The validator is the environment: it announces a block after its parent, answers
each request once and for a block after its parent, finds a block invalid with
all that follow it, and commits in the order of the requests. `asked` stands for
the counting of the `BOOTSTRAP` messages: once a request is out, any block may
turn out to be the one that enough peers name, more than once, which is more
than the code allows. The block cache holds ten blocks and the trees have fewer,
so nothing is evicted. Four constants say how well the environment behaves, so
that a run can show what a property rests on: `ClocksAgree` (no block is refused
for its time stamp), `PromptBlocks` (an `EMPTY_SLOT` message does not overtake
the sender's block), `PromptResults` (no result comes after the end of an epoch
with a block still under way), `PeersAnswer` (a request is answered).

### Network

Every member has `epoch`, `head`, `cache`, `checking` (blocks given to
`check_blocks`) and `waitingForOwn`; `onTheWay[n]` is the set of blocks and
`EMPTY_SLOT` messages that will reach `n`, in any order but for the messages of
one sender. A step of a node is `TimeOut`, `Produce`, `DeclareEmpty`, `Handle` (a
block or a message) or `BlockChecked` (the answer for a block, with its commit and
the look into the cache for the next one). `Crash` stops a node for good.

Two constants are about time, of which the model has none otherwise.
`PromptBlocks`: a block is handled before an `EMPTY_SLOT` message of a later
slot. `Punctual`: when a slot ends without a block, all running nodes are past
it before the next witness acts, which is at least `BLOCK_INTERVAL` (6 s) later,
and a slot is timed out (`SLOT_TIMEOUT`, 90 s) only when nothing of it is on its
way. With either of them false `Agreement` fails: see section 6.

`SharedChain` is the promise: one chain, of which every node has committed a
beginning, and commits the block that the chain has next, or, when it has all of
it, makes the chain longer. The refinement maps the chain to the longest of the
heads (`Longest`) and what a node has committed to its head, which in `Network` is
the whole sequence of blocks: a block beside the chain, however low, would be
neither step. So the chain never shrinks or changes, whoever stops. `KeepsItsPlace` is about `downgrade`: no node replaces a witness
that goes on, however late its block or its `EMPTY_SLOT` is seen.

Left out: the request to catch up that a block too far ahead also sends
(`CatchUp`), the commit apart from the check and invalid blocks (`Engine`), a
message lost because its sender stops in the middle of a broadcast.

### Retention

A dictionary is the set of its epochs. `HandleVote` and `HandleResult` abstract
from who sends what to what they add; `TimerFires` may store a result of an epoch
long over. `RemoveOldEpochData` goes through the old epochs in order, deleting
results, accepted list, ballots, and stops where an entry is missing, as `del`
does. `raised` and `gaps` are history: where it stopped, and the epochs which the
node did not elect itself (a catch-up stores no list; an epoch may be accepted
without a ballot). `stuck` is a count-down of `_waiting_for_validation` that was
skipped by the exception.

### Following, CatchUp

`Following` is the promise: the head moves along the chain block by block, the
goal is a block that a peer has committed, and it is given up only by reaching
it. `CatchUp` is how it is done: `NewBlock` (with `BlockCache.append` and the
request), `PeerAnswers`, `HandleBootstrap` (the count of *all* messages, the block
named most, `fastforward`), `ValidBlock`, `InvalidBlock`, `CommittedBlock`. A
`BOOTSTRAP` message names the head of its sender and the block before. A block is
its number: one chain, nobody lies. Whether the signer of a block is the expected
one is open (`expected`), as the schedule is elsewhere. The refinement maps
`goal` to `target` while `catchingUp`, and `confirmed` to what some peer has
committed. `IsBad` is the validator's: a block that was failed, and what follows
it, is invalid. `Answerable` is too: the blocks of one `check_blocks` are answered
in their order, before or after the commits of those they follow.

### Connections

One node, `Me`; the unit of time is `PEER_CHECK_INTERVAL`. `object[p]` is how far
the `Peer` of `p` is: none, waiting for its timer, connecting (the thread in
`Peer.connect` pings), settled. A ping is two steps, the call and the store, in
each of the two threads that may do it (`LoopPing`/`LoopStore`, and
`call`/`StorePing` of the main thread), since both write `connected`. `Heard`
stands for any message or block. `mute` is history: how long a peer has been both
silent and out of reach. The main thread waits for its ping; other actions of it
need `Idle`.

## 3. The runs

| Run | Shows |
|---|---|
| `schedule_queue` | 4 members, 2 slots, 2 rounds, 3 epochs: with all interleavings of downgrades, rejected blocks, results, catch-up and restart, members are conserved, the queue never empty, rounds fair, results used, states consistent, epochs whole |
| `election_quorum` | 3 nodes elect epoch 2 during epoch 1, one of them still starting up and not connected, a link breaks once, timers: accepted lists have a quorum; disagreement needs a node that reported two results |
| `election_first` | 4 connected nodes, prompt ballots: some node starts the first epoch |
| `engine_steady` | 3 members, 2 slots, 2 epochs, a tree of eight blocks, an invalid one, blocks refused for their time stamp: the counters are exact, a block in commit holds its slot, the chain only grows and none of it is failed; every slot passes |
| `engine_catchup` | one chain, an engine that is behind and catches up: the counters are off by the uncounted commits only |
| `network` | 3 members, 2 slots, 3 rounds, two members may stop: nodes in the same slot have the same schedule and head, chains are prefixes of one another, every commit is the block that the one chain has next (`SharedChain`), only a member that has stopped is downgraded, every running node gets to the end of the epoch |
| `catchup` | a node behind 2 peers, a chain of 3 blocks, a cache of 2, 2 requests, one block announced twice: the steps are those of `Following`; the cache has the latest blocks; after one request the target is a block that enough members have; the next block of a catch-up is committed, unless the node has failed a block below it |
| `retention` | 5 epochs, a removal at 3 that keeps 1: a removal raises only at epochs the node did not elect; nothing recent goes; the rest is bounded |
| `connections` | 2 peers, links that break and mend, each peer announced up to twice, a threshold of 2: silence is noticed in time, a new peer gets connected, a silent one comes back |
| `election_stall`, `connections_restart`, `network_overtaken` | section 6 |

Each property of a passing run has a mutant of the code (a definition named
`X_<what is wrong>` before `X`) under which TLC finds it violated.

## 4. Bounds and fairness

`MaxIdx` (schedule) lets the index go past the end of an epoch, which is where
late results and votes meet it; `MaxEpoch` is the smallest number with which a
stored result is replaced and one is forgotten. Two slots and a queue of two
candidates let one member be downgraded, come back, and be downgraded again.
`RoundsPerEpoch` is 2 instead of 3: a first and a last round.

In `Election` three nodes are the fewest with a majority and `NumSlots` below
the number of nodes; four are used for the first epoch's liveness. `MaxCuts`
bounds how often a link breaks; it may mend at any time. A rebroadcast is taken
only when it can matter (some connected peer lacks the ballot and no copy is on
its way), a timer thread is one at a time, slots past the end of an epoch are
not counted. Tallies are the identity, so every other set of ballots gives
another list: the least agreement a tally can give.

`election_quorum` has one node that starts late (`LateMesh`): the connections of
the others are there, its own come up during the election, so the number of
online peers grows under the count.

No deadlock check for `Election`: an election ends and nothing happens until
the next, which the bounds leave out. `EpochSchedule` is checked for deadlock.

Fairness (`Election!Fairness`): the main loop of each node runs, so a vote that
is due is cast, a message that has arrived is handled, and a slot is produced or
times out; the timer fires; `Peer.connect` retries until the ping succeeds and a
broken link mends. `LinkBreaks` and `Disconnect` have none.

In `Engine`, `Blocks` bounds what may be made: `TwoChains` has two forks, own
blocks on both and a chain of three, `OneChain` a chain of two and an own block
beside it, for the runs with catch-ups, which multiply the states. With three
members and two slots every member is witness and candidate in turn. `MaxIdx`
leaves room for slots after the end of the first epoch. Epochs have one round
here: how rounds follow one another is `EpochSchedule`'s matter. An engine at its bounds
stops, so deadlock is not checked.

Fairness (`Engine!Fairness`): the validator answers every request and announces
a block whose parent it has announced, and the main loop, which runs every 80
ms, comes to the end of its slot, by a block, an empty slot or the timeout.
Votes, results, messages of peers and catch-ups have none.

In `Network` three members and two slots make every member witness and candidate;
three rounds, as in the code, let a downgraded member return and be downgraded
again. `MaxCrashes` is two of three: one node goes on alone. Fairness: the main
loop of a node that has not stopped goes on (`WF` of `Step(n)`), which covers the
validator's answers and the arrival of messages. `Crash` has none. The epoch ends
and the model with it, so deadlock is not checked.

In `Retention` the limit of 10 and the 5 that are kept are 3 and 1: what matters
is that a removal takes several epochs, that two removals follow one another, and
that there is an epoch between the last removed and the one that runs. The proofs
have any numbers.

In `CatchUp` a cache of two blocks is the smallest that holds a way of two and
evicts; a chain of three is longer than it. `MaxRequests` 2 lets answers to an old
request meet those to a new one; `MaxRepeats` 1 lets one block be announced twice,
which takes two places in the cache. Nothing is assumed of the order of answers and
commits. `CatchUpAdvances` is what is left of progress without such an assumption:
the next block gets committed, whoever signed it; what follows it may be failed. Its
one exception is that the node has failed a block below, which TLC shows to be
needed: a block checked twice is failed on the second answer, after its commit.
Fairness: the validator answers and commits.

In `Connections` two peers have the node between them in the order of the
settings, as `send_bootstrap_request` fails at the node itself. `MaxCuts` 1 link
break and `MaxAnnounced` 2 announcements let a `Peer` be replaced while it
connects. Times are counted up to the threshold. Fairness: timers fire, the
threads and the main loop run, the validator announces every peer once, and time
passes (`SF` of `Tick`, since the messages of a peer may interrupt a unit of time
again and again but do not stop the clock).

## 5. The proofs

`EpochScheduleProofs` proves, for any finite set of members, any number of slots
below it, any number of rounds, any hash, any bounds:

* `TypeCorrect`: `Spec => []TypeOK`
* `MembersAreConserved`, `DowngradesNeverBlock`, `RoundsAreRoundRobin`,
  `ResultsAreUsed`, `StatesMatch`: `Spec => []` of the property of that name in
  the runs
* `EpochsAreNotCutShort`: the action property `EpochNeverCutShort`

from the one inductive invariant of `ScheduleInvariant`. None of the properties
is inductive: that rounds are fair needs that the witnesses are distinct, that
those of `served` are exactly the owners of the slots passed in this round or
already replaced by a member that was in the queue, and that the index of the
round is the number of slots passed; that the queue is never empty needs that
its length and that of the list stay complementary. `EpochProofs` has the facts
about modular indices and about exchanging a member of a list with one of a
queue, with the counting left to `FiniteSetTheorems`.

Assumptions: `EpochAssumption` (finite members, `0 < NumSlots <
Cardinality(Members)`, which `should_vote` enforces before anything is elected)
and `ScheduleAssumption` (lists are rankings, bounds are numbers). TLC evaluates
both on every run.

`EngineProofs` proves, for any finite tree of blocks, any validity, any
environment:

* `ScheduleHoldsOfEngine`: the five invariants above hold of the engine
* `TypeCorrect` and `CountersAreExact`: `waitingForValidation` is the number of
  answers due, `waitingForCommit` that of the counted commits under way less the
  uncounted ones that were answered

by one induction (`EngineInvariant`) over two invariants that need each other: a
request to commit carries the slot it was made for, so its type needs the type
of the schedule; a block of the engine seeds the reordering of the schedule, so
the schedule's step needs the type of the engine. The counts are cardinalities, of
the set of pairs of a block and a number up to its requests and of the set of
positions of the queue of commits; `RequestsAdded`, `RequestAnswered`,
`CommitAppended` and `CommitAnswered` say what a request and an answer do to
them. `EngineProofs` takes the schedule's theorems from an instance of
`EpochScheduleProofs`; the lemmas `SameX` say that its actions are those of the
instance that `Engine` is written with.

Assumptions: `EpochAssumption`, and `EngineAssumption` (the blocks are finitely
many sequences of members with all that lead to them; `ScheduleAssumption`
follows).

It proves as well `SlotIsHeld`, `CommittedStays` and the action property `HeadGrows`
of an engine that keeps up (`KeepsUp`: blocks and results in time, no
catch-up) for any tree in which a member signs one block of a number. The
properties follow from more than they say (`Steady`): a block that is checked or in
commit is the one of the running slot, of the number after the head, so
there is one at most; whatever else could pass the slot needs that none is.

`ElectionProofs` proves, for any finite set of nodes, any tally, any links and
timers:

* `TypeCorrect`, `ElectedByQuorums` and `DisagreementIsRecount`: `Spec => []` of
  `TypeOK`, `ElectedByQuorum`, `DisagreementNeedsRecount`

from `ElectionInvariant`. That an accepted list has a quorum is not inductive: the
list was counted from stored results, which came from messages or from the own
timer. So the invariant says of each of those, on its way (`TrueMessages`), stored
(`ResultsBacked`), in the hands of a timer thread (`TimersFromQuorums`) or in
the history (`ReportsFromQuorums`), that enough ballots are behind it, and of a
stored ballot that its voter cast it (`BallotsCast`). Disagreement follows from
the count: two sets of `NumSlots` reporters of more than twice as few nodes share
one (`FiniteSetTheorems`).

`RetentionProofs` proves, for any limits and any number of epochs, `TypeCorrect`,
`RemovalIsSafe` and the action property `RecentDataKept` from
`RetentionInvariant`: the dictionaries have nothing beyond the next epoch, and
every epoch up to the running one that has a result and lacks a ballot or a list
is a gap. `DataStaysBounded` (`DataBounded`) needs another, `InStep`: while there
is no gap, results, ballots and accepted lists are of the same epochs up to the
running one, fewer than the limit. Only the results are counted before a removal
(`voting_system.py:177`), and its epochs are taken from the results; that the
other two shrink with them and have the epochs it deletes is what the invariant
adds. `InitializeInStep` is the removal, the other lemmas say that what a step adds
is of the next epoch, or of one that is there.

`CatchUpProofs` proves, for any finite set of peers, any size of the cache, any
chain, `TypeCorrect`, `CacheIsLatest` and `CatchUpFollows`
(`Spec => Follows!Spec`) from `CatchUpInvariant`, and `OneRequestIsAgreed`. A step of `CatchUp` is one of
`Following` because the commits under way are of the head or the block after it, and
because every number named in an answer or kept from one is the head a peer had;
that the block named most is one of them needs that a count above zero has a
message. `OneRequestIsAgreed` needs to know whose the counted messages are, which the
program does not keep: as long as one request was sent there is a function from
messages to peers, one to one, and a peer that was counted has nothing more on its
way (`AskedOnce`).

`NetworkProofs` proves, for any finite set of members, any candidate lists, any
hash function, any number of slots and rounds and any number of nodes that stop,
in a network that keeps up:

* `TypeCorrect`, `NodesAgree` and `ChainNeverForks`: `Spec => []` of `TypeOK`,
  `Agreement`, `NoFork`
* `RunningWitnessStays`: the action property `KeepsItsPlace`
* `NetworkIsOneChain`: `Spec => Shared!Spec`

from `NetworkInvariant`. `Agreement` is far from inductive: it says nothing of
nodes in different slots, and a node that is behind must come by the same schedule
when it gets there, from messages that the others handled long ago. The invariant
(`OneLedger`) is that there is a *ledger*, which the program does not have: for
every slot up to that of the foremost node the schedule and head it began with and
how it ended, by a block, an `EMPTY_SLOT` or a time-out. Its parts (`Kept`):

* `LedgerOK`: each slot of the ledger follows from the one before by what
  `_next_slot` does, and the heads are one chain. The next slot is determined, as
  the sort is stable (`SortedOnce`); this is where the shared seed matters.
* `AllFollow`: each node has the schedule and the head that the ledger has of its
  slot. `Agreement` and `NoFork` follow at once.
* `AllFromLedger`, `AllPending`: what is on the way to a node and what it has in
  its cache and checks is said in the slots of the ledger; of a slot that ended by a
  block or an `EMPTY_SLOT` a running node that is not past it still has the message
  to come, or the block in its cache. So a node leaves its slot as the first
  did, and never by a time-out instead.
* `Acted`: a slot that timed out is one of a witness that has stopped, which is
  `KeepsItsPlace`; one that spoke has come to its slot.

A step either leaves the ledger alone (the node is behind), signs its last slot (a
block is sent) or makes it longer (the foremost node leaves its slot):
`SignedLedger`, `LongerLedger`, and `GrownKeeps` and `PendingGrown` for the nodes
that do not move. The refinement needs only that the heads are beginnings of one
another (`LedgerHeads`) and that a step makes one head longer by a block
(`OneHeadMoves`): the one that grows is the longest, or it is behind, and then its
new block is the one that the longest has there, as both are beginnings
(`GrowthIsShared`).

The theorems assume `KeepsUp` (`PromptBlocks` and `Punctual`, section 2), without
which `Agreement` is false (`network_overtaken`), and `HashIsNumber`: a hash is a
number, so that any two can be compared.

`ConnectionsProofs` proves, for any members and any threshold, `TypeCorrect` and
`SilentFoundOut`. A ping and the storing of its answer are two steps of two
threads; `AnswersAreFresh` says that an answer in hand is of this unit of time,
so none makes a silent peer look alive after the round (`SearchCovers`).

Assumptions: `ElectionAssumption`, `RetentionAssumption`, `CatchUpAssumption`,
`ConnectionsAssumption`, `NetworkAssumption`; finite nodes and peers, `NumSlots`
below the number of nodes, numbers that are numbers; `KeepsUp` where it is named.

Model-checked only: liveness under fairness, which this prover does not reach:
`NextEpochBegins`, `EverySlotPasses`, `CatchUpAdvances`, `NewPeerConnects`,
`SilentPeerReturns`, `EpochServed`. Every invariant, action property and refinement
of a passing run is a theorem.

## 6. Where code and documentation disagree

* *The first epoch may never start* (`election_stall`). Only `handle_vote` asks
  whether all ballots are in: a node whose own vote comes last never tallies,
  and all online peers must report the same list.
* *A restarted node asks nobody* (`connections_restart`).
  `test_crash_fault_tolerance.sh:123` restarts a node and is "Waiting for all
  nodes to reach block 30". In `WAITING_FOR_BOOTSTRAP` the handler of a connected
  peer sends a request before it adds the peer (`ddpoa_engine.py:552`); the send
  raises `KeyError`, the peer is never added, and the repeated requests raise at
  the first member without a `Peer`, the node itself at the latest
  (`ddpoa_engine.py:201`). `EpochSchedule` and `Engine` let a restarted node be
  told the schedule, which is more than the code achieves.
* *An empty slot that overtakes a block* (`network_overtaken`). `README.md:12`:
  "Entire network knows which node should produce the next block at any time". A
  node that has not seen the block of the slot before drops the `EMPTY_SLOT`
  message (`ddpoa_engine.py:499`), times the slot out later, and downgrades a
  witness that the others keep. (`test_liveness.py:24` expects forks at times:
  `Agreement` and `NoFork` are claimed of a network that keeps up, and of no other.)
The models have more, which no run is spent on:

* *A list serves more than its rounds.* `config.py:1`: "How many times the same
  witness list is used before starting a new vote". A node that votes after its
  epoch is over leaves `IDLE` for `ELECTION` (`ddpoa_node.py:47`), and the main
  loop produces and downgrades again.
* *Same epoch, different lists.* A node that reports twice is counted for both by
  different nodes; `DisagreementNeedsRecount` says that this is the only way.
* *A late result meets a block.* A node in `ELECTION` after the last slot still
  signs and commits. If the result starts the next epoch before that commit is
  answered, the commit passes the first slot of the new epoch
  (`ddpoa_engine.py:471`); if it does so before the own block comes back, the flag
  of the own block is never reset (`ddpoa_engine.py:370`) and the node neither
  produces nor times out: with `PromptResults` false `EverySlotPasses` fails.
* *A catch-up fails its own blocks.* `test_liveness.py:21`: "All nodes must reach
  this block for the test to pass." `fastforward` gives the whole way to one
  `check_blocks` (`ddpoa_engine.py:299`), and neither the engine nor the validator
  waits for a commit before the next answer. The second block, answered while the
  first is being committed, does not follow `pre_committed_block`, so
  `_handle_valid_block` fails it, and the target is not committed any more: in
  `CatchUp`, "a way that is being checked is committed" is false, and
  `CatchUpAdvances` claims its next block only.
* *One peer counts twice.* `voting_system.py:172`: "2/3 of the online members have
  to agree for a consensus to be considered met." The messages are counted, not
  their senders: a peer that answers two requests (a second one may follow after
  six seconds) is two of them, and the node catches up to what it alone has.
  `TargetIsAgreed` is false of `CatchUp` with three peers and two requests;
  `OneRequestAgrees` holds.
* *A catch-up that does not end.* `CATCHING_UP` ends on the commit of the target
  only (`ddpoa_engine.py:461`), which does not come when the target is behind the
  head or not in the block cache, or when a block that is checked twice is answered
  again after its commit and failed.
* After the last slot `current_witness` still names a witness (`epoch.py:95`
  promises `None`); `finalize_epoch` ends the rebroadcasting of ballots whether or
  not enough have come (`config.py:10`).
* A catch-up to an ancestor of the head fails its successor on the same chain,
  which is on no fork (`ddpoa_engine.py:305`).
* Commits of a catch-up are counted when they are answered only
  (`ddpoa_engine.py:408`, `458`), so that the counter is negative afterwards
  (`uncounted`) and the node may declare its slot empty with its own block of that
  slot in commit.
* A removal of old epochs raises at an epoch that a catch-up has passed
  (`voting_system.py:182`) and skips the rest of the handler.
* After a commit the cache is looked up by number and signer, not by parent
  (`ddpoa_engine.py:473`, `577`). If a member signed two blocks of a number, the
  one on the fork is checked too, and its refusal passes the slot while the right
  block is in commit; the next witness's block on the same head may then be
  committed as well. `SlotHeldByCommit` and `HeadOnlyGrows` are stated for
  `OneBlockPerNumber`.
* After an empty slot or a timeout the block cache is not looked into
  (`ddpoa_engine.py:225`, `500`), as it is after a commit.

## 7. Not modelled, and the plan

Not modelled:

* the STV computation (a library) and `break_ties`: a tally is any function of the
  voters;
* the scores that weigh the random order of a ballot; `polls`, which is written
  and never read or removed;
* signatures and payload encoding, logging, the generated protocol code;
* the validator, an environment of `Engine`, `CatchUp` and `Network`;
* the values of clocks: an order of events stands for them, with the constants of
  section 4;
* exceptions in the middle of a handler other than those of the block cache, of
  the removal of old epochs and of a missing `Peer`. In particular the handlers of
  `Engine` run to their end: `CountersExact` says nothing of an
  `_handle_invalid_block` whose `_next_slot` raises before the count-down
  (`ddpoa_engine.py:433`), which is `stuck` in `Retention`;
* a number of online peers that changes during a catch-up;
* the blocks kept by a node that waits for bootstrap: it does not get that far
  (section 6), and what it would do with them looks ids up among blocks
  (`ddpoa_engine.py:321`), which never succeeds;
* start-up configuration and paths (pure I/O), the tools of `testing/`.

Further, in this order:

1. `Network` over two epochs, with the election between them and requests to catch
   up, which joins it with `CatchUp`; states are the limit.
2. A broadcast that ends in the middle because its sender stops
   (`ddpoa_node.py:177`): the ledger then has two ends for one slot.
3. `break_ties` as a function: the same list for the same ballots in any order.
