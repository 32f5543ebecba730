------------------------------ MODULE Election ------------------------------
(***************************************************************************)
(* The election of the witness list of the next epoch, between all nodes:  *)
(* ballots and results are broadcast, stored by epoch and sender, tallied  *)
(* and counted (ddpoa_node.py, voting_system.py), over connections that    *)
(* come up one by one and may break (consensus_messaging.py).              *)
(*                                                                         *)
(* A node votes at most once per epoch, so a ballot is its voter, and what *)
(* a set of ballots elects is a function of the set of voters.  The slots  *)
(* of an epoch are counted here, their owners are in EpochSchedule.        *)
(***************************************************************************)
EXTENDS Integers, Sequences, FiniteSets, Functions

CONSTANTS
  Nodes,           \* the members of the network
  NumSlots,        \* sawtooth.consensus.ddpoa.slots
  SlotsPerEpoch,   \* NumSlots * ROUNDS_PER_EPOCH
  VotingSlots,     \* VOTING_SLOTS
  Tally(_),        \* calculate_result: the list that a set of voters elects
  StartEpoch,      \* the epoch all nodes begin in; 0 is a new network
  Mesh,            \* [n]: the peers that n is connected to at the beginning
  Started,         \* the nodes whose start-up is over at the beginning
  UsesTimer,       \* whether a ballot may take longer than the 15 s timer
  MaxEpoch,        \* bound: elections up to this epoch
  MaxCuts          \* bound: so many times a link breaks

ASSUME ElectionAssumption ==
  /\ IsFiniteSet(Nodes)
  /\ NumSlots \in Nat \ {0}
  /\ NumSlots < Cardinality(Nodes)
  /\ SlotsPerEpoch \in Nat \ {0}
  /\ VotingSlots \in Nat
  /\ StartEpoch \in Nat /\ MaxEpoch \in Nat /\ StartEpoch < MaxEpoch
  /\ Mesh \in [Nodes -> SUBSET Nodes] /\ \A n \in Nodes : n \notin Mesh[n]
  /\ Started \subseteq Nodes
  /\ UsesTimer \in BOOLEAN
  /\ MaxCuts \in Nat

VARIABLES
  number,    \* [n]: epoch.number
  idx,       \* [n]: epoch.current_witness_idx
  state,     \* [n]: State
  ballots,   \* [n][epoch]: the voters in voting.ballots
  results,   \* [n][epoch]: voting.results, a list by peer
  elected,   \* [n]: ready_result and voting.candidates, a list by epoch
  timer,     \* [n]: the epoch broadcast_timer is armed for, or 0
  late,      \* [n]: the result in the hands of a timer thread that has fired
  started,   \* [n]: not starting_up
  conn,      \* [n]: the peers that are connected for n's Communicator
  cut,       \* the directed links over which a send or ping fails
  cuts,      \* how often a link has broken
  chan,      \* [sender, receiver]: messages on their way
  reported   \* history, [n][epoch]: the voter sets n has tallied

nodeVars == <<number, idx, state, elected>>
voteVars == <<ballots, results, reported>>
timerVars == <<timer, late>>
linkVars == <<conn, cut, cuts>>
vars == <<nodeVars, voteVars, timerVars, started, linkVars, chan>>

Epochs == 1..MaxEpoch

Lists == { Tally(voters) : voters \in SUBSET Nodes }

NoResult == [epoch |-> 0]

Links == { link \in Nodes \X Nodes : link[1] # link[2] }

Others(n) == Nodes \ {n}

---------------------------------------------------------------------------
(* What a node knows *)

\* online_peers, the node itself included.
Online(n) == Cardinality(conn[n]) + 1

NextEpoch(n) == number[n] + 1

\* Mutant: the slot after the last one still belongs to the epoch.
IsOver_OneSlotLate(n) == number[n] = 0 \/ idx[n] > SlotsPerEpoch

IsOver(n) == number[n] = 0 \/ idx[n] >= SlotsPerEpoch

\* consensus_amount: two thirds of the online peers, and NumSlots at least.
ConsensusAmount(online) ==
  LET twoThirds == 1 + ((2 * online) \div 3) IN
  IF twoThirds > NumSlots THEN twoThirds ELSE NumSlots

HasEnoughBallots(voters, online) == Cardinality(voters) >= ConsensusAmount(online)

\* Mutant: waits for one ballot more than there are peers online.
HasAllBallots_OneMore(voters, online) ==
  /\ online >= ConsensusAmount(online)
  /\ Cardinality(voters) > online

HasAllBallots(voters, online) ==
  /\ online >= ConsensusAmount(online)
  /\ Cardinality(voters) >= online

\* should_vote
ShouldVote(n) ==
  /\ number[n] = 0 \/ SlotsPerEpoch - idx[n] <= VotingSlots
  /\ NextEpoch(n) \in Epochs
  /\ n \notin ballots[n][NextEpoch(n)]
  /\ Online(n) > NumSlots

\* The main loop handles one peer message, then votes if it should: a node that
\* waits for the first epoch handles no message with its vote outstanding.  (In the
\* code it may handle one: where the loop begins anew before it gets to the vote,
\* or a connection comes up after it has.)
MustVoteFirst(n) == started[n] /\ number[n] = 0 /\ ShouldVote(n)

\* Mutant: every report counts, whatever list it is of.
Reporters_Any(res, list) == DOMAIN res

\* The peers of n that have reported list.
Reporters(res, list) == { p \in DOMAIN res : res[p] = list }

\* get_consensus_result: the lists with the most reporters (the code takes the
\* one it meets first).
Winners(res) ==
  { list \in Range(res) : \A other \in Range(res) :
      Cardinality(Reporters(res, other)) <= Cardinality(Reporters(res, list)) }

---------------------------------------------------------------------------
(* Messages: FIFO per sender and receiver, as a sender waits for each call *)

Vote(epoch) == [type |-> "VOTE", epoch |-> epoch]
VoteResult(epoch, list) == [type |-> "VOTE_RESULT", epoch |-> epoch, list |-> list]

Messages == { Vote(e) : e \in Epochs } \cup { VoteResult(e, l) : e \in Epochs, l \in Lists }

\* Communicator.broadcast: to connected peers only, and a failed send is
\* forgotten.
Broadcast(ch, n, msg) ==
  [link \in Links |->
     IF link[1] = n /\ link[2] \in conn[n] /\ link \notin cut
     THEN Append(ch[link], msg) ELSE ch[link]]

Received(s, n) == [chan EXCEPT ![<<s, n>>] = Tail(@)]

---------------------------------------------------------------------------

TypeOK ==
  /\ number \in [Nodes -> 0..MaxEpoch]
  /\ idx \in [Nodes -> 0..SlotsPerEpoch]
  /\ state \in [Nodes -> {"IDLE", "ELECTION", "PRODUCTION"}]
  /\ ballots \in [Nodes -> [Epochs -> SUBSET Nodes]]
  /\ \A n \in Nodes, e \in Epochs :
       /\ DOMAIN results[n][e] \subseteq Nodes
       /\ Range(results[n][e]) \subseteq Lists
  /\ \A n \in Nodes :
       /\ DOMAIN elected[n] \subseteq Epochs
       /\ Range(elected[n]) \subseteq Lists
  /\ timer \in [Nodes -> 0..MaxEpoch]
  /\ late \in [Nodes -> {NoResult} \cup
               [epoch : Epochs, voters : SUBSET Nodes, stored : BOOLEAN]]
  /\ started \in [Nodes -> BOOLEAN]
  /\ conn \in [Nodes -> SUBSET Nodes]
  /\ cut \in SUBSET Links
  /\ cuts \in 0..MaxCuts
  /\ \A link \in Links : Range(chan[link]) \subseteq Messages
  /\ reported \in [Nodes -> [Epochs -> SUBSET SUBSET Nodes]]

Init ==
  /\ number = [n \in Nodes |-> StartEpoch]
  /\ idx = [n \in Nodes |-> 0]
  /\ state = [n \in Nodes |-> IF StartEpoch = 0 THEN "IDLE" ELSE "PRODUCTION"]
  /\ ballots = [n \in Nodes |-> [e \in Epochs |-> {}]]
  /\ results = [n \in Nodes |-> [e \in Epochs |-> <<>>]]
  /\ elected = [n \in Nodes |-> <<>>]
  /\ timer = [n \in Nodes |-> 0]
  /\ late = [n \in Nodes |-> NoResult]
  /\ started = [n \in Nodes |-> n \in Started]
  /\ conn = Mesh
  /\ cut = {}
  /\ cuts = 0
  /\ chan = [link \in Links |-> <<>>]
  /\ reported = [n \in Nodes |-> [e \in Epochs |-> {}]]

---------------------------------------------------------------------------
(* Voting *)

\* vote
CastVote(n) ==
  LET e == NextEpoch(n) IN
  /\ started[n]
  /\ ShouldVote(n)
  /\ ballots' = [ballots EXCEPT ![n][e] = @ \cup {n}]
  /\ state' = [state EXCEPT ![n] = "ELECTION"]
  /\ chan' = Broadcast(chan, n, Vote(e))
  /\ UNCHANGED <<number, idx, elected, results, reported, timerVars, started, linkVars>>

\* rebroadcast_ballot.  Bounds: not while a copy is still on its way, as the
\* interval is longer than a call, nor when all connected peers have the ballot
\* and would drop the copy.
Rebroadcast(n) ==
  LET e == NextEpoch(n) IN
  /\ started[n]
  /\ state[n] = "ELECTION"
  /\ ~ShouldVote(n)
  /\ e \in Epochs /\ n \in ballots[n][e]
  /\ \A p \in Others(n) : Vote(e) \notin Range(chan[<<n, p>>])
  /\ \E p \in conn[n] : n \notin ballots[p][e]
  /\ chan' = Broadcast(chan, n, Vote(e))
  /\ UNCHANGED <<nodeVars, voteVars, timerVars, started, linkVars>>

\* calculate_result stores the result as the node's own ...
StoreResult(n, e, voters) ==
  /\ results' = [results EXCEPT ![n][e] =
       [p \in DOMAIN @ \cup {n} |-> IF p = n THEN Tally(voters) ELSE @[p]]]
  /\ reported' = [reported EXCEPT ![n][e] = @ \cup {voters}]

\* ... and broadcast_result sends it; it does not count the stored results.

\* handle_vote
HandleVote(n, s) ==
  /\ ~MustVoteFirst(n)
  /\ chan[<<s, n>>] # <<>>
  /\ Head(chan[<<s, n>>]).type = "VOTE"
  /\ LET e == Head(chan[<<s, n>>]).epoch
         voters == ballots[n][e] \cup {s}
     IN  IF e # NextEpoch(n) \/ s \in ballots[n][e]
         THEN /\ chan' = Received(s, n)
              /\ UNCHANGED <<voteVars, timer>>
         ELSE /\ ballots' = [ballots EXCEPT ![n][e] = voters]
              /\ IF HasAllBallots(voters, Online(n))
                 THEN /\ StoreResult(n, e, voters)
                      /\ chan' = Broadcast(Received(s, n), n, VoteResult(e, Tally(voters)))
                      /\ timer' = [timer EXCEPT ![n] = 0]
                 ELSE /\ timer' = [timer EXCEPT ![n] =
                           IF HasEnoughBallots(voters, Online(n)) /\ UsesTimer THEN e ELSE 0]
                      /\ chan' = Received(s, n)
                      /\ UNCHANGED <<results, reported>>
  /\ UNCHANGED <<nodeVars, late, started, linkVars>>

\* broadcast_timer runs broadcast_result in a thread of its own, which reads the
\* ballots, stores the result and sends it while the main thread goes on; to
\* cancel the timer once it has fired changes nothing.  Bound: a node has one
\* such thread at a time.
TimerFires(n) ==
  /\ timer[n] # 0
  /\ late[n] = NoResult
  /\ late' = [late EXCEPT ![n] =
       [epoch |-> timer[n], voters |-> ballots[n][timer[n]], stored |-> FALSE]]
  /\ timer' = [timer EXCEPT ![n] = 0]
  /\ UNCHANGED <<nodeVars, voteVars, started, linkVars, chan>>

TimerStores(n) ==
  /\ late[n] # NoResult
  /\ ~late[n].stored
  /\ StoreResult(n, late[n].epoch, late[n].voters)
  /\ late' = [late EXCEPT ![n].stored = TRUE]
  /\ UNCHANGED <<nodeVars, ballots, timer, started, linkVars, chan>>

TimerSends(n) ==
  /\ late[n] # NoResult
  /\ late[n].stored
  /\ chan' = Broadcast(chan, n, VoteResult(late[n].epoch, Tally(late[n].voters)))
  /\ late' = [late EXCEPT ![n] = NoResult]
  /\ UNCHANGED <<nodeVars, voteVars, timer, started, linkVars>>

---------------------------------------------------------------------------
(* Results and epochs *)

\* initialize_epoch
BeginEpoch(n, e) ==
  /\ number' = [number EXCEPT ![n] = e]
  /\ idx' = [idx EXCEPT ![n] = 0]
  /\ state' = [state EXCEPT ![n] = "PRODUCTION"]

\* The trigger conditions of handle_vote_result.
Triggers(n, count) ==
  IF number[n] = 0
  THEN count = Online(n)
  ELSE count >= ConsensusAmount(Online(n))

\* handle_vote_result
HandleResult(n, s) ==
  /\ ~MustVoteFirst(n)
  /\ chan[<<s, n>>] # <<>>
  /\ Head(chan[<<s, n>>]).type = "VOTE_RESULT"
  /\ chan' = Received(s, n)
  /\ LET msg == Head(chan[<<s, n>>])
         e == msg.epoch
         res == [p \in DOMAIN results[n][e] \cup {s} |->
                   IF p = s THEN msg.list ELSE results[n][e][p]]
     IN  IF e # NextEpoch(n)
         THEN UNCHANGED <<nodeVars, results>>
         ELSE /\ results' = [results EXCEPT ![n][e] = res]
              /\ \E list \in Winners(res) :
                   IF Triggers(n, Cardinality(Reporters(res, list)))
                   THEN /\ elected' = [elected EXCEPT ![n] =
                             [k \in DOMAIN @ \cup {e} |-> IF k = e THEN list ELSE @[k]]]
                        /\ IF IsOver(n)
                           THEN BeginEpoch(n, e)
                           ELSE UNCHANGED <<number, idx, state>>
                   ELSE UNCHANGED nodeVars
  /\ UNCHANGED <<ballots, reported, timerVars, started, linkVars>>

\* next_slot, counting slots only.  Bound: the slots of the last epoch, and those
\* past the end of an epoch, do not matter to an election.
NextSlot(n) ==
  /\ number[n] # 0
  /\ NextEpoch(n) \in Epochs
  /\ ~IsOver(n)
  /\ IF idx[n] + 1 < SlotsPerEpoch
     THEN idx' = [idx EXCEPT ![n] = @ + 1] /\ UNCHANGED <<number, state>>
     ELSE IF NextEpoch(n) \in DOMAIN elected[n]
     THEN BeginEpoch(n, NextEpoch(n))
     ELSE /\ idx' = [idx EXCEPT ![n] = @ + 1]
          /\ state' = [state EXCEPT ![n] = "IDLE"]
          /\ UNCHANGED number
  /\ UNCHANGED <<elected, voteVars, timerVars, started, linkVars, chan>>

---------------------------------------------------------------------------
(* Start-up and connections *)

\* starting_up ends when all members are online or 70 seconds have passed.
StartUpEnds(n) ==
  /\ ~started[n]
  /\ started' = [started EXCEPT ![n] = TRUE]
  /\ UNCHANGED <<nodeVars, voteVars, timerVars, linkVars, chan>>

\* Peer.ping succeeds.
Connect(n, p) ==
  /\ p \in Others(n) \ conn[n]
  /\ <<n, p>> \notin cut
  /\ conn' = [conn EXCEPT ![n] = @ \cup {p}]
  /\ UNCHANGED <<nodeVars, voteVars, timerVars, started, cut, cuts, chan>>

\* Peer.ping fails.
Disconnect(n, p) ==
  /\ p \in conn[n]
  /\ <<n, p>> \in cut
  /\ conn' = [conn EXCEPT ![n] = @ \ {p}]
  /\ UNCHANGED <<nodeVars, voteVars, timerVars, started, cut, cuts, chan>>

LinkBreaks(link) ==
  /\ cuts < MaxCuts
  /\ link \notin cut
  /\ cut' = cut \cup {link}
  /\ cuts' = cuts + 1
  /\ UNCHANGED <<nodeVars, voteVars, timerVars, started, conn, chan>>

LinkMends(link) ==
  /\ link \in cut
  /\ cut' = cut \ {link}
  /\ UNCHANGED <<nodeVars, voteVars, timerVars, started, conn, cuts, chan>>

---------------------------------------------------------------------------

Next ==
  \/ \E n \in Nodes : CastVote(n) \/ Rebroadcast(n) \/ NextSlot(n) \/ StartUpEnds(n)
  \/ \E n \in Nodes : TimerFires(n) \/ TimerStores(n) \/ TimerSends(n)
  \/ \E link \in Links : HandleVote(link[2], link[1]) \/ HandleResult(link[2], link[1])
  \/ \E link \in Links : Connect(link[1], link[2]) \/ Disconnect(link[1], link[2])
  \/ \E link \in Links : LinkBreaks(link) \/ LinkMends(link)

Spec == Init /\ [][Next]_vars

\* The main loop and the timer thread of every node keep running, calls arrive,
\* slots are produced or time out, peers that are reachable get connected and
\* broken links mend.
Fairness ==
  /\ \A n \in Nodes :
       /\ WF_vars(CastVote(n))
       /\ WF_vars(Rebroadcast(n))
       /\ WF_vars(NextSlot(n))
       /\ WF_vars(StartUpEnds(n))
       /\ WF_vars(TimerFires(n) \/ TimerStores(n) \/ TimerSends(n))
  /\ \A link \in Links :
       /\ WF_vars(HandleVote(link[2], link[1]) \/ HandleResult(link[2], link[1]))
       /\ WF_vars(Connect(link[1], link[2]))
       /\ WF_vars(LinkMends(link))

FairSpec == Spec /\ Fairness

---------------------------------------------------------------------------
(* Properties *)

\* A list that a node has accepted was tallied by NumSlots members or more (for
\* the first epoch, by one), each from the ballots of NumSlots members or more
\* that did vote, whatever peers the nodes took to be online.
ElectedByQuorum ==
  \A n \in Nodes, e \in Epochs :
    e \in DOMAIN elected[n] =>
      \E quorum \in SUBSET Nodes :
        /\ Cardinality(quorum) >= IF e = 1 THEN 1 ELSE NumSlots
        /\ \A p \in quorum : \E voters \in reported[p][e] :
             /\ Tally(voters) = elected[n][e]
             /\ Cardinality(voters) >= NumSlots
             /\ \A v \in voters : v \in ballots[v][e]

\* When more than half of the members are witnesses, two nodes accept different
\* lists for an epoch after the first only if some node has reported two
\* different results of it: the late answer of a timer, or a recount, is the
\* only way to disagree.
DisagreementNeedsRecount ==
  2 * NumSlots > Cardinality(Nodes) =>
    \A n, m \in Nodes, e \in Epochs \ {1} :
      /\ e \in DOMAIN elected[n] /\ e \in DOMAIN elected[m]
      /\ elected[n][e] # elected[m][e]
      => \E p \in Nodes : \E v, w \in reported[p][e] : Tally(v) # Tally(w)

\* A network whose nodes are all connected gets past its election: some node
\* begins the next epoch.
NextEpochBegins == <>(\E n \in Nodes : number[n] > StartEpoch)

=============================================================================
