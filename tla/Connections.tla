---------------------------- MODULE Connections ----------------------------
(***************************************************************************)
(* The connections of one node to its peers (classes Communicator and      *)
(* Peer, consensus_messaging.py, and ConsensusNode, consensus_node.py): a  *)
(* peer that the validator announces is given a thread that pings until an *)
(* answer comes, and the main loop pings the peers that it has not heard   *)
(* of for long.  Both write the same flag, and a message is only sent over *)
(* a connection whose flag is set.                                         *)
(*                                                                         *)
(* The unit of time is PEER_CHECK_INTERVAL.                                *)
(***************************************************************************)
EXTENDS Naturals, FiniteSets, Sequences, Functions

CONSTANTS
  Me,          \* key
  Order,       \* the keys of the members, in the order of the settings
  Threshold,   \* PING_THRESHOLD, in units of time
  Starts,      \* the States in which the process may start
  MaxCuts,     \* bound: so many times a link breaks
  MaxAnnounced \* bound: so many times the validator announces a peer

Peers == Range(Order) \ {Me}

ASSUME ConnectionsAssumption ==
  /\ Order \in Seq(Range(Order))
  /\ Me \in Range(Order)
  /\ Threshold \in Nat \ {0}
  /\ Starts \subseteq {"STARTING", "WAITING_FOR_BOOTSTRAP"}
  /\ MaxCuts \in Nat
  /\ MaxAnnounced \in Nat

VARIABLES
  state,       \* WAITING_FOR_BOOTSTRAP, or else STARTING (starting_up), RUNNING
  announced,   \* [p]: how often the validator has announced p
  object,      \* [p]: how far the Peer of p in _peers is
  connected,   \* [p]: Peer.connected
  loop,        \* [p]: the answer that the thread in Peer.connect holds
  call,        \* the ping of the main thread that is under way
  todo,        \* the peers that check_on_peers has still to ping
  checked,     \* whether check_on_peers has run in this unit of time
  online,      \* [p]: PeerNode.online
  age,         \* [p]: units of time since PeerNode.last_seen
  requested,   \* the peers that were sent a BOOTSTRAP_REQUEST
  link,        \* [p]: whether a call to p succeeds
  cuts,        \* how often a link has broken
  mute         \* history, [p]: units of time without a link or a word from p

flags == <<object, connected, loop>>
mainThread == <<call, todo, checked>>
peerNodes == <<online, age>>
network == <<link, cuts>>
vars == <<state, announced, flags, mainThread, peerNodes, requested, network, mute>>

NoCall == [peer |-> Me]

\* The main thread is not in the middle of a ping or of a round of pings.
Idle == call = NoCall /\ todo = {}

\* A ping succeeds: the Peer has its stub, and the call goes through.
Answers(p) == object[p] \in {"connecting", "settled"} /\ link[p]

\* The members before the first one without a Peer, the node itself included:
\* Communicator.send raises KeyError there.
Sendable ==
  { Order[i] : i \in { k \in DOMAIN Order :
      \A j \in 1..k : Order[j] # Me /\ object[Order[j]] # "none" } }

TypeOK ==
  /\ state \in {"STARTING", "RUNNING", "WAITING_FOR_BOOTSTRAP"}
  /\ announced \in [Peers -> 0..MaxAnnounced]
  /\ object \in [Peers -> {"none", "timer", "connecting", "settled"}]
  /\ connected \in [Peers -> BOOLEAN]
  /\ loop \in [Peers -> {"none", "ok", "failed"}]
  /\ call \in {NoCall} \cup [peer : Peers, ok : BOOLEAN, adds : BOOLEAN]
  /\ todo \subseteq Peers
  /\ checked \in BOOLEAN
  /\ online \in [Peers -> BOOLEAN]
  /\ age \in [Peers -> 0..Threshold]
  /\ requested \subseteq Peers
  /\ link \in [Peers -> BOOLEAN]
  /\ cuts \in 0..MaxCuts
  /\ mute \in [Peers -> 0..Threshold]

Init ==
  /\ state \in Starts
  /\ announced = [p \in Peers |-> 0]
  /\ object = [p \in Peers |-> "none"]
  /\ connected = [p \in Peers |-> FALSE]
  /\ loop = [p \in Peers |-> "none"]
  /\ call = NoCall
  /\ todo = {}
  /\ checked = FALSE
  /\ online = [p \in Peers |-> FALSE]
  /\ age = [p \in Peers |-> 0]
  /\ requested = {}
  /\ link \in [Peers -> BOOLEAN]
  /\ cuts = 0
  /\ mute = [p \in Peers |-> 0]

---------------------------------------------------------------------------
(* Pings *)

MainPings(p, adds) == call' = [peer |-> p, ok |-> Answers(p), adds |-> adds]

\* The result of ping in the main thread.  check_on_peers takes it for a sign of
\* life or marks the peer offline; add_peer replaces the Peer when it fails, but
\* raises when that has no channel yet.
StorePing ==
  /\ call # NoCall
  /\ LET p == call.peer
         replaced == call.adds /\ ~call.ok /\ object[p] # "timer"
     IN  /\ connected' = [connected EXCEPT ![p] = call.ok]
         /\ object' = [object EXCEPT ![p] = IF replaced THEN "timer" ELSE @]
         /\ loop' = [loop EXCEPT ![p] = IF replaced THEN "none" ELSE @]
         /\ online' = [online EXCEPT ![p] = IF call.adds THEN @ ELSE call.ok]
         /\ age' = [age EXCEPT ![p] = IF ~call.adds /\ call.ok THEN 0 ELSE @]
  /\ call' = NoCall
  /\ UNCHANGED <<state, announced, todo, checked, requested, network, mute>>

\* The three seconds before a Peer connects are over.
ConnectTimer(p) ==
  /\ object[p] = "timer"
  /\ object' = [object EXCEPT ![p] = "connecting"]
  /\ UNCHANGED <<state, announced, connected, loop, mainThread, peerNodes, requested,
                 network, mute>>

\* One ping of the thread in Peer.connect ...
LoopPing(p) ==
  /\ object[p] = "connecting" /\ loop[p] = "none"
  /\ loop' = [loop EXCEPT ![p] = IF link[p] THEN "ok" ELSE "failed"]
  /\ UNCHANGED <<state, announced, object, connected, mainThread, peerNodes, requested,
                 network, mute>>

\* Mutant: the thread ends with its first ping.
LoopStore_PingsOnce(p) ==
  /\ loop[p] # "none"
  /\ connected' = [connected EXCEPT ![p] = (loop[p] = "ok")]
  /\ object' = [object EXCEPT ![p] = "settled"]
  /\ loop' = [loop EXCEPT ![p] = "none"]
  /\ UNCHANGED <<state, announced, mainThread, peerNodes, requested, network, mute>>

\* ... and what it makes of the answer.
LoopStore(p) ==
  /\ loop[p] # "none"
  /\ connected' = [connected EXCEPT ![p] = (loop[p] = "ok")]
  /\ object' = [object EXCEPT ![p] = IF loop[p] = "ok" THEN "settled" ELSE @]
  /\ loop' = [loop EXCEPT ![p] = "none"]
  /\ UNCHANGED <<state, announced, mainThread, peerNodes, requested, network, mute>>

---------------------------------------------------------------------------
(* The main loop *)

\* _handle_peer_connected.  While the node waits for bootstrap it sends a request
\* first, which raises for a peer without a Peer: add_peer is not reached.
PeerConnected(p) ==
  /\ Idle
  /\ announced[p] < MaxAnnounced
  /\ announced' = [announced EXCEPT ![p] = @ + 1]
  /\ IF state = "WAITING_FOR_BOOTSTRAP" /\ object[p] = "none"
     THEN UNCHANGED <<requested, object, call>>
     ELSE /\ requested' = IF state = "WAITING_FOR_BOOTSTRAP" /\ connected[p] /\ link[p]
                          THEN requested \cup {p} ELSE requested
          /\ IF object[p] = "none"
             THEN object' = [object EXCEPT ![p] = "timer"] /\ UNCHANGED call
             ELSE MainPings(p, TRUE) /\ UNCHANGED object
  /\ UNCHANGED <<state, connected, loop, todo, checked, peerNodes, network, mute>>

\* The request to all members that is due every five seconds.
RequestBootstrap ==
  /\ state = "WAITING_FOR_BOOTSTRAP"
  /\ Idle
  /\ requested' = requested \cup { p \in Sendable : connected[p] /\ link[p] }
  /\ UNCHANGED <<state, announced, flags, mainThread, peerNodes, network, mute>>

\* starting_up ends.
StartUpEnds ==
  /\ state = "STARTING"
  /\ state' = "RUNNING"
  /\ UNCHANGED <<announced, flags, mainThread, peerNodes, requested, network, mute>>

\* Mutant: looks only at the peers that are not connected.
CheckOnPeers_Unconnected ==
  /\ state = "RUNNING" /\ Idle /\ ~checked
  /\ checked' = TRUE
  /\ todo' = { p \in Peers : age[p] >= Threshold /\ ~connected[p] }
  /\ UNCHANGED <<state, announced, flags, call, peerNodes, requested, network, mute>>

\* Mutant: looks only at the peers that are online.
CheckOnPeers_Online ==
  /\ state = "RUNNING" /\ Idle /\ ~checked
  /\ checked' = TRUE
  /\ todo' = { p \in Peers : age[p] >= Threshold /\ online[p] }
  /\ UNCHANGED <<state, announced, flags, call, peerNodes, requested, network, mute>>

\* Mutant: does not leave itself out.
CheckOnPeers_Itself ==
  /\ state = "RUNNING" /\ Idle /\ ~checked
  /\ checked' = TRUE
  /\ todo' = { p \in Peers : age[p] >= Threshold } \cup {Me}
  /\ UNCHANGED <<state, announced, flags, call, peerNodes, requested, network, mute>>

\* check_on_peers: once per interval, every peer not seen for the threshold ...
CheckOnPeers ==
  /\ state = "RUNNING" /\ Idle /\ ~checked
  /\ checked' = TRUE
  /\ todo' = { p \in Peers : age[p] >= Threshold }
  /\ UNCHANGED <<state, announced, flags, call, peerNodes, requested, network, mute>>

\* ... is pinged.
PingSilent(p) ==
  /\ call = NoCall
  /\ p \in todo
  /\ todo' = todo \ {p}
  /\ MainPings(p, FALSE)
  /\ UNCHANGED <<state, announced, flags, checked, peerNodes, requested, network, mute>>

\* A message or a block of p arrives: seen.
Heard(p) ==
  /\ Idle
  /\ online' = [online EXCEPT ![p] = TRUE]
  /\ age' = [age EXCEPT ![p] = 0]
  /\ mute' = [mute EXCEPT ![p] = 0]
  /\ UNCHANGED <<state, announced, flags, mainThread, requested, network>>

---------------------------------------------------------------------------
(* Time and the network *)

\* A unit of time is over.  A ping takes less, and the main loop comes round in
\* it.  Times are counted up to the threshold.
Tick ==
  /\ Idle
  /\ \A p \in Peers : loop[p] = "none"
  /\ state = "RUNNING" => checked
  /\ checked' = FALSE
  /\ age' = [p \in Peers |-> IF age[p] < Threshold THEN age[p] + 1 ELSE Threshold]
  /\ mute' = [p \in Peers |-> IF link[p] THEN 0
                              ELSE IF mute[p] < Threshold THEN mute[p] + 1 ELSE Threshold]
  /\ UNCHANGED <<state, announced, flags, call, todo, online, requested, network>>

LinkBreaks(p) ==
  /\ cuts < MaxCuts
  /\ link[p]
  /\ link' = [link EXCEPT ![p] = FALSE]
  /\ cuts' = cuts + 1
  /\ UNCHANGED <<state, announced, flags, mainThread, peerNodes, requested, mute>>

LinkMends(p) ==
  /\ ~link[p]
  /\ link' = [link EXCEPT ![p] = TRUE]
  /\ mute' = [mute EXCEPT ![p] = 0]
  /\ UNCHANGED <<state, announced, flags, mainThread, peerNodes, requested, cuts>>

---------------------------------------------------------------------------

Next ==
  \/ \E p \in Peers : PeerConnected(p) \/ ConnectTimer(p) \/ LoopPing(p) \/ LoopStore(p)
  \/ \E p \in Peers : PingSilent(p) \/ Heard(p)
  \/ StorePing \/ RequestBootstrap \/ StartUpEnds \/ CheckOnPeers \/ Tick
  \/ \E p \in Peers : LinkBreaks(p) \/ LinkMends(p)

Spec == Init /\ [][Next]_vars

\* The threads run, the validator announces every peer, time passes.
Fairness ==
  /\ \A p \in Peers :
       /\ WF_vars(announced[p] = 0 /\ PeerConnected(p))
       /\ WF_vars(ConnectTimer(p))
       /\ WF_vars(LoopPing(p))
       /\ WF_vars(LoopStore(p))
       /\ WF_vars(PingSilent(p))
  /\ WF_vars(StorePing) /\ WF_vars(RequestBootstrap)
  /\ WF_vars(StartUpEnds) /\ WF_vars(CheckOnPeers) /\ SF_vars(Tick)

FairSpec == Spec /\ Fairness

---------------------------------------------------------------------------
(* Properties *)

\* A peer that can neither be reached nor is heard for the threshold is found out
\* by the next round of pings, whatever the thread that connects to it does: it
\* counts neither among the online peers of a quorum nor for a ballot.
SilenceIsNoticed ==
  state = "RUNNING" /\ checked /\ Idle =>
    \A p \in Peers : mute[p] >= Threshold => ~connected[p] /\ ~online[p]

\* A Peer that is made for an announced peer gets connected once the peer can be
\* reached for good, also when it is made anew in the meantime.
NewPeerConnects ==
  \A p \in Peers :
    <>[]link[p] => [](object[p] = "timer" => <>connected[p])

\* A lost connection to a silent peer comes back: a peer that can be reached for
\* good is not both unconnected and silent for the threshold from some time on.  (A
\* peer that sends messages may stay unconnected: they keep last_seen fresh.)
SilentPeerReturns ==
  \A p \in Peers :
    <>[](link[p] /\ object[p] # "none") =>
      ((age[p] = Threshold /\ ~connected[p]) ~> (connected[p] \/ age[p] < Threshold))

\* test_crash_fault_tolerance.sh:123, "Waiting for all nodes to reach block 30":
\* a node that is started again on its chain asks some peer for the block to
\* catch up to.
RestartedNodeAsks == (state = "WAITING_FOR_BOOTSTRAP") ~> (requested # {})

=============================================================================
