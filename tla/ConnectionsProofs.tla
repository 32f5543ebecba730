------------------------- MODULE ConnectionsProofs -------------------------
(***************************************************************************)
(* The theorems about Connections, for any members and any threshold.  A   *)
(* ping and the storing of its answer are two steps, and a link may break  *)
(* between them: the invariant says that an answer in hand is never older  *)
(* than the unit of time, so that no late one makes a silent peer look     *)
(* alive.                                                                  *)
(***************************************************************************)
EXTENDS Connections, TLAPS

\* Silence is counted no faster than the time since the peer was seen.
MuteWithinAge == \A p \in Peers : mute[p] <= age[p]

\* What a thread holds of a peer that answered was learnt in this unit of time.
AnswersAreFresh ==
  /\ \A p \in Peers : link[p] => mute[p] = 0
  /\ \A p \in Peers : loop[p] = "ok" => mute[p] = 0
  /\ call # NoCall /\ call.ok => mute[call.peer] = 0

\* The silent peers are found out one after the other, in a round of pings.
InSearch(p) ==
  \/ p \in todo
  \/ call # NoCall /\ call.peer = p /\ ~call.adds /\ ~call.ok
  \/ ~connected[p] /\ ~online[p]

SearchCovers == checked => \A p \in Peers : mute[p] >= Threshold => InSearch(p)

CheckedWhenRunning == checked => state = "RUNNING"

IInv == TypeOK /\ MuteWithinAge /\ AnswersAreFresh /\ SearchCovers /\ CheckedWhenRunning

Calls == [peer : Peers, ok : BOOLEAN, adds : BOOLEAN]

---------------------------------------------------------------------------

\* The constants are numbers.
LEMMA Bounds == Threshold \in Nat /\ Threshold > 0 /\ MaxCuts \in Nat /\ MaxAnnounced \in Nat
  BY ConnectionsAssumption

\* No call has the shape of NoCall.
LEMMA CallsAreCalls ==
  ASSUME NEW p \in Peers, NEW ok \in BOOLEAN, NEW adds \in BOOLEAN
  PROVE  /\ [peer |-> p, ok |-> ok, adds |-> adds] \in Calls
         /\ [peer |-> p, ok |-> ok, adds |-> adds] # NoCall
<1>1. p # Me
  BY DEF Peers
<1> QED
  BY <1>1 DEF Calls, NoCall

\* What is sent before the first member without a Peer is sent to peers.
LEMMA SendableArePeers == Sendable \subseteq Peers
<1> SUFFICES ASSUME NEW i \in DOMAIN Order,
                    \A j \in 1..i : Order[j] # Me /\ object[Order[j]] # "none"
             PROVE  Order[i] \in Peers
  BY DEF Sendable
<1>1. DOMAIN Order = 1..Len(Order) /\ Len(Order) \in Nat
  BY ConnectionsAssumption
<1>2. i \in 1..i
  BY <1>1
<1>3. Order[i] # Me
  BY <1>2
<1> QED
  BY <1>3 DEF Peers, Range

\* A peer answers a ping or not.
LEMMA AnswerType == ASSUME TypeOK, NEW p \in Peers PROVE Answers(p) \in BOOLEAN
  BY DEF TypeOK, Answers

\* Nobody is connected and nobody missed at the start.
LEMMA InitInvariant == Init => IInv
<1> SUFFICES ASSUME Init PROVE IInv
  OBVIOUS
<1>1. TypeOK
  <2>1. state \in {"STARTING", "RUNNING", "WAITING_FOR_BOOTSTRAP"}
    BY ConnectionsAssumption DEF Init
  <2>2. /\ announced \in [Peers -> 0..MaxAnnounced]
        /\ age \in [Peers -> 0..Threshold]
        /\ mute \in [Peers -> 0..Threshold]
        /\ cuts \in 0..MaxCuts
    BY Bounds DEF Init
  <2>3. /\ object \in [Peers -> {"none", "timer", "connecting", "settled"}]
        /\ loop \in [Peers -> {"none", "ok", "failed"}]
    BY DEF Init
  <2> QED
    BY <2>1, <2>2, <2>3 DEF Init, TypeOK
<1>2. MuteWithinAge /\ AnswersAreFresh
  BY DEF Init, MuteWithinAge, AnswersAreFresh
<1>3. SearchCovers /\ CheckedWhenRunning
  BY DEF Init, SearchCovers, CheckedWhenRunning
<1> QED
  BY <1>1, <1>2, <1>3 DEF IInv

\* Every step keeps the types.
LEMMA StepType == TypeOK /\ [Next]_vars => TypeOK'
<1> SUFFICES ASSUME TypeOK, [Next]_vars PROVE TypeOK'
  OBVIOUS
<1> USE DEF flags, mainThread, peerNodes, network
<1>1. ASSUME NEW p \in Peers, PeerConnected(p) PROVE TypeOK'
  <2>1. call' = call \/ call' \in Calls
    BY <1>1, AnswerType, CallsAreCalls DEF PeerConnected, MainPings
  <2>2. object' \in [Peers -> {"none", "timer", "connecting", "settled"}]
    <3>1. object' = object \/ object' = [object EXCEPT ![p] = "timer"]
      BY <1>1 DEF PeerConnected
    <3> QED
      BY <3>1 DEF TypeOK
  <2>3. requested' \subseteq Peers
    <3>1. requested' = requested \/ requested' = requested \cup {p}
      BY <1>1 DEF PeerConnected
    <3> QED
      BY <3>1 DEF TypeOK
  <2>4. announced' \in [Peers -> 0..MaxAnnounced]
    BY <1>1, Bounds DEF PeerConnected, TypeOK
  <2> QED
    BY <1>1, <2>1, <2>2, <2>3, <2>4 DEF PeerConnected, TypeOK, Calls
<1>2. ASSUME NEW p \in Peers, ConnectTimer(p) \/ LoopPing(p) \/ LoopStore(p) PROVE TypeOK'
  BY <1>2 DEF ConnectTimer, LoopPing, LoopStore, TypeOK
<1>3. ASSUME NEW p \in Peers, PingSilent(p) PROVE TypeOK'
  <2>1. call' \in Calls
    BY <1>3, AnswerType, CallsAreCalls DEF PingSilent, MainPings
  <2> QED
    BY <1>3, <2>1 DEF PingSilent, TypeOK, Calls
<1>4. ASSUME NEW p \in Peers, Heard(p) PROVE TypeOK'
  BY <1>4, Bounds DEF Heard, TypeOK
<1>5. CASE StorePing
  <2>1. call \in Calls
    BY <1>5 DEF StorePing, TypeOK, Calls
  <2> QED
    BY <1>5, <2>1, Bounds DEF StorePing, TypeOK, Calls
<1>6. CASE RequestBootstrap
  BY <1>6, SendableArePeers DEF RequestBootstrap, TypeOK
<1>7. CASE StartUpEnds
  BY <1>7 DEF StartUpEnds, TypeOK
<1>8. CASE CheckOnPeers
  BY <1>8 DEF CheckOnPeers, TypeOK
<1>9. CASE Tick
  <2>1. age' \in [Peers -> 0..Threshold]
    BY <1>9, Bounds DEF Tick, TypeOK
  <2>2. mute' \in [Peers -> 0..Threshold]
    <3>1. \A p \in Peers : (IF mute[p] < Threshold THEN mute[p] + 1 ELSE Threshold) \in 0..Threshold
      BY Bounds DEF TypeOK
    <3>2. 0 \in 0..Threshold
      BY Bounds
    <3> QED
      BY <1>9, <3>1, <3>2 DEF Tick
  <2> QED
    BY <1>9, <2>1, <2>2 DEF Tick, TypeOK
<1>10. ASSUME NEW p \in Peers, LinkBreaks(p) \/ LinkMends(p) PROVE TypeOK'
  <2>1. CASE LinkBreaks(p)
    BY <2>1, Bounds DEF LinkBreaks, TypeOK
  <2>2. CASE LinkMends(p)
    BY <2>2, Bounds DEF LinkMends, TypeOK
  <2> QED
    BY <1>10, <2>1, <2>2
<1>11. CASE UNCHANGED vars
  BY <1>11 DEF vars, TypeOK
<1> QED
  BY <1>1, <1>2, <1>3, <1>4, <1>5, <1>6, <1>7, <1>8, <1>9, <1>10, <1>11 DEF Next
---------------------------------------------------------------------------
(* Every step keeps the invariant. *)

\* No thread but the main one stores anything of a silent peer but that its ping
\* failed.
LEMMA ThreadsKeepInvariant ==
  ASSUME IInv, NEW p \in Peers, ConnectTimer(p) \/ LoopPing(p) \/ LoopStore(p)
  PROVE  (MuteWithinAge /\ AnswersAreFresh /\ SearchCovers /\ CheckedWhenRunning)'
<1> USE DEF IInv, flags, mainThread, peerNodes, network
<1>1. UNCHANGED <<state, mainThread, peerNodes, network, mute>>
  BY DEF ConnectTimer, LoopPing, LoopStore
<1>2. AnswersAreFresh'
  BY <1>1 DEF ConnectTimer, LoopPing, LoopStore, AnswersAreFresh, TypeOK
<1>3. ASSUME NEW q \in Peers, mute[q] >= Threshold, ~connected[q] PROVE ~connected'[q]
  <2>1. mute[q] # 0
    BY <1>3, Bounds DEF TypeOK
  <2> QED
    BY <1>3, <2>1 DEF ConnectTimer, LoopPing, LoopStore, AnswersAreFresh, TypeOK
<1>4. SearchCovers'
  BY <1>1, <1>3 DEF SearchCovers, InSearch
<1> QED
  BY <1>1, <1>2, <1>4 DEF MuteWithinAge, CheckedWhenRunning

\* A ping of the main thread is stored: its peer is alive or is found out.
LEMMA StorePingKeepsInvariant ==
  ASSUME IInv, StorePing
  PROVE  (MuteWithinAge /\ AnswersAreFresh /\ SearchCovers /\ CheckedWhenRunning)'
<1> USE DEF IInv, network
<1> DEFINE p == call.peer
<1>1. /\ call \in Calls /\ p \in Peers
      /\ UNCHANGED <<state, todo, checked, mute, link>> /\ call' = NoCall
  BY DEF StorePing, TypeOK, Calls
<1>2. call.ok => mute[p] = 0
  BY DEF StorePing, AnswersAreFresh
<1>3. MuteWithinAge'
  <2> SUFFICES ASSUME NEW q \in Peers PROVE mute'[q] <= age'[q]
    BY DEF MuteWithinAge
  <2>1. age'[q] = age[q] \/ (q = p /\ call.ok /\ age'[q] = 0)
    BY <1>1 DEF StorePing, TypeOK
  <2> QED
    BY <1>1, <1>2, <2>1 DEF MuteWithinAge
<1>4. AnswersAreFresh'
  <2>1. \A q \in Peers : loop'[q] = loop[q] \/ loop'[q] = "none"
    BY <1>1 DEF StorePing, TypeOK
  <2> QED
    BY <1>1, <2>1 DEF AnswersAreFresh
<1>5. SearchCovers'
  <2> SUFFICES ASSUME checked', NEW q \in Peers, mute'[q] >= Threshold PROVE InSearch(q)'
    BY DEF SearchCovers
  <2>1. InSearch(q) /\ mute[q] # 0
    BY <1>1, Bounds DEF SearchCovers, TypeOK
  <2>2. CASE q = p
    <3>1. ~call.ok
      BY <1>2, <2>1, <2>2
    <3>2. ~connected'[q]
      BY <1>1, <2>2, <3>1 DEF StorePing, TypeOK
    <3>3. online'[q] = IF call.adds THEN online[q] ELSE call.ok
      BY <1>1, <2>2 DEF StorePing, TypeOK
    <3> QED
      BY <1>1, <2>1, <2>2, <3>1, <3>2, <3>3 DEF InSearch
  <2>3. CASE q # p
    <3>1. connected'[q] = connected[q] /\ online'[q] = online[q]
      BY <1>1, <2>3 DEF StorePing, TypeOK
    <3> QED
      BY <1>1, <2>1, <2>3, <3>1 DEF InSearch
  <2> QED
    BY <2>2, <2>3
<1> QED
  BY <1>1, <1>3, <1>4, <1>5 DEF CheckedWhenRunning

\* A unit of time ends between rounds of pings, with no answer in hand.
LEMMA TickKeepsInvariant ==
  ASSUME IInv, Tick
  PROVE  (MuteWithinAge /\ AnswersAreFresh /\ SearchCovers /\ CheckedWhenRunning)'
<1> USE DEF IInv, network, flags
<1>1. MuteWithinAge'
  <2> SUFFICES ASSUME NEW q \in Peers PROVE mute'[q] <= age'[q]
    BY DEF MuteWithinAge
  <2>1. mute[q] \in Nat /\ age[q] \in Nat /\ mute[q] <= age[q]
        /\ age[q] <= Threshold /\ link[q] \in BOOLEAN
    BY Bounds DEF TypeOK, MuteWithinAge
  <2>2. age'[q] = IF age[q] < Threshold THEN age[q] + 1 ELSE Threshold
    BY DEF Tick
  <2>3. mute'[q] = IF link[q] THEN 0
                   ELSE IF mute[q] < Threshold THEN mute[q] + 1 ELSE Threshold
    BY DEF Tick
  <2> QED
    BY <2>1, <2>2, <2>3, Bounds
<1>2. AnswersAreFresh'
  BY DEF Tick, Idle, AnswersAreFresh
<1>3. SearchCovers' /\ CheckedWhenRunning'
  BY DEF Tick, SearchCovers, CheckedWhenRunning
<1> QED
  BY <1>1, <1>2, <1>3
\* Pings of the main thread: only a reachable peer answers.
LEMMA PingsKeepInvariant ==
  ASSUME IInv, NEW p \in Peers, PeerConnected(p) \/ PingSilent(p)
  PROVE  (MuteWithinAge /\ AnswersAreFresh /\ SearchCovers /\ CheckedWhenRunning)'
<1> USE DEF IInv, network, flags, peerNodes
<1>1. UNCHANGED <<state, connected, loop, checked, online, age, link, mute>>
  BY DEF PeerConnected, PingSilent
<1>2. \/ call' = call
      \/ \E adds \in BOOLEAN : call' = [peer |-> p, ok |-> Answers(p), adds |-> adds]
  BY DEF PeerConnected, PingSilent, MainPings
<1>3. call' # NoCall /\ call'.ok => mute'[call'.peer] = 0
  <2>1. CASE call' = call
    BY <1>1, <2>1 DEF AnswersAreFresh
  <2>2. ASSUME NEW adds \in BOOLEAN,
               call' = [peer |-> p, ok |-> Answers(p), adds |-> adds], call'.ok
        PROVE  mute'[call'.peer] = 0
    <3>1. call'.peer = p /\ Answers(p)
      BY <2>2
    <3> QED
      BY <1>1, <3>1 DEF Answers, AnswersAreFresh
  <2> QED
    BY <1>2, <2>1, <2>2
<1>4. AnswersAreFresh'
  BY <1>1, <1>3 DEF AnswersAreFresh
<1>5. SearchCovers'
  <2> SUFFICES ASSUME checked', NEW q \in Peers, mute'[q] >= Threshold PROVE InSearch(q)'
    BY DEF SearchCovers
  <2>1. InSearch(q) /\ ~link[q]
    BY <1>1, Bounds DEF SearchCovers, AnswersAreFresh, TypeOK
  <2>2. CASE PeerConnected(p)
    <3>1. ~connected[q] /\ ~online[q]
      BY <2>1, <2>2 DEF PeerConnected, Idle, InSearch
    <3> QED
      BY <1>1, <3>1 DEF InSearch
  <2>3. CASE PingSilent(p)
    <3>1. /\ call = NoCall /\ todo' = todo \ {p}
          /\ call' = [peer |-> p, ok |-> Answers(p), adds |-> FALSE]
      BY <2>3 DEF PingSilent, MainPings
    <3>2. CASE q = p
      <4>1. ~Answers(p)
        BY <2>1, <3>2 DEF Answers
      <4>2. Answers(p) \in BOOLEAN
        BY AnswerType
      <4>3. call' # NoCall
        BY <3>1, <4>2, CallsAreCalls
      <4> QED
        BY <3>1, <3>2, <4>1, <4>3 DEF InSearch
    <3>3. CASE q # p
      BY <1>1, <2>1, <3>1, <3>3 DEF InSearch
    <3> QED
      BY <3>2, <3>3
  <2> QED
    BY <2>2, <2>3
<1> QED
  BY <1>1, <1>4, <1>5 DEF MuteWithinAge, CheckedWhenRunning

\* What comes from the network, and a link that breaks or mends.
LEMMA NetworkKeepsInvariant ==
  ASSUME IInv, NEW p \in Peers, Heard(p) \/ LinkBreaks(p) \/ LinkMends(p)
  PROVE  (MuteWithinAge /\ AnswersAreFresh /\ SearchCovers /\ CheckedWhenRunning)'
<1> USE DEF IInv, flags, mainThread, peerNodes, network
<1>1. UNCHANGED <<state, connected, loop, call, todo, checked>>
  BY DEF Heard, LinkBreaks, LinkMends
<1>2. \A q \in Peers : mute'[q] = mute[q] \/ mute'[q] = 0
  BY DEF Heard, LinkBreaks, LinkMends, TypeOK
<1>3. \A q \in Peers : age'[q] = age[q] \/ (age'[q] = 0 /\ mute'[q] = 0)
  BY DEF Heard, LinkBreaks, LinkMends, TypeOK
<1>4. \A q \in Peers : link'[q] => link[q] \/ mute'[q] = 0
  BY DEF Heard, LinkBreaks, LinkMends, TypeOK
<1>5. \A q \in Peers : online'[q] = online[q] \/ mute'[q] = 0
  BY DEF Heard, LinkBreaks, LinkMends, TypeOK
<1>6. MuteWithinAge'
  <2> SUFFICES ASSUME NEW q \in Peers PROVE mute'[q] <= age'[q]
    BY DEF MuteWithinAge
  <2>1. mute[q] <= age[q] /\ age[q] \in Nat
    BY Bounds DEF MuteWithinAge, TypeOK
  <2> QED
    BY <1>2, <1>3, <2>1
<1>7. AnswersAreFresh'
  <2>1. call # NoCall => call.peer \in Peers
    BY DEF TypeOK
  <2> QED
    BY <1>1, <1>2, <1>4, <2>1 DEF AnswersAreFresh
<1>8. SearchCovers'
  <2> SUFFICES ASSUME checked', NEW q \in Peers, mute'[q] >= Threshold PROVE InSearch(q)'
    BY DEF SearchCovers
  <2>1. mute'[q] # 0
    BY Bounds
  <2>2. mute'[q] = mute[q] /\ online'[q] = online[q]
    BY <1>2, <1>5, <2>1
  <2>3. InSearch(q)
    BY <1>1, <2>2 DEF SearchCovers
  <2> QED
    BY <1>1, <2>2, <2>3 DEF InSearch
<1> QED
  BY <1>1, <1>6, <1>7, <1>8 DEF CheckedWhenRunning

\* The round of pings goes to every peer that is silent.
LEMMA CheckKeepsInvariant ==
  ASSUME IInv, CheckOnPeers
  PROVE  (MuteWithinAge /\ AnswersAreFresh /\ SearchCovers /\ CheckedWhenRunning)'
<1> USE DEF IInv, flags, peerNodes, network
<1>1. \A q \in Peers : mute[q] >= Threshold => q \in todo'
  <2> SUFFICES ASSUME NEW q \in Peers, mute[q] >= Threshold PROVE age[q] >= Threshold
    BY DEF CheckOnPeers
  <2>1. mute[q] \in Nat /\ age[q] \in Nat /\ mute[q] <= age[q]
    BY Bounds DEF TypeOK, MuteWithinAge
  <2> QED
    BY <2>1, Bounds
<1> QED
  BY <1>1 DEF CheckOnPeers, MuteWithinAge, AnswersAreFresh, SearchCovers, InSearch,
              CheckedWhenRunning

\* The invariant is inductive, action by action.
LEMMA StepInvariant == IInv /\ [Next]_vars => IInv'
<1> SUFFICES ASSUME IInv, [Next]_vars
             PROVE  (MuteWithinAge /\ AnswersAreFresh /\ SearchCovers /\ CheckedWhenRunning)'
  BY StepType DEF IInv
<1> USE DEF flags, mainThread, peerNodes, network
<1>1. CASE RequestBootstrap \/ UNCHANGED vars
  BY <1>1 DEF IInv, RequestBootstrap, vars, MuteWithinAge, AnswersAreFresh, SearchCovers,
              InSearch, CheckedWhenRunning
<1>2. CASE StartUpEnds
  BY <1>2 DEF IInv, StartUpEnds, MuteWithinAge, AnswersAreFresh, SearchCovers, InSearch,
              CheckedWhenRunning
<1> QED
  BY <1>1, <1>2, ThreadsKeepInvariant, StorePingKeepsInvariant, TickKeepsInvariant,
     PingsKeepInvariant, NetworkKeepsInvariant, CheckKeepsInvariant DEF Next

\* The inductive invariant: whatever a thread still has to store of a peer that has
\* fallen silent is that its ping failed.
THEOREM ConnectionsInvariant == Spec => []IInv
  BY InitInvariant, StepInvariant, PTL DEF Spec

---------------------------------------------------------------------------
(* The theorems *)

\* The connections stay of their types: in particular the node never pings itself,
\* whose Peer does not exist, and pings one peer at a time.
THEOREM TypeCorrect == Spec => []TypeOK
<1>1. IInv => TypeOK
  BY DEF IInv
<1> QED
  BY <1>1, ConnectionsInvariant, PTL

\* After each round of pings the peers that were silent for the threshold are
\* neither connected nor online (check_on_peers, and the thread of Peer.connect that
\* writes the same flag).
THEOREM SilentFoundOut == Spec => []SilenceIsNoticed
<1>1. IInv => SilenceIsNoticed
  BY DEF IInv, SearchCovers, InSearch, Idle, SilenceIsNoticed
<1> QED
  BY <1>1, ConnectionsInvariant, PTL

=============================================================================
