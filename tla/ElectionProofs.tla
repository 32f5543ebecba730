--------------------------- MODULE ElectionProofs ---------------------------
(***************************************************************************)
(* The theorems about Election, for any number of nodes, any tally and any *)
(* links.  Ballots and reports are never taken back, so what was true of   *)
(* a ballot or a result when it was sent is true when it arrives.          *)
(***************************************************************************)
EXTENDS Election, FiniteSetTheorems, SequenceTheorems, TLAPS

USE ElectionAssumption

\* In these operators b stands for ballots and r for reported, now or later.

\* The voters are a quorum of members that have voted in the election of e.
VotedQuorum(b, e, voters) ==
  /\ voters \subseteq Nodes /\ Cardinality(voters) >= NumSlots
  /\ \A v \in voters : v \in b[v][e]

\* p has reported list as the result of e.
Backs(r, p, e, list) == \E voters \in r[p][e] : Tally(voters) = list

\* What s says in msg is so.
True(b, r, s, msg) ==
  /\ msg.type = "VOTE" => s \in b[s][msg.epoch]
  /\ msg.type = "VOTE_RESULT" => Backs(r, s, msg.epoch, msg.list)

TrueMessages(ch, b, r) ==
  \A link \in Links : \A i \in DOMAIN ch[link] : True(b, r, link[1], ch[link][i])

ListsOf(D) == UNION { [K -> Lists] : K \in SUBSET D }

Types ==
  /\ number \in [Nodes -> 0..MaxEpoch]
  /\ idx \in [Nodes -> 0..SlotsPerEpoch]
  /\ state \in [Nodes -> {"IDLE", "ELECTION", "PRODUCTION"}]
  /\ ballots \in [Nodes -> [Epochs -> SUBSET Nodes]]
  /\ results \in [Nodes -> [Epochs -> ListsOf(Nodes)]]
  /\ elected \in [Nodes -> ListsOf(Epochs)]
  /\ timer \in [Nodes -> 0..MaxEpoch]
  /\ late \in [Nodes -> {NoResult} \cup
               [epoch : Epochs, voters : SUBSET Nodes, stored : BOOLEAN]]
  /\ started \in [Nodes -> BOOLEAN]
  /\ conn \in [Nodes -> SUBSET Nodes]
  /\ cut \in SUBSET Links
  /\ cuts \in 0..MaxCuts
  /\ chan \in [Links -> Seq(Messages)]
  /\ reported \in [Nodes -> [Epochs -> SUBSET SUBSET Nodes]]

BallotsCast == \A n \in Nodes, e \in Epochs : \A v \in ballots[n][e] : v \in ballots[v][e]

ReportsFromQuorums ==
  \A n \in Nodes, e \in Epochs : \A voters \in reported[n][e] : VotedQuorum(ballots, e, voters)

TimersFromQuorums ==
  \A n \in Nodes :
    /\ timer[n] # 0 => Cardinality(ballots[n][timer[n]]) >= NumSlots
    /\ late[n] # NoResult =>
         /\ VotedQuorum(ballots, late[n].epoch, late[n].voters)
         /\ late[n].stored => late[n].voters \in reported[n][late[n].epoch]

ResultsBacked ==
  \A n \in Nodes, e \in Epochs : \A p \in DOMAIN results[n][e] :
    Backs(reported, p, e, results[n][e][p])

\* What the nodes that count for n back.
AgreedBy(r, e, list) ==
  \E quorum \in SUBSET Nodes :
    /\ Cardinality(quorum) >= IF e = 1 THEN 1 ELSE NumSlots
    /\ \A p \in quorum : Backs(r, p, e, list)

ElectedAgreed ==
  \A n \in Nodes : \A e \in DOMAIN elected[n] : AgreedBy(reported, e, elected[n][e])

IInv ==
  /\ Types
  /\ BallotsCast /\ ReportsFromQuorums /\ TimersFromQuorums
  /\ TrueMessages(chan, ballots, reported) /\ ResultsBacked /\ ElectedAgreed

---------------------------------------------------------------------------
(* Ballots and reports are never taken back *)

BallotsGrow == \A n \in Nodes, e \in Epochs : ballots[n][e] \subseteq ballots'[n][e]

ReportsGrow == \A n \in Nodes, e \in Epochs : reported[n][e] \subseteq reported'[n][e]

\* What ballots and reports are behind stays so when there are more of them.
LEMMA StaysTrue ==
  ASSUME BallotsGrow, ReportsGrow
  PROVE  /\ \A e \in Epochs : \A voters : VotedQuorum(ballots, e, voters) =>
              VotedQuorum(ballots', e, voters)
         /\ \A p \in Nodes, e \in Epochs : \A list :
              Backs(reported, p, e, list) => Backs(reported', p, e, list)
         /\ \A e \in Epochs : \A list : AgreedBy(reported, e, list) => AgreedBy(reported', e, list)
         /\ \A s \in Nodes, msg \in Messages :
              True(ballots, reported, s, msg) => True(ballots', reported', s, msg)
<1>1. \A e \in Epochs : \A voters : VotedQuorum(ballots, e, voters) =>
        VotedQuorum(ballots', e, voters)
  BY DEF VotedQuorum, BallotsGrow
<1>2. \A p \in Nodes, e \in Epochs : \A list :
        Backs(reported, p, e, list) => Backs(reported', p, e, list)
  BY DEF Backs, ReportsGrow
<1>3. \A e \in Epochs : \A list : AgreedBy(reported, e, list) => AgreedBy(reported', e, list)
  BY <1>2 DEF AgreedBy
<1>4. \A msg \in Messages : msg.epoch \in Epochs
  BY DEF Messages, Vote, VoteResult
<1>5. \A s \in Nodes, msg \in Messages :
        True(ballots, reported, s, msg) => True(ballots', reported', s, msg)
  BY <1>2, <1>4 DEF True, BallotsGrow
<1> QED
  BY <1>1, <1>2, <1>3, <1>5

\* The parts of the invariant whose own variables do not change.
LEMMA GrowthKeeps ==
  ASSUME IInv, BallotsGrow, ReportsGrow
  PROVE  /\ UNCHANGED chan => TrueMessages(chan', ballots', reported')
         /\ TrueMessages(chan, ballots', reported')
         /\ UNCHANGED results => ResultsBacked'
         /\ UNCHANGED elected => ElectedAgreed'
         /\ UNCHANGED reported => ReportsFromQuorums'
         /\ \A n \in Nodes, e \in Epochs : \A p \in DOMAIN results[n][e] :
              Backs(reported', p, e, results[n][e][p])
         /\ \A n \in Nodes : \A e \in DOMAIN elected[n] : AgreedBy(reported', e, elected[n][e])
         /\ \A n \in Nodes : late[n] # NoResult =>
              /\ VotedQuorum(ballots', late[n].epoch, late[n].voters)
              /\ late[n].stored => late[n].voters \in reported'[n][late[n].epoch]
<1> USE DEF IInv
<1>1. TrueMessages(chan, ballots', reported')
  <2> SUFFICES ASSUME NEW link \in Links, NEW i \in DOMAIN chan[link]
               PROVE  True(ballots', reported', link[1], chan[link][i])
    BY DEF TrueMessages
  <2>1. link[1] \in Nodes
    BY DEF Links
  <2>2. chan[link] \in Seq(Messages)
    BY DEF Types
  <2>3. chan[link][i] \in Messages
    BY <2>2, LenProperties, ElementOfSeq
  <2>4. True(ballots, reported, link[1], chan[link][i])
    BY DEF TrueMessages
  <2> QED
    BY <2>1, <2>3, <2>4, StaysTrue
<1>2. \A n \in Nodes, e \in Epochs : \A p \in DOMAIN results[n][e] :
        Backs(reported', p, e, results[n][e][p])
  <2> SUFFICES ASSUME NEW n \in Nodes, NEW e \in Epochs, NEW p \in DOMAIN results[n][e]
               PROVE  Backs(reported', p, e, results[n][e][p])
    OBVIOUS
  <2>1. p \in Nodes
    BY DEF Types, ListsOf
  <2> QED
    BY <2>1, StaysTrue DEF ResultsBacked
<1>3. \A n \in Nodes : \A e \in DOMAIN elected[n] : AgreedBy(reported', e, elected[n][e])
  <2> SUFFICES ASSUME NEW n \in Nodes, NEW e \in DOMAIN elected[n]
               PROVE  AgreedBy(reported', e, elected[n][e])
    OBVIOUS
  <2>1. e \in Epochs
    BY DEF Types, ListsOf
  <2> QED
    BY <2>1, StaysTrue DEF ElectedAgreed
<1>4. \A n \in Nodes : late[n] # NoResult =>
        /\ VotedQuorum(ballots', late[n].epoch, late[n].voters)
        /\ late[n].stored => late[n].voters \in reported'[n][late[n].epoch]
  <2> SUFFICES ASSUME NEW n \in Nodes, late[n] # NoResult
               PROVE  /\ VotedQuorum(ballots', late[n].epoch, late[n].voters)
                      /\ late[n].stored => late[n].voters \in reported'[n][late[n].epoch]
    OBVIOUS
  <2>1. late[n].epoch \in Epochs
    BY DEF Types
  <2> QED
    BY <2>1, StaysTrue DEF TimersFromQuorums, ReportsGrow
<1>5. UNCHANGED reported => ReportsFromQuorums'
  BY StaysTrue DEF ReportsFromQuorums
<1> QED
  BY <1>1, <1>2, <1>3, <1>4, <1>5 DEF ResultsBacked, ElectedAgreed

---------------------------------------------------------------------------
(* Messages *)

\* The messages and what they carry.
LEMMA MessageFields ==
  /\ \A msg \in Messages : msg.epoch \in Epochs
  /\ \A msg \in Messages : msg.type = "VOTE_RESULT" => msg.list \in Lists
  /\ \A e \in Epochs, voters \in SUBSET Nodes :
       /\ VoteResult(e, Tally(voters)) \in Messages
       /\ VoteResult(e, Tally(voters)).type = "VOTE_RESULT"
       /\ VoteResult(e, Tally(voters)).epoch = e
       /\ VoteResult(e, Tally(voters)).list = Tally(voters)
<1>1. \A msg \in Messages :
        \/ \E e \in Epochs : msg = Vote(e)
        \/ \E e \in Epochs, l \in Lists : msg = VoteResult(e, l)
  BY DEF Messages
<1>2. \A e : Vote(e).epoch = e /\ Vote(e).type # "VOTE_RESULT"
  BY DEF Vote
<1>3. \A e, l : /\ VoteResult(e, l).epoch = e /\ VoteResult(e, l).list = l
                /\ VoteResult(e, l).type = "VOTE_RESULT"
  BY DEF VoteResult
<1>4. \A msg \in Messages :
        msg.epoch \in Epochs /\ (msg.type = "VOTE_RESULT" => msg.list \in Lists)
  BY <1>1, <1>2, <1>3
<1>5. \A e \in Epochs, l \in Lists : VoteResult(e, l) \in Messages
  BY DEF Messages
<1>6. \A voters \in SUBSET Nodes : Tally(voters) \in Lists
  BY DEF Lists
<1> QED
  BY <1>3, <1>4, <1>5, <1>6

\* A true message may be broadcast.
LEMMA BroadcastTrue ==
  ASSUME NEW ch \in [Links -> Seq(Messages)], NEW b, NEW r, TrueMessages(ch, b, r),
         NEW n \in Nodes, NEW msg \in Messages, True(b, r, n, msg)
  PROVE  /\ Broadcast(ch, n, msg) \in [Links -> Seq(Messages)]
         /\ TrueMessages(Broadcast(ch, n, msg), b, r)
<1> DEFINE sent == Broadcast(ch, n, msg)
<1>1. \A link \in Links :
        \/ sent[link] = ch[link]
        \/ link[1] = n /\ sent[link] = Append(ch[link], msg)
  BY DEF Broadcast
<1>2. ASSUME NEW link \in Links
      PROVE  /\ sent[link] \in Seq(Messages)
             /\ \A i \in DOMAIN sent[link] : True(b, r, link[1], sent[link][i])
  <2>1. CASE sent[link] = ch[link]
    BY <2>1 DEF TrueMessages
  <2>2. CASE link[1] = n /\ sent[link] = Append(ch[link], msg)
    <3>1. /\ ch[link] \in Seq(Messages) /\ Len(ch[link]) \in Nat
          /\ DOMAIN ch[link] = 1 .. Len(ch[link])
          /\ sent[link] \in Seq(Messages)
          /\ DOMAIN sent[link] = 1 .. Len(ch[link]) + 1
          /\ \A i \in 1 .. Len(ch[link]) : sent[link][i] = ch[link][i]
          /\ sent[link][Len(ch[link]) + 1] = msg
      BY <2>2, AppendProperties, LenProperties
    <3> QED
      BY <2>2, <3>1 DEF TrueMessages
  <2> QED
    BY <1>1, <2>1, <2>2
<1>3. sent = [link \in Links |-> sent[link]]
  BY DEF Broadcast
<1> HIDE DEF sent
<1>4. sent \in [Links -> Seq(Messages)]
  BY <1>2, <1>3
<1> QED
  BY <1>2, <1>4 DEF sent, TrueMessages

\* What comes off a link is true, and so is what is left there.
LEMMA ReceivedTrue ==
  ASSUME Types, NEW b, NEW r, TrueMessages(chan, b, r),
         NEW s \in Nodes, NEW n \in Nodes, <<s, n>> \in Links, chan[<<s, n>>] # <<>>
  PROVE  /\ Received(s, n) \in [Links -> Seq(Messages)]
         /\ TrueMessages(Received(s, n), b, r)
         /\ Head(chan[<<s, n>>]) \in Messages
         /\ True(b, r, s, Head(chan[<<s, n>>]))
<1> DEFINE queue == chan[<<s, n>>]
<1>1. chan \in [Links -> Seq(Messages)] /\ queue \in Seq(Messages) /\ queue # <<>>
  BY DEF Types
<1>3. \A i \in DOMAIN queue : True(b, r, s, queue[i])
  BY DEF TrueMessages
<1> HIDE DEF queue
<1>2. /\ Head(queue) \in Messages /\ Tail(queue) \in Seq(Messages)
      /\ 1 \in DOMAIN queue /\ Head(queue) = queue[1]
      /\ \A i \in DOMAIN Tail(queue) :
           i + 1 \in DOMAIN queue /\ Tail(queue)[i] = queue[i + 1]
  BY <1>1, HeadTailProperties, LenProperties, EmptySeq
<1>4. Received(s, n) = [chan EXCEPT ![<<s, n>>] = Tail(queue)]
  BY DEF Received, queue
<1>5. Received(s, n) \in [Links -> Seq(Messages)]
  BY <1>1, <1>2, <1>4
<1>6. TrueMessages(Received(s, n), b, r)
  <2> SUFFICES ASSUME NEW link \in Links, NEW i \in DOMAIN Received(s, n)[link]
               PROVE  True(b, r, link[1], Received(s, n)[link][i])
    BY DEF TrueMessages
  <2>1. CASE link = <<s, n>>
    <3>1. Received(s, n)[link] = Tail(queue) /\ link[1] = s
      BY <1>1, <1>4, <2>1
    <3> QED
      BY <1>2, <1>3, <3>1
  <2>2. CASE link # <<s, n>>
    BY <1>1, <1>4, <2>2 DEF TrueMessages
  <2> QED
    BY <2>1, <2>2
<1> QED
  BY <1>2, <1>3, <1>5, <1>6 DEF queue

---------------------------------------------------------------------------
(* Counting *)

\* consensus_amount is NumSlots at least, whoever is online.
LEMMA AmountIsQuorum ==
  ASSUME NEW online \in Nat
  PROVE  ConsensusAmount(online) \in Nat /\ ConsensusAmount(online) >= NumSlots
BY DEF ConsensusAmount

\* A node counts itself among the online.
LEMMA OnlineIsPositive ==
  ASSUME Types, NEW n \in Nodes
  PROVE  Online(n) \in Nat /\ Online(n) >= 1
<1>1. IsFiniteSet(conn[n])
  BY FS_Subset DEF Types
<1> QED
  BY <1>1, FS_CardinalityType DEF Online

\* More voters are not fewer.
LEMMA VotersCounted ==
  ASSUME NEW small \in SUBSET Nodes, NEW large \in SUBSET Nodes, small \subseteq large
  PROVE  /\ Cardinality(small) \in Nat /\ Cardinality(large) \in Nat
         /\ Cardinality(small) <= Cardinality(large)
BY FS_Subset, FS_CardinalityType

\* A timer that is set has its quorum as long as ballots only come.
LEMMA TimersStay ==
  ASSUME IInv, Types', BallotsGrow, ReportsGrow
  PROVE  /\ \A n \in Nodes : timer[n] # 0 => Cardinality(ballots'[n][timer[n]]) >= NumSlots
         /\ UNCHANGED <<timer, late>> => TimersFromQuorums'
<1>1. \A n \in Nodes : timer[n] # 0 => Cardinality(ballots'[n][timer[n]]) >= NumSlots
  <2> SUFFICES ASSUME NEW n \in Nodes, timer[n] # 0
               PROVE  Cardinality(ballots'[n][timer[n]]) >= NumSlots
    OBVIOUS
  <2>1. timer[n] \in Epochs
    BY DEF IInv, Types, Epochs
  <2>2. /\ ballots[n][timer[n]] \in SUBSET Nodes /\ ballots'[n][timer[n]] \in SUBSET Nodes
        /\ ballots[n][timer[n]] \subseteq ballots'[n][timer[n]]
    BY <2>1 DEF IInv, Types, BallotsGrow
  <2>3. Cardinality(ballots[n][timer[n]]) >= NumSlots
    BY DEF IInv, TimersFromQuorums
  <2>4. /\ Cardinality(ballots[n][timer[n]]) \in Nat
        /\ Cardinality(ballots'[n][timer[n]]) \in Nat
        /\ Cardinality(ballots[n][timer[n]]) <= Cardinality(ballots'[n][timer[n]])
    BY <2>2, VotersCounted
  <2> QED
    BY <2>3, <2>4
<1>2. ASSUME UNCHANGED <<timer, late>>
      PROVE  TimersFromQuorums'
  <2>1. \A n \in Nodes : timer'[n] # 0 => Cardinality(ballots'[n][timer'[n]]) >= NumSlots
    BY <1>1, <1>2
  <2>2. \A n \in Nodes : late'[n] # NoResult =>
          /\ VotedQuorum(ballots', late'[n].epoch, late'[n].voters)
          /\ late'[n].stored => late'[n].voters \in reported'[n][late'[n].epoch]
    BY <1>2, GrowthKeeps
  <2> QED
    BY <2>1, <2>2 DEF TimersFromQuorums
<1> QED
  BY <1>1, <1>2

\* A result that is stored is reported by a quorum from then on.
LEMMA StoreResultKeeps ==
  ASSUME IInv, BallotsGrow, NEW n \in Nodes, NEW e \in Epochs,
         NEW voters \in SUBSET Nodes, VotedQuorum(ballots', e, voters),
         StoreResult(n, e, voters)
  PROVE  /\ results' \in [Nodes -> [Epochs -> ListsOf(Nodes)]]
         /\ reported' \in [Nodes -> [Epochs -> SUBSET SUBSET Nodes]]
         /\ voters \in reported'[n][e]
         /\ ReportsGrow /\ ReportsFromQuorums' /\ ResultsBacked'
<1> USE DEF IInv
<1> DEFINE res == [p \in DOMAIN results[n][e] \cup {n} |->
                     IF p = n THEN Tally(voters) ELSE results[n][e][p]]
<1>1. /\ results \in [Nodes -> [Epochs -> ListsOf(Nodes)]]
      /\ reported \in [Nodes -> [Epochs -> SUBSET SUBSET Nodes]]
  BY DEF Types
<1>2. results' = [results EXCEPT ![n] = [results[n] EXCEPT ![e] = res]]
  BY <1>1 DEF StoreResult
<1>3. reported' = [reported EXCEPT ![n] = [reported[n] EXCEPT ![e] = reported[n][e] \cup {voters}]]
  BY <1>1 DEF StoreResult
<1>4. res \in ListsOf(Nodes)
  <2>1. results[n][e] \in ListsOf(Nodes)
    BY <1>1
  <2>2. PICK K \in SUBSET Nodes : results[n][e] \in [K -> Lists]
    BY <2>1 DEF ListsOf
  <2>3. Tally(voters) \in Lists
    BY DEF Lists
  <2>5. DOMAIN results[n][e] = K
    BY <2>2
  <2>4. res \in [K \cup {n} -> Lists]
    BY <2>2, <2>3, <2>5
  <2>6. K \cup {n} \in SUBSET Nodes
    BY <2>2
  <2> HIDE DEF res
  <2> QED
    BY <2>4, <2>6 DEF ListsOf
<1>5. /\ DOMAIN res = DOMAIN results[n][e] \cup {n}
      /\ \A p \in DOMAIN res : res[p] = IF p = n THEN Tally(voters) ELSE results[n][e][p]
  OBVIOUS
<1> HIDE DEF res
<1>6. results' \in [Nodes -> [Epochs -> ListsOf(Nodes)]]
  BY <1>1, <1>2, <1>4
<1>7. /\ reported' \in [Nodes -> [Epochs -> SUBSET SUBSET Nodes]]
      /\ voters \in reported'[n][e]
      /\ \A m \in Nodes, f \in Epochs :
           reported'[m][f] = reported[m][f] \cup IF m = n /\ f = e THEN {voters} ELSE {}
  BY <1>1, <1>3
<1>8. ReportsGrow
  BY <1>7 DEF ReportsGrow
<1>9. ReportsFromQuorums'
  <2> SUFFICES ASSUME NEW m \in Nodes, NEW f \in Epochs, NEW w \in reported'[m][f]
               PROVE  VotedQuorum(ballots', f, w)
    BY DEF ReportsFromQuorums
  <2>1. CASE w \in reported[m][f]
    BY <1>8, <2>1, StaysTrue DEF ReportsFromQuorums
  <2>2. CASE m = n /\ f = e /\ w = voters
    BY <2>2
  <2> QED
    BY <1>7, <2>1, <2>2
<1>10. ResultsBacked'
  <2> SUFFICES ASSUME NEW m \in Nodes, NEW f \in Epochs, NEW p \in DOMAIN results'[m][f]
               PROVE  Backs(reported', p, f, results'[m][f][p])
    BY DEF ResultsBacked
  <2>1. CASE m = n /\ f = e
    <3>1. results'[m][f] = res
      BY <1>1, <1>2, <2>1
    <3>2. CASE p = n
      BY <1>5, <1>7, <2>1, <3>1, <3>2 DEF Backs
    <3>3. CASE p # n
      <4>1. p \in DOMAIN results[n][e] /\ res[p] = results[n][e][p]
        BY <1>5, <3>1, <3>3
      <4> QED
        BY <1>8, <2>1, <3>1, <4>1, GrowthKeeps
    <3> QED
      BY <3>2, <3>3
  <2>2. CASE ~(m = n /\ f = e)
    <3>1. results'[m][f] = results[m][f]
      BY <1>1, <1>2, <2>2
    <3> QED
      BY <1>8, <3>1, GrowthKeeps
  <2> QED
    BY <2>1, <2>2
<1> QED
  BY <1>6, <1>7, <1>8, <1>9, <1>10

---------------------------------------------------------------------------
(* The steps *)

\* Nothing is cast or sent at the start.
LEMMA InitInvariant == Init => IInv
<1> SUFFICES ASSUME Init
             PROVE  IInv
  OBVIOUS
<1> USE DEF Init
<1>1. Types
  <2>1. /\ number \in [Nodes -> 0..MaxEpoch] /\ idx \in [Nodes -> 0..SlotsPerEpoch]
        /\ timer \in [Nodes -> 0..MaxEpoch] /\ cuts \in 0..MaxCuts
    OBVIOUS
  <2>2. \A D : <<>> \in ListsOf(D)
    <3>1. \A D : <<>> \in [{} -> Lists] /\ {} \in SUBSET D
      OBVIOUS
    <3> QED
      BY <3>1 DEF ListsOf
  <2>3. /\ results \in [Nodes -> [Epochs -> ListsOf(Nodes)]]
        /\ elected \in [Nodes -> ListsOf(Epochs)]
    BY <2>2
  <2>4. /\ state \in [Nodes -> {"IDLE", "ELECTION", "PRODUCTION"}]
        /\ ballots \in [Nodes -> [Epochs -> SUBSET Nodes]]
        /\ late \in [Nodes -> {NoResult} \cup
                     [epoch : Epochs, voters : SUBSET Nodes, stored : BOOLEAN]]
        /\ started \in [Nodes -> BOOLEAN]
        /\ conn \in [Nodes -> SUBSET Nodes] /\ cut \in SUBSET Links
        /\ reported \in [Nodes -> [Epochs -> SUBSET SUBSET Nodes]]
    OBVIOUS
  <2>5. chan \in [Links -> Seq(Messages)]
    <3>1. <<>> \in Seq(Messages)
      OBVIOUS
    <3> QED
      BY <3>1
  <2> QED
    BY <2>1, <2>3, <2>4, <2>5 DEF Types
<1>2. BallotsCast /\ ReportsFromQuorums /\ TimersFromQuorums
  BY DEF BallotsCast, ReportsFromQuorums, TimersFromQuorums
<1>3. TrueMessages(chan, ballots, reported) /\ ResultsBacked /\ ElectedAgreed
  BY DEF TrueMessages, ResultsBacked, ElectedAgreed
<1> QED
  BY <1>1, <1>2, <1>3 DEF IInv

\* Steps that leave ballots, reports, results, timers and messages alone.
LEMMA OthersKeep ==
  ASSUME IInv, Types', UNCHANGED <<ballots, results, elected, timer, late, chan, reported>>
  PROVE  IInv'
BY DEF IInv, BallotsCast, ReportsFromQuorums, TimersFromQuorums, ResultsBacked, ElectedAgreed

\* A step that sends and stores nothing.
LEMMA LocalStepKeeps ==
  ASSUME IInv, NEW n \in Nodes, NextSlot(n) \/ StartUpEnds(n)
  PROVE  IInv'
<1>1. Types
  BY DEF IInv
<1>2. UNCHANGED <<ballots, results, elected, timer, late, chan, reported, conn, cut, cuts>>
  BY DEF NextSlot, StartUpEnds, nodeVars, voteVars, timerVars, linkVars
<1>3. Types'
  <2>1. CASE NextSlot(n)
    <3>1. idx[n] \in 0 .. SlotsPerEpoch /\ UNCHANGED started
      BY <2>1, <1>1 DEF NextSlot, Types
    <3>2. \/ idx' = [idx EXCEPT ![n] = 0]
          \/ idx[n] < SlotsPerEpoch /\ idx' = [idx EXCEPT ![n] = @ + 1]
      BY <2>1, <3>1 DEF NextSlot, BeginEpoch, IsOver
    <3>3. idx' \in [Nodes -> 0 .. SlotsPerEpoch]
      BY <1>1, <3>1, <3>2 DEF Types
    <3>4. number' = number \/ (NextEpoch(n) \in Epochs /\ number' = [number EXCEPT ![n] = NextEpoch(n)])
      BY <2>1 DEF NextSlot, BeginEpoch
    <3>5. number' \in [Nodes -> 0 .. MaxEpoch]
      <4>1. Epochs \subseteq 0 .. MaxEpoch
        BY DEF Epochs
      <4>2. number \in [Nodes -> 0 .. MaxEpoch]
        BY <1>1 DEF Types
      <4> QED
        BY <3>4, <4>1, <4>2
    <3>6. state' \in [Nodes -> {"IDLE", "ELECTION", "PRODUCTION"}]
      BY <1>1, <2>1 DEF NextSlot, BeginEpoch, Types
    <3> QED
      BY <1>1, <1>2, <3>1, <3>3, <3>5, <3>6 DEF Types
  <2>2. CASE StartUpEnds(n)
    <3>1. started' \in [Nodes -> BOOLEAN]
      BY <1>1, <2>2 DEF StartUpEnds, Types
    <3> QED
      BY <1>1, <1>2, <2>2, <3>1 DEF StartUpEnds, nodeVars, Types
  <2> QED
    BY <2>1, <2>2
<1> QED
  BY <1>2, <1>3, OthersKeep

\* Links that come up and break.
LEMMA LinkStepKeeps ==
  ASSUME IInv, NEW link \in Links,
         \/ Connect(link[1], link[2]) \/ Disconnect(link[1], link[2])
         \/ LinkBreaks(link) \/ LinkMends(link)
  PROVE  IInv'
<1>1. Types /\ link[1] \in Nodes /\ link[2] \in Nodes
  BY DEF IInv, Links
<1>2. UNCHANGED <<number, idx, state, elected, ballots, results, reported, timer, late,
                  started, chan>>
  BY DEF Connect, Disconnect, LinkBreaks, LinkMends, nodeVars, voteVars, timerVars
<1>3. conn' \in [Nodes -> SUBSET Nodes]
  <2>1. \/ conn' = conn
        \/ conn' = [conn EXCEPT ![link[1]] = conn[link[1]] \cup {link[2]}]
        \/ conn' = [conn EXCEPT ![link[1]] = conn[link[1]] \ {link[2]}]
    BY DEF Connect, Disconnect, LinkBreaks, LinkMends
  <2>2. conn \in [Nodes -> SUBSET Nodes]
    BY <1>1 DEF Types
  <2> QED
    BY <1>1, <2>1, <2>2
<1>4. cut' \in SUBSET Links /\ cuts' \in 0 .. MaxCuts
  BY <1>1 DEF Types, Connect, Disconnect, LinkBreaks, LinkMends
<1>5. Types'
  BY <1>1, <1>2, <1>3, <1>4 DEF Types
<1> QED
  BY <1>2, <1>5, OthersKeep

\* vote and rebroadcast: the ballot sent was cast.
LEMMA CastVoteKeeps ==
  ASSUME IInv, NEW n \in Nodes, CastVote(n) \/ Rebroadcast(n)
  PROVE  IInv'
<1> USE DEF IInv
<1> DEFINE e == NextEpoch(n)
<1>1. /\ UNCHANGED <<number, idx, elected, results, reported, timer, late, started,
                     conn, cut, cuts>>
      /\ chan' = Broadcast(chan, n, Vote(e))
  BY DEF CastVote, Rebroadcast, nodeVars, voteVars, timerVars, linkVars
<1>2. /\ state' \in [Nodes -> {"IDLE", "ELECTION", "PRODUCTION"}]
      /\ ballots \in [Nodes -> [Epochs -> SUBSET Nodes]] 
  <2>1. state \in [Nodes -> {"IDLE", "ELECTION", "PRODUCTION"}]
    BY DEF Types
  <2>2. state' = state \/ state' = [state EXCEPT ![n] = "ELECTION"]
    BY DEF CastVote, Rebroadcast, nodeVars
  <2> QED
    BY <2>1, <2>2 DEF Types
<1>3. /\ e \in Epochs
      /\ ballots' \in [Nodes -> [Epochs -> SUBSET Nodes]]
      /\ n \in ballots'[n][e]
      /\ \A m \in Nodes, f \in Epochs : /\ ballots[m][f] \subseteq ballots'[m][f]
                                        /\ ballots'[m][f] \subseteq ballots[m][f] \cup
                                             IF m = n /\ f = e THEN {n} ELSE {}
  <2>1. CASE CastVote(n)
    <3>1. e \in Epochs
      BY <2>1 DEF CastVote, ShouldVote
    <3>2. ballots' = [ballots EXCEPT ![n] = [ballots[n] EXCEPT ![e] = ballots[n][e] \cup {n}]]
      BY <1>2, <2>1 DEF CastVote
    <3> HIDE DEF e
    <3> QED
      BY <1>2, <3>1, <3>2
  <2>2. CASE Rebroadcast(n)
    <3>1. UNCHANGED ballots /\ n \in ballots[n][e]
      BY <2>2 DEF Rebroadcast, voteVars
    <3>2. e \in Epochs
      BY <2>2 DEF Rebroadcast
    <3> HIDE DEF e
    <3> QED
      BY <1>2, <3>1, <3>2
  <2> QED
    BY <2>1, <2>2
<1>4. BallotsGrow /\ ReportsGrow
  BY <1>1, <1>3 DEF BallotsGrow, ReportsGrow
<1>5. BallotsCast'
  BY <1>3 DEF BallotsCast
<1>6. Vote(e) \in Messages /\ True(ballots', reported', n, Vote(e))
  BY <1>3 DEF Messages, Vote, True
<1>7. /\ chan' \in [Links -> Seq(Messages)]
      /\ TrueMessages(chan', ballots', reported')
  <2>1. TrueMessages(chan, ballots', reported')
    BY <1>4, GrowthKeeps
  <2>2. chan \in [Links -> Seq(Messages)]
    BY DEF Types
  <2> QED
    BY <1>1, <1>6, <2>1, <2>2, BroadcastTrue
<1>8. Types'
  BY <1>1, <1>2, <1>3, <1>7 DEF Types
<1> QED
  BY <1>1, <1>4, <1>5, <1>7, <1>8, GrowthKeeps, TimersStay

\* The timer thread takes the ballots of a quorum.
LEMMA TimerFiresKeeps ==
  ASSUME IInv, NEW n \in Nodes, TimerFires(n)
  PROVE  IInv'
<1> USE DEF IInv
<1> DEFINE fired == [epoch |-> timer[n], voters |-> ballots[n][timer[n]], stored |-> FALSE]
<1>1. UNCHANGED <<number, idx, state, elected, ballots, results, reported, started,
                  conn, cut, cuts, chan>>
  BY DEF TimerFires, nodeVars, voteVars, linkVars
<1>2. /\ timer[n] # 0 /\ timer[n] \in Epochs
      /\ late' = [late EXCEPT ![n] = fired] /\ timer' = [timer EXCEPT ![n] = 0]
  BY DEF TimerFires, Types, Epochs
<1>3. VotedQuorum(ballots, timer[n], ballots[n][timer[n]])
  BY <1>2 DEF VotedQuorum, TimersFromQuorums, BallotsCast, Types
<1>4. Types'
  <2>1. timer' \in [Nodes -> 0..MaxEpoch]
    BY <1>2 DEF Types
  <2>2. fired \in [epoch : Epochs, voters : SUBSET Nodes, stored : BOOLEAN]
    BY <1>2 DEF Types
  <2> HIDE DEF fired
  <2>3. late' \in [Nodes -> {NoResult} \cup
                   [epoch : Epochs, voters : SUBSET Nodes, stored : BOOLEAN]]
    BY <1>2, <2>2 DEF Types
  <2> QED
    BY <1>1, <2>1, <2>3 DEF Types
<1>5. fired.epoch = timer[n] /\ fired.voters = ballots[n][timer[n]] /\ fired.stored = FALSE
  OBVIOUS
<1> HIDE DEF fired
<1>6. TimersFromQuorums'
  <2> SUFFICES ASSUME NEW m \in Nodes
               PROVE  /\ timer'[m] # 0 => Cardinality(ballots[m][timer'[m]]) >= NumSlots
                      /\ late'[m] # NoResult =>
                           /\ VotedQuorum(ballots, late'[m].epoch, late'[m].voters)
                           /\ late'[m].stored => late'[m].voters \in reported[m][late'[m].epoch]
    BY <1>1 DEF TimersFromQuorums
  <2>1. CASE m = n
    <3>1. timer'[m] = 0 /\ late'[m] = fired
      BY <1>2, <2>1 DEF Types
    <3> QED
      BY <1>3, <1>5, <3>1
  <2>2. CASE m # n
    <3>1. timer'[m] = timer[m] /\ late'[m] = late[m]
      BY <1>2, <2>2 DEF Types
    <3> QED
      BY <3>1 DEF TimersFromQuorums
  <2> QED
    BY <2>1, <2>2
<1> QED
  BY <1>1, <1>4, <1>6 DEF BallotsCast, ReportsFromQuorums, ResultsBacked, ElectedAgreed

\* broadcast_result in the timer thread: it stores what it tallied.
LEMMA TimerStoresKeeps ==
  ASSUME IInv, NEW n \in Nodes, TimerStores(n)
  PROVE  IInv'
<1> USE DEF IInv
<1>1. /\ UNCHANGED <<number, idx, state, elected, ballots, timer, started, conn, cut, cuts,
                     chan>>
      /\ late[n] # NoResult
      /\ StoreResult(n, late[n].epoch, late[n].voters)
      /\ late' = [late EXCEPT ![n].stored = TRUE]
  BY DEF TimerStores, nodeVars, linkVars
<1>2. /\ late[n] \in [epoch : Epochs, voters : SUBSET Nodes, stored : BOOLEAN]
      /\ late[n].epoch \in Epochs /\ late[n].voters \in SUBSET Nodes
  BY <1>1 DEF Types
<1>3. BallotsGrow /\ VotedQuorum(ballots', late[n].epoch, late[n].voters)
  BY <1>1 DEF BallotsGrow, TimersFromQuorums
<1>4. /\ results' \in [Nodes -> [Epochs -> ListsOf(Nodes)]]
      /\ reported' \in [Nodes -> [Epochs -> SUBSET SUBSET Nodes]]
      /\ late[n].voters \in reported'[n][late[n].epoch]
      /\ ReportsGrow /\ ReportsFromQuorums' /\ ResultsBacked'
  BY <1>1, <1>2, <1>3, StoreResultKeeps
<1>5. /\ late'[n] = [late[n] EXCEPT !.stored = TRUE]
      /\ \A m \in Nodes \ {n} : late'[m] = late[m]
      /\ late'[n].epoch = late[n].epoch /\ late'[n].voters = late[n].voters
      /\ late'[n] \in [epoch : Epochs, voters : SUBSET Nodes, stored : BOOLEAN]
  BY <1>1, <1>2 DEF Types
<1>6. Types'
  <2>1. late' \in [Nodes -> {NoResult} \cup
                   [epoch : Epochs, voters : SUBSET Nodes, stored : BOOLEAN]]
    BY <1>1, <1>5 DEF Types
  <2> QED
    BY <1>1, <1>4, <2>1 DEF Types
<1>7. TimersFromQuorums'
  <2>1. \A m \in Nodes : late'[m] # NoResult =>
          /\ VotedQuorum(ballots', late'[m].epoch, late'[m].voters)
          /\ late'[m].stored => late'[m].voters \in reported'[m][late'[m].epoch]
    <3> SUFFICES ASSUME NEW m \in Nodes, late'[m] # NoResult
                 PROVE  /\ VotedQuorum(ballots', late'[m].epoch, late'[m].voters)
                        /\ late'[m].stored => late'[m].voters \in reported'[m][late'[m].epoch]
      OBVIOUS
    <3>1. CASE m = n
      BY <1>3, <1>4, <1>5, <3>1
    <3>2. CASE m # n
      BY <1>3, <1>4, <1>5, <3>2, GrowthKeeps
    <3> QED
      BY <3>1, <3>2
  <2> QED
    BY <1>1, <2>1 DEF TimersFromQuorums
<1>8. BallotsCast' /\ ElectedAgreed' /\ TrueMessages(chan', ballots', reported')
  BY <1>1, <1>3, <1>4, GrowthKeeps DEF BallotsCast
<1> QED
  BY <1>4, <1>6, <1>7, <1>8

\* The result it sends is one it has stored.
LEMMA TimerSendsKeeps ==
  ASSUME IInv, NEW n \in Nodes, TimerSends(n)
  PROVE  IInv'
<1> USE DEF IInv
<1> DEFINE msg == VoteResult(late[n].epoch, Tally(late[n].voters))
<1>1. /\ UNCHANGED <<number, idx, state, elected, ballots, results, reported, timer, started,
                     conn, cut, cuts>>
      /\ late[n] # NoResult /\ late[n].stored
      /\ chan' = Broadcast(chan, n, msg)
      /\ late' = [late EXCEPT ![n] = NoResult]
  BY DEF TimerSends, nodeVars, voteVars, linkVars
<1>2. late[n].epoch \in Epochs /\ late[n].voters \in SUBSET Nodes
  BY <1>1 DEF Types
<1>3. msg \in Messages
  BY <1>2 DEF Messages, Lists
<1>4. True(ballots, reported, n, msg)
  BY <1>1 DEF True, VoteResult, Backs, TimersFromQuorums
<1> HIDE DEF msg
<1>5. chan' \in [Links -> Seq(Messages)] /\ TrueMessages(chan', ballots, reported)
  BY <1>1, <1>3, <1>4, BroadcastTrue DEF Types
<1>6. Types'
  BY <1>1, <1>5 DEF Types
<1>7. TimersFromQuorums'
  BY <1>1 DEF TimersFromQuorums, Types
<1> QED
  BY <1>1, <1>5, <1>6, <1>7 DEF BallotsCast, ReportsFromQuorums, ResultsBacked, ElectedAgreed

\* handle_vote: a stored ballot was cast, a tally has a quorum.
LEMMA HandleVoteKeeps ==
  ASSUME IInv, NEW n \in Nodes, NEW s \in Nodes, <<s, n>> \in Links, HandleVote(n, s)
  PROVE  IInv'
<1> USE DEF IInv
<1> DEFINE e == Head(chan[<<s, n>>]).epoch
           voters == ballots[n][e] \cup {s}
           skips == e # NextEpoch(n) \/ s \in ballots[n][e]
           enough == HasEnoughBallots(voters, Online(n)) /\ UsesTimer
<1>1. /\ UNCHANGED <<number, idx, state, elected, late, started, conn, cut, cuts>>
      /\ chan[<<s, n>>] # <<>> /\ Head(chan[<<s, n>>]).type = "VOTE"
  BY DEF HandleVote, nodeVars, linkVars
<1>2. /\ Received(s, n) \in [Links -> Seq(Messages)]
      /\ TrueMessages(Received(s, n), ballots, reported)
      /\ Head(chan[<<s, n>>]) \in Messages
      /\ True(ballots, reported, s, Head(chan[<<s, n>>]))
  BY <1>1, ReceivedTrue
<1>3. e \in Epochs /\ s \in ballots[s][e]
  BY <1>1, <1>2, MessageFields DEF True
<1>6. /\ skips => chan' = Received(s, n) /\ UNCHANGED <<ballots, results, reported, timer>>
      /\ ~skips =>
           /\ ballots' = [ballots EXCEPT ![n][e] = voters]
           /\ HasAllBallots(voters, Online(n)) =>
                /\ StoreResult(n, e, voters)
                /\ chan' = Broadcast(Received(s, n), n, VoteResult(e, Tally(voters)))
                /\ timer' = [timer EXCEPT ![n] = 0]
           /\ ~HasAllBallots(voters, Online(n)) =>
                /\ UNCHANGED <<results, reported>>
                /\ chan' = Received(s, n)
                /\ timer' = [timer EXCEPT ![n] = IF enough THEN e ELSE 0]
  BY DEF HandleVote, voteVars
<1> HIDE DEF e, skips
<1>4. CASE chan' = Received(s, n) /\ UNCHANGED <<ballots, results, reported, timer>>
  <2>1. Types'
    BY <1>1, <1>2, <1>4 DEF Types
  <2> QED
    BY <1>1, <1>2, <1>4, <2>1
    DEF BallotsCast, ReportsFromQuorums, TimersFromQuorums, ResultsBacked, ElectedAgreed
<1>5. CASE ~skips
  <2>1. /\ voters \in SUBSET Nodes /\ \A v \in voters : v \in ballots[v][e]
        /\ voters = ballots[n][e] \cup {s}
    BY <1>3 DEF Types, BallotsCast
  <2>2. ballots' = [ballots EXCEPT ![n] = [ballots[n] EXCEPT ![e] = voters]]
    BY <1>5, <1>6
  <2> HIDE DEF voters
  <2>3. /\ ballots' \in [Nodes -> [Epochs -> SUBSET Nodes]]
        /\ \A m \in Nodes, f \in Epochs :
             ballots'[m][f] = IF m = n /\ f = e THEN voters ELSE ballots[m][f]
    BY <1>3, <2>1, <2>2 DEF Types
  <2>4. BallotsGrow
    BY <1>3, <2>1, <2>3 DEF BallotsGrow
  <2>5. BallotsCast'
    <3> SUFFICES ASSUME NEW m \in Nodes, NEW f \in Epochs, NEW v \in ballots'[m][f]
                 PROVE  v \in ballots'[v][f]
      BY DEF BallotsCast
    <3>1. CASE m = n /\ f = e
      <4>1. v \in voters
        BY <2>3, <3>1
      <4> QED
        BY <2>1, <2>4, <3>1, <4>1 DEF BallotsGrow
    <3>2. CASE ~(m = n /\ f = e)
      <4>1. v \in ballots[m][f] /\ v \in Nodes
        BY <2>3, <3>2 DEF Types
      <4> QED
        BY <2>4, <4>1 DEF BallotsCast, BallotsGrow
    <3> QED
      BY <3>1, <3>2
  <2>6. ASSUME Cardinality(voters) >= NumSlots
        PROVE  VotedQuorum(ballots', e, voters)
    BY <1>3, <2>1, <2>4, <2>6 DEF VotedQuorum, BallotsGrow
  <2>7. Online(n) \in Nat /\ Cardinality(voters) \in Nat
    BY <2>1, OnlineIsPositive, VotersCounted
  <2>8. CASE HasAllBallots(voters, Online(n))
    <3>1. /\ StoreResult(n, e, voters)
          /\ chan' = Broadcast(Received(s, n), n, VoteResult(e, Tally(voters)))
          /\ timer' = [timer EXCEPT ![n] = 0]
      BY <1>5, <1>6, <2>8
    <3>2. VotedQuorum(ballots', e, voters)
      BY <2>6, <2>7, <2>8, AmountIsQuorum DEF HasAllBallots
    <3>3. /\ results' \in [Nodes -> [Epochs -> ListsOf(Nodes)]]
          /\ reported' \in [Nodes -> [Epochs -> SUBSET SUBSET Nodes]]
          /\ voters \in reported'[n][e]
          /\ ReportsGrow /\ ReportsFromQuorums' /\ ResultsBacked'
      BY <1>3, <2>1, <2>4, <3>1, <3>2, StoreResultKeeps
    <3>4. /\ VoteResult(e, Tally(voters)) \in Messages
          /\ True(ballots', reported', n, VoteResult(e, Tally(voters)))
      <4>1. Backs(reported', n, e, Tally(voters))
        BY <3>3 DEF Backs
      <4> QED
        BY <1>3, <2>1, <4>1, MessageFields DEF True
    <3>5. TrueMessages(Received(s, n), ballots', reported')
      <4>1. TrueMessages(chan, ballots', reported')
        BY <2>4, <3>3, GrowthKeeps
      <4> QED
        BY <1>1, <4>1, ReceivedTrue
    <3>6. /\ chan' \in [Links -> Seq(Messages)]
          /\ TrueMessages(chan', ballots', reported')
      BY <1>2, <3>1, <3>4, <3>5, BroadcastTrue
    <3>7. Types'
      <4>1. timer' \in [Nodes -> 0..MaxEpoch]
        BY <3>1 DEF Types
      <4> QED
        BY <1>1, <2>3, <3>3, <3>6, <4>1 DEF Types
    <3>8. TimersFromQuorums'
      <4>1. \A m \in Nodes : timer'[m] # 0 => Cardinality(ballots'[m][timer'[m]]) >= NumSlots
        BY <2>4, <3>1, <3>3, <3>7, TimersStay DEF Types
      <4> QED
        BY <1>1, <2>4, <3>3, <4>1, GrowthKeeps DEF TimersFromQuorums
    <3>9. ElectedAgreed'
      BY <1>1, <2>4, <3>3, GrowthKeeps
    <3> QED
      BY <2>5, <3>3, <3>6, <3>7, <3>8, <3>9
  <2>9. CASE ~HasAllBallots(voters, Online(n)) /\ UNCHANGED <<results, reported>>
    <3>1. ReportsGrow
      BY <2>9 DEF ReportsGrow
    <3>2. /\ chan' = Received(s, n)
          /\ timer' = [timer EXCEPT ![n] = IF enough THEN e ELSE 0]
      BY <1>5, <1>6, <2>9
    <3>3. TrueMessages(chan', ballots', reported')
      <4>1. TrueMessages(chan, ballots', reported')
        BY <2>4, <3>1, GrowthKeeps
      <4> QED
        BY <1>1, <3>2, <4>1, ReceivedTrue
    <3>4. Types'
      <4>1. timer' \in [Nodes -> 0..MaxEpoch]
        BY <1>3, <3>2 DEF Types, Epochs
      <4> QED
        BY <1>1, <1>2, <2>3, <2>9, <3>2, <4>1 DEF Types
    <3>5. TimersFromQuorums'
      <4>1. enough => Cardinality(voters) >= NumSlots
        BY <2>7, AmountIsQuorum DEF HasEnoughBallots
      <4>2. \A m \in Nodes : timer'[m] # 0 => Cardinality(ballots'[m][timer'[m]]) >= NumSlots
        <5> SUFFICES ASSUME NEW m \in Nodes, timer'[m] # 0
                     PROVE  Cardinality(ballots'[m][timer'[m]]) >= NumSlots
          OBVIOUS
        <5>1. CASE m = n
          <6>1. enough /\ timer'[m] = e
            BY <3>2, <5>1 DEF Types
          <6> QED
            BY <1>3, <2>3, <4>1, <5>1, <6>1
        <5>2. CASE m # n
          <6>1. timer'[m] = timer[m]
            BY <3>2, <5>2 DEF Types
          <6> QED
            BY <2>4, <3>1, <3>4, <6>1, TimersStay
        <5> QED
          BY <5>1, <5>2
      <4> QED
        BY <1>1, <2>4, <3>1, <4>2, GrowthKeeps DEF TimersFromQuorums
    <3> QED
      BY <1>1, <2>4, <2>5, <2>9, <3>1, <3>3, <3>4, <3>5, GrowthKeeps
  <2>10. HasAllBallots(voters, Online(n)) \/ UNCHANGED <<results, reported>>
    BY <1>5, <1>6
  <2> QED
    BY <2>8, <2>9, <2>10
<1> QED
  BY <1>4, <1>5, <1>6

\* handle_vote_result: an accepted list was reported by a quorum.
LEMMA HandleResultKeeps ==
  ASSUME IInv, NEW n \in Nodes, NEW s \in Nodes, <<s, n>> \in Links, HandleResult(n, s)
  PROVE  IInv'
<1> USE DEF IInv
<1> DEFINE msg == Head(chan[<<s, n>>])
           e == msg.epoch
           res == [p \in DOMAIN results[n][e] \cup {s} |->
                     IF p = s THEN msg.list ELSE results[n][e][p]]
           Chosen(list) == [k \in DOMAIN elected[n] \cup {e} |->
                              IF k = e THEN list ELSE elected[n][k]]
<1>1. /\ UNCHANGED <<ballots, reported, timer, late, started, conn, cut, cuts>>
      /\ chan[<<s, n>>] # <<>> /\ msg.type = "VOTE_RESULT"
      /\ chan' = Received(s, n)
  BY DEF HandleResult, timerVars, linkVars
<1>2. /\ chan' \in [Links -> Seq(Messages)]
      /\ TrueMessages(chan', ballots', reported')
      /\ msg \in Messages /\ True(ballots, reported, s, msg)
  BY <1>1, ReceivedTrue
<1>3. e \in Epochs /\ msg.list \in Lists /\ Backs(reported, s, e, msg.list)
  BY <1>1, <1>2, MessageFields DEF True
<1>4. /\ BallotsGrow /\ ReportsGrow /\ BallotsCast' /\ ReportsFromQuorums'
      /\ TimersFromQuorums'
  BY <1>1 DEF BallotsGrow, ReportsGrow, BallotsCast, ReportsFromQuorums, TimersFromQuorums
<1>5. CASE UNCHANGED <<number, idx, state, elected, results>>
  <2>1. Types'
    BY <1>1, <1>2, <1>5 DEF Types
  <2> QED
    BY <1>1, <1>2, <1>4, <1>5, <2>1, GrowthKeeps
<1>6. CASE /\ e = NextEpoch(n)
           /\ results' = [results EXCEPT ![n][e] = res]
           /\ \E list \in Winners(res) :
                IF Triggers(n, Cardinality(Reporters(res, list)))
                THEN /\ elected' = [elected EXCEPT ![n] = Chosen(list)]
                     /\ IF IsOver(n)
                        THEN BeginEpoch(n, e)
                        ELSE UNCHANGED <<number, idx, state>>
                ELSE UNCHANGED nodeVars
  <2>1. PICK K \in SUBSET Nodes : results[n][e] \in [K -> Lists]
    <3>1. results[n][e] \in ListsOf(Nodes)
      BY <1>3 DEF Types
    <3> QED
      BY <3>1 DEF ListsOf
  <2>2. res \in [K \cup {s} -> Lists]
    BY <1>3, <2>1
  <2>3. \A p \in K \cup {s} : Backs(reported, p, e, res[p])
    <3> SUFFICES ASSUME NEW p \in K \cup {s}
                 PROVE  Backs(reported, p, e, res[p])
      OBVIOUS
    <3>1. CASE p = s
      BY <1>3, <3>1
    <3>2. CASE p # s
      <4>1. p \in K /\ res[p] = results[n][e][p] /\ DOMAIN results[n][e] = K
        BY <2>1, <3>2
      <4> QED
        BY <1>3, <4>1 DEF ResultsBacked
    <3> QED
      BY <3>1, <3>2
  <2>4. PICK list \in Winners(res) :
          IF Triggers(n, Cardinality(Reporters(res, list)))
          THEN /\ elected' = [elected EXCEPT ![n] = Chosen(list)]
               /\ IF IsOver(n) THEN BeginEpoch(n, e) ELSE UNCHANGED <<number, idx, state>>
          ELSE UNCHANGED nodeVars
    BY <1>6
  <2>5. results' = [results EXCEPT ![n] = [results[n] EXCEPT ![e] = res]]
    BY <1>6
  <2>6. DOMAIN elected[n] \subseteq Epochs /\ elected[n] \in [DOMAIN elected[n] -> Lists]
    <3>1. elected[n] \in ListsOf(Epochs)
      BY DEF Types
    <3> QED
      BY <3>1 DEF ListsOf
  <2> HIDE DEF res, msg, e
  <2>7. /\ results' \in [Nodes -> [Epochs -> ListsOf(Nodes)]]
        /\ \A m \in Nodes, f \in Epochs :
             results'[m][f] = IF m = n /\ f = e THEN res ELSE results[m][f]
    <3>1. res \in ListsOf(Nodes)
      BY <2>2 DEF ListsOf
    <3> QED
      BY <1>3, <2>5, <3>1 DEF Types
  <2>8. ResultsBacked'
    <3> SUFFICES ASSUME NEW m \in Nodes, NEW f \in Epochs, NEW p \in DOMAIN results'[m][f]
                 PROVE  Backs(reported, p, f, results'[m][f][p])
      BY <1>1 DEF ResultsBacked
    <3>1. CASE m = n /\ f = e
      BY <2>2, <2>3, <2>7, <3>1
    <3>2. CASE ~(m = n /\ f = e)
      <4>1. results'[m][f] = results[m][f]
        BY <2>7, <3>2
      <4> QED
        BY <4>1 DEF ResultsBacked
    <3> QED
      BY <3>1, <3>2
  <2>9. list \in Lists
    BY <2>2 DEF Winners, Range
  <2>10. CASE ~Triggers(n, Cardinality(Reporters(res, list)))
    <3>1. UNCHANGED <<number, idx, state, elected>>
      BY <2>4, <2>10 DEF nodeVars
    <3>2. Types'
      BY <1>1, <1>2, <2>7, <3>1 DEF Types
    <3> QED
      BY <1>1, <1>2, <1>4, <2>8, <3>1, <3>2, GrowthKeeps
  <2>11. CASE Triggers(n, Cardinality(Reporters(res, list)))
    <3>1. /\ elected' = [elected EXCEPT ![n] = Chosen(list)]
          /\ IF IsOver(n) THEN BeginEpoch(n, e) ELSE UNCHANGED <<number, idx, state>>
      BY <2>4, <2>11
    <3>2. AgreedBy(reported, e, list)
      <4> DEFINE quorum == Reporters(res, list)
      <4>1. quorum \in SUBSET Nodes /\ \A p \in quorum : Backs(reported, p, e, list)
        BY <2>2, <2>3 DEF Reporters
      <4>2. Cardinality(quorum) \in Nat
        BY <4>1, VotersCounted
      <4>3. Online(n) \in Nat /\ Online(n) >= 1 /\ number[n] \in Nat
        BY OnlineIsPositive DEF Types
      <4>4. Cardinality(quorum) >= IF e = 1 THEN 1 ELSE NumSlots
        <5>1. CASE number[n] = 0
          <6>1. e = 1 /\ Cardinality(quorum) = Online(n)
            BY <1>6, <2>11, <5>1 DEF NextEpoch, Triggers
          <6> QED
            BY <4>3, <6>1
        <5>2. CASE number[n] # 0
          <6>1. Cardinality(quorum) >= NumSlots
            <7>1. Cardinality(quorum) >= ConsensusAmount(Online(n))
              BY <2>11, <5>2 DEF Triggers
            <7> HIDE DEF quorum
            <7> QED
              BY <4>2, <4>3, <7>1, AmountIsQuorum
          <6> HIDE DEF quorum
          <6> QED
            BY <4>2, <6>1
        <5> QED
          BY <5>1, <5>2
      <4> HIDE DEF quorum
      <4> QED
        BY <4>1, <4>4 DEF AgreedBy
    <3>3. /\ Chosen(list) \in ListsOf(Epochs)
          /\ DOMAIN Chosen(list) = DOMAIN elected[n] \cup {e}
          /\ \A k \in DOMAIN Chosen(list) :
               Chosen(list)[k] = IF k = e THEN list ELSE elected[n][k]
      <4>1. Chosen(list) \in [DOMAIN elected[n] \cup {e} -> Lists]
        BY <2>6, <2>9
      <4> QED
        BY <1>3, <2>6, <4>1 DEF ListsOf
    <3> HIDE DEF Chosen
    <3>4. elected' \in [Nodes -> ListsOf(Epochs)]
      BY <3>1, <3>3 DEF Types
    <3>5. ElectedAgreed'
      <4> SUFFICES ASSUME NEW m \in Nodes, NEW k \in DOMAIN elected'[m]
                   PROVE  AgreedBy(reported, k, elected'[m][k])
        BY <1>1 DEF ElectedAgreed
      <4>1. CASE m = n
        <5>1. elected'[m] = Chosen(list)
          BY <3>1, <4>1 DEF Types
        <5>2. CASE k = e
          BY <3>2, <3>3, <5>1, <5>2
        <5>3. CASE k # e
          BY <3>3, <4>1, <5>1, <5>3 DEF ElectedAgreed
        <5> QED
          BY <5>2, <5>3
      <4>2. CASE m # n
        <5>1. elected'[m] = elected[m]
          BY <3>1, <4>2 DEF Types
        <5> QED
          BY <5>1 DEF ElectedAgreed
      <4> QED
        BY <4>1, <4>2
    <3>6. /\ number' \in [Nodes -> 0..MaxEpoch] /\ idx' \in [Nodes -> 0..SlotsPerEpoch]
          /\ state' \in [Nodes -> {"IDLE", "ELECTION", "PRODUCTION"}]
      <4>1. e \in 0..MaxEpoch /\ 0 \in 0..SlotsPerEpoch
        BY <1>3 DEF Epochs
      <4>2. /\ number' = number \/ number' = [number EXCEPT ![n] = e]
            /\ idx' = idx \/ idx' = [idx EXCEPT ![n] = 0]
            /\ state' = state \/ state' = [state EXCEPT ![n] = "PRODUCTION"]
        BY <3>1 DEF BeginEpoch
      <4>6. /\ number \in [Nodes -> 0..MaxEpoch]
            /\ idx \in [Nodes -> 0..SlotsPerEpoch]
        BY DEF Types
      <4>3. number' \in [Nodes -> 0..MaxEpoch]
        BY <4>1, <4>2, <4>6
      <4>4. idx' \in [Nodes -> 0..SlotsPerEpoch]
        BY <4>1, <4>2, <4>6
      <4>5. state' \in [Nodes -> {"IDLE", "ELECTION", "PRODUCTION"}]
        BY <4>2 DEF Types
      <4> QED
        BY <4>3, <4>4, <4>5
    <3>7. Types'
      BY <1>1, <1>2, <2>7, <3>4, <3>6 DEF Types
    <3> QED
      BY <1>2, <1>4, <2>8, <3>5, <3>7
  <2> QED
    BY <2>10, <2>11
<1> QED
  BY <1>5, <1>6 DEF HandleResult, nodeVars

---------------------------------------------------------------------------
(* The theorems *)

\* Nothing changes.
LEMMA StutterKeeps == IInv /\ UNCHANGED vars => IInv'
  BY DEF vars, nodeVars, voteVars, timerVars, linkVars, IInv, Types, BallotsCast,
     ReportsFromQuorums, TimersFromQuorums, ResultsBacked, ElectedAgreed

\* In every reachable state the invariant holds, however ballots, results, timers and
\* broken links were interleaved.
THEOREM ElectionInvariant == Spec => []IInv
<1>1. Init => IInv
  BY InitInvariant
<1>2. IInv /\ [Next]_vars => IInv'
  <2> SUFFICES ASSUME IInv, [Next]_vars
               PROVE  IInv'
    OBVIOUS
  <2>1. \A link \in Links :
          link[1] \in Nodes /\ link[2] \in Nodes /\ <<link[1], link[2]>> \in Links
    BY DEF Links
  <2>2. CASE \E n \in Nodes : CastVote(n) \/ Rebroadcast(n) \/ NextSlot(n) \/ StartUpEnds(n)
    BY <2>2, CastVoteKeeps, LocalStepKeeps
  <2>3. CASE \E n \in Nodes : TimerFires(n) \/ TimerStores(n) \/ TimerSends(n)
    BY <2>3, TimerFiresKeeps, TimerStoresKeeps, TimerSendsKeeps
  <2>4. CASE \E link \in Links : HandleVote(link[2], link[1]) \/ HandleResult(link[2], link[1])
    BY <2>1, <2>4, HandleVoteKeeps, HandleResultKeeps
  <2>5. CASE \/ \E link \in Links : Connect(link[1], link[2]) \/ Disconnect(link[1], link[2])
             \/ \E link \in Links : LinkBreaks(link) \/ LinkMends(link)
    BY <2>5, LinkStepKeeps
  <2>6. CASE UNCHANGED vars
    BY <2>6, StutterKeeps
  <2> QED
    BY <2>2, <2>3, <2>4, <2>5, <2>6 DEF Next
<1> QED
  BY <1>1, <1>2, PTL DEF Spec

\* The state of the voting system keeps its types: TypeOK in every reachable state.
THEOREM TypeCorrect == Spec => []TypeOK
<1>1. IInv => TypeOK
  <2> SUFFICES ASSUME IInv
               PROVE  TypeOK
    OBVIOUS
  <2>1. Types
    BY DEF IInv
  <2>2. \A n \in Nodes, e \in Epochs :
          DOMAIN results[n][e] \subseteq Nodes /\ Range(results[n][e]) \subseteq Lists
    <3> SUFFICES ASSUME NEW n \in Nodes, NEW e \in Epochs
                 PROVE  DOMAIN results[n][e] \subseteq Nodes /\ Range(results[n][e]) \subseteq Lists
      OBVIOUS
    <3>1. results \in [Nodes -> [Epochs -> ListsOf(Nodes)]]
      BY <2>1 DEF Types
    <3>2. results[n][e] \in ListsOf(Nodes)
      BY <3>1
    <3>3. PICK K \in SUBSET Nodes : results[n][e] \in [K -> Lists]
      BY <3>2 DEF ListsOf
    <3> QED
      BY <3>3 DEF Range
  <2>3. \A n \in Nodes : DOMAIN elected[n] \subseteq Epochs /\ Range(elected[n]) \subseteq Lists
    <3> SUFFICES ASSUME NEW n \in Nodes
                 PROVE  DOMAIN elected[n] \subseteq Epochs /\ Range(elected[n]) \subseteq Lists
      OBVIOUS
    <3>1. PICK K \in SUBSET Epochs : elected[n] \in [K -> Lists]
      BY <2>1 DEF Types, ListsOf
    <3> QED
      BY <3>1 DEF Range
  <2>4. \A link \in Links : Range(chan[link]) \subseteq Messages
    BY <2>1, RangeOfSeq DEF Types
  <2> QED
    BY <2>1, <2>2, <2>3, <2>4 DEF Types, TypeOK
<1> QED
  BY <1>1, ElectionInvariant, PTL

\* handle_vote_result and consensus_amount: the list of an epoch was reported by a
\* quorum of members, each from the ballots of a quorum, whatever each node took to
\* be online at the time.
THEOREM ElectedByQuorums == Spec => []ElectedByQuorum
<1>1. IInv => ElectedByQuorum
  <2> SUFFICES ASSUME IInv, NEW n \in Nodes, NEW e \in Epochs, e \in DOMAIN elected[n]
               PROVE  \E quorum \in SUBSET Nodes :
                        /\ Cardinality(quorum) >= IF e = 1 THEN 1 ELSE NumSlots
                        /\ \A p \in quorum : \E voters \in reported[p][e] :
                             /\ Tally(voters) = elected[n][e]
                             /\ Cardinality(voters) >= NumSlots
                             /\ \A v \in voters : v \in ballots[v][e]
    BY DEF ElectedByQuorum
  <2>1. PICK quorum \in SUBSET Nodes :
          /\ Cardinality(quorum) >= IF e = 1 THEN 1 ELSE NumSlots
          /\ \A p \in quorum : Backs(reported, p, e, elected[n][e])
    BY DEF IInv, ElectedAgreed, AgreedBy
  <2>2. \A p \in quorum : \E voters \in reported[p][e] :
          Tally(voters) = elected[n][e] /\ VotedQuorum(ballots, e, voters)
    BY <2>1 DEF Backs, IInv, ReportsFromQuorums
  <2> QED
    BY <2>1, <2>2 DEF VotedQuorum
<1> QED
  BY <1>1, ElectionInvariant, PTL

\* Two quorums of witnesses have a member in common when more than half of the
\* members are witnesses, so two lists for one epoch need a member that reported two
\* results (broadcast_result run twice, by a timer or by a ballot that came late).
THEOREM DisagreementIsRecount == Spec => []DisagreementNeedsRecount
<1>1. IInv => DisagreementNeedsRecount
  <2> SUFFICES ASSUME IInv, 2 * NumSlots > Cardinality(Nodes),
                      NEW n \in Nodes, NEW m \in Nodes, NEW e \in Epochs \ {1},
                      e \in DOMAIN elected[n], e \in DOMAIN elected[m],
                      elected[n][e] # elected[m][e]
               PROVE  \E p \in Nodes : \E v, w \in reported[p][e] : Tally(v) # Tally(w)
    BY DEF DisagreementNeedsRecount
  <2>1. AgreedBy(reported, e, elected[n][e]) /\ AgreedBy(reported, e, elected[m][e])
    BY DEF IInv, ElectedAgreed
  <2>2. PICK Q \in SUBSET Nodes :
          Cardinality(Q) >= NumSlots /\ \A p \in Q : Backs(reported, p, e, elected[n][e])
    BY <2>1 DEF AgreedBy
  <2>3. PICK R \in SUBSET Nodes :
          Cardinality(R) >= NumSlots /\ \A p \in R : Backs(reported, p, e, elected[m][e])
    BY <2>1 DEF AgreedBy
  <2>4. Q \cap R # {}
    <3>1. IsFiniteSet(Q) /\ IsFiniteSet(R)
      BY FS_Subset
    <3>2. /\ Cardinality(Q) \in Nat /\ Cardinality(R) \in Nat
          /\ Cardinality(Nodes) \in Nat
          /\ Cardinality(Q \cup R) \in Nat /\ Cardinality(Q \cap R) \in Nat
          /\ Cardinality(Q \cup R) <= Cardinality(Nodes)
      BY <3>1, FS_Subset, FS_CardinalityType, FS_Union
    <3>3. Cardinality(Q \cup R) = Cardinality(Q) + Cardinality(R) - Cardinality(Q \cap R)
      BY <3>1, FS_Union
    <3>4. Cardinality(Q \cap R) # 0
      BY <2>2, <2>3, <3>2, <3>3
    <3> QED
      BY <3>4, FS_EmptySet
  <2>5. PICK p \in Nodes : p \in Q /\ p \in R
    BY <2>4
  <2> QED
    BY <2>2, <2>3, <2>5 DEF Backs
<1> QED
  BY <1>1, ElectionInvariant, PTL

=============================================================================
