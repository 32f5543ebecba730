--------------------------- MODULE CatchUpProofs ---------------------------
(***************************************************************************)
(* The theorems about CatchUp, for any number of peers, any capacity of    *)
(* the cache and any bounds: what the node counts and commits are blocks   *)
(* of the chain, so a catch-up is what Following promises.                 *)
(***************************************************************************)
EXTENDS CatchUp, FiniteSetTheorems, SequenceTheorems, TLAPS

USE CatchUpAssumption

\* The blocks that some peer has committed.
Confirmed == {0} \cup { n \in Blocks : \E p \in Peers : n <= peerHead[p] }

\* Nothing is ahead of the chain.
OnChain ==
  /\ head <= made /\ announced <= made
  /\ \A p \in Peers : peerHead[p] <= made
  /\ \A n \in cached : n <= made
  /\ \A n \in Blocks : checking[n] > 0 => n <= made
  /\ \A i \in DOMAIN committing : committing[i] <= made

\* The heads that peers name, on their way or counted, were their heads.
HeadsConfirmed ==
  /\ \A p \in Peers : \A i \in DOMAIN answers[p] : answers[p][i] \in Confirmed
  /\ \A i \in DOMAIN messages : messages[i] \in Confirmed

\* What is being committed follows the head, or was asked for twice.
CommitsFollow ==
  /\ \A i \in DOMAIN committing : committing[i] = head \/ committing[i] = head + 1
  /\ \A i, j \in DOMAIN committing : i < j => committing[i] <= committing[j]

TargetAhead == catchingUp => target # head

RequestsCounted == \A p \in Peers : requests[p] <= sent

\* An id is in the list twice only if its block was announced twice.
IdsOnce ==
  /\ \A i \in DOMAIN ids : ids[i] <= announced
  /\ \A i, j \in DOMAIN ids : i < j /\ ids[i] = ids[j] => ids[i] \in repeated

IInv ==
  /\ TypeOK /\ OnChain /\ HeadsConfirmed /\ CommitsFollow
  /\ TargetAhead /\ RequestsCounted /\ IdsOnce /\ CacheHasLatest

---------------------------------------------------------------------------
(* Counting *)

\* There is somebody to ask.
LEMMA OnlineType == Online \in Nat /\ Online >= 2
<1>1. Cardinality(Peers) \in Nat /\ Cardinality(Peers) # 0
  BY FS_CardinalityType, FS_EmptySet
<1> QED
  BY <1>1 DEF Online

\* A head is named at least as often as none, the block before the first.
LEMMA CountBelow ==
  ASSUME NEW msgs \in Seq(Blocks)
  PROVE  /\ Count(msgs, -1) \in Nat /\ Count(msgs, 0) \in Nat
         /\ Count(msgs, -1) <= Count(msgs, 0)
<1> DEFINE A == { i \in DOMAIN msgs : Names(msgs[i], -1) }
           B == { i \in DOMAIN msgs : Names(msgs[i], 0) }
<1>1. DOMAIN msgs = 1 .. Len(msgs) /\ Len(msgs) \in Nat
  BY LenProperties
<1>2. \A i \in DOMAIN msgs : msgs[i] \in Nat
  BY <1>1, ElementOfSeq DEF Blocks
<1>3. A \subseteq B
  BY <1>2 DEF Names
<1>4. IsFiniteSet(1 .. Len(msgs))
  BY <1>1, FS_Interval
<1>5. B \subseteq 1 .. Len(msgs)
  BY <1>1
<1>6. IsFiniteSet(B)
  BY <1>4, <1>5, FS_Subset
<1>7. IsFiniteSet(A) /\ Cardinality(A) <= Cardinality(B)
  BY <1>3, <1>6, FS_Subset
<1>8. Cardinality(A) \in Nat /\ Cardinality(B) \in Nat
  BY <1>6, <1>7, FS_CardinalityType
<1> QED
  BY <1>7, <1>8 DEF Count

\* A block that is named is a block that a peer has committed.
LEMMA NamedIsConfirmed ==
  ASSUME TypeOK, NEW msgs \in Seq(Blocks), NEW b \in Blocks,
         \A i \in DOMAIN msgs : msgs[i] \in Confirmed,
         Count(msgs, b) >= ConsensusAmount - 1
  PROVE  b \in Confirmed
<1>1. ConsensusAmount \in Nat /\ ConsensusAmount >= 2
  BY OnlineType DEF ConsensusAmount
<1>2. { i \in DOMAIN msgs : Names(msgs[i], b) } # {}
  <2>1. Cardinality({}) = 0
    BY FS_EmptySet
  <2>2. Count(msgs, b) # 0
    BY <1>1
  <2> QED
    BY <2>1, <2>2 DEF Count
<1>3. PICK i \in DOMAIN msgs : Names(msgs[i], b)
  BY <1>2
<1>4. msgs[i] \in Confirmed /\ b <= msgs[i]
  BY <1>3 DEF Names, Confirmed, Blocks
<1>5. CASE msgs[i] = 0
  BY <1>4, <1>5 DEF Confirmed, Blocks
<1>6. CASE msgs[i] # 0
  <2>1. msgs[i] \in Blocks
    BY <1>4, <1>6 DEF Confirmed
  <2>2. PICK p \in Peers : msgs[i] <= peerHead[p]
    BY <1>4, <1>6 DEF Confirmed
  <2>3. peerHead[p] \in Nat
    BY DEF TypeOK, Blocks
  <2>4. b <= peerHead[p]
    BY <1>4, <2>1, <2>2, <2>3 DEF Blocks
  <2> QED
    BY <2>4 DEF Confirmed
<1> QED
  BY <1>5, <1>6

---------------------------------------------------------------------------
(* The block cache *)

\* BlockCache.append: the cache stays within its size, and has the blocks it lists.
LEMMA AppendBlockKeeps ==
  ASSUME TypeOK, IdsOnce, CacheHasLatest,
         NEW n \in Blocks, n <= made, AppendBlock(n),
         \/ n = announced + 1 /\ UNCHANGED repeated
         \/ n \in 1..announced /\ repeated' = repeated \cup {n},
         announced' = IF n > announced THEN n ELSE announced,
         dropped' = IF AppendRaises(n) THEN dropped \cup {n} ELSE dropped
  PROVE  /\ ids' \in Seq(Blocks) /\ Len(ids') <= Capacity
         /\ cached' \subseteq cached \cup {n}
         /\ IdsOnce' /\ CacheHasLatest'
<1> DEFINE list == Append(ids, n)
<1> USE DEF Blocks
<1>1. /\ ids \in Seq(Blocks) /\ Len(ids) \in Nat /\ DOMAIN ids = 1 .. Len(ids)
      /\ Len(ids) <= Capacity
      /\ \A i \in 1 .. Len(ids) : ids[i] \in Blocks
  BY LenProperties, ElementOfSeq DEF TypeOK
<1>2. /\ list \in Seq(Blocks) /\ list # <<>> /\ Len(list) = Len(ids) + 1
      /\ \A i \in 1 .. Len(ids) : list[i] = ids[i]
      /\ list[Len(ids) + 1] = n
      /\ DOMAIN list = 1 .. Len(ids) + 1
  <2>1. /\ list \in Seq(Blocks) /\ list # <<>> /\ Len(list) = Len(ids) + 1
        /\ \A i \in 1 .. Len(ids) : list[i] = ids[i]
        /\ list[Len(ids) + 1] = n
    BY <1>1, AppendProperties
  <2>2. DOMAIN list = 1 .. Len(list)
    BY <2>1, LenProperties, Zenon
  <2> QED BY <2>1, <2>2, Zenon
<1>3. \A i, j \in 1 .. Len(ids) + 1 : i < j /\ list[i] = list[j] => list[i] \in repeated'
  <2> SUFFICES ASSUME NEW i \in 1 .. Len(ids) + 1, NEW j \in 1 .. Len(ids) + 1,
                      i < j, list[i] = list[j]
               PROVE  list[i] \in repeated'
    OBVIOUS
  <2>1. repeated \subseteq repeated'
    OBVIOUS
  <2>0. i \in 1 .. Len(ids)
    BY <1>1
  <2>2. i \in 1 .. Len(ids) /\ list[i] = ids[i] /\ ids[i] <= announced
    <3> HIDE DEF list
    <3> QED
      BY <2>0, <1>1, <1>2 DEF IdsOnce
  <2>3. CASE j \in 1 .. Len(ids)
    <3>1. list[j] = ids[j]
      BY <1>2, <2>3
    <3>2. ids[i] \in repeated
      BY <1>1, <2>2, <2>3, <3>1 DEF IdsOnce
    <3> QED
      BY <2>1, <2>2, <3>2
  <2>4. CASE j = Len(ids) + 1
    <3>1. n <= announced
      BY <1>2, <2>2, <2>4
    <3>2. n \in repeated'
      BY <3>1 DEF TypeOK
    <3> QED
      BY <1>2, <2>4, <3>2
  <2> QED
    BY <1>1, <2>3, <2>4
<1>4. \A i \in 1 .. Len(ids) + 1 : list[i] <= announced'
  <2>1. announced \in Nat /\ announced' \in Nat /\ announced <= announced' /\ n <= announced'
    BY DEF TypeOK
  <2>2. \A i \in 1 .. Len(ids) : list[i] <= announced'
    BY <1>1, <1>2, <2>1 DEF IdsOnce
  <2> HIDE DEF list
  <2>3. list[Len(ids) + 1] <= announced'
    BY <1>2, <2>1
  <2>4. \A i \in 1 .. Len(ids) + 1 : i \in 1 .. Len(ids) \/ i = Len(ids) + 1
    BY <1>1
  <2> QED
    BY <2>2, <2>3, <2>4, Zenon
<1>5. \A x \in cached : \E i \in 1 .. Len(ids) : list[i] = x
  BY <1>1, <1>2 DEF CacheHasLatest, Range
<1>6. \A i \in 1 .. Len(ids) : ids[i] \notin cached => ids[i] \in repeated
  BY <1>1 DEF CacheHasLatest, Range
<1>7. repeated \subseteq repeated'
  OBVIOUS
<1>8. CASE ~IsFull(list)
  <2>1. ids' = list /\ cached' = cached \cup {n}
    BY <1>8 DEF AppendBlock
  <2>2. Len(list) <= Capacity
    BY <1>1, <1>2, <1>8 DEF IsFull
  <2>3. dropped' = dropped
    BY <1>8 DEF AppendRaises
  <2>4. IdsOnce'
    BY <1>2, <1>3, <1>4, <2>1 DEF IdsOnce
  <2>5. Range(ids') \ cached' \subseteq repeated'
    BY <1>1, <1>2, <1>6, <1>7, <2>1 DEF Range
  <2>7. \A i \in 1 .. Len(ids) : i \in DOMAIN list
    BY <1>1, <1>2
  <2>8. Len(ids) + 1 \in DOMAIN list
    BY <1>1, <1>2
  <2>6. cached' \subseteq Range(ids')
    <3> HIDE DEF list
    <3> QED
      BY <1>2, <1>5, <2>1, <2>7, <2>8, Zenon DEF Range
  <2> HIDE DEF list
  <2> QED
    BY <1>2, <1>7, <2>1, <2>2, <2>3, <2>4, <2>5, <2>6 DEF CacheHasLatest
<1>9. CASE IsFull(list)
  <2>1. ids' = Tail(list) /\ cached' = (cached \cup {n}) \ {Head(list)}
    BY <1>9 DEF AppendBlock
  <2>2. /\ Tail(list) \in Seq(Blocks) /\ Len(Tail(list)) = Len(ids)
        /\ DOMAIN Tail(list) = 1 .. Len(ids)
        /\ \A i \in 1 .. Len(ids) : Tail(list)[i] = list[i + 1]
    <3> HIDE DEF list
    <3>1. /\ Tail(list) \in Seq(Blocks) /\ Len(Tail(list)) = Len(list) - 1
          /\ \A i \in 1 .. Len(Tail(list)) : Tail(list)[i] = list[i + 1]
      BY <1>2, HeadTailProperties, Zenon
    <3>2. Len(Tail(list)) = Len(ids)
      BY <1>1, <1>2, <3>1
    <3>3. DOMAIN Tail(list) = 1 .. Len(Tail(list))
      BY <3>1, LenProperties, Zenon
    <3> QED BY <3>1, <3>2, <3>3, Zenon
  <2>3. Head(list) = list[1]
    BY <1>2
  <2> HIDE DEF list
  <2>4. IdsOnce'
    <3>0. \A i \in 1 .. Len(ids) : i + 1 \in 1 .. Len(ids) + 1
      BY <1>1
    <3>1. \A i \in 1 .. Len(ids) : Tail(list)[i] <= announced'
      BY <1>4, <2>2, <3>0, Zenon
    <3>2. \A i, j \in 1 .. Len(ids) :
            i < j /\ Tail(list)[i] = Tail(list)[j] => Tail(list)[i] \in repeated'
      <4> SUFFICES ASSUME NEW i \in 1 .. Len(ids), NEW j \in 1 .. Len(ids), i < j,
                          list[i + 1] = list[j + 1]
                   PROVE  list[i + 1] \in repeated'
        BY <2>2
      <4>1. i + 1 \in 1 .. Len(ids) + 1 /\ j + 1 \in 1 .. Len(ids) + 1 /\ i + 1 < j + 1
        BY <1>1
      <4> QED
        BY <1>3, <4>1
    <3> QED
      BY <2>1, <2>2, <3>1, <3>2 DEF IdsOnce
  <2>5. cached' \subseteq Range(ids')
    <3> SUFFICES ASSUME NEW x \in cached \cup {n}, x # list[1]
                 PROVE  \E i \in 1 .. Len(ids) : list[i + 1] = x
      <4>1. DOMAIN ids' = 1 .. Len(ids) /\ \A i \in 1 .. Len(ids) : ids'[i] = list[i + 1]
        BY <2>1, <2>2
      <4>2. cached' = (cached \cup {n}) \ {list[1]}
        BY <2>1, <2>3
      <4>3. \A x : (\E i \in 1 .. Len(ids) : list[i + 1] = x) => x \in Range(ids')
        BY <4>1 DEF Range
      <4> QED
        BY <4>2, <4>3
    <3>1. PICK i \in 1 .. Len(ids) + 1 : list[i] = x
      BY <1>1, <1>2, <1>5
    <3>2. i - 1 \in 1 .. Len(ids) /\ list[(i - 1) + 1] = x
      BY <1>1, <3>1
    <3> QED
      BY <3>2
  <2>6. Range(ids') \ cached' \subseteq repeated'
    <3> SUFFICES ASSUME NEW i \in 1 .. Len(ids), list[i + 1] \notin cached'
                 PROVE  list[i + 1] \in repeated'
      BY <2>1, <2>2 DEF Range
    <3>1. CASE list[i + 1] = list[1]
      <4>1. i + 1 \in 1 .. Len(ids) + 1 /\ 1 \in 1 .. Len(ids) + 1 /\ 1 < i + 1
        BY <1>1
      <4> QED
        BY <1>3, <3>1, <4>1
    <3>2. CASE list[i + 1] # list[1]
      <4>1. list[i + 1] \notin cached /\ list[i + 1] # n
        BY <2>1, <2>3, <3>2
      <4>2. i + 1 \in 1 .. Len(ids)
        BY <1>1, <1>2, <4>1
      <4> QED
        BY <1>2, <1>6, <1>7, <4>1, <4>2
    <3> QED
      BY <3>1, <3>2
  <2>7. dropped' # {} => repeated' # {}
    <3>1. ASSUME AppendRaises(n)
          PROVE  repeated # {}
      <4>1. list[1] \notin cached \cup {n}
        BY <2>3, <3>1 DEF AppendRaises, list
      <4>2. 1 \in 1 .. Len(ids)
        BY <1>1, <1>2, <4>1
      <4> QED
        BY <1>2, <1>6, <4>1, <4>2
    <3> QED
      BY <1>7, <3>1 DEF CacheHasLatest
  <2> QED
    BY <1>1, <2>1, <2>2, <2>4, <2>5, <2>6, <2>7 DEF CacheHasLatest
<1> QED
  BY <1>8, <1>9

---------------------------------------------------------------------------
(* The steps *)

\* A node that begins at the root is in order.
LEMMA InitInvariant == Init => IInv
<1> SUFFICES ASSUME Init
             PROVE  IInv
  OBVIOUS
<1> USE DEF Init, Blocks
<1>1. TypeOK
  <2>1. ids \in Seq(Blocks) /\ Len(ids) <= Capacity
    BY CatchUpAssumption
  <2>2. messages \in Seq(Blocks) /\ Len(messages) < Online - 1 /\ committing \in Seq(Blocks)
    BY OnlineType
  <2>3. 0 \in Blocks /\ 0 \in 0 .. MaxRequests /\ 0 \in Nat /\ <<>> \in Seq(Blocks)
    BY CatchUpAssumption
  <2>4. /\ peerHead \in [Peers -> Blocks] /\ requests \in [Peers -> 0 .. MaxRequests]
        /\ answers \in [Peers -> Seq(Blocks)] /\ checking \in [Blocks -> Nat]
    BY <2>3
  <2>5. /\ made \in Blocks /\ announced \in Blocks /\ head \in Blocks /\ target \in Blocks
        /\ cached \subseteq Blocks /\ failed \subseteq Blocks
        /\ repeated \subseteq Blocks /\ dropped \subseteq Blocks
    BY <2>3
  <2>6. waitingForCommit \in Int /\ sent \in 0 .. MaxRequests
    BY <2>3
  <2>7. catchingUp \in BOOLEAN /\ requested \in BOOLEAN
    BY Zenon
  <2> HIDE DEF Init, Blocks
  <2> QED
    BY <2>1, <2>2, <2>4, <2>5, <2>6, <2>7 DEF TypeOK
<1>2. OnChain /\ HeadsConfirmed /\ CommitsFollow /\ TargetAhead /\ RequestsCounted
  BY DEF OnChain, HeadsConfirmed, CommitsFollow, TargetAhead, RequestsCounted
<1>3. IdsOnce
  BY DEF IdsOnce
<1>4. CacheHasLatest
  BY DEF CacheHasLatest, Range
<1> QED
  BY <1>1, <1>2, <1>3, <1>4 DEF IInv

\* Peers' heads only move up, and what they have committed stays committed.
LEMMA ConfirmedGrows ==
  ASSUME TypeOK, TypeOK', \A p \in Peers : peerHead[p] <= peerHead'[p]
  PROVE  Confirmed \subseteq Confirmed'
<1> SUFFICES ASSUME NEW n \in Blocks, NEW p \in Peers, n <= peerHead[p]
             PROVE  n <= peerHead'[p]
  BY DEF Confirmed
<1>1. n \in Nat /\ peerHead[p] \in Nat /\ peerHead'[p] \in Nat
  BY DEF TypeOK, Blocks
<1>2. peerHead[p] <= peerHead'[p]
  OBVIOUS
<1> QED
  BY <1>1, <1>2

\* The peers make and commit blocks.
LEMMA NetworkKeeps ==
  ASSUME IInv,
         \/ MakeBlock
         \/ \E p \in Peers : PeerCommits(p)
  PROVE  IInv'
<1> USE DEF IInv, Blocks, blockCache, pipeline, goalVars, asking, history
<1>1. CASE MakeBlock
  <2> USE <1>1 DEF MakeBlock
  <2>0. /\ made \in Nat /\ made' \in Blocks /\ made' = made + 1
        /\ peerHead \in [Peers -> Blocks] /\ head \in Blocks /\ announced \in Blocks
        /\ cached \subseteq Blocks
    BY CatchUpAssumption DEF TypeOK
  <2>1. TypeOK'
    BY <2>0 DEF TypeOK
  <2>5. \A n \in Blocks : n <= made => n <= made'
    BY <2>0
  <2>6. head' <= made' /\ announced' <= made'
    BY <2>0, <2>5 DEF OnChain
  <2>7. \A q \in Peers : peerHead'[q] <= made'
    BY <2>0, <2>5 DEF OnChain
  <2>8. \A n \in cached' : n <= made'
    BY <2>0, <2>5 DEF OnChain
  <2>9. \A n \in Blocks : checking'[n] > 0 => n <= made'
    BY <2>5 DEF OnChain
  <2>10. \A i \in DOMAIN committing : committing[i] \in Blocks
    BY ElementOfSeq, LenProperties DEF TypeOK
  <2>11. \A i \in DOMAIN committing' : committing'[i] <= made'
    BY <2>5, <2>10 DEF OnChain
  <2>2. OnChain'
    BY <2>6, <2>7, <2>8, <2>9, <2>11 DEF OnChain
  <2>3. HeadsConfirmed' /\ CommitsFollow'
    BY DEF HeadsConfirmed, CommitsFollow, Confirmed
  <2>4. TargetAhead' /\ RequestsCounted' /\ IdsOnce' /\ CacheHasLatest'
    BY DEF TargetAhead, RequestsCounted, IdsOnce, CacheHasLatest
  <2> QED
    BY <2>1, <2>2, <2>3, <2>4
<1>2. ASSUME NEW p \in Peers, PeerCommits(p)
      PROVE  IInv'
  <2> USE <1>2 DEF PeerCommits
  <2>0. /\ peerHead[p] + 1 \in Blocks /\ peerHead'[p] = peerHead[p] + 1
        /\ \A q \in Peers \ {p} : peerHead'[q] = peerHead[q]
        /\ \A q \in Peers : peerHead[q] \in Nat
        /\ peerHead' \in [Peers -> Blocks]
    <3>1. peerHead \in [Peers -> Blocks] /\ made \in Blocks
      BY DEF TypeOK
    <3>2. peerHead[p] + 1 \in Blocks
      BY <3>1
    <3> QED
      BY <3>1, <3>2
  <2>1. TypeOK'
    BY <2>0 DEF TypeOK
  <2>2. OnChain'
    <3>1. \A q \in Peers : peerHead'[q] <= made'
      BY DEF TypeOK, OnChain
    <3> QED
      BY <3>1 DEF OnChain
  <2>3. Confirmed \subseteq Confirmed'
    <3>1. \A q \in Peers : peerHead[q] <= peerHead'[q]
      BY <2>0
    <3> QED
      BY <2>1, <3>1, ConfirmedGrows
  <2>4. HeadsConfirmed' /\ CommitsFollow'
    BY <2>3 DEF HeadsConfirmed, CommitsFollow
  <2>5. TargetAhead' /\ RequestsCounted' /\ IdsOnce' /\ CacheHasLatest'
    BY DEF TargetAhead, RequestsCounted, IdsOnce, CacheHasLatest
  <2> QED
    BY <2>1, <2>2, <2>4, <2>5
<1> QED
  BY <1>1, <1>2

\* A BOOTSTRAP names the head of its sender, and the block before.
LEMMA PeerAnswersKeeps ==
  ASSUME IInv, NEW p \in Peers, PeerAnswers(p)
  PROVE  IInv'
<1> USE DEF IInv, PeerAnswers, chain, blockCache, pipeline, goalVars, history
<1>1. /\ answers[p] \in Seq(Blocks) /\ peerHead[p] \in Blocks
      /\ answers'[p] = Append(answers[p], peerHead[p])
      /\ \A q \in Peers \ {p} : answers'[q] = answers[q]
  BY DEF TypeOK
<1>2. /\ answers'[p] \in Seq(Blocks)
      /\ \A i \in DOMAIN answers'[p] : i \in DOMAIN answers[p] \/ answers'[p][i] = peerHead[p]
      /\ \A i \in DOMAIN answers'[p] : i \in DOMAIN answers[p] => answers'[p][i] = answers[p][i]
  BY <1>1
<1>3. TypeOK'
  <2>1. requests[p] \in 0 .. MaxRequests
    BY DEF TypeOK
  <2>2. requests[p] - 1 \in 0 .. MaxRequests
    BY <2>1
  <2>3. requests' \in [Peers -> 0 .. MaxRequests]
    BY <2>2 DEF TypeOK
  <2>4. answers' \in [Peers -> Seq(Blocks)]
    BY <1>1, <1>2 DEF TypeOK
  <2> QED
    BY <2>3, <2>4 DEF TypeOK
<1>4. HeadsConfirmed'
  <2>1. Confirmed' = Confirmed /\ peerHead[p] \in Confirmed
    BY <1>1 DEF Confirmed, Blocks
  <2>2. \A i \in DOMAIN answers'[p] : answers'[p][i] \in Confirmed
    BY <1>1, <1>2, <2>1 DEF HeadsConfirmed
  <2> QED
    BY <1>1, <2>1, <2>2 DEF HeadsConfirmed
<1>5. RequestsCounted'
  BY DEF RequestsCounted, TypeOK
<1>6. OnChain' /\ CommitsFollow' /\ TargetAhead' /\ IdsOnce' /\ CacheHasLatest'
  BY DEF OnChain, CommitsFollow, TargetAhead, IdsOnce, CacheHasLatest
<1> QED
  BY <1>3, <1>4, <1>5, <1>6

\* _handle_new_block, with the request of a node that is behind.
LEMMA NewBlockKeeps ==
  ASSUME IInv, NEW n \in Blocks, NEW expected \in BOOLEAN, NewBlock(n, expected)
  PROVE  IInv'
<1> USE DEF IInv
<1>1. /\ UNCHANGED <<made, peerHead, head, committing, failed, waitingForCommit,
                     catchingUp, target, messages, answers>>
      /\ n <= made
      /\ announced' = IF n > announced THEN n ELSE announced
      /\ AppendBlock(n)
  BY DEF NewBlock, goalVars
<1>2. \/ n = announced + 1 /\ UNCHANGED repeated
      \/ n \in 1..announced /\ repeated' = repeated \cup {n}
  BY DEF NewBlock
<1>3. dropped' = IF AppendRaises(n) THEN dropped \cup {n} ELSE dropped
  BY DEF NewBlock
<1>4. /\ ids' \in Seq(Blocks) /\ Len(ids') <= Capacity
      /\ cached' \subseteq cached \cup {n}
      /\ IdsOnce' /\ CacheHasLatest'
  BY <1>1, <1>2, <1>3, AppendBlockKeeps
<1>5. /\ checking' \in [Blocks -> Nat]
      /\ \A b \in Blocks \ {n} : checking'[b] = checking[b]
  <2>1. CASE AppendRaises(n)
    BY <2>1 DEF NewBlock, TypeOK
  <2>2. CASE ~AppendRaises(n)
    <3>1. PICK k \in 0 .. 2 : checking' = [checking EXCEPT ![n] = @ + k]
      <4> DEFINE one == IF n = head + 1 /\ expected THEN 1 ELSE 0
                 two == IF catchingUp /\ Traversable(cached', n, target) THEN 1 ELSE 0
      <4>1. checking' = [checking EXCEPT ![n] = @ + one + two]
        BY <2>2 DEF NewBlock
      <4>2. one + two \in 0 .. 2 /\ one \in Nat /\ two \in Nat
        OBVIOUS
      <4>3. checking[n] + one + two = checking[n] + (one + two)
        BY <4>2 DEF TypeOK
      <4> HIDE DEF one, two
      <4>4. checking' = [checking EXCEPT ![n] = @ + (one + two)]
        BY <4>1, <4>3, Zenon
      <4> QED
        BY <4>2, <4>4
    <3>2. checking \in [Blocks -> Nat] /\ checking[n] + k \in Nat
      BY DEF TypeOK
    <3> QED
      BY <3>1, <3>2, Zenon
  <2> QED
    BY <2>1, <2>2
<1>6. /\ requested' \in BOOLEAN
      /\ requests' \in [Peers -> 0 .. MaxRequests]
      /\ sent' \in 0 .. MaxRequests
      /\ RequestsCounted'
  <2>1. CASE UNCHANGED asking
    BY <2>1 DEF asking, TypeOK, RequestsCounted
  <2>2. CASE sent < MaxRequests /\ Ask
    <3>1. PICK reached \in SUBSET Peers :
            requests' = [p \in Peers |-> requests[p] + IF p \in reached THEN 1 ELSE 0]
      BY <2>2 DEF Ask
    <3>2. sent' = sent + 1 /\ sent' \in 0 .. MaxRequests /\ requested' = TRUE
      BY <2>2 DEF Ask, TypeOK
    <3>3. \A p \in Peers : requests'[p] \in 0 .. MaxRequests /\ requests'[p] <= sent'
      <4> SUFFICES ASSUME NEW p \in Peers
                   PROVE  requests'[p] \in 0 .. MaxRequests /\ requests'[p] <= sent'
        OBVIOUS
      <4>1. requests[p] \in Nat /\ requests[p] <= sent /\ sent \in Nat
        BY DEF TypeOK, RequestsCounted
      <4>2. requests'[p] = requests[p] \/ requests'[p] = requests[p] + 1
        BY <3>1, <4>1
      <4> QED
        BY <3>2, <4>1, <4>2
    <3> QED
      BY <3>1, <3>2, <3>3 DEF RequestsCounted
  <2>3. UNCHANGED asking \/ (sent < MaxRequests /\ Ask)
    <3>1. CASE AppendRaises(n)
      BY <3>1 DEF NewBlock, asking
    <3>2. CASE ~AppendRaises(n)
      BY <3>2 DEF NewBlock
    <3> QED
      BY <3>1, <3>2
  <2> QED
    BY <2>1, <2>2, <2>3
<1>7. announced' \in Blocks /\ announced' <= made' /\ repeated' \subseteq Blocks
      /\ dropped' \subseteq Blocks /\ cached' \subseteq Blocks
  BY <1>1, <1>2, <1>3, <1>4 DEF TypeOK, OnChain, Blocks
<1>8. TypeOK'
  BY <1>1, <1>4, <1>5, <1>6, <1>7 DEF TypeOK
<1>9. OnChain'
  BY <1>1, <1>4, <1>5, <1>7 DEF OnChain
<1>10. HeadsConfirmed' /\ CommitsFollow' /\ TargetAhead'
  BY <1>1 DEF HeadsConfirmed, CommitsFollow, TargetAhead, Confirmed
<1> QED
  BY <1>4, <1>6, <1>8, <1>9, <1>10

\* _handle_valid_block and _handle_invalid_block: what goes to commit comes after the
\* last commit under way.
LEMMA ValidBlockKeeps ==
  ASSUME IInv, NEW n \in Blocks,
         (\E expected \in BOOLEAN : ValidBlock(n, expected)) \/ InvalidBlock(n)
  PROVE  IInv'
<1> USE DEF IInv
<1>1. /\ UNCHANGED <<made, peerHead, announced, head, ids, cached, catchingUp, target,
                     requested, requests, sent, messages, answers, repeated, dropped>>
      /\ checking[n] > 0
      /\ checking' = [checking EXCEPT ![n] = @ - 1]
  BY DEF ValidBlock, InvalidBlock, Answerable, Answer, chain, blockCache, goalVars, asking,
         history
<1>2. /\ \/ committing' = committing
         \/ committing' = Append(committing, n) /\ n = head + 1
      /\ failed' = failed \/ failed' = failed \cup {n}
      /\ waitingForCommit' = waitingForCommit \/ waitingForCommit' = waitingForCommit + 1
  BY DEF ValidBlock, InvalidBlock
<1>3. /\ checking' \in [Blocks -> Nat]
      /\ \A b \in Blocks : checking'[b] <= checking[b]
  BY <1>1 DEF TypeOK
<1>4. /\ committing \in Seq(Blocks) /\ committing' \in Seq(Blocks)
      /\ DOMAIN committing = 1 .. Len(committing) /\ Len(committing) \in Nat
  <2>1. committing \in Seq(Blocks)
    BY DEF TypeOK
  <2>2. Append(committing, n) \in Seq(Blocks)
    BY <2>1, AppendProperties
  <2> QED
    BY <1>2, <2>1, <2>2, LenProperties
<1>5. TypeOK'
  <2>1. failed' \subseteq Blocks /\ waitingForCommit' \in Int
    BY <1>2 DEF TypeOK
  <2> QED
    BY <1>1, <1>3, <1>4, <2>1 DEF TypeOK
<1>9. checking \in [Blocks -> Nat]
  BY DEF TypeOK
<1>8. \A b \in Blocks : checking'[b] > 0 => checking[b] > 0
  BY <1>3, <1>9
<1>0. \A b \in Blocks : checking'[b] > 0 => b <= made
  BY <1>8 DEF OnChain
<1>6. CASE committing' = committing
  <2>1. OnChain'
    BY <1>0, <1>1, <1>6 DEF OnChain
  <2>2. CommitsFollow'
    BY <1>1, <1>6 DEF CommitsFollow
  <2> QED
    BY <2>1, <2>2, <1>1, <1>5 DEF HeadsConfirmed, Confirmed, TargetAhead, RequestsCounted,
       IdsOnce, CacheHasLatest
<1>7. CASE committing' = Append(committing, n) /\ n = head + 1
  <2>1. /\ DOMAIN committing' = 1 .. Len(committing) + 1
        /\ \A i \in 1 .. Len(committing) : committing'[i] = committing[i]
        /\ committing'[Len(committing) + 1] = n
    BY <1>4, <1>7, AppendProperties, LenProperties
  <2>2. n <= made
    BY <1>1 DEF OnChain
  <2>3. OnChain'
    <3>1. \A i \in DOMAIN committing' : committing'[i] <= made
      BY <1>4, <2>1, <2>2 DEF OnChain
    <3> QED
      BY <1>0, <1>1, <3>1 DEF OnChain
  <2>4. CommitsFollow'
    <3>1. \A i \in 1 .. Len(committing) + 1 : committing'[i] = head \/ committing'[i] = head + 1
      BY <1>4, <1>7, <2>1 DEF CommitsFollow
    <3>2. \A i, j \in 1 .. Len(committing) + 1 : i < j => committing'[i] <= committing'[j]
      <4> SUFFICES ASSUME NEW i \in 1 .. Len(committing) + 1,
                          NEW j \in 1 .. Len(committing) + 1, i < j
                   PROVE  committing'[i] <= committing'[j]
        OBVIOUS
      <4>1. CASE j = Len(committing) + 1
        <5>1. head \in Nat
          BY DEF TypeOK, Blocks
        <5>2. committing'[j] = head + 1
          BY <1>7, <2>1, <4>1
        <5>3. committing'[i] = head \/ committing'[i] = head + 1
          BY <3>1
        <5> QED
          BY <5>1, <5>2, <5>3
      <4>2. CASE j \in 1 .. Len(committing)
        BY <1>4, <2>1, <4>2 DEF CommitsFollow
      <4> QED
        BY <1>4, <4>1, <4>2
    <3> QED
      BY <1>1, <2>1, <3>1, <3>2 DEF CommitsFollow
  <2> QED
    BY <2>3, <2>4, <1>1, <1>5 DEF HeadsConfirmed, Confirmed, TargetAhead, RequestsCounted,
       IdsOnce, CacheHasLatest
<1> QED
  BY <1>2, <1>6, <1>7

\* A commit moves the head by one block, or not at all.
LEMMA CommitMoves ==
  ASSUME IInv, NEW expected \in BOOLEAN, CommittedBlock(expected)
  PROVE  /\ committing[1] \in Blocks /\ committing[1] <= made
         /\ head' = committing[1] /\ (head' = head \/ head' = head + 1)
         /\ head' = head => UNCHANGED <<catchingUp, messages>>
<1>1. committing \in Seq(Blocks) /\ committing # <<>>
  BY DEF CommittedBlock, IInv, TypeOK
<1>2. 1 \in DOMAIN committing /\ committing[1] \in Blocks
  BY <1>1, ElementOfSeq, LenProperties
<1>3. head' = committing[1]
  BY DEF CommittedBlock
<1>4. committing[1] = head \/ committing[1] = head + 1
  BY <1>2 DEF IInv, CommitsFollow
<1>5. committing[1] <= made
  BY <1>2 DEF IInv, OnChain
<1>6. committing[1] = head => UNCHANGED <<catchingUp, messages>>
  BY DEF CommittedBlock, IInv, TargetAhead
<1> QED
  BY <1>2, <1>3, <1>4, <1>5, <1>6

\* _handle_committed_block: the head moves by one block.
LEMMA CommittedBlockKeeps ==
  ASSUME IInv, NEW expected \in BOOLEAN, CommittedBlock(expected)
  PROVE  IInv'
<1> USE DEF IInv
<1>1. /\ UNCHANGED <<made, peerHead, announced, ids, cached, failed, target, requests,
                     sent, answers, repeated, dropped>>
      /\ committing # <<>> /\ committing' = Tail(committing)
      /\ waitingForCommit' = waitingForCommit - 1
  BY DEF CommittedBlock, chain, blockCache, history
<1>2. /\ committing[1] \in Blocks /\ committing[1] <= made
      /\ head' = committing[1] /\ (head' = head \/ head' = head + 1)
  BY CommitMoves
<1>3. \/ catchingUp' = FALSE /\ requested' = FALSE /\ messages' = <<>>
      \/ UNCHANGED <<catchingUp, requested, messages>> /\ (catchingUp => target # head')
  BY <1>2 DEF CommittedBlock
<1>4. /\ checking' \in [Blocks -> Nat]
      /\ \A b \in Blocks : checking'[b] > 0 => checking[b] > 0 \/ b \in cached
  <2>1. checking' = [b \in Blocks |-> checking[b] +
          IF b \in {committing[1] + 1} \cap cached \cap IF expected THEN Blocks ELSE {}
          THEN 1 ELSE 0]
    BY DEF CommittedBlock, Check
  <2> QED
    BY <2>1 DEF TypeOK
<1>5. /\ committing \in Seq(Blocks) /\ Len(committing) \in Nat /\ Len(committing) >= 1
      /\ DOMAIN committing = 1 .. Len(committing)
      /\ committing' \in Seq(Blocks)
      /\ DOMAIN committing' = 1 .. Len(committing) - 1
      /\ \A i \in 1 .. Len(committing) - 1 : committing'[i] = committing[i + 1]
  BY <1>1, LenProperties, HeadTailProperties DEF TypeOK
<1>6. TypeOK'
  <2>1. messages' \in Seq(Blocks) /\ Len(messages') < Online - 1
    <3>1. messages \in Seq(Blocks) /\ Len(messages) < Online - 1
      BY DEF TypeOK
    <3>2. <<>> \in Seq(Blocks) /\ Len(<<>>) < Online - 1
      BY OnlineType
    <3> QED
      BY <1>3, <3>1, <3>2
  <2>2. waitingForCommit' \in Int
    BY <1>1 DEF TypeOK
  <2>3. catchingUp' \in BOOLEAN /\ requested' \in BOOLEAN
    BY <1>3, Zenon DEF TypeOK
  <2> QED
    BY <1>1, <1>2, <1>4, <1>5, <2>1, <2>2, <2>3 DEF TypeOK
<1>7. OnChain'
  <2>1. \A b \in Blocks : checking'[b] > 0 => b <= made
    BY <1>4 DEF OnChain
  <2>2. \A i \in DOMAIN committing' : committing'[i] <= made
    <3> SUFFICES ASSUME NEW i \in 1 .. Len(committing) - 1
                 PROVE  committing[i + 1] <= made
      BY <1>5
    <3>1. i + 1 \in 1 .. Len(committing)
      BY <1>5
    <3> QED
      BY <1>5, <3>1 DEF OnChain
  <2>3. head' <= made'
    BY <1>1, <1>2
  <2> QED
    BY <1>1, <2>1, <2>2, <2>3 DEF OnChain
<1>8. HeadsConfirmed'
  <2>1. \A i \in DOMAIN messages' : messages'[i] \in Confirmed
    BY <1>3 DEF HeadsConfirmed
  <2> QED
    BY <1>1, <2>1 DEF HeadsConfirmed, Confirmed
<1>9. CommitsFollow'
  <2>1. \A i \in 1 .. Len(committing) - 1 :
          committing'[i] = head' \/ committing'[i] = head' + 1
    <3> SUFFICES ASSUME NEW i \in 1 .. Len(committing) - 1
                 PROVE  committing[i + 1] = head' \/ committing[i + 1] = head' + 1
      BY <1>5
    <3>1. i + 1 \in 1 .. Len(committing) /\ 1 < i + 1 /\ 1 \in 1 .. Len(committing)
      BY <1>5
    <3>2. committing[1] <= committing[i + 1]
      BY <1>5, <3>1 DEF CommitsFollow
    <3>3. committing[i + 1] = head \/ committing[i + 1] = head + 1
      BY <1>5, <3>1 DEF CommitsFollow
    <3>4. head \in Nat
      BY DEF TypeOK, Blocks
    <3>5. CASE head' = head
      BY <3>3, <3>5
    <3>6. CASE head' = head + 1
      BY <1>2, <3>2, <3>3, <3>4, <3>6
    <3> QED
      BY <1>2, <3>5, <3>6
  <2>2. \A i, j \in 1 .. Len(committing) - 1 : i < j => committing'[i] <= committing'[j]
    <3> SUFFICES ASSUME NEW i \in 1 .. Len(committing) - 1,
                        NEW j \in 1 .. Len(committing) - 1, i < j
                 PROVE  committing[i + 1] <= committing[j + 1]
      BY <1>5
    <3>1. i + 1 \in 1 .. Len(committing) /\ j + 1 \in 1 .. Len(committing) /\ i + 1 < j + 1
      BY <1>5
    <3> QED
      BY <1>5, <3>1 DEF CommitsFollow
  <2> QED
    BY <1>5, <2>1, <2>2 DEF CommitsFollow
<1>10. TargetAhead' /\ RequestsCounted' /\ IdsOnce' /\ CacheHasLatest'
  BY <1>1, <1>3 DEF TargetAhead, RequestsCounted, IdsOnce, CacheHasLatest
<1> QED
  BY <1>6, <1>7, <1>8, <1>9, <1>10

\* A catch-up that begins has a target that a peer has committed.
LEMMA BootstrapMoves ==
  ASSUME IInv, NEW p \in Peers, HandleBootstrap(p)
  PROVE  /\ \/ UNCHANGED <<catchingUp, target, checking, failed>>
            \/ /\ ~catchingUp /\ catchingUp' = TRUE
               /\ target' \in Blocks /\ target' \in Confirmed /\ target' # head
               /\ checking' \in [Blocks -> Nat]
               /\ \A b \in Blocks : checking'[b] > 0 => checking[b] > 0 \/ b <= target'
               /\ failed' \subseteq Blocks
         /\ messages' \in Seq(Blocks) /\ Len(messages') < Online - 1
         /\ \A i \in DOMAIN messages' : messages'[i] \in Confirmed
<1> USE DEF IInv
<1> DEFINE msgs == Append(messages, Head(answers[p]))
           Enough(most) == Count(msgs, most) >= ConsensusAmount - 1
           Arrived(most) == Enough(most) /\ most = head
           All(most) == ~Arrived(most) /\ Len(msgs) = Online - 1
<1>1. PICK most \in -1..MaxNum :
        /\ NamedMost(msgs, most)
        /\ IF Enough(most) /\ ~Arrived(most)
           THEN Begin(most)
           ELSE UNCHANGED <<catchingUp, target, checking, failed>>
        /\ messages' = IF Arrived(most) \/ All(most) THEN <<>> ELSE msgs
  BY DEF HandleBootstrap
<1>2. /\ Head(answers[p]) \in Blocks /\ Head(answers[p]) \in Confirmed
      /\ messages \in Seq(Blocks) /\ Len(messages) < Online - 1
  <2>1. answers[p] \in Seq(Blocks) /\ answers[p] # <<>>
    BY DEF HandleBootstrap, TypeOK
  <2>2. Head(answers[p]) \in Blocks /\ 1 \in DOMAIN answers[p] /\ Head(answers[p]) = answers[p][1]
    BY <2>1, HeadTailProperties, LenProperties, EmptySeq
  <2> QED
    BY <2>2 DEF HeadsConfirmed, TypeOK
<1>3. /\ msgs \in Seq(Blocks) /\ Len(msgs) = Len(messages) + 1
      /\ Len(msgs) \in Nat /\ Len(messages) \in Nat
      /\ DOMAIN msgs = 1 .. Len(messages) + 1 /\ DOMAIN messages = 1 .. Len(messages)
      /\ \A i \in 1 .. Len(messages) : msgs[i] = messages[i]
      /\ msgs[Len(messages) + 1] = Head(answers[p])
  BY <1>2, AppendProperties, LenProperties
<1>4. \A i \in DOMAIN msgs : msgs[i] \in Confirmed
  BY <1>2, <1>3 DEF HeadsConfirmed
<1> HIDE DEF msgs
<1>5. most \in Blocks
  <2>1. Count(msgs, -1) \in Nat /\ Count(msgs, 0) \in Nat /\ Count(msgs, -1) <= Count(msgs, 0)
    BY <1>3, CountBelow
  <2>2. ASSUME most = -1
        PROVE  FALSE
    <3>1. \/ Count(msgs, 0) < Count(msgs, -1)
          \/ Count(msgs, 0) = Count(msgs, -1) /\ 0 < -1
      <4>1. 0 \in -1..MaxNum \ {-1}
        OBVIOUS
      <4> QED
        BY <1>1, <2>2, <4>1 DEF NamedMost
    <3> QED
      BY <2>1, <3>1
  <2> QED
    BY <2>2 DEF Blocks
<1>6. /\ messages' \in Seq(Blocks) /\ Len(messages') < Online - 1
      /\ \A i \in DOMAIN messages' : messages'[i] \in Confirmed
  <2>1. CASE messages' = <<>>
    BY <2>1, OnlineType
  <2>2. CASE messages' = msgs /\ Len(msgs) # Online - 1
    BY <1>2, <1>3, <1>4, <2>2, OnlineType
  <2> QED
    BY <1>1, <2>1, <2>2
<1>7. CASE ~(Enough(most) /\ ~Arrived(most)) \/ catchingUp
  BY <1>1, <1>6, <1>7 DEF Begin
<1>8. CASE Enough(most) /\ ~Arrived(most) /\ ~catchingUp
  <2>1. most \in Confirmed /\ most # head
    BY <1>3, <1>4, <1>5, <1>8, NamedIsConfirmed
  <2>2. catchingUp' = TRUE /\ target' = most
    BY <1>1, <1>8 DEF Begin
  <2>3. PICK way \in SUBSET Int : Check(way) /\ \A b \in way : b <= most
    <3>1. \/ Check(head + 1 .. most)
          \/ \E k \in Common(most) : Check(k + 1 .. most)
          \/ Check({})
      BY <1>1, <1>8 DEF Begin
    <3>2. \A k \in Int : k + 1 .. most \in SUBSET Int /\ \A b \in k + 1 .. most : b <= most
      BY <1>5 DEF Blocks
    <3>3. head \in Int /\ Common(most) \subseteq Int
      BY <1>5 DEF TypeOK, Blocks, Common, CachedChain
    <3> QED
      BY <3>1, <3>2, <3>3
  <2>4. /\ checking' \in [Blocks -> Nat]
        /\ \A b \in Blocks : checking'[b] > 0 => checking[b] > 0 \/ b <= most
    <3>1. checking' = [b \in Blocks |-> checking[b] + IF b \in way THEN 1 ELSE 0]
      BY <2>3 DEF Check
    <3>2. checking \in [Blocks -> Nat]
      BY DEF TypeOK
    <3>3. checking' \in [Blocks -> Nat]
      BY <3>1, <3>2
    <3>4. \A b \in Blocks : b \notin way => checking'[b] = checking[b]
      BY <3>1, <3>2
    <3> QED
      BY <2>3, <3>3, <3>4
  <2>5. failed' \subseteq Blocks
    <3>1. CASE failed' = failed
      BY <3>1 DEF TypeOK
    <3>2. ASSUME NEW k \in Common(most), failed' = failed \cup {k + 1}
          PROVE  failed' \subseteq Blocks
      <4>1. k + 1 \in Blocks
        BY <1>5 DEF Common, CachedChain, TypeOK, Blocks
      <4> QED
        BY <3>2, <4>1 DEF TypeOK
    <3>3. failed' = failed \/ \E k \in Common(most) : failed' = failed \cup {k + 1}
      BY <1>1, <1>8 DEF Begin
    <3> QED
      BY <3>1, <3>2, <3>3
  <2> QED
    BY <1>5, <1>6, <1>8, <2>1, <2>2, <2>4, <2>5
<1> QED
  BY <1>7, <1>8

\* The count of the answers and fastforward: the target is what a peer has committed.
LEMMA HandleBootstrapKeeps ==
  ASSUME IInv, NEW p \in Peers, HandleBootstrap(p)
  PROVE  IInv'
<1> USE DEF IInv
<1>1. /\ UNCHANGED <<made, peerHead, announced, head, ids, cached, committing,
                     waitingForCommit, requests, sent, repeated, dropped>>
      /\ answers[p] # <<>>
      /\ answers' = [answers EXCEPT ![p] = Tail(@)]
  BY DEF HandleBootstrap, chain, blockCache, history
<1>2. /\ \/ UNCHANGED <<catchingUp, target, checking, failed>>
         \/ /\ ~catchingUp /\ catchingUp' = TRUE
            /\ target' \in Blocks /\ target' \in Confirmed /\ target' # head
            /\ checking' \in [Blocks -> Nat]
            /\ \A b \in Blocks : checking'[b] > 0 => checking[b] > 0 \/ b <= target'
            /\ failed' \subseteq Blocks
      /\ messages' \in Seq(Blocks) /\ Len(messages') < Online - 1
      /\ \A i \in DOMAIN messages' : messages'[i] \in Confirmed
  BY BootstrapMoves
<1>3. requested' \in BOOLEAN
  BY DEF HandleBootstrap, TypeOK
<1>4. /\ answers' \in [Peers -> Seq(Blocks)]
      /\ \A q \in Peers : \A i \in DOMAIN answers'[q] : answers'[q][i] \in Confirmed
  <2>1. answers[p] \in Seq(Blocks)
    BY DEF TypeOK
  <2>2. /\ Tail(answers[p]) \in Seq(Blocks)
        /\ \A i \in DOMAIN Tail(answers[p]) :
             i + 1 \in DOMAIN answers[p] /\ Tail(answers[p])[i] = answers[p][i + 1]
    BY <1>1, <2>1, HeadTailProperties, LenProperties
  <2>3. \A i \in DOMAIN Tail(answers[p]) : Tail(answers[p])[i] \in Confirmed
    BY <2>2 DEF HeadsConfirmed
  <2> QED
    BY <1>1, <2>2, <2>3 DEF HeadsConfirmed, TypeOK
<1>5. TypeOK'
  BY <1>1, <1>2, <1>3, <1>4 DEF TypeOK
<1>6. OnChain'
  <2>1. \A b \in Blocks : checking'[b] > 0 => b <= made
    <3>1. CASE UNCHANGED checking
      BY <3>1 DEF OnChain
    <3>2. CASE /\ target' \in Blocks /\ target' \in Confirmed
               /\ \A b \in Blocks : checking'[b] > 0 => checking[b] > 0 \/ b <= target'
      <4>1. target' \in Nat /\ made \in Nat
        BY <3>2 DEF TypeOK, Blocks
      <4>2. target' <= made
        <5>1. CASE target' = 0
          BY <4>1, <5>1
        <5>2. CASE \E p2 \in Peers : target' <= peerHead[p2]
          BY <4>1, <5>2 DEF OnChain, TypeOK, Blocks
        <5> QED
          BY <3>2, <5>1, <5>2 DEF Confirmed
      <4>3. \A b \in Blocks : b \in Nat
        BY DEF Blocks
      <4> QED
        BY <3>2, <4>1, <4>2, <4>3 DEF OnChain
    <3> QED
      BY <1>2, <3>1, <3>2
  <2> QED
    BY <1>1, <2>1 DEF OnChain
<1>7. HeadsConfirmed'
  BY <1>1, <1>2, <1>4 DEF HeadsConfirmed, Confirmed
<1>8. CommitsFollow' /\ TargetAhead' /\ RequestsCounted' /\ IdsOnce' /\ CacheHasLatest'
  BY <1>1, <1>2 DEF CommitsFollow, TargetAhead, RequestsCounted, IdsOnce, CacheHasLatest
<1> QED
  BY <1>5, <1>6, <1>7, <1>8

---------------------------------------------------------------------------
(* The theorems *)

\* Nothing changes.
LEMMA StutterKeeps == IInv /\ UNCHANGED vars => IInv'
  BY DEF vars, chain, blockCache, pipeline, goalVars, asking, history, IInv, TypeOK, OnChain,
     HeadsConfirmed, Confirmed, CommitsFollow, TargetAhead, RequestsCounted, IdsOnce,
     CacheHasLatest

\* In every reachable state, whatever blocks, requests and answers came in whatever
\* order, the invariant holds.
THEOREM CatchUpInvariant == Spec => []IInv
<1>1. Init => IInv
  BY InitInvariant
<1>2. IInv /\ [Next]_vars => IInv'
  <2> SUFFICES ASSUME IInv, [Next]_vars
               PROVE  IInv'
    OBVIOUS
  <2>1. CASE Next
    BY <2>1, NetworkKeeps, PeerAnswersKeeps, NewBlockKeeps, ValidBlockKeeps,
       CommittedBlockKeeps, HandleBootstrapKeeps DEF Next
  <2>2. CASE UNCHANGED vars
    BY <2>2, StutterKeeps
  <2> QED
    BY <2>1, <2>2
<1> QED
  BY <1>1, <1>2, PTL DEF Spec

\* The state of the engine and its cache keeps its types, and the list of
\* bootstrap messages (bootstrap_messages_received) never gets as long as the
\* peers are many: TypeOK in every reachable state.
THEOREM TypeCorrect == Spec => []TypeOK
<1>1. IInv => TypeOK
  BY DEF IInv
<1> QED
  BY <1>1, CatchUpInvariant, PTL

\* BlockCache.append (ddpoa_engine.py): the dictionary never has a block that the
\* list of ids has lost, so no block stays for ever, and only a block that was
\* announced twice can make an eviction raise.
THEOREM CacheIsLatest == Spec => []CacheHasLatest
<1>1. IInv => CacheHasLatest
  BY DEF IInv
<1> QED
  BY <1>1, CatchUpInvariant, PTL

\* The goal of Following.
Goal == IF catchingUp THEN target ELSE -1

\* What the peers do is Grow.
LEMMA NetworkGrows ==
  ASSUME IInv, IInv',
         \/ MakeBlock
         \/ \E p \in Peers : PeerCommits(p)
  PROVE  /\ made' \in made .. MaxNum
         /\ Confirmed \subseteq Confirmed' /\ Confirmed' \subseteq 0 .. made'
         /\ UNCHANGED <<head, catchingUp, target>>
<1> USE DEF IInv
<1>1. made' \in made .. MaxNum /\ UNCHANGED <<head, catchingUp, target>>
  BY DEF MakeBlock, PeerCommits, goalVars, TypeOK, Blocks
<1>2. \A p \in Peers : peerHead[p] <= peerHead'[p]
  <2>1. \A p \in Peers : peerHead[p] \in Nat
    BY DEF TypeOK, Blocks
  <2>2. CASE MakeBlock
    BY <2>1, <2>2 DEF MakeBlock
  <2>3. ASSUME NEW q \in Peers, PeerCommits(q)
        PROVE  \A p \in Peers : peerHead[p] <= peerHead'[p]
    <3>1. peerHead' = [peerHead EXCEPT ![q] = peerHead[q] + 1]
      BY <2>3 DEF PeerCommits
    <3>2. DOMAIN peerHead = Peers
      BY DEF TypeOK
    <3>3. \A p \in Peers : peerHead'[p] = IF p = q THEN peerHead[q] + 1 ELSE peerHead[p]
      BY <3>1, <3>2
    <3> QED
      BY <2>1, <3>3
  <2> QED
    BY <2>2, <2>3
<1>3. Confirmed \subseteq Confirmed'
  BY <1>2, ConfirmedGrows
<1>4. Confirmed' \subseteq 0 .. made'
  <2>0. made' \in Nat /\ Blocks \subseteq Nat
    BY DEF TypeOK, Blocks
  <2> SUFFICES ASSUME NEW n \in Confirmed'
               PROVE  n \in 0 .. made'
    OBVIOUS
  <2>1. CASE n = 0
    BY <2>0, <2>1
  <2>2. CASE n # 0
    <3>1. n \in Blocks /\ \E p \in Peers : n <= peerHead'[p]
      BY <2>2 DEF Confirmed
    <3>2. PICK p \in Peers : n <= peerHead'[p]
      BY <3>1
    <3>3. n \in Nat /\ peerHead'[p] \in Nat /\ peerHead'[p] <= made'
      BY <2>0, <3>1 DEF TypeOK, OnChain
    <3> QED
      BY <2>0, <3>2, <3>3
  <2> QED
    BY <2>1, <2>2
<1> QED
  BY <1>1, <1>3, <1>4

\* Every step of the engine is a step of Following or changes nothing that
\* Following speaks of.
LEMMA StepFollows ==
  ASSUME IInv, IInv', [Next]_vars
  PROVE  [Follows!Next]_(Follows!followVars)
<1> USE DEF IInv
<1> DEFINE Same == UNCHANGED <<head, catchingUp, target, made, peerHead>>
<1>1. CASE Same
  BY <1>1 DEF Follows!followVars
<1>2. CASE MakeBlock \/ \E p \in Peers : PeerCommits(p)
  BY <1>2, NetworkGrows DEF Follows!Next, Follows!Grow, Confirmed
<1>3. ASSUME NEW expected \in BOOLEAN, CommittedBlock(expected)
      PROVE  [Follows!Next]_(Follows!followVars)
  <2>1. /\ committing[1] <= made /\ head' = committing[1] /\ (head' = head \/ head' = head + 1)
        /\ head' = head => UNCHANGED <<catchingUp, messages>>
    BY <1>3, CommitMoves
  <2>2. UNCHANGED <<made, peerHead, target>>
    BY <1>3 DEF CommittedBlock, chain
  <2>3. CASE head' = head
    BY <2>1, <2>2, <2>3, <1>1
  <2>4. CASE head' = head + 1
    <3>1. head < made
      BY <2>1, <2>4 DEF TypeOK, Blocks
    <3>2. catchingUp' = (catchingUp /\ head' # target)
      BY <1>3, <2>1 DEF CommittedBlock, TypeOK
    <3>3. Goal' = IF Goal = head' THEN -1 ELSE Goal
      BY <2>2, <2>4, <3>2 DEF Goal, TypeOK, Blocks
    <3>4. Confirmed' = Confirmed
      BY <2>2 DEF Confirmed
    <3> QED
      BY <2>2, <2>4, <3>1, <3>3, <3>4
      DEF Follows!Next, Follows!Advance, Follows!None, Goal, Confirmed
  <2> QED
    BY <2>1, <2>3, <2>4
<1>4. ASSUME NEW p \in Peers, HandleBootstrap(p)
      PROVE  [Follows!Next]_(Follows!followVars)
  <2>1. UNCHANGED <<made, peerHead, head>>
    BY <1>4 DEF HandleBootstrap, chain
  <2>2. \/ UNCHANGED <<catchingUp, target>>
        \/ ~catchingUp /\ catchingUp' = TRUE /\ target' \in Confirmed /\ target' # head
    BY <1>4, BootstrapMoves
  <2>3. CASE UNCHANGED <<catchingUp, target>>
    BY <2>1, <2>3, <1>1
  <2>4. CASE ~catchingUp /\ catchingUp' = TRUE /\ target' \in Confirmed /\ target' # head
    <3>1. Goal = -1 /\ Goal' = target'
      BY <2>4 DEF Goal
    <3>2. Goal' \in Confirmed \ {head} /\ Confirmed' = Confirmed
      BY <2>1, <2>4, <3>1 DEF Confirmed
    <3> QED
      BY <2>1, <3>1, <3>2
      DEF Follows!Next, Follows!SetGoal, Follows!None, Goal, Confirmed
  <2> QED
    BY <2>2, <2>3, <2>4
<1>5. CASE \/ \E n \in Blocks : InvalidBlock(n)
           \/ \E n \in Blocks, expected \in BOOLEAN :
                NewBlock(n, expected) \/ ValidBlock(n, expected)
           \/ \E p \in Peers : PeerAnswers(p)
           \/ UNCHANGED vars
  <2>1. Same
    BY <1>5 DEF InvalidBlock, NewBlock, ValidBlock, PeerAnswers, vars, chain, goalVars
  <2> QED
    BY <1>1, <2>1
<1> QED
  BY <1>2, <1>3, <1>4, <1>5 DEF Next

\* A catch-up is what Following promises, for any chain and any peers: it aims at a
\* block that a peer has committed, moves the head one block at a time and ends at
\* its target only (fastforward, _handle_valid_block, _handle_committed_block).
THEOREM CatchUpFollows == Spec => ImplementsFollowing
<1>1. Init => Follows!Init
  <2> SUFFICES ASSUME Init
               PROVE  Follows!Init
    OBVIOUS
  <2>1. { n \in Blocks : \E p \in Peers : n <= peerHead[p] } \subseteq {0}
    BY DEF Init, Blocks
  <2> QED
    BY <2>1 DEF Init, Follows!Init, Follows!None
<1>2. IInv /\ IInv' /\ [Next]_vars => [Follows!Next]_(Follows!followVars)
  BY StepFollows
<1> QED
  BY <1>1, <1>2, CatchUpInvariant, PTL DEF Spec, ImplementsFollowing, Follows!Spec

---------------------------------------------------------------------------
(* One request: no peer is counted twice *)

\* Every head that is counted comes from a peer of its own, of which nothing else
\* is on its way.
SourcesOf(msgs, source, asked, onTheWay, heads) ==
  /\ source \in [DOMAIN msgs -> Peers]
  /\ \A i, j \in DOMAIN msgs : source[i] = source[j] => i = j
  /\ \A i \in DOMAIN msgs :
       /\ asked[source[i]] = 0 /\ onTheWay[source[i]] = <<>>
       /\ msgs[i] <= heads[source[i]]

AskedOnce ==
  /\ sent = 0 => messages = <<>> /\ \A p \in Peers : answers[p] = <<>>
  /\ \A p \in Peers : requests[p] # 0 => requests[p] = 1 /\ answers[p] = <<>>
  /\ \A p \in Peers : answers[p] # <<>> => Len(answers[p]) = 1 /\ answers[p][1] <= peerHead[p]
  /\ \E source \in [DOMAIN messages -> Peers] :
       SourcesOf(messages, source, requests, answers, peerHead)

OnceInv == sent <= 1 => AskedOnce /\ TargetIsAgreed

\* Where nothing is counted nothing needs a source.
LEMMA NoMessages ==
  ASSUME NEW asked, NEW onTheWay, NEW heads
  PROVE  \E s \in [DOMAIN <<>> -> Peers] : SourcesOf(<<>>, s, asked, onTheWay, heads)
<1> DEFINE s == [i \in {} |-> CHOOSE p \in Peers : TRUE]
<1>1. DOMAIN <<>> = {}
  OBVIOUS
<1>2. s \in [DOMAIN <<>> -> Peers]
  BY <1>1
<1>3. SourcesOf(<<>>, s, asked, onTheWay, heads)
  BY <1>1, <1>2 DEF SourcesOf
<1> QED BY <1>2, <1>3

\* Blocks of which so many peers have committed what so many messages name.
LEMMA NamedByPeers ==
  ASSUME TypeOK, NEW msgs \in Seq(Blocks), NEW b \in Blocks,
         NEW source \in [DOMAIN msgs -> Peers],
         \A i, j \in DOMAIN msgs : source[i] = source[j] => i = j,
         \A i \in DOMAIN msgs : msgs[i] <= peerHead[source[i]]
  PROVE  Count(msgs, b) <= Cardinality({ p \in Peers : peerHead[p] >= b })
<1> DEFINE S == { i \in DOMAIN msgs : Names(msgs[i], b) }
           T == { p \in Peers : peerHead[p] >= b }
           f == [i \in S |-> source[i]]
<1>1. IsFiniteSet(T)
  BY FS_Subset
<1>2. ASSUME NEW i \in S PROVE source[i] \in T
  <2>1. msgs[i] \in Blocks /\ source[i] \in Peers
    BY ElementOfSeq, LenProperties
  <2>2. msgs[i] <= peerHead[source[i]] /\ Names(msgs[i], b)
    OBVIOUS
  <2>3. peerHead[source[i]] \in Blocks
    BY <2>1 DEF TypeOK
  <2>4. b <= msgs[i]
    BY <2>1, <2>2 DEF Names, Blocks
  <2> QED BY <2>1, <2>2, <2>3, <2>4 DEF Blocks
<1>3. f \in Injection(S, T)
  BY <1>2 DEF Injection, IsInjective
<1>4. Cardinality(S) <= Cardinality(T)
  BY <1>1, <1>3, FS_Injection
<1> QED BY <1>4 DEF Count

\* A peer's answer to the one request is counted.
LEMMA BootstrapOnce ==
  ASSUME IInv, IInv', AskedOnce, TargetIsAgreed, NEW p \in Peers, HandleBootstrap(p)
  PROVE  AskedOnce' /\ TargetIsAgreed'
<1> USE DEF IInv
<1> DEFINE first == Head(answers[p])
           msgs == Append(messages, first)
<1>1. /\ answers[p] # <<>> /\ answers' = [answers EXCEPT ![p] = Tail(@)]
      /\ UNCHANGED <<made, peerHead, announced, requests, sent>>
      /\ messages' = <<>> \/ messages' = msgs
  BY DEF HandleBootstrap, chain
<1>2. /\ answers \in [Peers -> Seq(Blocks)] /\ messages \in Seq(Blocks)
      /\ peerHead \in [Peers -> Blocks] /\ head \in Blocks
  BY DEF TypeOK
<1>3. /\ first \in Blocks /\ first <= peerHead[p] /\ requests[p] = 0
      /\ Tail(answers[p]) = <<>> /\ sent # 0
  <2>1. answers[p] \in Seq(Blocks) /\ Len(answers[p]) = 1 /\ answers[p][1] <= peerHead[p]
    BY <1>1, <1>2 DEF AskedOnce
  <2>2. Tail(answers[p]) \in Seq(Blocks) /\ Len(Tail(answers[p])) = 0 /\ first \in Blocks
    BY <1>1, <2>1, HeadTailProperties
  <2>3. Tail(answers[p]) = <<>>
    BY <2>2, EmptySeq
  <2>4. first = answers[p][1]
    BY <2>1
  <2> QED BY <1>1, <2>1, <2>2, <2>3, <2>4 DEF AskedOnce
<1>4. /\ DOMAIN messages = 1..Len(messages) /\ Len(messages) \in Nat
      /\ msgs \in Seq(Blocks) /\ DOMAIN msgs = 1 .. Len(messages) + 1
      /\ \A i \in 1..Len(messages) : msgs[i] = messages[i]
      /\ msgs[Len(messages) + 1] = first
  BY <1>2, <1>3, AppendProperties, LenProperties
<1>5. PICK source \in [DOMAIN messages -> Peers] :
        SourcesOf(messages, source, requests, answers, peerHead)
  BY DEF AskedOnce
<1> HIDE DEF msgs, first
<1> DEFINE n == Len(messages) + 1
           new == [i \in 1..n |-> IF i = n THEN p ELSE source[i]]
<1>6. \A q \in Peers : answers'[q] = IF q = p THEN <<>> ELSE answers[q]
  BY <1>1, <1>2, <1>3
<1>7. \A i \in 1..n : i # n => i \in DOMAIN messages
  BY <1>4
<1>8. new \in [DOMAIN msgs -> Peers] /\ DOMAIN msgs = 1..n
  BY <1>4, <1>5, <1>7
<1>9. \A i \in DOMAIN messages : source[i] # p
  BY <1>1, <1>5 DEF SourcesOf
<1>10. \A i, j \in DOMAIN msgs : new[i] = new[j] => i = j
  <2> SUFFICES ASSUME NEW i \in 1..n, NEW j \in 1..n, new[i] = new[j] PROVE i = j
    BY <1>8
  <2> QED BY <1>5, <1>7, <1>9 DEF SourcesOf
<1>11. ASSUME NEW i \in DOMAIN msgs
       PROVE  /\ requests[new[i]] = 0 /\ answers'[new[i]] = <<>>
              /\ msgs[i] <= peerHead[new[i]]
  <2>1. CASE i = n
    BY <1>3, <1>4, <1>6, <1>8, <2>1
  <2>2. CASE i # n
    <3>1. i \in DOMAIN messages /\ new[i] = source[i] /\ msgs[i] = messages[i]
      BY <1>4, <1>7, <1>8, <2>2
    <3> QED BY <1>5, <1>6, <3>1 DEF SourcesOf
  <2> QED BY <2>1, <2>2
<1> HIDE DEF new, n
<1>12. SourcesOf(msgs, new, requests', answers', peerHead')
  BY <1>1, <1>8, <1>10, <1>11 DEF SourcesOf
<1>13. AskedOnce'
  <2>1. \E s \in [DOMAIN messages' -> Peers] :
          SourcesOf(messages', s, requests', answers', peerHead')
    <3>1. CASE messages' = <<>>
      BY <3>1, NoMessages
    <3>2. CASE messages' = msgs
      BY <1>8, <1>12, <3>2
    <3> QED BY <1>1, <3>1, <3>2
  <2> QED BY <1>1, <1>3, <1>6, <2>1 DEF AskedOnce
<1>14. TargetIsAgreed'
  <2>1. CASE UNCHANGED <<catchingUp, target>>
    BY <1>1, <2>1 DEF TargetIsAgreed, ConsensusAmount, Online
  <2>2. CASE ~UNCHANGED <<catchingUp, target>>
    <3>1. target' \in Blocks /\ Count(msgs, target') >= ConsensusAmount - 1
      <4>1. PICK most \in -1..MaxNum :
              IF Count(msgs, most) >= ConsensusAmount - 1
                   /\ ~(Count(msgs, most) >= ConsensusAmount - 1 /\ most = head)
              THEN Begin(most)
              ELSE UNCHANGED <<catchingUp, target, checking, failed>>
        BY DEF HandleBootstrap, msgs, first
      <4>2. Count(msgs, most) >= ConsensusAmount - 1 /\ target' = most
        BY <2>2, <4>1 DEF Begin
      <4> QED BY <4>2 DEF TypeOK
    <3>2. \A i \in DOMAIN msgs : msgs[i] <= peerHead[new[i]]
      BY <1>11
    <3>3. Count(msgs, target') <= Cardinality({ q \in Peers : peerHead[q] >= target' })
      BY <1>4, <1>8, <1>10, <3>1, <3>2, NamedByPeers
    <3>4. /\ IsFiniteSet({ q \in Peers : peerHead[q] >= target' })
          /\ IsFiniteSet({ i \in DOMAIN msgs : Names(msgs[i], target') })
      <4>1. IsFiniteSet(DOMAIN msgs)
        <5>1. Len(messages) + 1 \in Int
          BY <1>4
        <5>2. IsFiniteSet(1 .. Len(messages) + 1)
          BY <5>1, FS_Interval
        <5> QED BY <1>4, <5>2
      <4> QED BY <4>1, FS_Subset
    <3>5. /\ Cardinality({ q \in Peers : peerHead[q] >= target' }) \in Nat
          /\ Count(msgs, target') \in Nat /\ ConsensusAmount \in Nat
      BY <3>4, FS_CardinalityType, OnlineType DEF Count, ConsensusAmount
    <3> HIDE DEF n
    <3>6. Cardinality({ q \in Peers : peerHead[q] >= target' }) + 1 >= ConsensusAmount
      BY <3>1, <3>3, <3>5
    <3> QED BY <1>1, <3>6 DEF TargetIsAgreed, ConsensusAmount, Online
  <2> QED BY <2>1, <2>2
<1> QED BY <1>13, <1>14

\* What the peers have, and what comes from them.
LEMMA PeerTypes ==
  TypeOK => /\ peerHead \in [Peers -> Nat]
            /\ messages \in Seq(Blocks) /\ Blocks \subseteq Nat /\ target \in Nat
            /\ requests \in [Peers -> Nat] /\ answers \in [Peers -> Seq(Blocks)]
<1> SUFFICES ASSUME TypeOK
             PROVE  /\ peerHead \in [Peers -> Nat]
                    /\ messages \in Seq(Blocks) /\ Blocks \subseteq Nat /\ target \in Nat
                    /\ requests \in [Peers -> Nat] /\ answers \in [Peers -> Seq(Blocks)]
  OBVIOUS
<1>1. Blocks \subseteq Nat /\ 0..MaxRequests \subseteq Nat
  BY DEF Blocks
<1>2. peerHead \in [Peers -> Blocks] /\ requests \in [Peers -> 0..MaxRequests] /\ target \in Blocks
  BY Zenon DEF TypeOK
<1>3. messages \in Seq(Blocks) /\ answers \in [Peers -> Seq(Blocks)]
  BY Zenon DEF TypeOK
<1>4. peerHead \in [Peers -> Nat]
  BY <1>1, <1>2
<1>5. requests \in [Peers -> Nat]
  BY <1>1, <1>2
<1> QED BY <1>1, <1>2, <1>3, <1>4, <1>5

\* Peers that commit, or answer, leave the counted answers theirs.
LEMMA PeersOnce ==
  ASSUME IInv, IInv', AskedOnce, TargetIsAgreed, NEW p \in Peers,
         PeerCommits(p) \/ PeerAnswers(p)
  PROVE  AskedOnce' /\ TargetIsAgreed'
<1> USE DEF IInv
<1>1. /\ UNCHANGED <<sent, messages, catchingUp, target>>
      /\ peerHead \in [Peers -> Nat] /\ peerHead' \in [Peers -> Nat]
      /\ messages \in Seq(Blocks) /\ Blocks \subseteq Nat /\ target \in Nat
      /\ requests \in [Peers -> Nat] /\ answers \in [Peers -> Seq(Blocks)]
  <2>1. UNCHANGED <<sent, messages, catchingUp, target>>
    BY DEF PeerCommits, PeerAnswers, goalVars, asking
  <2>2. (TypeOK => peerHead \in [Peers -> Nat])'
    BY PeerTypes, PTL
  <2> QED BY <2>1, <2>2, PeerTypes
<1>2. \A q \in Peers : peerHead[q] <= peerHead'[q]
  <2>1. CASE PeerCommits(p)
    <3>1. peerHead' = [peerHead EXCEPT ![p] = @ + 1]
      BY <2>1 DEF PeerCommits
    <3> QED BY <1>1, <3>1
  <2>2. CASE PeerAnswers(p)
    BY <1>1, <2>2 DEF PeerAnswers, chain
  <2> QED BY <2>1, <2>2
<1>3. \A q \in Peers :
        requests[q] = 0 => requests'[q] = requests[q] /\ answers'[q] = answers[q]
  BY <1>1 DEF PeerCommits, PeerAnswers, asking
<1>4. \A i \in DOMAIN messages : messages[i] \in Nat
  BY <1>1, ElementOfSeq, LenProperties
<1>5. \E s \in [DOMAIN messages -> Peers] :
        SourcesOf(messages, s, requests', answers', peerHead')
  <2>1. PICK s \in [DOMAIN messages -> Peers] :
          SourcesOf(messages, s, requests, answers, peerHead)
    BY DEF AskedOnce
  <2>2. SourcesOf(messages, s, requests', answers', peerHead')
    <3>1. ASSUME NEW i \in DOMAIN messages
          PROVE  /\ requests'[s[i]] = 0 /\ answers'[s[i]] = <<>>
                 /\ messages[i] <= peerHead'[s[i]]
      <4>1. /\ s[i] \in Peers /\ requests[s[i]] = 0 /\ answers[s[i]] = <<>>
            /\ messages[i] <= peerHead[s[i]]
        BY <2>1 DEF SourcesOf
      <4>2. peerHead[s[i]] <= peerHead'[s[i]]
        BY <1>2, <4>1
      <4>3. messages[i] \in Nat /\ peerHead[s[i]] \in Nat /\ peerHead'[s[i]] \in Nat
        BY <1>1, <1>4, <4>1
      <4> QED BY <1>3, <4>1, <4>2, <4>3
    <3> QED BY <2>1, <3>1 DEF SourcesOf
  <2> QED BY <2>2
<1>6. ASSUME NEW q \in Peers
      PROVE  /\ requests'[q] # 0 => requests'[q] = 1 /\ answers'[q] = <<>>
             /\ answers'[q] # <<>> => Len(answers'[q]) = 1 /\ answers'[q][1] <= peerHead'[q]
             /\ sent = 0 => answers'[q] = <<>>
  <2>1. CASE PeerAnswers(p) /\ q = p
    <3>1. requests[p] = 1 /\ answers[p] = <<>> /\ sent # 0
      <4>1. requests[p] \in Nat /\ requests[p] # 0 /\ requests[p] <= sent
        BY <1>1, <2>1 DEF PeerAnswers, RequestsCounted
      <4> QED BY <4>1 DEF AskedOnce
    <3>2. requests'[p] = 0 /\ answers'[p] = Append(<<>>, peerHead[p]) /\ peerHead' = peerHead
      BY <1>1, <2>1, <3>1 DEF PeerAnswers, chain
    <3>3. Len(answers'[p]) = 1 /\ answers'[p][1] = peerHead[p]
      BY <1>1, <3>2
    <3> QED BY <1>1, <2>1, <3>1, <3>2, <3>3
  <2>2. CASE ~(PeerAnswers(p) /\ q = p)
    <3>1. requests'[q] = requests[q] /\ answers'[q] = answers[q]
      BY <1>1, <2>2 DEF PeerCommits, PeerAnswers, asking
    <3>2. answers[q] # <<>> => answers[q][1] \in Nat
      <4>1. answers[q] # <<>> => 1 \in 1..Len(answers[q]) /\ answers[q] \in Seq(Blocks)
        BY <1>1, EmptySeq
      <4> QED BY <1>1, <4>1, ElementOfSeq
    <3> QED BY <1>1, <1>2, <3>1, <3>2 DEF AskedOnce
  <2> QED BY <2>1, <2>2
<1>7. AskedOnce'
  BY <1>1, <1>5, <1>6 DEF AskedOnce
<1>8. TargetIsAgreed'
  <2> DEFINE S == { q \in Peers : peerHead[q] >= target }
             T == { q \in Peers : peerHead'[q] >= target }
  <2>1. S \subseteq T /\ IsFiniteSet(T)
    BY <1>1, <1>2, FS_Subset
  <2>2. Cardinality(S) <= Cardinality(T) /\ Cardinality(S) \in Nat /\ Cardinality(T) \in Nat
    BY <2>1, FS_Subset, FS_CardinalityType
  <2> HIDE DEF S, T
  <2>3. ConsensusAmount \in Nat /\ (catchingUp => Cardinality(S) + 1 >= ConsensusAmount)
    BY OnlineType DEF TargetIsAgreed, ConsensusAmount, S
  <2>4. catchingUp => Cardinality(T) + 1 >= ConsensusAmount
    BY <2>2, <2>3
  <2> QED BY <1>1, <2>4 DEF TargetIsAgreed, ConsensusAmount, Online, T
<1> QED BY <1>7, <1>8

\* The first request finds nothing on its way.
LEMMA BlockOnce ==
  ASSUME IInv, IInv', OnceInv, NEW n \in Blocks, NEW expected \in BOOLEAN, NewBlock(n, expected)
  PROVE  OnceInv'
<1> USE DEF IInv
<1>1. /\ UNCHANGED <<peerHead, messages, answers, catchingUp, target>>
      /\ sent \in Nat /\ requests \in [Peers -> Nat]
  BY DEF NewBlock, goalVars, TypeOK
<1>2. TargetIsAgreed' <=> TargetIsAgreed
  BY <1>1 DEF TargetIsAgreed, ConsensusAmount, Online
<1>3. CASE UNCHANGED <<sent, requests>>
  BY <1>1, <1>2, <1>3 DEF OnceInv, AskedOnce
<1>4. CASE Ask
  <2> SUFFICES ASSUME sent' <= 1 PROVE AskedOnce' /\ TargetIsAgreed'
    BY DEF OnceInv
  <2>1. sent = 0
    BY <1>1, <1>4 DEF Ask
  <2>2. AskedOnce /\ TargetIsAgreed
    BY <2>1 DEF OnceInv
  <2>3. messages = <<>> /\ \A p \in Peers : answers[p] = <<>> /\ requests[p] = 0
    BY <1>1, <2>1, <2>2 DEF AskedOnce, RequestsCounted
  <2>4. \A p \in Peers : requests'[p] # 0 => requests'[p] = 1
    BY <1>1, <1>4, <2>3 DEF Ask
  <2>5. \E s \in [DOMAIN messages' -> Peers] :
          SourcesOf(messages', s, requests', answers', peerHead')
    BY <1>1, <2>3, NoMessages
  <2>6. sent' # 0
    BY <1>4, <2>1 DEF Ask
  <2> QED BY <1>1, <1>2, <2>2, <2>3, <2>4, <2>5, <2>6 DEF AskedOnce
<1>5. UNCHANGED <<sent, requests>> \/ Ask
  BY DEF NewBlock, asking
<1> QED BY <1>3, <1>4, <1>5

\* The commit that ends a catch-up forgets what was counted.
LEMMA CommitOnce ==
  ASSUME IInv, AskedOnce, TargetIsAgreed, NEW expected \in BOOLEAN, CommittedBlock(expected)
  PROVE  AskedOnce' /\ TargetIsAgreed'
<1>1. /\ UNCHANGED <<peerHead, answers, requests, sent, target>>
      /\ \/ UNCHANGED <<messages, catchingUp>>
         \/ messages' = <<>> /\ catchingUp' = FALSE
  BY DEF CommittedBlock, chain
<1>2. \E s \in [DOMAIN messages' -> Peers] :
        SourcesOf(messages', s, requests', answers', peerHead')
  BY <1>1, NoMessages DEF AskedOnce
<1>3. AskedOnce'
  BY <1>1, <1>2 DEF AskedOnce
<1> QED BY <1>1, <1>3 DEF TargetIsAgreed, ConsensusAmount, Online

\* While one request only was sent, the node catches up to what as many members
\* have as consensus_amount asks for: each peer is counted once, for a block it has.
THEOREM OneRequestIsAgreed == Spec => []OneRequestAgrees
<1>1. Init => OnceInv
  <2> SUFFICES ASSUME Init PROVE AskedOnce /\ TargetIsAgreed
    BY DEF OnceInv
  <2>1. \E s \in [DOMAIN messages -> Peers] :
          SourcesOf(messages, s, requests, answers, peerHead)
    BY NoMessages DEF Init
  <2> QED BY <2>1 DEF Init, AskedOnce, TargetIsAgreed
<1>2. IInv /\ IInv' /\ OnceInv /\ [Next]_vars => OnceInv'
  <2> SUFFICES ASSUME IInv, IInv', OnceInv, [Next]_vars PROVE OnceInv'
    OBVIOUS
  <2>1. ASSUME NEW n \in Blocks, NEW expected \in BOOLEAN, NewBlock(n, expected) PROVE OnceInv'
    BY <2>1, BlockOnce
  <2>2. ASSUME UNCHANGED <<peerHead, messages, answers, requests, sent, catchingUp, target>>
        PROVE  OnceInv'
    BY <2>2 DEF OnceInv, AskedOnce, TargetIsAgreed, ConsensusAmount, Online
  <2>3. CASE \/ MakeBlock \/ UNCHANGED vars
             \/ \E n \in Blocks : InvalidBlock(n)
             \/ \E n \in Blocks, expected \in BOOLEAN : ValidBlock(n, expected)
    BY <2>2, <2>3 DEF MakeBlock, InvalidBlock, ValidBlock, vars, chain, goalVars, asking
  <2>4. CASE \/ \E p \in Peers : PeerCommits(p) \/ PeerAnswers(p) \/ HandleBootstrap(p)
             \/ \E expected \in BOOLEAN : CommittedBlock(expected)
    <3>1. sent' = sent
      BY <2>4 DEF PeerCommits, PeerAnswers, HandleBootstrap, CommittedBlock, asking
    <3> SUFFICES ASSUME sent <= 1 PROVE AskedOnce' /\ TargetIsAgreed'
      BY <3>1 DEF OnceInv
    <3>2. AskedOnce /\ TargetIsAgreed
      BY DEF OnceInv
    <3> QED BY <2>4, <3>2, PeersOnce, BootstrapOnce, CommitOnce
  <2> QED BY <2>1, <2>3, <2>4 DEF Next
<1>3. OnceInv => OneRequestAgrees
  BY DEF OnceInv, OneRequestAgrees
<1> QED BY <1>1, <1>2, <1>3, CatchUpInvariant, PTL DEF Spec

=============================================================================
