---------------------------- MODULE EpochProofs ----------------------------
(***************************************************************************)
(* Lemmas about the steps of a witness schedule (module Epoch).            *)
(***************************************************************************)
EXTENDS Epoch, FiniteSetTheorems, SequenceTheorems, WellFoundedInduction,
        TLAPS

\* Every member is in exactly one place of the witness list or the queue.
Placed(ep) ==
  /\ ep.witnesses \in [1..NumSlots -> Members]
  /\ ep.candidates \in [1..(Cardinality(Members) - NumSlots) -> Members]
  /\ \A i, j \in 1..NumSlots : ep.witnesses[i] = ep.witnesses[j] => i = j
  /\ \A i, j \in 1..(Cardinality(Members) - NumSlots) :
       ep.candidates[i] = ep.candidates[j] => i = j
  /\ \A i \in 1..NumSlots, j \in 1..(Cardinality(Members) - NumSlots) :
       ep.witnesses[i] # ep.candidates[j]
  /\ \A m \in Members :
       \/ \E i \in 1..NumSlots : ep.witnesses[i] = m
       \/ \E j \in 1..(Cardinality(Members) - NumSlots) : ep.candidates[j] = m

\* The number of members and of slots are naturals, and one candidate at least
\* is left when the witness list is full.
LEMMA Sizes ==
  /\ Cardinality(Members) \in Nat
  /\ NumSlots \in Nat
  /\ NumSlots >= 1
  /\ Cardinality(Members) - NumSlots \in Nat
  /\ Cardinality(Members) - NumSlots >= 1
<1>1. Cardinality(Members) \in Nat
  BY EpochAssumption, FS_CardinalityType
<1> QED BY <1>1, EpochAssumption

---------------------------------------------------------------------------
(* Division with a remainder by a number that is not a literal *)

\* The remainder is the only number below the divisor that is congruent.
LEMMA ModUnique ==
  ASSUME NEW m \in Nat \ {0}, NEW k \in Int, NEW r \in 0..(m - 1), m * k + r \in Nat
  PROVE  (m * k + r) % m = r
<1> DEFINE q == (m * k + r) \div m
           s == (m * k + r) % m
<1>1. q \in Int /\ s \in 0..(m - 1) /\ m * k + r = m * q + s
  OBVIOUS
<1>2. m * k \in Int /\ m * q \in Int /\ m * (q - k) \in Int
  BY <1>1
<1>3. m * (q - k) = r - s
  <2>1. m * q - m * k = m * (q - k)
    BY <1>1
  <2> QED BY <2>1, <1>1, <1>2
<1>4. \A d \in Int : d >= 1 => m * d >= m
  OBVIOUS
<1>5. \A d \in Int : d <= -1 => m * d <= -m
  OBVIOUS
<1>6. q = k
  BY <1>1, <1>3, <1>4, <1>5
<1> QED BY <1>1, <1>2, <1>6

\* The position of the next slot is the next position of the list, or the first.
LEMMA ModSucc ==
  ASSUME NEW n \in Nat, NEW m \in Nat \ {0}
  PROVE  /\ n % m \in 0..(m - 1)
         /\ (n + 1) % m = IF n % m = m - 1 THEN 0 ELSE (n % m) + 1
<1> DEFINE q == n \div m
           r == n % m
<1>1. q \in Int /\ r \in 0..(m - 1) /\ n = m * q + r
  OBVIOUS
<1>2. CASE r = m - 1
  <2>1. m * (q + 1) = m * q + m
    BY <1>1
  <2>2. n + 1 = m * (q + 1) + 0
    BY <1>1, <1>2, <2>1
  <2>3. (m * (q + 1) + 0) % m = 0
    BY <1>1, <2>2, ModUnique
  <2> QED BY <1>1, <1>2, <2>2, <2>3
<1>3. CASE r # m - 1
  <2>1. n + 1 = m * q + (r + 1) /\ r + 1 \in 0..(m - 1)
    BY <1>1, <1>3
  <2> HIDE DEF q, r
  <2>2. m * q + (r + 1) \in Nat
    BY <2>1
  <2>3. (m * q + (r + 1)) % m = r + 1
    BY <1>1, <2>1, <2>2, ModUnique
  <2> QED BY <1>1, <1>3, <2>1, <2>3 DEF r
<1> QED BY <1>2, <1>3

---------------------------------------------------------------------------
(* The steps of a schedule keep every member in one place *)

\* A new epoch splits the elected list into witnesses and queue.
LEMMA NewEpochPlaced ==
  ASSUME NEW number \in Nat, NEW list \in Rankings
  PROVE  LET ep == SetCandidatesAndWitnesses(NewEpoch(number), list) IN
         /\ Placed(ep)
         /\ ep \in EpochState
         /\ ep.number = number
         /\ ep.idx = 0
<1> DEFINE K == Cardinality(Members)
           ep == SetCandidatesAndWitnesses(NewEpoch(number), list)
<1>1. /\ list \in [1..K -> Members]
      /\ \A i, j \in 1..K : list[i] = list[j] => i = j
      /\ \A m \in Members : \E i \in 1..K : list[i] = m
  BY DEF Rankings, Bijection, Injection, Surjection, IsInjective
<1>2. list \in Seq(Members) /\ Len(list) = K
  BY <1>1, Sizes
<1>3. /\ SubSeq(list, 1, NumSlots) \in Seq(Members)
      /\ Len(SubSeq(list, 1, NumSlots)) = NumSlots
      /\ \A i \in 1..NumSlots : SubSeq(list, 1, NumSlots)[i] = list[i]
  <2>1. \A i \in 1..NumSlots : list[i] \in Members
    BY <1>1, Sizes
  <2> HIDE DEF K
  <2> QED BY <2>1, SubSeqProperties, Sizes
<1>4. /\ SubSeq(list, NumSlots + 1, K) \in Seq(Members)
      /\ Len(SubSeq(list, NumSlots + 1, K)) = K - NumSlots
      /\ \A j \in 1..(K - NumSlots) : SubSeq(list, NumSlots + 1, K)[j] = list[NumSlots + j]
  <2>1. \A i \in (NumSlots + 1)..K : list[i] \in Members
    BY <1>1, Sizes
  <2>2. K \in Int /\ NumSlots + 1 \in Int /\ NumSlots + 1 <= K
    BY Sizes
  <2> HIDE DEF K
  <2>3. \A j \in 1..(K - (NumSlots + 1) + 1) :
          SubSeq(list, NumSlots + 1, K)[j] = list[(NumSlots + 1) + j - 1]
    BY <2>1, <2>2, SubSeqProperties
  <2> QED BY <2>1, <2>2, <2>3, SubSeqProperties, Sizes
<1>5. /\ ep.witnesses = SubSeq(list, 1, NumSlots)
      /\ ep.candidates = SubSeq(list, NumSlots + 1, K)
      /\ ep.number = number
      /\ ep.idx = 0
  BY <1>2 DEF SetCandidatesAndWitnesses, NewEpoch
<1>6. Placed(ep)
  <2>1. \A m \in Members : \/ \E i \in 1..NumSlots : list[i] = m
                           \/ \E j \in 1..(K - NumSlots) : list[NumSlots + j] = m
    <3>1. SUFFICES ASSUME NEW m \in Members
                   PROVE  \/ \E i \in 1..NumSlots : list[i] = m
                          \/ \E j \in 1..(K - NumSlots) : list[NumSlots + j] = m
      OBVIOUS
    <3>2. PICK p \in 1..K : list[p] = m
      BY <1>1
    <3>3. CASE p > NumSlots
      <4>1. p - NumSlots \in 1..(K - NumSlots) /\ NumSlots + (p - NumSlots) = p
        BY <3>3, Sizes
      <4> QED BY <3>2, <4>1
    <3> QED BY <3>2, <3>3, Sizes
  <2>2. /\ ep.witnesses \in [1..NumSlots -> Members]
        /\ \A i \in 1..NumSlots : ep.witnesses[i] = list[i]
    BY <1>3, <1>5, LenProperties
  <2>3. /\ ep.candidates \in [1..(K - NumSlots) -> Members]
        /\ \A j \in 1..(K - NumSlots) : ep.candidates[j] = list[NumSlots + j]
    BY <1>4, <1>5, LenProperties
  <2> HIDE DEF ep
  <2>4. \A j \in 1..(K - NumSlots) : NumSlots + j \in 1..K /\ ~(NumSlots + j <= NumSlots)
    BY Sizes
  <2>5. \A i \in 1..NumSlots : i \in 1..K
    BY Sizes
  <2>6. \A i \in 1..NumSlots, j \in 1..(K - NumSlots) : ep.witnesses[i] # ep.candidates[j]
    BY <1>1, <2>2, <2>3, <2>4, <2>5, Sizes
  <2>7. \A i, j \in 1..(K - NumSlots) : ep.candidates[i] = ep.candidates[j] => i = j
    BY <1>1, <2>3, <2>4, Sizes
  <2>8. \A i, j \in 1..NumSlots : ep.witnesses[i] = ep.witnesses[j] => i = j
    BY <1>1, <2>2, <2>5
  <2> QED BY <2>1, <2>2, <2>3, <2>6, <2>7, <2>8 DEF Placed
<1>7. ep \in EpochState
  BY <1>2, <1>3, <1>4 DEF SetCandidatesAndWitnesses, NewEpoch, EpochState
<1> QED BY <1>5, <1>6, <1>7

\* Where every member has one place there is a candidate to upgrade.
LEMMA PlacedSizes ==
  ASSUME NEW ep, Placed(ep), ep \in EpochState
  PROVE  /\ Len(ep.witnesses) = NumSlots
         /\ Len(ep.candidates) = Cardinality(Members) - NumSlots
         /\ DOMAIN ep.witnesses = 1..NumSlots
         /\ HasWitnesses(ep)
         /\ ep.candidates # <<>>
<1>1. /\ ep.witnesses \in Seq(Members)
      /\ ep.candidates \in Seq(Members)
  BY DEF EpochState
<1>2. /\ DOMAIN ep.witnesses = 1..NumSlots
      /\ DOMAIN ep.candidates = 1..(Cardinality(Members) - NumSlots)
  BY DEF Placed
<1>3. /\ Len(ep.witnesses) = NumSlots
      /\ Len(ep.candidates) = Cardinality(Members) - NumSlots
  BY <1>1, <1>2, Sizes, LenProperties
<1> QED BY <1>1, <1>2, <1>3, Sizes, EmptySeq DEF HasWitnesses

\* A downgrade swaps the head of the queue in for the witness, who goes to the
\* back; the other positions of the witness list do not move.
LEMMA DowngradePlaced ==
  ASSUME NEW ep \in EpochState, Placed(ep), NEW key \in Members
  PROVE  LET down == DowngradeWitness(ep, key) IN
         /\ Placed(down)
         /\ down \in EpochState
         /\ down.number = ep.number
         /\ down.idx = ep.idx
         /\ \A i \in 1..NumSlots :
              ep.witnesses[i] # key => down.witnesses[i] = ep.witnesses[i]
<1> DEFINE L == Cardinality(Members) - NumSlots
           w == ep.witnesses
           c == ep.candidates
           down == DowngradeWitness(ep, key)
<1>1. CASE ~IsWitness(ep, key)
  BY <1>1 DEF DowngradeWitness
<1>2. CASE IsWitness(ep, key)
  <2>1. PICK p \in 1..NumSlots : w[p] = key
    BY <1>2, PlacedSizes DEF IsWitness, Range
  <2>2. /\ c \in Seq(Members) /\ c # <<>> /\ Len(c) = L /\ L \in Nat /\ L >= 1
        /\ w \in Seq(Members) /\ DOMAIN w = 1..NumSlots
    BY PlacedSizes, Sizes DEF EpochState
  <2>3. /\ Tail(c) \in Seq(Members)
        /\ Len(Tail(c)) = L - 1
        /\ \A j \in 1..(L - 1) : Tail(c)[j] = c[j + 1]
    BY <2>2, HeadTailProperties
  <2>4. Head(c) = c[1] /\ c[1] \in Members
    BY <2>2, ElementOfSeq
  <2> DEFINE nw == [i \in 1..NumSlots |-> IF w[i] = key THEN c[1] ELSE w[i]]
             nc == Append(Tail(c), key)
  <2>5. /\ nc \in Seq(Members)
        /\ Len(nc) = L
        /\ nc[L] = key
        /\ \A j \in 1..(L - 1) : nc[j] = c[j + 1]
    BY <2>2, <2>3, AppendProperties
  <2>6. /\ down.witnesses = nw
        /\ down.candidates = nc
        /\ down.number = ep.number
        /\ down.idx = ep.idx
        /\ down = [ep EXCEPT !.witnesses = nw, !.candidates = nc]
    BY <1>2, <2>2, <2>4 DEF DowngradeWitness, EpochState
  <2>7. nw \in [1..NumSlots -> Members] /\ nw \in Seq(Members)
    BY <2>2, <2>4, Sizes, ElementOfSeq DEF Placed
  <2>8. down \in EpochState
    BY <2>5, <2>6, <2>7 DEF EpochState
  <2>9. nc \in [1..L -> Members]
    BY <2>5, LenProperties
  <2> HIDE DEF nc
  <2>10. \A i, j \in 1..NumSlots : nw[i] = nw[j] => i = j
    BY <2>1, <2>2 DEF Placed
  <2>11. \A i, j \in 1..L : nc[i] = nc[j] => i = j
    <3>1. \A j \in 1..(L - 1) : j + 1 \in 1..L /\ nc[j] # key
      BY <2>1, <2>2, <2>5 DEF Placed
    <3>2. \A i, j \in 1..(L - 1) : nc[i] = nc[j] => i = j
      BY <2>2, <2>5, <3>1 DEF Placed
    <3> QED BY <2>2, <2>5, <3>1, <3>2
  <2>12. \A i \in 1..NumSlots, j \in 1..L : nw[i] # nc[j]
    <3>1. SUFFICES ASSUME NEW i \in 1..NumSlots, NEW j \in 1..L
                   PROVE  nw[i] # nc[j]
      OBVIOUS
    <3>2. CASE j = L
      BY <2>1, <2>2, <2>5, <3>2 DEF Placed
    <3>3. CASE j # L
      <4>1. j \in 1..(L - 1) /\ j + 1 \in 1..L /\ j + 1 # 1 /\ nc[j] = c[j + 1]
        BY <2>2, <2>5, <3>3
      <4> QED BY <2>1, <2>2, <4>1 DEF Placed
    <3> QED BY <3>2, <3>3
  <2>13. \A m \in Members : \/ \E i \in 1..NumSlots : nw[i] = m
                            \/ \E j \in 1..L : nc[j] = m
    <3>1. SUFFICES ASSUME NEW m \in Members
                   PROVE  \/ \E i \in 1..NumSlots : nw[i] = m
                          \/ \E j \in 1..L : nc[j] = m
      OBVIOUS
    <3>2. CASE \E i \in 1..NumSlots : w[i] = m
      BY <2>1, <2>2, <2>5, <3>2
    <3>3. CASE \E j \in 1..L : c[j] = m
      <4>1. PICK j \in 1..L : c[j] = m
        BY <3>3
      <4>2. CASE j = 1
        BY <2>1, <4>1, <4>2
      <4>3. CASE j # 1
        <5>1. j - 1 \in 1..(L - 1) /\ (j - 1) + 1 = j
          BY <2>2, <4>3
        <5> QED BY <2>2, <2>5, <4>1, <5>1
      <4> QED BY <4>2, <4>3
    <3> QED BY <3>2, <3>3 DEF Placed
  <2>14. Placed(down)
    BY <2>6, <2>7, <2>9, <2>10, <2>11, <2>12, <2>13 DEF Placed
  <2> QED BY <2>2, <2>6, <2>8, <2>14
<1> QED BY <1>1, <1>2

\* The next slot moves the index by one; only at the start of a round does the
\* order of the witnesses change.
LEMMA IncrementPlaced ==
  ASSUME NEW ep \in EpochState, Placed(ep), NEW seed,
         NEW moved \in IncrementWitness(ep, seed)
  PROVE  /\ Placed(moved)
         /\ moved \in EpochState
         /\ moved.number = ep.number
         /\ moved.idx = ep.idx + 1
         /\ moved.idx % NumSlots # 0 => moved.witnesses = ep.witnesses
<1> DEFINE w == ep.witnesses
           next == [ep EXCEPT !.idx = @ + 1]
<1>1. /\ next \in EpochState
      /\ next.number = ep.number
      /\ next.idx = ep.idx + 1
      /\ next.witnesses = ep.witnesses
      /\ next.candidates = ep.candidates
  BY DEF EpochState
<1>2. Placed(next)
  BY <1>1 DEF Placed
<1>3. Len(w) = NumSlots /\ DOMAIN w = 1..NumSlots /\ HasWitnesses(ep)
  BY PlacedSizes
<1>4. CASE moved = next
  BY <1>1, <1>2, <1>4
<1>5. CASE moved # next
  <2>1. /\ next.idx % NumSlots = 0
        /\ moved \in { [next EXCEPT !.witnesses = list] :
                     list \in Reorderings(w, seed, next.idx) }
    BY <1>3, <1>5 DEF IncrementWitness
  <2>2. PICK list \in Reorderings(w, seed, next.idx) :
          moved = [next EXCEPT !.witnesses = list]
    BY <2>1
  <2>3. PICK q \in Bijection(1..NumSlots, 1..NumSlots) :
          list = [i \in 1..NumSlots |-> w[q[i]]]
    BY <1>3, <2>2 DEF Reorderings
  <2>4. /\ q \in [1..NumSlots -> 1..NumSlots]
        /\ \A i, j \in 1..NumSlots : q[i] = q[j] => i = j
        /\ \A j \in 1..NumSlots : \E i \in 1..NumSlots : q[i] = j
    BY <2>3 DEF Bijection, Injection, Surjection, IsInjective
  <2>5. list \in [1..NumSlots -> Members]
    BY <2>3, <2>4 DEF Placed
  <2>6. list \in Seq(Members)
    BY <2>5, Sizes
  <2>7. /\ moved.witnesses = list
        /\ moved.candidates = ep.candidates
        /\ moved.number = ep.number
        /\ moved.idx = ep.idx + 1
        /\ moved \in EpochState
    BY <1>1, <2>2, <2>6 DEF EpochState
  <2>8. Placed(moved)
    BY <2>3, <2>4, <2>5, <2>7 DEF Placed
  <2> QED BY <1>1, <2>1, <2>7, <2>8
<1> QED BY <1>4, <1>5

---------------------------------------------------------------------------
(* A schedule has one next schedule *)

\* concat_and_hash gives a digest, and digests are ordered as numbers are.
HashIsNumber ==
  \A key \in Members, seed \in Seq(Members), idx \in Nat : Hash(key, seed, idx) \in Int

\* The next slot changes the order of the witnesses, never who they are.
LEMMA IncrementKeepsWitnesses ==
  ASSUME NEW ep \in EpochState, Placed(ep), NEW seed,
         NEW moved \in IncrementWitness(ep, seed),
         NEW key, IsWitness(ep, key)
  PROVE  IsWitness(moved, key)
<1> DEFINE w == ep.witnesses
<1>1. DOMAIN w = 1..NumSlots
  BY DEF Placed
<1>2. PICK j \in 1..NumSlots : w[j] = key
  BY <1>1 DEF IsWitness, Range
<1>3. CASE moved.witnesses = w
  BY <1>3 DEF IsWitness
<1>4. CASE \E list \in Reorderings(w, seed, ep.idx + 1) : moved.witnesses = list
  <2>1. PICK q \in Bijection(1..NumSlots, 1..NumSlots) :
          moved.witnesses = [i \in 1..NumSlots |-> w[q[i]]]
    BY <1>1, <1>4 DEF Reorderings
  <2>2. PICK i \in 1..NumSlots : q[i] = j
    BY <2>1 DEF Bijection, Surjection
  <2>3. DOMAIN moved.witnesses = 1..NumSlots /\ moved.witnesses[i] = key
    BY <1>2, <2>1, <2>2
  <2> QED BY <2>3 DEF IsWitness, Range
<1> DEFINE next == [ep EXCEPT !.idx = @ + 1]
<1>5. next.witnesses = w /\ next.idx = ep.idx + 1
      /\ \A list : [next EXCEPT !.witnesses = list].witnesses = list
  BY DEF EpochState
<1>6. \/ moved = next
      \/ \E list \in Reorderings(w, seed, next.idx) : moved = [next EXCEPT !.witnesses = list]
  BY DEF IncrementWitness
<1> HIDE DEF next
<1> QED BY <1>3, <1>4, <1>5, <1>6

\* A set of naturals that has an element has a smallest one.
LEMMA Smallest ==
  ASSUME NEW S \in SUBSET Nat, S # {}
  PROVE  \E m \in S : \A k \in S : m <= k
<1> DEFINE R == OpToRel(<, Nat)
<1>1. IsWellFoundedOn(R, Nat)
  BY NatLessThanWellFounded
<1>2. \A x, y \in Nat : x < y => <<x, y>> \in R
  BY DEF OpToRel
<1> HIDE DEF R
<1>3. PICK m \in S : \A k \in S : ~ (<<k, m>> \in R)
  BY <1>1, WFMin
<1>4. \A k \in S : k \in Nat /\ ~ (k < m)
  BY <1>2, <1>3
<1>5. m \in Nat
  OBVIOUS
<1> QED BY <1>4, <1>5

\* Sorting leaves nothing open, since the sort is stable: two sorted
\* arrangements would differ at a first position, and each of the two elements
\* there would come before the other.
LEMMA SortedOnce ==
  ASSUME HashIsNumber,
         NEW list \in [1..NumSlots -> Members], NEW seed \in Seq(Members), NEW idx \in Nat,
         NEW p \in Bijection(1..NumSlots, 1..NumSlots),
         NEW q \in Bijection(1..NumSlots, 1..NumSlots),
         \A i, j \in 1..NumSlots : i < j => Before(list, seed, idx, p[i], p[j]),
         \A i, j \in 1..NumSlots : i < j => Before(list, seed, idx, q[i], q[j])
  PROVE  p = q
<1> DEFINE D == { i \in 1..NumSlots : p[i] # q[i] }
<1>1. /\ p \in [1..NumSlots -> 1..NumSlots]
      /\ q \in [1..NumSlots -> 1..NumSlots]
      /\ \A i, j \in 1..NumSlots : p[i] = p[j] => i = j
      /\ \A i, j \in 1..NumSlots : q[i] = q[j] => i = j
      /\ \A j \in 1..NumSlots : \E i \in 1..NumSlots : p[i] = j
      /\ \A j \in 1..NumSlots : \E i \in 1..NumSlots : q[i] = j
  BY DEF Bijection, Injection, Surjection, IsInjective
<1>2. SUFFICES ASSUME D # {} PROVE FALSE
  <2>1. D = {} => \A i \in 1..NumSlots : p[i] = q[i]
    OBVIOUS
  <2>2. /\ p = [i \in 1..NumSlots |-> p[i]]
        /\ q = [i \in 1..NumSlots |-> q[i]]
    BY <1>1
  <2>3. (\A i \in 1..NumSlots : p[i] = q[i]) => p = q
    BY <2>2
  <2> HIDE DEF D
  <2> QED BY <2>1, <2>3
<1>3. PICK m \in D : \A i \in D : m <= i
  <2>1. D \in SUBSET Nat
    BY Sizes
  <2> HIDE DEF D
  <2> QED BY <1>2, <2>1, Smallest
<1>4. m \in 1..NumSlots /\ p[m] # q[m] /\ \A i \in 1..NumSlots : i < m => p[i] = q[i]
  BY <1>3, Sizes
<1>5. PICK a \in 1..NumSlots : p[a] = q[m]
  BY <1>1, <1>4
<1>6. PICK b \in 1..NumSlots : q[b] = p[m]
  BY <1>1, <1>4
<1>7. m < a /\ m < b
  <2>1. ~ (a < m) /\ a # m
    <3>1. a < m => q[a] = q[m]
      BY <1>4, <1>5
    <3> QED BY <1>1, <1>4, <1>5, <3>1
  <2>2. ~ (b < m) /\ b # m
    BY <1>1, <1>4, <1>6
  <2> QED BY <1>4, <2>1, <2>2, Sizes
<1>8. Before(list, seed, idx, p[m], q[m]) /\ Before(list, seed, idx, q[m], p[m])
  BY <1>4, <1>5, <1>6, <1>7
<1>9. /\ p[m] \in 1..NumSlots /\ q[m] \in 1..NumSlots
      /\ Hash(list[p[m]], seed, idx) \in Int
      /\ Hash(list[q[m]], seed, idx) \in Int
  BY <1>1, <1>4 DEF HashIsNumber
<1> HIDE DEF D
<1> QED BY <1>8, <1>9, Sizes DEF Before

\* The next slot of a schedule is settled by the schedule and the seed.
LEMMA IncrementOnce ==
  ASSUME HashIsNumber,
         NEW ep \in EpochState, Placed(ep), NEW seed \in Seq(Members),
         NEW a \in IncrementWitness(ep, seed), NEW b \in IncrementWitness(ep, seed)
  PROVE  a = b
<1> DEFINE w == ep.witnesses
           next == [ep EXCEPT !.idx = @ + 1]
<1>1. next.idx \in Nat /\ next.witnesses = w
  BY DEF EpochState
<1>2. DOMAIN w = 1..NumSlots /\ w \in [1..NumSlots -> Members]
  BY PlacedSizes DEF Placed
<1>3. \A u, v \in Reorderings(w, seed, next.idx) : u = v
  <2>1. SUFFICES ASSUME NEW u \in Reorderings(w, seed, next.idx),
                        NEW v \in Reorderings(w, seed, next.idx)
                 PROVE  u = v
    OBVIOUS
  <2>2. PICK p \in Bijection(1..NumSlots, 1..NumSlots) :
          /\ u = [i \in 1..NumSlots |-> w[p[i]]]
          /\ \A i, j \in 1..NumSlots : i < j => Before(w, seed, next.idx, p[i], p[j])
    BY <1>2 DEF Reorderings
  <2>3. PICK q \in Bijection(1..NumSlots, 1..NumSlots) :
          /\ v = [i \in 1..NumSlots |-> w[q[i]]]
          /\ \A i, j \in 1..NumSlots : i < j => Before(w, seed, next.idx, q[i], q[j])
    BY <1>2 DEF Reorderings
  <2> HIDE DEF w, next
  <2>4. p = q
    BY <1>1, <1>2, <2>2, <2>3, SortedOnce
  <2> QED BY <2>2, <2>3, <2>4
<1> QED BY <1>1, <1>3 DEF IncrementWitness

\* Members in one place each, listed one after the other, are a ranking again.
LEMMA PlacedIsRanking ==
  ASSUME NEW ep \in EpochState, Placed(ep)
  PROVE  FullCandidateList(ep) \in Rankings
<1> DEFINE K == Cardinality(Members)
           w == ep.witnesses
           c == ep.candidates
           full == FullCandidateList(ep)
<1>1. /\ w \in Seq(Members) /\ c \in Seq(Members)
      /\ Len(w) = NumSlots /\ Len(c) = K - NumSlots
      /\ K \in Nat /\ NumSlots \in Nat /\ K - NumSlots \in Nat
  BY PlacedSizes, Sizes DEF EpochState
<1> HIDE DEF K
<1>2. /\ full \in Seq(Members)
      /\ Len(full) = K
      /\ \A i \in 1..K : full[i] = IF i <= NumSlots THEN w[i] ELSE c[i - NumSlots]
  <2>1. /\ w \o c \in Seq(Members)
        /\ Len(w \o c) = Len(w) + Len(c)
        /\ \A i \in 1..(Len(w) + Len(c)) :
             (w \o c)[i] = IF i <= Len(w) THEN w[i] ELSE c[i - Len(w)]
    BY <1>1, ConcatProperties
  <2>2. NumSlots + (K - NumSlots) = K
    BY <1>1
  <2> QED BY <1>1, <2>1, <2>2 DEF FullCandidateList
<1>3. full \in [1..K -> Members]
  BY <1>2, LenProperties
<1> HIDE DEF full
<1>4. \A i \in 1..K : ~(i <= NumSlots) => i - NumSlots \in 1..(K - NumSlots)
  BY <1>1
<1>5. \A i, j \in 1..K : full[i] = full[j] => i = j
  <2> USE DEF Placed, K
  <2>1. SUFFICES ASSUME NEW i \in 1..K, NEW j \in 1..K, full[i] = full[j]
                 PROVE  i = j
    OBVIOUS
  <2>2. CASE i <= NumSlots /\ j <= NumSlots
    <3>1. full[i] = w[i] /\ full[j] = w[j] /\ i \in 1..NumSlots /\ j \in 1..NumSlots
      BY <1>1, <1>2, <2>2
    <3> QED BY <2>1, <3>1
  <2>3. CASE i <= NumSlots /\ ~(j <= NumSlots)
    <3>1. full[i] = w[i] /\ full[j] = c[j - NumSlots] /\ i \in 1..NumSlots
      BY <1>1, <1>2, <2>3
    <3> QED BY <1>1, <1>4, <2>1, <2>3, <3>1
  <2>4. CASE ~(i <= NumSlots) /\ j <= NumSlots
    <3>1. full[j] = w[j] /\ full[i] = c[i - NumSlots] /\ j \in 1..NumSlots
      BY <1>1, <1>2, <2>4
    <3> QED BY <1>1, <1>4, <2>1, <2>4, <3>1
  <2>5. CASE ~(i <= NumSlots) /\ ~(j <= NumSlots)
    <3>1. full[i] = c[i - NumSlots] /\ full[j] = c[j - NumSlots]
      BY <1>1, <1>2, <2>5
    <3>2. i - NumSlots = j - NumSlots
      BY <1>1, <1>4, <2>1, <2>5, <3>1
    <3> QED BY <1>1, <3>2
  <2> QED BY <2>2, <2>3, <2>4, <2>5
<1>6. \A m \in Members : \E i \in 1..K : full[i] = m
  <2>1. SUFFICES ASSUME NEW m \in Members
                 PROVE  \E i \in 1..K : full[i] = m
    OBVIOUS
  <2>2. CASE \E i \in 1..NumSlots : w[i] = m
    BY <1>1, <1>2, <2>2
  <2>3. CASE \E j \in 1..(K - NumSlots) : c[j] = m
    <3>1. PICK j \in 1..(K - NumSlots) : c[j] = m
      BY <2>3
    <3>2. NumSlots + j \in 1..K /\ ~(NumSlots + j <= NumSlots) /\ (NumSlots + j) - NumSlots = j
      BY <1>1
    <3> QED BY <1>2, <3>1, <3>2
  <2> QED BY <2>2, <2>3 DEF Placed, K
<1> QED BY <1>3, <1>5, <1>6 DEF Rankings, Bijection, Injection, Surjection, IsInjective, K, full

=============================================================================
