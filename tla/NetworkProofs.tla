--------------------------- MODULE NetworkProofs ---------------------------
(***************************************************************************)
(* Why the copies of the schedule agree, though nobody compares them: in a *)
(* network that keeps up there is one ledger of the slots, which says what *)
(* schedule and head each slot began with and how it ended, and every node *)
(* goes through it slot by slot.  For any members, lists, hash function    *)
(* and number of nodes that stop.                                          *)
(***************************************************************************)
EXTENDS Network, EpochProofs

\* The network keeps up: no EMPTY_SLOT overtakes a block, and a slot without a
\* block ends everywhere before the witness of the next one acts.
KeepsUp == PromptBlocks /\ Punctual

---------------------------------------------------------------------------
(* The ledger *)

\* How a slot ended, as the first node that left it saw it; a slot whose witness
\* has sent its block ends with that block, although no node has left it yet.
Ends == {"open", "block", "empty", "missed"}

\* The slot of the nodes that are furthest, and of each slot the schedule and the
\* head that it began with and how it ended.
Latest(ledger) == ledger.latest
EpochAt(ledger, i) == ledger.epoch[i]
HeadAt(ledger, i) == ledger.head[i]
EndOf(ledger, i) == ledger.end[i]

Owner(ledger, i) == CurrentWitness(EpochAt(ledger, i))

BlockOf(ledger, i) == Append(HeadAt(ledger, i), Owner(ledger, i))

BlockMsg(ledger, i) ==
  [from |-> Owner(ledger, i), slot |-> i, empty |-> FALSE, block |-> BlockOf(ledger, i)]

EmptyMsg(ledger, i) ==
  [from |-> Owner(ledger, i), slot |-> i, empty |-> TRUE, block |-> Root]

\* The schedule that _next_slot moves, after a slot that ended like this.
Left(ep, how) == IF how = "missed" THEN DowngradeWitness(ep, CurrentWitness(ep)) ELSE ep

HeadAfter(ledger, i, how) == IF how = "block" THEN BlockOf(ledger, i) ELSE HeadAt(ledger, i)

IsPrefixOf(s, t) == Len(s) <= Len(t) /\ \A k \in 1..Len(s) : t[k] = s[k]

\* The slots of the ledger.
SlotsOK(ledger) ==
  \A i \in 0..Latest(ledger) :
    /\ EpochAt(ledger, i) \in EpochState /\ Placed(EpochAt(ledger, i))
    /\ EpochAt(ledger, i).idx = i
    /\ HeadAt(ledger, i) \in Seq(Members)
    /\ EndOf(ledger, i) \in Ends

\* Slot i + 1 follows from how slot i ended.
Leads(ledger, i) ==
  /\ EndOf(ledger, i) # "open"
  /\ HeadAt(ledger, i + 1) = HeadAfter(ledger, i, EndOf(ledger, i))
  /\ EpochAt(ledger, i + 1) \in
       IncrementWitness(Left(EpochAt(ledger, i), EndOf(ledger, i)), HeadAt(ledger, i + 1))

\* The heads are one chain, which grows with every block.
OneChain(ledger) ==
  \A i, j \in 0..Latest(ledger) : i <= j =>
    /\ IsPrefixOf(HeadAt(ledger, i), HeadAt(ledger, j))
    /\ i < j /\ EndOf(ledger, i) = "block" => Len(HeadAt(ledger, i)) < Len(HeadAt(ledger, j))

LedgerOK(ledger) ==
  /\ Latest(ledger) \in Nat
  /\ SlotsOK(ledger)
  /\ \A i \in 0..(Latest(ledger) - 1) : Leads(ledger, i)
  /\ EndOf(ledger, Latest(ledger)) \in {"open", "block"}
  /\ OneChain(ledger)

---------------------------------------------------------------------------
(* The nodes in the ledger *)

\* A node stands where the ledger says of its slot.
FollowsLedger(ledger, ep, hd, noBlock) ==
  /\ ep.idx \in 0..Latest(ledger)
  /\ ep = EpochAt(ledger, ep.idx)
  /\ hd = HeadAt(ledger, ep.idx)
  /\ noBlock <=> (ep.idx > 0 /\ EndOf(ledger, ep.idx - 1) # "block")

\* What is on the way to a node, and the blocks that it has, are of the ledger.
FromLedger(ledger, mail, known) ==
  /\ \A msg \in mail : \E i \in 0..Latest(ledger) :
       \/ EndOf(ledger, i) = "block" /\ msg = BlockMsg(ledger, i)
       \/ EndOf(ledger, i) = "empty" /\ msg = EmptyMsg(ledger, i)
  /\ \A b \in known :
       \/ b = Root
       \/ \E i \in 0..Latest(ledger) : EndOf(ledger, i) = "block" /\ b = BlockOf(ledger, i)

\* What was said in slot j is still on the way, or in the cache.
Heard(ledger, j, mail, known) ==
  /\ EndOf(ledger, j) = "block" =>
       (BlockMsg(ledger, j) \in mail <=> BlockOf(ledger, j) \notin known)
  /\ EndOf(ledger, j) = "empty" => EmptyMsg(ledger, j) \in mail

\* What a running node in slot i has not yet acted on: all that was said from its
\* slot on, and nothing of before.  A witness speaks only while the slots before
\* its own ended with blocks or have been left by all.
Pending(ledger, n, i, mail, known, checks, waits) ==
  /\ \A msg \in mail : msg.slot >= i
  /\ \A j \in i..Latest(ledger) :
       /\ Heard(ledger, j, mail, known)
       /\ EndOf(ledger, j) \in {"block", "empty"} =>
            \A k \in i..(j - 1) : EndOf(ledger, k) = "block"
  /\ checks = IF EndOf(ledger, i) = "block" /\ BlockMsg(ledger, i) \notin mail
              THEN {BlockOf(ledger, i)} ELSE {}
  /\ waits <=> /\ EndOf(ledger, i) = "block" /\ BlockMsg(ledger, i) \in mail
               /\ Owner(ledger, i) = n

\* Only a witness that has stopped misses its slot, and a witness that spoke has
\* come to its slot.
Acted(ledger) ==
  \A i \in 0..Latest(ledger) :
    /\ EndOf(ledger, i) = "missed" => Owner(ledger, i) \in crashed
    /\ EndOf(ledger, i) = "block" => epoch[Owner(ledger, i)].idx >= i
    /\ EndOf(ledger, i) = "empty" => epoch[Owner(ledger, i)].idx > i

AllFollow(ledger) ==
  \A n \in Members : FollowsLedger(ledger, epoch[n], head[n], skipped[n])

AllFromLedger(ledger) == \A n \in Members : FromLedger(ledger, onTheWay[n], cache[n])

AllPending(ledger) ==
  \A n \in Running :
    Pending(ledger, n, epoch[n].idx, onTheWay[n], cache[n], checking[n], waitingForOwn[n])

Kept(ledger) ==
  /\ LedgerOK(ledger) /\ Acted(ledger)
  /\ AllFollow(ledger) /\ AllFromLedger(ledger) /\ AllPending(ledger)

\* The inductive invariant.
OneLedger == TypeOK /\ \E ledger : Kept(ledger)

---------------------------------------------------------------------------
(* Blocks and messages *)

\* What Append adds and what it leaves.
LEMMA AppendFacts ==
  ASSUME NEW s \in Seq(Members), NEW w \in Members
  PROVE  /\ Append(s, w) \in Seq(Members)
         /\ Len(s) \in Nat
         /\ Len(Append(s, w)) = Len(s) + 1
         /\ Parent(Append(s, w)) = s
         /\ Signer(Append(s, w)) = w
         /\ IsPrefixOf(s, Append(s, w))
         /\ Append(s, w) # Root
<1> DEFINE b == Append(s, w)
<1>1. /\ b \in Seq(Members) /\ b # << >> /\ Len(b) = Len(s) + 1
      /\ \A i \in 1..Len(s) : b[i] = s[i]
      /\ b[Len(s) + 1] = w
  BY AppendProperties
<1>2. Len(s) \in Nat /\ \A i \in 1..Len(s) : s[i] \in Members
  BY LenProperties, ElementOfSeq
<1> HIDE DEF b
<1>3. Parent(b) = s
  <2>1. Parent(b) = SubSeq(b, 1, Len(s))
    BY <1>1, <1>2 DEF Parent
  <2>2. /\ SubSeq(b, 1, Len(s)) \in Seq(Members)
        /\ Len(SubSeq(b, 1, Len(s))) = Len(s)
        /\ \A i \in 1..Len(s) : SubSeq(b, 1, Len(s))[i] = b[i]
    BY <1>1, <1>2, SubSeqProperties
  <2> QED BY <1>1, <2>1, <2>2, SeqEqual
<1> QED BY <1>1, <1>2, <1>3 DEF b, Signer, IsPrefixOf, Root

\* A beginning in the words of NoFork.
LEMMA PrefixAsSubSeq ==
  ASSUME NEW s \in Seq(Members), NEW t \in Seq(Members), IsPrefixOf(s, t)
  PROVE  SubSeq(t, 1, Len(s)) = s
<1>1. Len(s) \in Nat /\ Len(t) \in Nat /\ Len(s) <= Len(t)
      /\ \A i \in 1..Len(s) : t[i] = s[i] /\ s[i] \in Members
  BY LenProperties, ElementOfSeq DEF IsPrefixOf
<1>2. /\ SubSeq(t, 1, Len(s)) \in Seq(Members)
      /\ Len(SubSeq(t, 1, Len(s))) = Len(s)
      /\ \A i \in 1..Len(s) : SubSeq(t, 1, Len(s))[i] = t[i]
  BY <1>1, SubSeqProperties
<1> QED BY <1>1, <1>2, SeqEqual

\* The beginning of a beginning is one.
LEMMA PrefixTrans ==
  ASSUME NEW s \in Seq(Members), NEW t \in Seq(Members), NEW u \in Seq(Members),
         IsPrefixOf(s, t), IsPrefixOf(t, u)
  PROVE  IsPrefixOf(s, u)
<1>1. Len(s) \in Nat /\ Len(t) \in Nat /\ Len(u) \in Nat
  BY LenProperties
<1> QED BY <1>1 DEF IsPrefixOf

\* The expected witness of a slot is a member.
LEMMA WitnessIsMember ==
  ASSUME NEW ep \in EpochState, Placed(ep)
  PROVE  CurrentWitness(ep) \in Members
<1>1. /\ HasWitnesses(ep) /\ Len(ep.witnesses) = NumSlots
      /\ ep.witnesses \in [1..NumSlots -> Members]
  BY PlacedSizes DEF Placed
<1>2. ep.idx % NumSlots \in 0..(NumSlots - 1)
  <2>1. ep.idx \in Nat /\ NumSlots \in Nat \ {0}
    BY Sizes DEF EpochState
  <2> QED BY <2>1, ModSucc
<1>3. 1 + (ep.idx % NumSlots) \in 1..NumSlots
  BY <1>2, Sizes
<1> QED BY <1>1, <1>3 DEF CurrentWitness, WitnessOfSlot

\* What the ledger holds of a slot that has come.
LEMMA SlotTypes ==
  ASSUME NEW ledger, LedgerOK(ledger), NEW i \in 0..Latest(ledger)
  PROVE  /\ i \in Nat /\ Latest(ledger) \in Nat
         /\ EpochAt(ledger, i) \in EpochState /\ Placed(EpochAt(ledger, i))
         /\ EpochAt(ledger, i).idx = i
         /\ HeadAt(ledger, i) \in Seq(Members)
         /\ EndOf(ledger, i) \in Ends
         /\ Owner(ledger, i) \in Members
         /\ BlockOf(ledger, i) \in Seq(Members)
         /\ BlockOf(ledger, i) # Root
         /\ Len(HeadAt(ledger, i)) \in Nat
         /\ Len(BlockOf(ledger, i)) = Len(HeadAt(ledger, i)) + 1
         /\ Parent(BlockOf(ledger, i)) = HeadAt(ledger, i)
         /\ Signer(BlockOf(ledger, i)) = Owner(ledger, i)
         /\ IsPrefixOf(HeadAt(ledger, i), BlockOf(ledger, i))
         /\ BlockMsg(ledger, i) \in Message
         /\ EmptyMsg(ledger, i) \in Message
<1>1. Latest(ledger) \in Nat
  BY DEF LedgerOK
<1>2. /\ EpochAt(ledger, i) \in EpochState /\ Placed(EpochAt(ledger, i))
      /\ EpochAt(ledger, i).idx = i
      /\ HeadAt(ledger, i) \in Seq(Members)
      /\ EndOf(ledger, i) \in Ends
  BY DEF LedgerOK, SlotsOK
<1>3. Owner(ledger, i) \in Members
  BY <1>2, WitnessIsMember DEF Owner
<1>4. /\ BlockOf(ledger, i) \in Seq(Members)
      /\ BlockOf(ledger, i) # Root
      /\ Len(HeadAt(ledger, i)) \in Nat
      /\ Len(BlockOf(ledger, i)) = Len(HeadAt(ledger, i)) + 1
      /\ Parent(BlockOf(ledger, i)) = HeadAt(ledger, i)
      /\ Signer(BlockOf(ledger, i)) = Owner(ledger, i)
      /\ IsPrefixOf(HeadAt(ledger, i), BlockOf(ledger, i))
  BY <1>2, <1>3, AppendFacts DEF BlockOf
<1>5. Root \in Seq(Members) /\ i \in Nat
  BY <1>1, EmptySeq DEF Root
<1>6. BlockMsg(ledger, i) \in Message /\ EmptyMsg(ledger, i) \in Message
  BY <1>3, <1>4, <1>5 DEF BlockMsg, EmptyMsg, Message
<1> QED BY <1>1, <1>2, <1>3, <1>4, <1>5, <1>6

\* A message says which slot it is of.
LEMMA MessageOfSlot ==
  ASSUME NEW ledger, NEW i, NEW j
  PROVE  /\ BlockMsg(ledger, i).slot = i /\ EmptyMsg(ledger, i).slot = i
         /\ ~BlockMsg(ledger, i).empty /\ EmptyMsg(ledger, i).empty
         /\ BlockMsg(ledger, i).block = BlockOf(ledger, i)
         /\ EmptyMsg(ledger, i).from = Owner(ledger, i)
         /\ BlockMsg(ledger, i) # EmptyMsg(ledger, j)
         /\ i # j => BlockMsg(ledger, i) # BlockMsg(ledger, j)
         /\ i # j => EmptyMsg(ledger, i) # EmptyMsg(ledger, j)
<1>1. /\ BlockMsg(ledger, i).slot = i /\ EmptyMsg(ledger, i).slot = i
      /\ BlockMsg(ledger, j).slot = j /\ EmptyMsg(ledger, j).slot = j
      /\ ~BlockMsg(ledger, i).empty
      /\ EmptyMsg(ledger, i).empty /\ EmptyMsg(ledger, j).empty
      /\ BlockMsg(ledger, i).block = BlockOf(ledger, i)
      /\ EmptyMsg(ledger, i).from = Owner(ledger, i)
  BY DEF BlockMsg, EmptyMsg
<1> QED BY <1>1

\* The blocks of different slots differ: the chain grows with each.
LEMMA BlocksGrow ==
  ASSUME NEW ledger, LedgerOK(ledger),
         NEW i \in 0..Latest(ledger), NEW j \in 0..Latest(ledger),
         i < j, EndOf(ledger, i) = "block"
  PROVE  /\ Len(HeadAt(ledger, i)) < Len(HeadAt(ledger, j))
         /\ Len(BlockOf(ledger, i)) < Len(BlockOf(ledger, j))
         /\ HeadAt(ledger, i) # HeadAt(ledger, j)
         /\ BlockOf(ledger, i) # BlockOf(ledger, j)
<1>1. i \in Nat /\ j \in Nat
  BY SlotTypes
<1>2. Len(HeadAt(ledger, i)) < Len(HeadAt(ledger, j))
  BY <1>1 DEF LedgerOK, OneChain
<1>3. /\ Len(HeadAt(ledger, i)) \in Nat /\ Len(HeadAt(ledger, j)) \in Nat
      /\ Len(BlockOf(ledger, i)) = Len(HeadAt(ledger, i)) + 1
      /\ Len(BlockOf(ledger, j)) = Len(HeadAt(ledger, j)) + 1
  BY SlotTypes
<1> QED BY <1>2, <1>3

---------------------------------------------------------------------------
(* The ledger grows *)

\* The witness of the running slot sends its block.
Signed(ledger) ==
  [latest |-> Latest(ledger),
   epoch |-> [i \in Nat |-> EpochAt(ledger, i)],
   head |-> [i \in Nat |-> HeadAt(ledger, i)],
   end |-> [i \in Nat |-> IF i = Latest(ledger) THEN "block" ELSE EndOf(ledger, i)]]

\* The first node leaves the running slot, for one that begins with schedule next.
Longer(ledger, how, next) ==
  [latest |-> Latest(ledger) + 1,
   epoch |-> [i \in Nat |-> IF i = Latest(ledger) + 1 THEN next ELSE EpochAt(ledger, i)],
   head |-> [i \in Nat |-> IF i = Latest(ledger) + 1 THEN HeadAfter(ledger, i - 1, how)
                           ELSE HeadAt(ledger, i)],
   end |-> [i \in Nat |-> IF i = Latest(ledger) + 1 THEN "open"
                          ELSE IF i = Latest(ledger) THEN how ELSE EndOf(ledger, i)]]

\* What was said and settled stays.
Grown(ledger, more) ==
  /\ Latest(ledger) \in Nat /\ Latest(more) \in Nat /\ Latest(ledger) <= Latest(more)
  /\ \A i \in 0..Latest(ledger) :
       /\ EpochAt(more, i) = EpochAt(ledger, i)
       /\ HeadAt(more, i) = HeadAt(ledger, i)
       /\ EndOf(ledger, i) # "open" => EndOf(more, i) = EndOf(ledger, i)

\* So the blocks and the messages of its slots stay.
LEMMA GrownSays ==
  ASSUME NEW ledger, NEW more, Grown(ledger, more), NEW i \in 0..Latest(ledger)
  PROVE  /\ Owner(more, i) = Owner(ledger, i)
         /\ BlockOf(more, i) = BlockOf(ledger, i)
         /\ BlockMsg(more, i) = BlockMsg(ledger, i)
         /\ EmptyMsg(more, i) = EmptyMsg(ledger, i)
         /\ \A how : HeadAfter(more, i, how) = HeadAfter(ledger, i, how)
<1>1. EpochAt(more, i) = EpochAt(ledger, i) /\ HeadAt(more, i) = HeadAt(ledger, i)
  BY DEF Grown
<1>2. Owner(more, i) = Owner(ledger, i) /\ BlockOf(more, i) = BlockOf(ledger, i)
  BY <1>1 DEF Owner, BlockOf
<1> QED BY <1>1, <1>2 DEF BlockMsg, EmptyMsg, HeadAfter

\* A ledger that is signed, that is, whose last slot has a block, is still a ledger.
LEMMA SignedLedger ==
  ASSUME NEW ledger, LedgerOK(ledger)
  PROVE  /\ LedgerOK(Signed(ledger)) /\ Grown(ledger, Signed(ledger))
         /\ Latest(Signed(ledger)) = Latest(ledger)
         /\ EndOf(Signed(ledger), Latest(ledger)) = "block"
         /\ \A i \in 0..(Latest(ledger) - 1) : EndOf(Signed(ledger), i) = EndOf(ledger, i)
<1> DEFINE more == Signed(ledger)
           F == Latest(ledger)
<1>1. F \in Nat
  BY DEF LedgerOK
<1>2. /\ Latest(more) = F
      /\ \A i \in Nat : /\ EpochAt(more, i) = EpochAt(ledger, i)
                        /\ HeadAt(more, i) = HeadAt(ledger, i)
                        /\ EndOf(more, i) = IF i = F THEN "block" ELSE EndOf(ledger, i)
  <2> HIDE DEF F
  <2> QED BY DEF Signed, Latest, EpochAt, HeadAt, EndOf, F
<1>3. /\ SlotsOK(ledger) /\ OneChain(ledger)
      /\ \A i \in 0..(F - 1) : Leads(ledger, i)
      /\ EndOf(ledger, F) \in {"open", "block"}
  BY DEF LedgerOK
<1> HIDE DEF more
<1>4. Grown(ledger, more)
  BY <1>1, <1>2, <1>3 DEF Grown
<1>5. \A i \in 0..(F - 1) : /\ i \in Nat /\ i + 1 \in Nat /\ i \in 0..F /\ i # F
                            /\ EndOf(more, i) = EndOf(ledger, i)
  BY <1>1, <1>2
<1>6. SlotsOK(more)
  BY <1>1, <1>2, <1>3 DEF SlotsOK, Ends
<1>7. \A i \in 0..(F - 1) : Leads(more, i)
  BY <1>2, <1>3, <1>4, <1>5, GrownSays DEF Leads
<1>8. OneChain(more)
  <2>1. \A i, j \in 0..F : i < j => i \in 0..(F - 1)
    BY <1>1
  <2> QED BY <1>1, <1>2, <1>3, <1>5, <2>1 DEF OneChain
<1> QED BY <1>1, <1>2, <1>4, <1>5, <1>6, <1>7, <1>8 DEF LedgerOK, more

\* A schedule stays placed when its slot is left, whatever way.
LEMMA LeftPlaced ==
  ASSUME NEW ep \in EpochState, Placed(ep), NEW how
  PROVE  /\ Left(ep, how) \in EpochState /\ Placed(Left(ep, how))
         /\ Left(ep, how).idx = ep.idx
BY WitnessIsMember, DowngradePlaced DEF Left

\* A ledger with a slot more at its end is still a ledger.
LEMMA LongerLedger ==
  ASSUME NEW ledger, LedgerOK(ledger),
         NEW how \in {"block", "empty", "missed"},
         how = "block" <=> EndOf(ledger, Latest(ledger)) = "block",
         NEW next \in IncrementWitness(Left(EpochAt(ledger, Latest(ledger)), how),
                                      HeadAfter(ledger, Latest(ledger), how))
  PROVE  LET more == Longer(ledger, how, next) IN
         /\ LedgerOK(more) /\ Grown(ledger, more)
         /\ Latest(more) = Latest(ledger) + 1
         /\ EndOf(more, Latest(ledger)) = how
         /\ EndOf(more, Latest(ledger) + 1) = "open"
         /\ \A i \in 0..(Latest(ledger) - 1) : EndOf(more, i) = EndOf(ledger, i)
         /\ EpochAt(more, Latest(ledger) + 1) = next
         /\ HeadAt(more, Latest(ledger) + 1) = HeadAfter(ledger, Latest(ledger), how)
<1> DEFINE more == Longer(ledger, how, next)
           F == Latest(ledger)
           hd == HeadAfter(ledger, F, how)
<1>1. F \in Nat /\ F \in 0..F /\ F + 1 \in Nat
  BY DEF LedgerOK
<1>2. /\ SlotsOK(ledger) /\ OneChain(ledger)
      /\ \A i \in 0..(F - 1) : Leads(ledger, i)
      /\ EndOf(ledger, F) \in {"open", "block"}
  BY DEF LedgerOK
<1>3. /\ Latest(more) = F + 1
      /\ EpochAt(more, F + 1) = next /\ HeadAt(more, F + 1) = hd
      /\ EndOf(more, F + 1) = "open" /\ EndOf(more, F) = how
      /\ \A i \in 0..F : EpochAt(more, i) = EpochAt(ledger, i) /\ HeadAt(more, i) = HeadAt(ledger, i)
      /\ \A i \in 0..(F - 1) : EndOf(more, i) = EndOf(ledger, i)
  <2>1. /\ Latest(more) = F + 1
        /\ \A i \in Nat :
             /\ EpochAt(more, i) = IF i = F + 1 THEN next ELSE EpochAt(ledger, i)
             /\ HeadAt(more, i) = IF i = F + 1 THEN HeadAfter(ledger, i - 1, how)
                                  ELSE HeadAt(ledger, i)
             /\ EndOf(more, i) = IF i = F + 1 THEN "open"
                                 ELSE IF i = F THEN how ELSE EndOf(ledger, i)
    <3> HIDE DEF F, hd
    <3> QED BY DEF Longer, Latest, EpochAt, HeadAt, EndOf, F
  <2> HIDE DEF more, hd
  <2>2. /\ (F + 1) - 1 = F /\ F # F + 1
        /\ \A i \in 0..F : i \in Nat /\ i # F + 1
        /\ \A i \in 0..(F - 1) : i \in Nat /\ i # F + 1 /\ i # F
    BY <1>1
  <2> QED BY <1>1, <2>1, <2>2 DEF hd
<1> HIDE DEF more, F, hd
<1>4. Grown(ledger, more)
  <2>1. \A i \in 0..F : EndOf(ledger, i) # "open" => EndOf(more, i) = EndOf(ledger, i)
    BY <1>1, <1>2, <1>3 DEF F
  <2> QED BY <1>1, <1>3, <2>1 DEF Grown, F
<1>5. /\ EpochAt(ledger, F) \in EpochState /\ Placed(EpochAt(ledger, F))
      /\ EpochAt(ledger, F).idx = F
      /\ HeadAt(ledger, F) \in Seq(Members) /\ Len(HeadAt(ledger, F)) \in Nat
      /\ IsPrefixOf(HeadAt(ledger, F), BlockOf(ledger, F))
      /\ BlockOf(ledger, F) \in Seq(Members)
      /\ Len(BlockOf(ledger, F)) = Len(HeadAt(ledger, F)) + 1
  BY <1>1, SlotTypes DEF F
<1>6. /\ hd \in Seq(Members) /\ Len(hd) \in Nat
      /\ IsPrefixOf(HeadAt(ledger, F), hd) /\ IsPrefixOf(hd, hd)
      /\ how = "block" => Len(HeadAt(ledger, F)) < Len(hd)
  BY <1>5 DEF hd, HeadAfter, IsPrefixOf
<1>7. next \in EpochState /\ Placed(next) /\ next.idx = F + 1
  <2>1. next \in IncrementWitness(Left(EpochAt(ledger, F), how), hd)
    BY DEF F, hd
  <2> QED BY <1>5, <2>1, LeftPlaced, IncrementPlaced
<1>8. SlotsOK(more)
  <2>1. \A i \in 0..(F + 1) : i \in 0..F \/ i = F + 1
    BY <1>1
  <2>2. \A i \in 0..F : EndOf(more, i) \in Ends
    <3>1. \A i \in 0..F : i \in 0..(F - 1) \/ i = F
      BY <1>1
    <3> QED BY <1>2, <1>3, <3>1 DEF SlotsOK, Ends, F
  <2> QED BY <1>2, <1>3, <1>6, <1>7, <2>1, <2>2 DEF SlotsOK, Ends, F
<1>9. \A i \in 0..F : Leads(more, i)
  <2>1. SUFFICES ASSUME NEW i \in 0..F PROVE Leads(more, i)
    OBVIOUS
  <2>2. HeadAfter(more, i, EndOf(more, i)) = HeadAfter(ledger, i, EndOf(more, i))
    BY <1>4, GrownSays DEF F
  <2>3. CASE i = F
    BY <1>1, <1>3, <2>2, <2>3 DEF Leads, F, hd
  <2>4. CASE i # F
    <3>1. i \in 0..(F - 1) /\ i + 1 \in 0..F
      BY <1>1, <2>4
    <3> QED BY <1>2, <1>3, <2>2, <3>1 DEF Leads
  <2> QED BY <2>3, <2>4
<1>10. OneChain(more)
  <2>1. SUFFICES ASSUME NEW i \in 0..(F + 1), NEW j \in 0..(F + 1), i <= j
                 PROVE  /\ IsPrefixOf(HeadAt(more, i), HeadAt(more, j))
                        /\ i < j /\ EndOf(more, i) = "block"
                             => Len(HeadAt(more, i)) < Len(HeadAt(more, j))
    BY <1>3 DEF OneChain
  <2>2. CASE j \in 0..F
    <3>1. i \in 0..F /\ (i < j => i \in 0..(F - 1))
      BY <1>1, <2>1, <2>2
    <3> QED BY <1>2, <1>3, <2>1, <2>2, <3>1 DEF OneChain, F
  <2>3. CASE i = F + 1
    <3>1. j = F + 1
      BY <1>1, <2>1, <2>3
    <3> QED BY <1>1, <1>3, <1>6, <2>3, <3>1
  <2>4. CASE i \in 0..F /\ j = F + 1
    <3>1. /\ HeadAt(ledger, i) \in Seq(Members) /\ Len(HeadAt(ledger, i)) \in Nat
          /\ IsPrefixOf(HeadAt(ledger, i), HeadAt(ledger, F))
      <4>1. i <= F
        BY <1>1, <2>4
      <4> QED BY <1>1, <1>2, <2>4, <4>1, SlotTypes DEF OneChain, F
    <3>2. IsPrefixOf(HeadAt(ledger, i), hd)
      BY <1>5, <1>6, <3>1, PrefixTrans
    <3>3. CASE i = F
      BY <1>3, <1>6, <2>4, <3>2, <3>3
    <3>4. CASE i # F
      <4>1. i \in 0..(F - 1) /\ i < F /\ i <= F
        BY <1>1, <2>4, <3>4
      <4>2. EndOf(more, i) = "block" => Len(HeadAt(ledger, i)) < Len(HeadAt(ledger, F))
        BY <1>1, <1>2, <1>3, <2>4, <4>1 DEF OneChain, F
      <4>3. Len(HeadAt(ledger, F)) <= Len(hd)
        BY <1>6 DEF IsPrefixOf
      <4> QED BY <1>3, <1>5, <1>6, <2>4, <3>1, <3>2, <4>2, <4>3
    <3> QED BY <3>3, <3>4
  <2>5. j \in 0..F \/ i = F + 1 \/ (i \in 0..F /\ j = F + 1)
    BY <1>1
  <2> QED BY <2>2, <2>3, <2>4, <2>5
<1>11. LedgerOK(more)
  <2>1. (F + 1) - 1 = F
    BY <1>1
  <2> QED BY <1>1, <1>3, <1>8, <1>9, <1>10, <2>1 DEF LedgerOK
<1> QED BY <1>3, <1>4, <1>11 DEF more, F, hd

---------------------------------------------------------------------------
(* The view of one node when the ledger grows *)

\* A node keeps its place, and what it was sent.
LEMMA GrownKeeps ==
  ASSUME NEW ledger, LedgerOK(ledger), NEW more, Grown(ledger, more)
  PROVE  /\ \A ep, hd, noBlock :
              FollowsLedger(ledger, ep, hd, noBlock) => FollowsLedger(more, ep, hd, noBlock)
         /\ \A mail, known :
              FromLedger(ledger, mail, known) => FromLedger(more, mail, known)
<1>1. /\ Latest(ledger) \in Nat /\ Latest(more) \in Nat /\ Latest(ledger) <= Latest(more)
      /\ \A i \in 0..Latest(ledger) : i \in 0..Latest(more)
  BY DEF Grown
<1>2. \A i \in 0..(Latest(ledger) - 1) : i \in 0..Latest(ledger) /\ EndOf(more, i) = EndOf(ledger, i)
  BY <1>1 DEF LedgerOK, Leads, Grown
<1>3. ASSUME NEW ep, NEW hd, NEW noBlock, FollowsLedger(ledger, ep, hd, noBlock)
      PROVE  FollowsLedger(more, ep, hd, noBlock)
  <2>1. /\ ep.idx \in 0..Latest(ledger) /\ ep = EpochAt(ledger, ep.idx)
        /\ hd = HeadAt(ledger, ep.idx)
        /\ noBlock <=> (ep.idx > 0 /\ EndOf(ledger, ep.idx - 1) # "block")
    BY <1>3 DEF FollowsLedger
  <2>2. ep = EpochAt(more, ep.idx) /\ hd = HeadAt(more, ep.idx)
    BY <2>1 DEF Grown
  <2>3. ep.idx > 0 => ep.idx - 1 \in 0..(Latest(ledger) - 1)
    BY <1>1, <2>1
  <2> QED BY <1>1, <1>2, <2>1, <2>2, <2>3 DEF FollowsLedger
<1>4. ASSUME NEW mail, NEW known, FromLedger(ledger, mail, known)
      PROVE  FromLedger(more, mail, known)
  <2>1. \A i \in 0..Latest(ledger) :
          /\ EndOf(ledger, i) = "block" => EndOf(more, i) = "block"
          /\ EndOf(ledger, i) = "empty" => EndOf(more, i) = "empty"
    BY DEF Grown
  <2> QED BY <1>1, <1>4, <2>1, GrownSays DEF FromLedger
<1> QED BY <1>3, <1>4

\* Nothing is pending of a slot that was only left, or only begun.
LEMMA PendingGrown ==
  ASSUME NEW ledger, LedgerOK(ledger), NEW more, Grown(ledger, more),
         \A j \in 0..Latest(more) : EndOf(more, j) \in {"block", "empty"} =>
           j \in 0..Latest(ledger) /\ EndOf(ledger, j) = EndOf(more, j),
         NEW n, NEW i \in 0..Latest(ledger), NEW mail, NEW known, NEW checks, NEW waits,
         Pending(ledger, n, i, mail, known, checks, waits)
  PROVE  Pending(more, n, i, mail, known, checks, waits)
<1>1. /\ Latest(ledger) \in Nat /\ Latest(more) \in Nat /\ Latest(ledger) <= Latest(more)
      /\ i \in Nat
  BY DEF Grown
<1>2. \A j \in i..Latest(more) : j \in 0..Latest(more)
  BY <1>1
<1>3. EndOf(more, i) = "block" <=> EndOf(ledger, i) = "block"
  BY <1>1 DEF Grown
<1>4. /\ BlockMsg(more, i) = BlockMsg(ledger, i) /\ BlockOf(more, i) = BlockOf(ledger, i)
      /\ Owner(more, i) = Owner(ledger, i)
  BY GrownSays
<1>5. ASSUME NEW j \in i..Latest(more)
      PROVE  /\ Heard(more, j, mail, known)
             /\ EndOf(more, j) \in {"block", "empty"} =>
                  \A k \in i..(j - 1) : EndOf(more, k) = "block"
  <2>1. CASE EndOf(more, j) \notin {"block", "empty"}
    BY <2>1 DEF Heard
  <2>2. CASE EndOf(more, j) \in {"block", "empty"}
    <3>1. j \in 0..Latest(ledger) /\ EndOf(ledger, j) = EndOf(more, j)
      BY <1>2, <1>5, <2>2
    <3>2. j \in i..Latest(ledger) /\ \A k \in i..(j - 1) : k \in 0..Latest(ledger)
      BY <1>1, <1>5, <3>1
    <3>3. Heard(ledger, j, mail, known) /\ \A k \in i..(j - 1) : EndOf(ledger, k) = "block"
      BY <2>2, <3>1, <3>2 DEF Pending
    <3>4. Heard(more, j, mail, known)
      BY <3>1, <3>3, GrownSays DEF Heard
    <3> QED BY <3>2, <3>3, <3>4 DEF Grown
  <2> QED BY <2>1, <2>2
<1> QED BY <1>3, <1>4, <1>5 DEF Pending

\* In the running slot nothing is on the way yet that was said in it.
LEMMA OpenSlotSilent ==
  ASSUME NEW ledger, LedgerOK(ledger), NEW mail, NEW known, FromLedger(ledger, mail, known),
         NEW i \in 0..Latest(ledger), EndOf(ledger, i) \notin {"block", "empty"}
  PROVE  /\ BlockMsg(ledger, i) \notin mail
         /\ EmptyMsg(ledger, i) \notin mail
         /\ \A msg \in mail : msg.slot # i
<1>1. \A j : BlockMsg(ledger, j).slot = j /\ EmptyMsg(ledger, j).slot = j
  BY MessageOfSlot
<1>2. \A msg \in mail : msg.slot # i
  BY <1>1 DEF FromLedger
<1> QED BY <1>1, <1>2

\* The block of the running slot is new to everyone.
LEMMA OpenSlotNew ==
  ASSUME NEW ledger, LedgerOK(ledger), NEW mail, NEW known, FromLedger(ledger, mail, known),
         EndOf(ledger, Latest(ledger)) = "open"
  PROVE  BlockOf(ledger, Latest(ledger)) \notin known
<1> DEFINE F == Latest(ledger)
<1>1. F \in Nat /\ F \in 0..F
  BY DEF LedgerOK
<1>2. ASSUME NEW i \in 0..F, EndOf(ledger, i) = "block" PROVE BlockOf(ledger, i) # BlockOf(ledger, F)
  <2>1. i < F
    BY <1>1, <1>2
  <2> QED BY <1>1, <1>2, <2>1, BlocksGrow
<1>3. BlockOf(ledger, F) # Root
  BY <1>1, SlotTypes
<1> QED BY <1>2, <1>3 DEF FromLedger

\* When the witness of the running slot speaks, a node that has only blocks
\* between its own slot and this one has one more message to act on.
LEMMA PendingSpoken ==
  ASSUME NEW ledger, LedgerOK(ledger), NEW more, Grown(ledger, more),
         EndOf(ledger, Latest(ledger)) = "open",
         EndOf(more, Latest(ledger)) \in {"block", "empty"},
         \A j \in 0..Latest(more) : EndOf(more, j) \in {"block", "empty"} => j \in 0..Latest(ledger),
         NEW n, NEW i \in 0..Latest(ledger), NEW mail, NEW known, NEW checks, NEW waits, NEW waits2,
         FromLedger(ledger, mail, known),
         Pending(ledger, n, i, mail, known, checks, waits),
         \A k \in i..(Latest(ledger) - 1) : EndOf(ledger, k) = "block",
         NEW msg,
         msg = IF EndOf(more, Latest(ledger)) = "block"
               THEN BlockMsg(ledger, Latest(ledger)) ELSE EmptyMsg(ledger, Latest(ledger)),
         waits2 <=> \/ waits
                    \/ /\ EndOf(more, Latest(ledger)) = "block" /\ i = Latest(ledger)
                       /\ Owner(ledger, i) = n
  PROVE  Pending(more, n, i, mail \cup {msg}, known, checks, waits2)
<1> DEFINE F == Latest(ledger)
           mail2 == mail \cup {msg}
<1>1. /\ F \in Nat /\ F \in 0..F /\ Latest(more) \in Nat /\ F <= Latest(more) /\ i \in Nat /\ i <= F
  BY DEF Grown
<1>2. /\ \A m \in mail : m.slot >= i
      /\ \A j \in i..F : Heard(ledger, j, mail, known)
      /\ checks = IF EndOf(ledger, i) = "block" /\ BlockMsg(ledger, i) \notin mail
                  THEN {BlockOf(ledger, i)} ELSE {}
      /\ waits <=> /\ EndOf(ledger, i) = "block" /\ BlockMsg(ledger, i) \in mail
                   /\ Owner(ledger, i) = n
  BY DEF Pending
<1>3. msg.slot = F /\ \A j : BlockMsg(ledger, j).slot = j
  <2>1. \A j : BlockMsg(ledger, j).slot = j /\ EmptyMsg(ledger, j).slot = j
    BY MessageOfSlot
  <2>2. msg = BlockMsg(ledger, F) \/ msg = EmptyMsg(ledger, F)
    OBVIOUS
  <2> HIDE DEF F
  <2> QED BY <2>1, <2>2
<1>4. \A j \in 0..(F - 1) : /\ j # F /\ j \in 0..F
                            /\ EndOf(ledger, j) # "open" /\ EndOf(more, j) = EndOf(ledger, j)
                            /\ (BlockMsg(ledger, j) \in mail2 <=> BlockMsg(ledger, j) \in mail)
                            /\ (EmptyMsg(ledger, j) \in mail => EmptyMsg(ledger, j) \in mail2)
  <2>1. \A j \in 0..(F - 1) : j # F /\ j \in 0..F
    BY <1>1
  <2>2. \A j \in 0..(F - 1) : EndOf(ledger, j) # "open"
    BY DEF LedgerOK, Leads
  <2>3. \A j \in 0..(F - 1) : EndOf(more, j) = EndOf(ledger, j)
    BY <2>1, <2>2 DEF Grown
  <2>4. \A j \in 0..(F - 1) : BlockMsg(ledger, j) # msg
    <3> HIDE DEF F
    <3> QED BY <1>3, <2>1
  <2> QED BY <2>1, <2>2, <2>3, <2>4
<1>5. /\ BlockMsg(ledger, F) \notin mail
      /\ BlockOf(ledger, F) \notin known
  BY <1>1, OpenSlotSilent, OpenSlotNew
<1>6. \A j \in 0..F : /\ BlockMsg(more, j) = BlockMsg(ledger, j)
                      /\ EmptyMsg(more, j) = EmptyMsg(ledger, j)
                      /\ BlockOf(more, j) = BlockOf(ledger, j)
                      /\ Owner(more, j) = Owner(ledger, j)
  BY GrownSays
<1> HIDE DEF F, mail2
<1>7. Heard(more, F, mail2, known)
  BY <1>1, <1>5, <1>6 DEF Heard, F, mail2
<1>8. ASSUME NEW j \in i..Latest(more)
      PROVE  /\ Heard(more, j, mail2, known)
             /\ EndOf(more, j) \in {"block", "empty"} =>
                  \A k \in i..(j - 1) : EndOf(more, k) = "block"
  <2>1. CASE EndOf(more, j) \notin {"block", "empty"}
    BY <2>1 DEF Heard
  <2>2. CASE EndOf(more, j) \in {"block", "empty"}
    <3>1. j \in 0..Latest(more)
      BY <1>1, <1>8
    <3>2. j \in 0..F
      BY <2>2, <3>1 DEF F
    <3>3. \A k \in i..(j - 1) : k \in 0..(F - 1) /\ k \in i..(F - 1)
      BY <1>1, <3>2
    <3>4. \A k \in i..(j - 1) : EndOf(more, k) = "block"
      BY <1>4, <3>3 DEF F
    <3>5. Heard(more, j, mail2, known)
      <4>1. CASE j = F
        BY <1>7, <4>1
      <4>2. CASE j # F
        <5>1. j \in 0..(F - 1) /\ j \in i..F
          BY <1>1, <1>8, <3>2, <4>2
        <5> QED BY <1>2, <1>4, <1>6, <3>2, <5>1 DEF Heard
      <4> QED BY <4>1, <4>2
    <3> QED BY <3>4, <3>5
  <2> QED BY <2>1, <2>2
<1>9. /\ checks = IF EndOf(more, i) = "block" /\ BlockMsg(more, i) \notin mail2
                  THEN {BlockOf(more, i)} ELSE {}
      /\ waits2 <=> /\ EndOf(more, i) = "block" /\ BlockMsg(more, i) \in mail2
                    /\ Owner(more, i) = n
  <2>1. CASE i = F
    <3>1. EndOf(ledger, i) = "open" /\ (EndOf(more, i) = "block" => BlockMsg(more, i) \in mail2)
      BY <1>1, <1>6, <2>1 DEF F, mail2
    <3>2. checks = {} /\ ~waits
      BY <1>2, <3>1
    <3>3. waits2 <=> EndOf(more, i) = "block" /\ Owner(ledger, i) = n
      BY <2>1, <3>2 DEF F
    <3> QED BY <1>1, <1>6, <2>1, <3>1, <3>2, <3>3
  <2>2. CASE i # F
    <3>1. i \in 0..(F - 1) /\ i \in 0..F
      BY <1>1, <2>2
    <3>2. waits2 <=> waits
      BY <2>2 DEF F
    <3> QED BY <1>2, <1>4, <1>6, <3>1, <3>2
  <2> QED BY <2>1, <2>2
<1>10. \A m \in mail2 : m.slot >= i
  BY <1>1, <1>2, <1>3 DEF mail2
<1> QED BY <1>8, <1>9, <1>10 DEF Pending, mail2

---------------------------------------------------------------------------
(* The view of one node when it goes through the ledger *)

\* What a running node has of the slots from its own on, in one fact.
LEMMA PendingFacts ==
  ASSUME NEW ledger, LedgerOK(ledger), NEW n, NEW i \in 0..Latest(ledger),
         NEW mail, NEW known, NEW checks, NEW waits,
         FromLedger(ledger, mail, known),
         Pending(ledger, n, i, mail, known, checks, waits)
  PROVE  /\ \A msg \in mail : \E j \in i..Latest(ledger) :
              \/ EndOf(ledger, j) = "block" /\ msg = BlockMsg(ledger, j)
              \/ EndOf(ledger, j) = "empty" /\ msg = EmptyMsg(ledger, j)
         /\ \A j \in i..Latest(ledger) : EndOf(ledger, j) \in {"block", "empty"} =>
              \A k \in i..(j - 1) : EndOf(ledger, k) = "block"
         /\ \A j \in i..Latest(ledger) : Heard(ledger, j, mail, known)
<1>1. Latest(ledger) \in Nat /\ i \in Nat
  BY DEF LedgerOK
<1>2. \A j : BlockMsg(ledger, j).slot = j /\ EmptyMsg(ledger, j).slot = j
  BY MessageOfSlot
<1>3. ASSUME NEW msg \in mail
      PROVE  \E j \in i..Latest(ledger) :
               \/ EndOf(ledger, j) = "block" /\ msg = BlockMsg(ledger, j)
               \/ EndOf(ledger, j) = "empty" /\ msg = EmptyMsg(ledger, j)
  <2>1. PICK j \in 0..Latest(ledger) :
          \/ EndOf(ledger, j) = "block" /\ msg = BlockMsg(ledger, j)
          \/ EndOf(ledger, j) = "empty" /\ msg = EmptyMsg(ledger, j)
    BY DEF FromLedger
  <2>2. msg.slot >= i
    BY DEF Pending
  <2>3. j \in i..Latest(ledger)
    BY <1>1, <1>2, <2>1, <2>2
  <2> QED BY <2>1, <2>3
<1> QED BY <1>3 DEF Pending

\* The next slot of a node whose slot ended with a block, once it has committed
\* that block.
LEMMA PendingAfterBlock ==
  ASSUME NEW ledger, LedgerOK(ledger), NEW n, NEW i \in 0..(Latest(ledger) - 1),
         NEW mail, NEW known, NEW checks, NEW waits,
         FromLedger(ledger, mail, known),
         Pending(ledger, n, i, mail, known, checks, waits),
         EndOf(ledger, i) = "block", BlockMsg(ledger, i) \notin mail,
         EndOf(ledger, i + 1) = "block" => Owner(ledger, i + 1) # n,
         NEW checks2,
         checks2 = IF EndOf(ledger, i + 1) = "block" /\ BlockMsg(ledger, i + 1) \notin mail
                   THEN {BlockOf(ledger, i + 1)} ELSE {}
  PROVE  Pending(ledger, n, i + 1, mail, known, checks2, FALSE)
<1>1. /\ Latest(ledger) \in Nat /\ i \in Nat /\ i \in 0..Latest(ledger)
      /\ \A j \in (i + 1)..Latest(ledger) : j \in i..Latest(ledger)
      /\ \A j \in i..Latest(ledger) : j = i \/ j >= i + 1
  BY DEF LedgerOK
<1>2. \A j : BlockMsg(ledger, j).slot = j /\ EmptyMsg(ledger, j).slot = j
  BY MessageOfSlot
<1>3. /\ \A msg \in mail : \E j \in i..Latest(ledger) :
           \/ EndOf(ledger, j) = "block" /\ msg = BlockMsg(ledger, j)
           \/ EndOf(ledger, j) = "empty" /\ msg = EmptyMsg(ledger, j)
      /\ \A j \in i..Latest(ledger) : EndOf(ledger, j) \in {"block", "empty"} =>
           \A k \in i..(j - 1) : EndOf(ledger, k) = "block"
      /\ \A j \in i..Latest(ledger) : Heard(ledger, j, mail, known)
  BY <1>1, PendingFacts
<1>4. ASSUME NEW msg \in mail PROVE msg.slot >= i + 1
  <2>1. PICK j \in i..Latest(ledger) :
          \/ EndOf(ledger, j) = "block" /\ msg = BlockMsg(ledger, j)
          \/ EndOf(ledger, j) = "empty" /\ msg = EmptyMsg(ledger, j)
    BY <1>3
  <2>2. j # i
    BY <2>1
  <2> QED BY <1>1, <1>2, <2>1, <2>2
<1>5. ASSUME NEW j \in (i + 1)..Latest(ledger)
      PROVE  /\ Heard(ledger, j, mail, known)
             /\ EndOf(ledger, j) \in {"block", "empty"} =>
                  \A k \in (i + 1)..(j - 1) : EndOf(ledger, k) = "block"
  <2>1. j \in i..Latest(ledger) /\ \A k \in (i + 1)..(j - 1) : k \in i..(j - 1)
    BY <1>1
  <2>2. Heard(ledger, j, mail, known)
    BY <1>3, <2>1
  <2>3. EndOf(ledger, j) \in {"block", "empty"} => \A k \in i..(j - 1) : EndOf(ledger, k) = "block"
    BY <1>3, <2>1
  <2> QED BY <2>1, <2>2, <2>3
<1> QED BY <1>4, <1>5 DEF Pending

\* The next slot of a node whose slot ended without a block: nothing has been said
\* in that one, since its witness waits until all have left this one.
LEMMA PendingAfterSkip ==
  ASSUME NEW ledger, LedgerOK(ledger), NEW n, NEW i \in 0..(Latest(ledger) - 1),
         NEW mail, NEW known, NEW checks, NEW waits,
         FromLedger(ledger, mail, known),
         Pending(ledger, n, i, mail, known, checks, waits),
         EndOf(ledger, i) # "block"
  PROVE  Pending(ledger, n, i + 1, mail \ {EmptyMsg(ledger, i)}, known, {}, FALSE)
<1> DEFINE mail2 == mail \ {EmptyMsg(ledger, i)}
<1>1. /\ Latest(ledger) \in Nat /\ i \in Nat /\ i \in 0..Latest(ledger)
      /\ \A j \in (i + 1)..Latest(ledger) : j \in i..Latest(ledger) /\ j # i /\ i \in i..(j - 1)
      /\ \A j \in i..Latest(ledger) : j = i \/ j >= i + 1
  BY DEF LedgerOK
<1>2. \A j : BlockMsg(ledger, j).slot = j /\ EmptyMsg(ledger, j).slot = j
  BY MessageOfSlot
<1>3. ASSUME NEW msg \in mail2 PROVE msg.slot >= i + 1
  <2>1. PICK j \in i..Latest(ledger) :
          \/ EndOf(ledger, j) = "block" /\ msg = BlockMsg(ledger, j)
          \/ EndOf(ledger, j) = "empty" /\ msg = EmptyMsg(ledger, j)
    BY <1>1, PendingFacts
  <2>2. j # i
    BY <2>1
  <2> QED BY <1>1, <1>2, <2>1, <2>2
<1>4. \A j \in (i + 1)..Latest(ledger) : EndOf(ledger, j) \notin {"block", "empty"}
  BY <1>1, PendingFacts
<1>5. i + 1 \in (i + 1)..Latest(ledger)
  BY <1>1
<1> HIDE DEF mail2
<1> QED BY <1>3, <1>4, <1>5 DEF Pending, Heard, mail2

\* A block that reaches a node goes to its cache, and is checked if it is the one
\* of the running slot.
LEMMA PendingTake ==
  ASSUME NEW ledger, LedgerOK(ledger), NEW n, NEW i \in 0..Latest(ledger),
         NEW mail, NEW known, NEW checks, NEW waits,
         FromLedger(ledger, mail, known),
         Pending(ledger, n, i, mail, known, checks, waits),
         NEW j \in i..Latest(ledger), EndOf(ledger, j) = "block", BlockMsg(ledger, j) \in mail,
         NEW checks2,
         checks2 = checks \cup (IF j = i THEN {BlockOf(ledger, j)} ELSE {}),
         NEW waits2, waits2 <=> waits /\ ~(j = i /\ Owner(ledger, j) = n)
  PROVE  Pending(ledger, n, i, mail \ {BlockMsg(ledger, j)}, known \cup {BlockOf(ledger, j)},
                 checks2, waits2)
<1> DEFINE mail2 == mail \ {BlockMsg(ledger, j)}
           known2 == known \cup {BlockOf(ledger, j)}
<1>1. /\ Latest(ledger) \in Nat /\ i \in Nat /\ j \in Nat /\ j \in 0..Latest(ledger)
      /\ \A k \in i..Latest(ledger) : k \in 0..Latest(ledger) /\ (k # j => k < j \/ j < k)
  BY DEF LedgerOK
<1>2. /\ \A k : EmptyMsg(ledger, k) # BlockMsg(ledger, j)
      /\ \A k : k # j => BlockMsg(ledger, k) # BlockMsg(ledger, j)
  <2>1. /\ \A k : BlockMsg(ledger, k).slot = k
        /\ \A k : ~BlockMsg(ledger, k).empty /\ EmptyMsg(ledger, k).empty
    BY MessageOfSlot
  <2> QED BY <2>1
<1>3. /\ \A msg \in mail : msg.slot >= i
      /\ checks = IF EndOf(ledger, i) = "block" /\ BlockMsg(ledger, i) \notin mail
                  THEN {BlockOf(ledger, i)} ELSE {}
      /\ waits <=> /\ EndOf(ledger, i) = "block" /\ BlockMsg(ledger, i) \in mail
                   /\ Owner(ledger, i) = n
  BY DEF Pending
<1>4. ASSUME NEW k \in i..Latest(ledger) PROVE Heard(ledger, k, mail2, known2)
  <2>1. Heard(ledger, k, mail, known)
    BY PendingFacts
  <2>2. CASE k = j
    BY <2>2 DEF Heard
  <2>3. CASE k # j
    <3>1. EndOf(ledger, k) = "block" => BlockOf(ledger, k) # BlockOf(ledger, j)
      BY <1>1, <2>3, BlocksGrow
    <3>2. BlockMsg(ledger, k) \in mail2 <=> BlockMsg(ledger, k) \in mail
      BY <1>2, <2>3
    <3>3. EmptyMsg(ledger, k) \in mail2 <=> EmptyMsg(ledger, k) \in mail
      BY <1>2
    <3>4. EndOf(ledger, k) = "block" => (BlockOf(ledger, k) \in known2 <=> BlockOf(ledger, k) \in known)
      BY <3>1
    <3> HIDE DEF mail2, known2
    <3> QED BY <2>1, <3>2, <3>3, <3>4 DEF Heard
  <2> QED BY <2>2, <2>3
<1>5. /\ checks2 = IF EndOf(ledger, i) = "block" /\ BlockMsg(ledger, i) \notin mail2
                   THEN {BlockOf(ledger, i)} ELSE {}
      /\ waits2 <=> /\ EndOf(ledger, i) = "block" /\ BlockMsg(ledger, i) \in mail2
                    /\ Owner(ledger, i) = n
  <2>1. CASE j = i
    BY <1>3, <2>1
  <2>2. CASE j # i
    <3>1. BlockMsg(ledger, i) \in mail2 <=> BlockMsg(ledger, i) \in mail
      BY <1>2, <2>2
    <3>2. checks2 = checks /\ (waits2 <=> waits)
      BY <2>2
    <3> HIDE DEF mail2
    <3> QED BY <1>3, <3>1, <3>2
  <2> QED BY <2>1, <2>2
<1>6. \A k \in i..Latest(ledger) : EndOf(ledger, k) \in {"block", "empty"} =>
        \A l \in i..(k - 1) : EndOf(ledger, l) = "block"
  BY PendingFacts
<1> QED BY <1>3, <1>4, <1>5, <1>6 DEF Pending

\* Of the blocks that reach a node, only that of its own slot follows its head.
LEMMA OnlyOwnSlotFollows ==
  ASSUME NEW ledger, LedgerOK(ledger), NEW n, NEW i \in 0..Latest(ledger),
         NEW mail, NEW known, NEW checks, NEW waits,
         FromLedger(ledger, mail, known),
         Pending(ledger, n, i, mail, known, checks, waits),
         NEW j \in i..Latest(ledger), EndOf(ledger, j) = "block"
  PROVE  (Parent(BlockOf(ledger, j)) = HeadAt(ledger, i)
            /\ Signer(BlockOf(ledger, j)) = Owner(ledger, i)) <=> j = i
<1>1. Latest(ledger) \in Nat /\ i \in Nat /\ j \in 0..Latest(ledger)
  BY DEF LedgerOK
<1>2. /\ Parent(BlockOf(ledger, j)) = HeadAt(ledger, j)
      /\ Signer(BlockOf(ledger, j)) = Owner(ledger, j)
  BY <1>1, SlotTypes
<1>3. CASE j # i
  <2>1. i < j /\ i \in i..(j - 1)
    BY <1>1, <1>3
  <2>2. EndOf(ledger, i) = "block"
    BY <2>1, PendingFacts
  <2>3. HeadAt(ledger, i) # HeadAt(ledger, j)
    BY <1>1, <2>1, <2>2, BlocksGrow
  <2> QED BY <1>2, <1>3, <2>3
<1> QED BY <1>2, <1>3

\* A message that is not an EMPTY_SLOT is the block of a slot that is to come.
LEMMA BlockIsOfSlot ==
  ASSUME NEW ledger, LedgerOK(ledger), NEW n, NEW i \in 0..Latest(ledger),
         NEW mail, NEW known, NEW checks, NEW waits,
         FromLedger(ledger, mail, known),
         Pending(ledger, n, i, mail, known, checks, waits),
         NEW msg \in mail, ~msg.empty
  PROVE  \E j \in i..Latest(ledger) : EndOf(ledger, j) = "block" /\ msg = BlockMsg(ledger, j)
<1>1. PICK j \in i..Latest(ledger) :
        \/ EndOf(ledger, j) = "block" /\ msg = BlockMsg(ledger, j)
        \/ EndOf(ledger, j) = "empty" /\ msg = EmptyMsg(ledger, j)
  BY PendingFacts
<1>2. \A k : EmptyMsg(ledger, k).empty
  BY MessageOfSlot
<1> QED BY <1>1, <1>2

\* An EMPTY_SLOT message that no block is to be handled before is of the running
\* slot.
LEMMA EmptyIsOfOwnSlot ==
  ASSUME NEW ledger, LedgerOK(ledger), NEW n, NEW i \in 0..Latest(ledger),
         NEW mail, NEW known, NEW checks, NEW waits,
         FromLedger(ledger, mail, known),
         Pending(ledger, n, i, mail, known, checks, waits),
         checks = {}, NEW msg \in mail, msg.empty,
         \A m \in mail : m.slot < msg.slot => m.empty
  PROVE  EndOf(ledger, i) = "empty" /\ msg = EmptyMsg(ledger, i) /\ ~waits
<1>1. Latest(ledger) \in Nat /\ i \in Nat
  BY DEF LedgerOK
<1>2. /\ \A k : BlockMsg(ledger, k).slot = k /\ EmptyMsg(ledger, k).slot = k
      /\ \A k : ~BlockMsg(ledger, k).empty
  BY MessageOfSlot
<1>3. PICK j \in i..Latest(ledger) : EndOf(ledger, j) = "empty" /\ msg = EmptyMsg(ledger, j)
  <2>1. PICK j \in i..Latest(ledger) :
          \/ EndOf(ledger, j) = "block" /\ msg = BlockMsg(ledger, j)
          \/ EndOf(ledger, j) = "empty" /\ msg = EmptyMsg(ledger, j)
    BY PendingFacts
  <2> QED BY <1>2, <2>1
<1>4. j = i
  <2>1. SUFFICES ASSUME j # i PROVE FALSE
    OBVIOUS
  <2>2. i < j /\ i \in i..(j - 1)
    BY <1>1, <2>1
  <2>3. EndOf(ledger, i) = "block"
    BY <1>3, <2>2, PendingFacts
  <2>4. BlockMsg(ledger, i) \in mail
    BY <2>3 DEF Pending
  <2> QED BY <1>2, <1>3, <2>2, <2>4
<1>5. ~waits
  BY <1>3, <1>4 DEF Pending
<1> QED BY <1>3, <1>4, <1>5

\* After a commit the cache gives the block of the next slot, if the node has it,
\* and no other.
LEMMA CacheGivesNext ==
  ASSUME NEW ledger, LedgerOK(ledger), NEW n, NEW i \in 0..(Latest(ledger) - 1),
         NEW mail, NEW known, NEW checks, NEW waits,
         FromLedger(ledger, mail, known),
         Pending(ledger, n, i, mail, known, checks, waits),
         EndOf(ledger, i) = "block",
         NEW given, given = { c \in known : Len(c) = Len(HeadAt(ledger, i + 1)) + 1
                                            /\ Signer(c) = Owner(ledger, i + 1) }
  PROVE  given
           = IF EndOf(ledger, i + 1) = "block" /\ BlockMsg(ledger, i + 1) \notin mail
             THEN {BlockOf(ledger, i + 1)} ELSE {}
<1> DEFINE found == { c \in known : Len(c) = Len(HeadAt(ledger, i + 1)) + 1
                                    /\ Signer(c) = Owner(ledger, i + 1) }
           this == BlockOf(ledger, i + 1)
<1>1. /\ Latest(ledger) \in Nat /\ i \in Nat
      /\ i \in 0..Latest(ledger) /\ i + 1 \in 0..Latest(ledger) /\ i + 1 \in i..Latest(ledger)
  BY DEF LedgerOK
<1>2. /\ Len(HeadAt(ledger, i + 1)) \in Nat /\ Len(this) = Len(HeadAt(ledger, i + 1)) + 1
      /\ Signer(this) = Owner(ledger, i + 1)
  BY <1>1, SlotTypes
<1>3. ASSUME NEW c \in known, Len(c) = Len(HeadAt(ledger, i + 1)) + 1
      PROVE  EndOf(ledger, i + 1) = "block" /\ c = this
  <2>1. Len(Root) = 0
    BY EmptySeq DEF Root
  <2>2. PICK j \in 0..Latest(ledger) : EndOf(ledger, j) = "block" /\ c = BlockOf(ledger, j)
    BY <1>2, <1>3, <2>1 DEF FromLedger
  <2>3. /\ Len(HeadAt(ledger, j)) \in Nat
        /\ Len(HeadAt(ledger, j)) = Len(HeadAt(ledger, i + 1))
    BY <1>2, <1>3, <2>2, SlotTypes
  <2>4. ~(j < i + 1)
    BY <1>1, <2>2, <2>3, BlocksGrow
  <2>5. ~(i + 1 < j)
    <3>1. SUFFICES ASSUME i + 1 < j PROVE FALSE
      OBVIOUS
    <3>2. j \in i..Latest(ledger) /\ i + 1 \in i..(j - 1)
      BY <1>1, <2>2, <3>1
    <3>3. EndOf(ledger, i + 1) = "block"
      BY <1>1, <2>2, <3>2, PendingFacts
    <3> QED BY <1>1, <2>2, <2>3, <3>1, <3>3, BlocksGrow
  <2>6. j = i + 1
    BY <1>1, <2>2, <2>4, <2>5
  <2> QED BY <2>2, <2>6
<1>4. EndOf(ledger, i + 1) = "block" => (this \in known <=> BlockMsg(ledger, i + 1) \notin mail)
  BY <1>1 DEF Pending, Heard
<1> HIDE DEF this
<1> QED BY <1>2, <1>3, <1>4 DEF this

---------------------------------------------------------------------------
(* The nodes go through one ledger *)

\* Where a node stands.
LEMMA Stands ==
  ASSUME TypeOK, NEW ledger, Kept(ledger), NEW n \in Members
  PROVE  /\ epoch[n].idx \in 0..Latest(ledger)
         /\ epoch[n] = EpochAt(ledger, epoch[n].idx)
         /\ head[n] = HeadAt(ledger, epoch[n].idx)
         /\ Expected(n) = Owner(ledger, epoch[n].idx)
         /\ FromLedger(ledger, onTheWay[n], cache[n])
         /\ skipped[n] <=> (epoch[n].idx > 0 /\ EndOf(ledger, epoch[n].idx - 1) # "block")
<1>1. FollowsLedger(ledger, epoch[n], head[n], skipped[n])
  BY DEF Kept, AllFollow
<1> QED BY <1>1 DEF FollowsLedger, Kept, AllFromLedger, Expected, Owner

\* When the first node leaves the running slot, which is settled already, or whose
\* witness has stopped, the ledger can be made longer before.
LEMMA LedgerGoesOn ==
  ASSUME TypeOK, NEW ledger, Kept(ledger), NEW how \in {"block", "missed"},
         how = "block" <=> EndOf(ledger, Latest(ledger)) = "block",
         how = "missed" => Owner(ledger, Latest(ledger)) \in crashed,
         NEW next \in IncrementWitness(Left(EpochAt(ledger, Latest(ledger)), how),
                                      HeadAfter(ledger, Latest(ledger), how))
  PROVE  LET more == Longer(ledger, how, next) IN
         /\ Kept(more)
         /\ Latest(more) = Latest(ledger) + 1
         /\ EndOf(more, Latest(ledger)) = how
<1> DEFINE more == Longer(ledger, how, next)
           F == Latest(ledger)
<1>1. LedgerOK(ledger) /\ F \in Nat /\ F \in 0..F
  BY DEF Kept, LedgerOK
<1>2. /\ LedgerOK(more) /\ Grown(ledger, more)
      /\ Latest(more) = F + 1 /\ EndOf(more, F) = how /\ EndOf(more, F + 1) = "open"
      /\ \A i \in 0..(F - 1) : EndOf(more, i) = EndOf(ledger, i)
  BY <1>1, LongerLedger
<1> HIDE DEF more, F
<1>3. \A i \in 0..(F + 1) : i \in 0..(F - 1) \/ i = F \/ i = F + 1
  BY <1>1
<1>4. \A i \in 0..F : Owner(more, i) = Owner(ledger, i)
  BY <1>2, GrownSays DEF F
<1>5. \A i \in 0..(F - 1) : i \in 0..F
  BY <1>1
<1>6. Acted(more)
  <2>1. SUFFICES ASSUME NEW i \in 0..(F + 1)
                 PROVE  /\ EndOf(more, i) = "missed" => Owner(more, i) \in crashed
                        /\ EndOf(more, i) = "block" => epoch[Owner(more, i)].idx >= i
                        /\ EndOf(more, i) = "empty" => epoch[Owner(more, i)].idx > i
    BY <1>2 DEF Acted
  <2>2. CASE i = F + 1
    BY <1>2, <2>2
  <2>3. CASE i = F
    <3>1. /\ EndOf(ledger, F) = "block" => epoch[Owner(ledger, F)].idx >= F
          /\ Owner(more, F) = Owner(ledger, F)
      BY <1>1, <1>4 DEF Kept, Acted, F
    <3> QED BY <1>2, <2>3, <3>1 DEF F
  <2>4. CASE i \in 0..(F - 1)
    BY <1>2, <1>4, <1>5, <2>4 DEF Kept, Acted, F
  <2> QED BY <1>3, <2>2, <2>3, <2>4
<1>7. AllFollow(more) /\ AllFromLedger(more)
  BY <1>1, <1>2, GrownKeeps DEF Kept, AllFollow, AllFromLedger
<1>8. AllPending(more)
  <2>1. \A j \in 0..Latest(more) : EndOf(more, j) \in {"block", "empty"} =>
          j \in 0..F /\ EndOf(ledger, j) = EndOf(more, j)
    BY <1>2, <1>3, <1>5, <1>1 DEF F
  <2>2. SUFFICES ASSUME NEW n \in Running
                 PROVE  Pending(more, n, epoch[n].idx, onTheWay[n], cache[n],
                                checking[n], waitingForOwn[n])
    BY DEF AllPending
  <2>3. epoch[n].idx \in 0..F
    BY Stands DEF Running, F
  <2>4. Pending(ledger, n, epoch[n].idx, onTheWay[n], cache[n], checking[n], waitingForOwn[n])
    BY DEF Kept, AllPending
  <2> QED BY <1>1, <1>2, <2>1, <2>3, <2>4, PendingGrown DEF F
<1> QED BY <1>2, <1>6, <1>7, <1>8 DEF Kept, more, F

\* The ledger says what the schedule of a node is in the next slot.
LEMMA NextOfLedger ==
  ASSUME HashIsNumber, NEW ledger, LedgerOK(ledger), NEW i \in 0..(Latest(ledger) - 1),
         NEW next \in IncrementWitness(Left(EpochAt(ledger, i), EndOf(ledger, i)),
                                      HeadAfter(ledger, i, EndOf(ledger, i)))
  PROVE  /\ next = EpochAt(ledger, i + 1)
         /\ next.idx = i + 1
         /\ HeadAt(ledger, i + 1) = HeadAfter(ledger, i, EndOf(ledger, i))
         /\ EndOf(ledger, i) # "open"
<1>1. Leads(ledger, i)
  BY DEF LedgerOK
<1>2. /\ EpochAt(ledger, i + 1) \in IncrementWitness(Left(EpochAt(ledger, i), EndOf(ledger, i)),
                                                   HeadAfter(ledger, i, EndOf(ledger, i)))
      /\ HeadAt(ledger, i + 1) = HeadAfter(ledger, i, EndOf(ledger, i))
      /\ EndOf(ledger, i) # "open"
  BY <1>1 DEF Leads
<1>3. i \in 0..Latest(ledger) /\ i + 1 \in 0..Latest(ledger)
  BY DEF LedgerOK
<1>4. /\ Left(EpochAt(ledger, i), EndOf(ledger, i)) \in EpochState
      /\ Placed(Left(EpochAt(ledger, i), EndOf(ledger, i)))
  BY <1>3, SlotTypes, LeftPlaced
<1>5. HeadAfter(ledger, i, EndOf(ledger, i)) \in Seq(Members)
  BY <1>3, SlotTypes DEF HeadAfter
<1>6. next = EpochAt(ledger, i + 1)
  BY <1>2, <1>4, <1>5, IncrementOnce
<1> QED BY <1>2, <1>3, <1>6, SlotTypes

\* What has been done stays done.
LEMMA ActedKeeps ==
  ASSUME NEW ledger, LedgerOK(ledger), Acted(ledger),
         crashed \subseteq crashed',
         \A m \in Members : /\ epoch[m].idx \in Int /\ epoch[m].idx' \in Int
                            /\ epoch[m].idx' >= epoch[m].idx
  PROVE  Acted(ledger)'
<1>1. \A i \in 0..Latest(ledger) : Owner(ledger, i) \in Members /\ i \in Nat
  BY SlotTypes
<1> QED BY <1>1 DEF Acted

\* A node goes to the next slot of the ledger.
LEMMA MovesInLedger ==
  ASSUME TypeOK, NEW ledger, Kept(ledger), NEW n \in Members, NEW i,
         i = epoch[n].idx, i < Latest(ledger),
         NEW next, next = EpochAt(ledger, i + 1), next.idx = i + 1,
         epoch' = [epoch EXCEPT ![n] = next],
         head' = [head EXCEPT ![n] = HeadAt(ledger, i + 1)],
         NEW noBlock \in BOOLEAN, noBlock <=> EndOf(ledger, i) # "block",
         skipped' = [skipped EXCEPT ![n] = noBlock],
         crashed' = crashed
  PROVE  /\ AllFollow(ledger)' /\ Acted(ledger)'
         /\ epoch' \in [Members -> EpochState] /\ head' \in [Members -> Seq(Members)]
         /\ skipped' \in [Members -> BOOLEAN]
<1>1. /\ LedgerOK(ledger) /\ Latest(ledger) \in Nat
      /\ \A m \in Members : epoch[m].idx \in 0..Latest(ledger)
  BY Stands DEF Kept, LedgerOK
<1>2. i \in Nat /\ i + 1 \in 0..Latest(ledger) /\ i + 1 > 0 /\ (i + 1) - 1 = i
  BY <1>1
<1>3. next \in EpochState /\ HeadAt(ledger, i + 1) \in Seq(Members)
  BY <1>1, <1>2, SlotTypes
<1>4. /\ epoch' \in [Members -> EpochState] /\ head' \in [Members -> Seq(Members)]
      /\ skipped' \in [Members -> BOOLEAN]
      /\ epoch'[n] = next /\ head'[n] = HeadAt(ledger, i + 1) /\ skipped'[n] = noBlock
      /\ \A m \in Members \ {n} : epoch'[m] = epoch[m] /\ head'[m] = head[m] /\ skipped'[m] = skipped[m]
  BY <1>3 DEF TypeOK
<1>5. AllFollow(ledger)'
  <2>1. FollowsLedger(ledger, epoch'[n], head'[n], skipped'[n])
    BY <1>2, <1>4 DEF FollowsLedger
  <2>2. \A m \in Members \ {n} : FollowsLedger(ledger, epoch'[m], head'[m], skipped'[m])
    BY <1>4 DEF Kept, AllFollow
  <2> QED BY <2>1, <2>2 DEF AllFollow
<1>6. Acted(ledger)'
  <2>1. \A m \in Members : /\ epoch[m].idx \in Int /\ epoch'[m].idx \in Int
                           /\ epoch'[m].idx >= epoch[m].idx
    BY <1>1, <1>2, <1>4
  <2> QED BY <1>1, <2>1, ActedKeeps DEF Kept
<1> QED BY <1>4, <1>5, <1>6

\* What is pending for the nodes that a step does not touch stays pending.
LEMMA OthersPending ==
  ASSUME TypeOK, NEW ledger, Kept(ledger), NEW n \in Members, crashed' = crashed,
         \A m \in Members \ {n} :
           /\ epoch'[m] = epoch[m] /\ onTheWay'[m] = onTheWay[m] /\ cache'[m] = cache[m]
           /\ checking'[m] = checking[m] /\ waitingForOwn'[m] = waitingForOwn[m],
         Pending(ledger, n, epoch'[n].idx, onTheWay'[n], cache'[n], checking'[n],
                 waitingForOwn'[n])
  PROVE  AllPending(ledger)'
<1>1. \A m \in Running \ {n} :
        Pending(ledger, m, epoch'[m].idx, onTheWay'[m], cache'[m], checking'[m], waitingForOwn'[m])
  BY DEF Kept, AllPending, Running
<1> QED BY <1>1 DEF AllPending, Running

\* A node leaves a slot that ended without a block.
LEMMA SkipKeeps ==
  ASSUME HashIsNumber, TypeOK, NEW ledger, Kept(ledger), NEW n \in Running,
         NEW i, i = epoch[n].idx, i < Latest(ledger),
         EndOf(ledger, i) \in {"empty", "missed"},
         checking[n] = {}, ~waitingForOwn[n],
         NEW next \in IncrementWitness(Left(epoch[n], EndOf(ledger, i)), head[n]),
         epoch' = [epoch EXCEPT ![n] = next],
         skipped' = [skipped EXCEPT ![n] = TRUE],
         onTheWay' = [onTheWay EXCEPT ![n] = @ \ {EmptyMsg(ledger, i)}],
         UNCHANGED <<head, cache, checking, waitingForOwn, crashed>>
  PROVE  OneLedger'
<1>1. /\ n \in Members /\ LedgerOK(ledger) /\ Latest(ledger) \in Nat
      /\ i \in 0..Latest(ledger) /\ i \in 0..(Latest(ledger) - 1)
      /\ epoch[n] = EpochAt(ledger, i) /\ head[n] = HeadAt(ledger, i)
      /\ FromLedger(ledger, onTheWay[n], cache[n])
      /\ Pending(ledger, n, i, onTheWay[n], cache[n], checking[n], waitingForOwn[n])
  <2>1. n \in Members /\ LedgerOK(ledger) /\ Latest(ledger) \in Nat
    BY DEF Running, Kept, LedgerOK
  <2>2. /\ i \in 0..Latest(ledger)
        /\ epoch[n] = EpochAt(ledger, i) /\ head[n] = HeadAt(ledger, i)
        /\ FromLedger(ledger, onTheWay[n], cache[n])
    BY <2>1, Stands
  <2>3. i \in 0..(Latest(ledger) - 1)
    BY <2>1, <2>2
  <2> QED BY <2>1, <2>2, <2>3 DEF Kept, AllPending
<1>2. /\ next = EpochAt(ledger, i + 1) /\ next.idx = i + 1
      /\ head[n] = HeadAt(ledger, i + 1)
  <2>1. HeadAfter(ledger, i, EndOf(ledger, i)) = head[n]
    BY <1>1 DEF HeadAfter
  <2> QED BY <1>1, <2>1, NextOfLedger
<1>3. head' = [head EXCEPT ![n] = HeadAt(ledger, i + 1)]
  BY <1>1, <1>2 DEF TypeOK
<1>4. /\ AllFollow(ledger)' /\ Acted(ledger)'
      /\ epoch' \in [Members -> EpochState] /\ head' \in [Members -> Seq(Members)]
      /\ skipped' \in [Members -> BOOLEAN]
  BY <1>1, <1>2, <1>3, MovesInLedger
<1>5. /\ onTheWay' \in [Members -> SUBSET Message]
      /\ onTheWay'[n] = onTheWay[n] \ {EmptyMsg(ledger, i)}
      /\ \A m \in Members \ {n} : onTheWay'[m] = onTheWay[m]
      /\ \A m \in Members : onTheWay'[m] \subseteq onTheWay[m]
  BY <1>1 DEF TypeOK
<1>6. TypeOK'
  BY <1>4, <1>5 DEF TypeOK
<1>7. AllFromLedger(ledger)'
  BY <1>5 DEF Kept, AllFromLedger, FromLedger
<1>8. AllPending(ledger)'
  <2>1. /\ epoch'[n] = next
        /\ \A m \in Members \ {n} : epoch'[m] = epoch[m]
    BY <1>1 DEF TypeOK
  <2>2. Pending(ledger, n, i + 1, onTheWay'[n], cache[n], {}, FALSE)
    BY <1>1, <1>5, PendingAfterSkip
  <2>3. Pending(ledger, n, epoch'[n].idx, onTheWay'[n], cache'[n], checking'[n], waitingForOwn'[n])
    BY <1>2, <2>1, <2>2 DEF Pending
  <2> QED BY <1>1, <1>5, <2>1, <2>3, OthersPending
<1> QED BY <1>1, <1>4, <1>6, <1>7, <1>8 DEF OneLedger, Kept

\* A slot is missed only if its witness has stopped: of a witness that goes on the
\* node has something yet to see.
LEMMA MissedHaveStopped ==
  ASSUME KeepsUp, TypeOK, NEW ledger, Kept(ledger), NEW n \in Members, TimeOut(n)
  PROVE  /\ EndOf(ledger, epoch[n].idx) \in {"open", "missed"}
         /\ Expected(n) \in crashed
<1> DEFINE i == epoch[n].idx
           F == Latest(ledger)
<1>1. n \in Running /\ MustTimeOut(n)
  BY DEF TimeOut, KeepsUp
<1>2. /\ LedgerOK(ledger) /\ F \in Nat /\ i \in 0..F /\ Expected(n) = Owner(ledger, i)
  BY Stands DEF Kept, LedgerOK
<1>3. onTheWay[n] = {} /\ checking[n] = {} /\ ~waitingForOwn[n]
  BY <1>1 DEF MustTimeOut, Idle
<1>4. EndOf(ledger, i) \in {"open", "missed"}
  <2>1. Pending(ledger, n, i, {}, cache[n], {}, waitingForOwn[n])
    BY <1>1, <1>3 DEF Kept, AllPending
  <2>2. Heard(ledger, i, {}, cache[n])
    BY <1>2, <2>1 DEF Pending
  <2>3. EndOf(ledger, i) # "empty"
    BY <2>2 DEF Heard
  <2>4. EndOf(ledger, i) # "block"
    BY <2>1 DEF Pending
  <2> QED BY <1>2, <2>3, <2>4, SlotTypes DEF Ends
<1>5. CASE EndOf(ledger, i) = "missed"
  BY <1>2, <1>4, <1>5 DEF Kept, Acted
<1>6. CASE EndOf(ledger, i) = "open"
  <2>1. i = F
    <3>1. i \in 0..(F - 1) => EndOf(ledger, i) # "open"
      BY <1>2 DEF LedgerOK, Leads
    <3> QED BY <1>2, <1>6, <3>1
  <2>2. Owner(ledger, F) \in Members
    BY <1>2, <2>1, SlotTypes
  <2>3. epoch[Owner(ledger, F)].idx \in 0..F
    BY <2>2, Stands
  <2>4. ~ (epoch[Owner(ledger, F)].idx > F)
    BY <1>2, <2>3
  <2>5. Owner(ledger, F) \in crashed \/ epoch[Owner(ledger, F)].idx > F
    BY <1>1, <1>2, <2>1 DEF MustTimeOut
  <2> QED BY <1>2, <1>4, <2>1, <2>4, <2>5
<1>7. EndOf(ledger, i) = "open" \/ EndOf(ledger, i) = "missed"
  BY <1>4
<1> QED BY <1>5, <1>6, <1>7

\* handle_missed_slot: the node leaves its slot as the ledger says.
LEMMA TimeOutKeeps ==
  ASSUME HashIsNumber, KeepsUp, TypeOK, NEW ledger, Kept(ledger), NEW n \in Members, TimeOut(n)
  PROVE  OneLedger'
<1> DEFINE i == epoch[n].idx
           F == Latest(ledger)
<1>1. /\ n \in Running /\ MustTimeOut(n)
      /\ UNCHANGED <<head, cache, checking, waitingForOwn, onTheWay, crashed>>
      /\ skipped' = [skipped EXCEPT ![n] = TRUE]
  BY DEF TimeOut, KeepsUp, NextSlot, blocks
<1>2. /\ LedgerOK(ledger) /\ F \in Nat /\ i \in 0..F
      /\ epoch[n] = EpochAt(ledger, i) /\ head[n] = HeadAt(ledger, i)
      /\ Expected(n) = Owner(ledger, i) /\ Expected(n) = CurrentWitness(epoch[n])
  BY Stands DEF Kept, LedgerOK, Expected
<1>3. PICK next \in IncrementWitness(Left(epoch[n], "missed"), head[n]) :
        epoch' = [epoch EXCEPT ![n] = next]
  BY <1>2 DEF TimeOut, NextSlot, MissedSlot, Left
<1>4. onTheWay[n] = {} /\ checking[n] = {} /\ ~waitingForOwn[n]
  BY <1>1 DEF MustTimeOut, Idle
<1>5. EndOf(ledger, i) \in {"open", "missed"} /\ Expected(n) \in crashed
  BY MissedHaveStopped
<1>6. PICK more : /\ Kept(more) /\ i < Latest(more) /\ EndOf(more, i) = "missed"
  <2>1. CASE i < F
    <3>1. EndOf(ledger, i) # "open"
      BY <1>2, <2>1 DEF LedgerOK, Leads
    <3> QED BY <1>5, <2>1, <3>1
  <2>2. CASE i = F
    <3>1. EndOf(ledger, F) = "open"
      BY <1>2, <1>5, <2>2 DEF LedgerOK
    <3>4. Owner(ledger, F) \in crashed
      BY <1>2, <1>5, <2>2
    <3>5. next \in IncrementWitness(Left(EpochAt(ledger, F), "missed"), HeadAfter(ledger, F, "missed"))
      BY <1>2, <1>3, <2>2 DEF HeadAfter
    <3> DEFINE more == Longer(ledger, "missed", next)
    <3>6. Kept(more) /\ Latest(more) = F + 1 /\ EndOf(more, F) = "missed"
      BY <3>1, <3>4, <3>5, LedgerGoesOn
    <3> HIDE DEF more
    <3>7. F < F + 1
      BY <1>2
    <3> QED BY <2>2, <3>6, <3>7
  <2> QED BY <1>2, <2>1, <2>2
<1>7. onTheWay' = [onTheWay EXCEPT ![n] = @ \ {EmptyMsg(more, i)}]
  BY <1>1, <1>4 DEF TypeOK
<1>8. EndOf(more, i) \in {"empty", "missed"}
  BY <1>6
<1>9. next \in IncrementWitness(Left(epoch[n], EndOf(more, i)), head[n])
  BY <1>3, <1>6
<1> HIDE DEF i
<1> QED BY <1>1, <1>3, <1>4, <1>6, <1>7, <1>8, <1>9, SkipKeeps DEF i

\* _handle_peer_msgs: an EMPTY_SLOT takes a node out of the slot it is of, or none.
LEMMA HandleEmptySlotKeeps ==
  ASSUME HashIsNumber, KeepsUp, TypeOK, NEW ledger, Kept(ledger), NEW n \in Running,
         NEW msg \in onTheWay[n], HandleEmptySlot(n, msg)
  PROVE  OneLedger'
<1> DEFINE i == epoch[n].idx
<1>1. /\ n \in Members /\ LedgerOK(ledger) /\ Latest(ledger) \in Nat /\ i \in 0..Latest(ledger)
      /\ epoch[n] = EpochAt(ledger, i) /\ head[n] = HeadAt(ledger, i)
      /\ Expected(n) = Owner(ledger, i)
      /\ FromLedger(ledger, onTheWay[n], cache[n])
      /\ Pending(ledger, n, i, onTheWay[n], cache[n], checking[n], waitingForOwn[n])
  BY Stands DEF Kept, LedgerOK, AllPending, Running
<1>2. /\ msg.empty /\ checking[n] = {}
      /\ \A m \in onTheWay[n] : m.slot < msg.slot => m.empty
      /\ onTheWay' = [onTheWay EXCEPT ![n] = @ \ {msg}]
      /\ UNCHANGED <<head, cache, checking, waitingForOwn, crashed>>
  BY DEF HandleEmptySlot, KeepsUp, Earlier, Take, blocks
<1> HIDE DEF i
<1>3. EndOf(ledger, i) = "empty" /\ msg = EmptyMsg(ledger, i) /\ ~waitingForOwn[n]
  BY <1>1, <1>2, EmptyIsOfOwnSlot
<1>4. i < Latest(ledger)
  BY <1>1, <1>3 DEF LedgerOK
<1>5. msg.from = Expected(n)
  BY <1>1, <1>3, MessageOfSlot
<1>6. /\ \E next \in IncrementWitness(epoch[n], head[n]) : epoch' = [epoch EXCEPT ![n] = next]
      /\ skipped' = [skipped EXCEPT ![n] = TRUE]
  BY <1>5 DEF HandleEmptySlot, NextSlot
<1>7. PICK next \in IncrementWitness(epoch[n], head[n]) : epoch' = [epoch EXCEPT ![n] = next]
  BY <1>6
<1>8. next \in IncrementWitness(Left(epoch[n], EndOf(ledger, i)), head[n])
  BY <1>3, <1>7 DEF Left
<1>9. EndOf(ledger, i) \in {"empty", "missed"} /\ i = epoch[n].idx
  BY <1>3 DEF i
<1> QED BY <1>2, <1>3, <1>4, <1>6, <1>7, <1>8, <1>9, SkipKeeps

\* A set that has one block if any.
LEMMA AtMostOne ==
  ASSUME NEW S, NEW b, S = {} \/ S = {b}
  PROVE  Cardinality(S) <= 1
<1>1. CASE S = {}
  <2>1. Cardinality(S) = 0
    BY <1>1, FS_EmptySet
  <2> QED BY <2>1
<1>2. CASE S = {b}
  <2>1. Cardinality(S) = 1
    BY <1>2, FS_Singleton
  <2> QED BY <2>1
<1> QED BY <1>1, <1>2

\* _handle_new_block: what is checked is the block that the ledger has for the slot.
LEMMA HandleNewBlockKeeps ==
  ASSUME TypeOK, NEW ledger, Kept(ledger), NEW n \in Running,
         NEW msg \in onTheWay[n], HandleNewBlock(n, msg)
  PROVE  OneLedger'
<1> DEFINE i == epoch[n].idx
<1>1. /\ n \in Members /\ LedgerOK(ledger) /\ Latest(ledger) \in Nat /\ i \in 0..Latest(ledger)
      /\ head[n] = HeadAt(ledger, i)
      /\ Expected(n) = Owner(ledger, i)
      /\ FromLedger(ledger, onTheWay[n], cache[n])
      /\ Pending(ledger, n, i, onTheWay[n], cache[n], checking[n], waitingForOwn[n])
  BY Stands DEF Kept, LedgerOK, AllPending, Running
<1> HIDE DEF i
<1>2. PICK j \in i..Latest(ledger) : EndOf(ledger, j) = "block" /\ msg = BlockMsg(ledger, j)
  <2>1. ~msg.empty
    BY DEF HandleNewBlock
  <2> QED BY <1>1, <2>1, BlockIsOfSlot
<1> DEFINE b == BlockOf(ledger, j)
<1>3. /\ msg.block = b /\ j \in 0..Latest(ledger) /\ b \in Seq(Members)
      /\ Signer(b) = Owner(ledger, j)
  <2>1. j \in 0..Latest(ledger)
    BY <1>1, <1>2
  <2> QED BY <1>1, <1>2, <2>1, MessageOfSlot, SlotTypes
<1> HIDE DEF b
<1>4. Follows(n, b) <=> j = i
  BY <1>1, <1>2, OnlyOwnSlotFollows DEF Follows, b
<1>5. /\ onTheWay' = [onTheWay EXCEPT ![n] = @ \ {msg}]
      /\ cache' = [cache EXCEPT ![n] = @ \cup {b}]
      /\ checking' = [checking EXCEPT ![n] = @ \cup { c \in {b} : Follows(n, c) }]
      /\ waitingForOwn' = [waitingForOwn EXCEPT ![n] = OwnBlockPending(n, b)]
      /\ UNCHANGED <<epoch, head, crashed, skipped>>
  BY <1>3 DEF HandleNewBlock, Take
<1>6. /\ onTheWay'[n] = onTheWay[n] \ {msg} /\ cache'[n] = cache[n] \cup {b}
      /\ checking'[n] = checking[n] \cup (IF j = i THEN {b} ELSE {})
      /\ waitingForOwn'[n] <=> waitingForOwn[n] /\ ~(j = i /\ Owner(ledger, j) = n)
      /\ \A m \in Members \ {n} :
           /\ onTheWay'[m] = onTheWay[m] /\ cache'[m] = cache[m]
           /\ checking'[m] = checking[m] /\ waitingForOwn'[m] = waitingForOwn[m]
  <2>1. { c \in {b} : Follows(n, c) } = IF j = i THEN {b} ELSE {}
    BY <1>4
  <2>2. OwnBlockPending(n, b) <=> waitingForOwn[n] /\ ~(j = i /\ Owner(ledger, j) = n)
    BY <1>3, <1>4 DEF OwnBlockPending
  <2> QED BY <1>1, <1>5, <2>1, <2>2 DEF TypeOK
<1>7. Pending(ledger, n, i, onTheWay'[n], cache'[n], checking'[n], waitingForOwn'[n])
  BY <1>1, <1>2, <1>6, PendingTake DEF b
<1>8. TypeOK'
  <2>1. /\ onTheWay' \in [Members -> SUBSET Message]
        /\ cache' \in [Members -> SUBSET Seq(Members)]
    BY <1>1, <1>3, <1>5 DEF TypeOK
  <2>2. checking' \in [Members -> SUBSET Seq(Members)]
    BY <1>1, <1>3, <1>5 DEF TypeOK
  <2>3. waitingForOwn' \in [Members -> BOOLEAN]
    <3>1. OwnBlockPending(n, b) \in BOOLEAN
      BY DEF OwnBlockPending
    <3> QED BY <1>1, <1>5, <3>1 DEF TypeOK
  <2>4. checking'[n] \subseteq cache'[n]
    BY <1>1, <1>6 DEF TypeOK
  <2>5. Cardinality(checking'[n]) <= 1
    <3>1. checking'[n] = {} \/ checking'[n] = {BlockOf(ledger, i)}
      BY <1>7 DEF Pending
    <3> QED BY <3>1, AtMostOne
  <2>6. \A m \in Members : checking'[m] \subseteq cache'[m] /\ Cardinality(checking'[m]) <= 1
    BY <1>6, <2>4, <2>5 DEF TypeOK
  <2> QED BY <1>5, <2>1, <2>2, <2>3, <2>6 DEF TypeOK
<1>9. AllFromLedger(ledger)'
  <2>1. FromLedger(ledger, onTheWay'[n], cache'[n])
    BY <1>1, <1>2, <1>3, <1>6 DEF FromLedger, b
  <2> QED BY <1>6, <2>1 DEF Kept, AllFromLedger
<1>10. AllPending(ledger)'
  BY <1>1, <1>5, <1>6, <1>7, OthersPending DEF i
<1>11. Acted(ledger)' /\ AllFollow(ledger)'
  BY <1>5 DEF Kept, Acted, AllFollow
<1> QED BY <1>1, <1>8, <1>9, <1>10, <1>11 DEF OneLedger, Kept

\* _handle_committed_block: the commit is of the block of the ledger, and what it takes
\* out of the cache is too.
LEMMA BlockCheckedKeeps ==
  ASSUME HashIsNumber, TypeOK, NEW ledger, Kept(ledger), NEW n \in Members, BlockChecked(n)
  PROVE  OneLedger'
<1> DEFINE i == epoch[n].idx
           F == Latest(ledger)
<1>1. /\ n \in Running /\ LedgerOK(ledger) /\ F \in Nat /\ i \in 0..F
      /\ epoch[n] = EpochAt(ledger, i) /\ head[n] = HeadAt(ledger, i)
      /\ Expected(n) = Owner(ledger, i)
      /\ FromLedger(ledger, onTheWay[n], cache[n])
      /\ Pending(ledger, n, i, onTheWay[n], cache[n], checking[n], waitingForOwn[n])
  BY Stands DEF Kept, LedgerOK, AllPending, BlockChecked
<1>2. PICK b \in checking[n] :
        IF Follows(n, b)
        THEN /\ head' = [head EXCEPT ![n] = b]
             /\ NextSlot(n, epoch[n], b, FALSE)
             /\ \E next \in NextCached(n, b, CurrentWitness(epoch'[n])) :
                  checking' = [checking EXCEPT ![n] = (@ \ {b}) \cup next]
        ELSE /\ checking' = [checking EXCEPT ![n] = @ \ {b}]
             /\ UNCHANGED <<epoch, head, skipped>>
  BY DEF BlockChecked
<1>3. /\ EndOf(ledger, i) = "block" /\ BlockMsg(ledger, i) \notin onTheWay[n]
      /\ b = BlockOf(ledger, i) /\ checking[n] = {b}
  BY <1>1, <1>2 DEF Pending
<1>4. /\ Follows(n, b) /\ b \in Seq(Members) /\ b = HeadAfter(ledger, i, "block")
  BY <1>1, <1>3, SlotTypes DEF Follows, HeadAfter
<1>5. UNCHANGED <<cache, waitingForOwn, onTheWay, crashed>>
  BY DEF BlockChecked
<1>6. PICK next \in IncrementWitness(epoch[n], b) : epoch' = [epoch EXCEPT ![n] = next]
  BY <1>2, <1>4 DEF NextSlot
<1>7. PICK more : /\ Kept(more) /\ i < Latest(more) /\ EndOf(more, i) = "block"
                  /\ b = BlockOf(more, i)
  <2>1. CASE i < F
    BY <1>3, <2>1
  <2>2. CASE i = F
    <3> DEFINE more == Longer(ledger, "block", next)
    <3>1. next \in IncrementWitness(Left(EpochAt(ledger, F), "block"), HeadAfter(ledger, F, "block"))
      BY <1>1, <1>4, <1>6, <2>2 DEF Left
    <3>2. /\ Kept(more) /\ Latest(more) = F + 1 /\ EndOf(more, F) = "block"
          /\ Grown(ledger, more)
      BY <1>1, <1>3, <2>2, <3>1, LedgerGoesOn, LongerLedger
    <3> HIDE DEF more
    <3>3. F < F + 1
      BY <1>1
    <3>4. b = BlockOf(more, F)
      BY <1>1, <1>3, <2>2, <3>2, GrownSays
    <3> QED BY <2>2, <3>2, <3>3, <3>4
  <2> QED BY <1>1, <2>1, <2>2
<1>8. /\ n \in Members /\ LedgerOK(more) /\ Latest(more) \in Nat
      /\ i \in 0..(Latest(more) - 1) /\ i \in 0..Latest(more) /\ i + 1 \in 0..Latest(more)
      /\ epoch[n] = EpochAt(more, i) /\ head[n] = HeadAt(more, i)
      /\ FromLedger(more, onTheWay[n], cache[n])
      /\ Pending(more, n, i, onTheWay[n], cache[n], checking[n], waitingForOwn[n])
  <2>1. /\ LedgerOK(more) /\ Latest(more) \in Nat
        /\ Pending(more, n, i, onTheWay[n], cache[n], checking[n], waitingForOwn[n])
    BY <1>1, <1>7 DEF Kept, LedgerOK, AllPending
  <2>2. i \in 0..(Latest(more) - 1) /\ i + 1 \in 0..Latest(more)
    BY <1>1, <1>7, <2>1
  <2> QED BY <1>7, <2>1, <2>2, Stands
<1>9. /\ next = EpochAt(more, i + 1) /\ next.idx = i + 1 /\ b = HeadAt(more, i + 1)
  <2>1. HeadAfter(more, i, EndOf(more, i)) = b
    BY <1>7 DEF HeadAfter
  <2>2. next \in IncrementWitness(Left(EpochAt(more, i), EndOf(more, i)), b)
    BY <1>6, <1>7, <1>8 DEF Left
  <2> QED BY <1>8, <2>1, <2>2, NextOfLedger
<1>10. /\ head' = [head EXCEPT ![n] = HeadAt(more, i + 1)]
       /\ skipped' = [skipped EXCEPT ![n] = FALSE]
  BY <1>2, <1>4, <1>9 DEF NextSlot
<1>11. /\ AllFollow(more)' /\ Acted(more)'
       /\ epoch' \in [Members -> EpochState] /\ head' \in [Members -> Seq(Members)]
       /\ skipped' \in [Members -> BOOLEAN]
  BY <1>5, <1>6, <1>7, <1>8, <1>9, <1>10, MovesInLedger
<1>12. /\ epoch'[n] = next /\ \A m \in Members \ {n} : epoch'[m] = epoch[m]
  BY <1>6, <1>8 DEF TypeOK
<1> DEFINE found == IF EndOf(more, i + 1) = "block" /\ BlockMsg(more, i + 1) \notin onTheWay[n]
                    THEN {BlockOf(more, i + 1)} ELSE {}
<1>13. checking'[n] = found /\ checking' = [checking EXCEPT ![n] = found]
  <2>1. PICK given \in NextCached(n, b, CurrentWitness(epoch'[n])) :
          checking' = [checking EXCEPT ![n] = (@ \ {b}) \cup given]
    BY <1>2, <1>4
  <2>2. CurrentWitness(epoch'[n]) = Owner(more, i + 1)
    BY <1>9, <1>12 DEF Owner
  <2>3. { c \in cache[n] : Len(c) = Len(b) + 1 /\ Signer(c) = Owner(more, i + 1) } = found
    <3> DEFINE has == { c \in cache[n] : Len(c) = Len(HeadAt(more, i + 1)) + 1
                                         /\ Signer(c) = Owner(more, i + 1) }
    <3>1. has = { c \in cache[n] : Len(c) = Len(HeadAt(more, i + 1)) + 1
                                   /\ Signer(c) = Owner(more, i + 1) }
      OBVIOUS
    <3> HIDE DEF has
    <3>2. has = found
      BY <1>7, <1>8, <3>1, CacheGivesNext
    <3> HIDE DEF found
    <3> QED BY <1>9, <3>1, <3>2
  <2> HIDE DEF found
  <2>4. given \in IF found = {} THEN {{}} ELSE { {c} : c \in found }
    BY <2>1, <2>2, <2>3 DEF NextCached
  <2>5. given = found
    BY <2>4 DEF found
  <2>6. (checking[n] \ {b}) \cup given = found
    BY <1>3, <2>5
  <2> QED BY <1>8, <2>1, <2>6 DEF TypeOK
<1>14. Pending(more, n, i + 1, onTheWay[n], cache[n], found, FALSE)
  <2>1. EndOf(more, i + 1) = "block" => Owner(more, i + 1) # n
    <3>1. EndOf(more, i + 1) = "block" => epoch[Owner(more, i + 1)].idx >= i + 1
      BY <1>7, <1>8 DEF Kept, Acted
    <3>2. ~(epoch[n].idx >= i + 1)
      BY <1>1
    <3> QED BY <3>1, <3>2
  <2>2. BlockMsg(more, i) \notin onTheWay[n]
    <3>1. BlockMsg(more, i) \in onTheWay[n] => checking[n] = {}
      BY <1>8 DEF Pending
    <3> QED BY <1>2, <3>1
  <2> QED BY <1>7, <1>8, <2>1, <2>2, PendingAfterBlock
<1>15. found \subseteq cache[n]
  <2>1. i + 1 \in (i + 1)..Latest(more)
    BY <1>8
  <2>2. Heard(more, i + 1, onTheWay[n], cache[n])
    BY <1>14, <2>1 DEF Pending
  <2> QED BY <2>2 DEF Heard
<1>16. ~waitingForOwn[n]
  <2>1. waitingForOwn[n] => BlockMsg(more, i) \in onTheWay[n]
    BY <1>8 DEF Pending
  <2>2. BlockMsg(more, i) \in onTheWay[n] => checking[n] = {}
    BY <1>8 DEF Pending
  <2> QED BY <1>2, <2>1, <2>2
<1>17. TypeOK'
  <2>1. Cardinality(found) <= 1
    <3>1. found = {} \/ found = {BlockOf(more, i + 1)}
      OBVIOUS
    <3> HIDE DEF found
    <3> QED BY <3>1, AtMostOne
  <2> HIDE DEF found
  <2>2. checking' \in [Members -> SUBSET Seq(Members)]
    BY <1>8, <1>13, <1>15 DEF TypeOK
  <2>3. \A m \in Members : checking'[m] \subseteq cache[m] /\ Cardinality(checking'[m]) <= 1
    BY <1>8, <1>13, <1>15, <2>1 DEF TypeOK
  <2> QED BY <1>5, <1>11, <2>2, <2>3 DEF TypeOK
<1>18. AllFromLedger(more)'
  BY <1>5, <1>7 DEF Kept, AllFromLedger
<1>19. AllPending(more)'
  <2>1. Pending(more, n, epoch'[n].idx, onTheWay'[n], cache'[n], checking'[n], waitingForOwn'[n])
    BY <1>5, <1>9, <1>12, <1>13, <1>14, <1>16 DEF Pending
  <2>2. \A m \in Members \ {n} : checking'[m] = checking[m]
    BY <1>13 DEF TypeOK
  <2> QED BY <1>5, <1>7, <1>8, <1>12, <2>1, <2>2, OthersPending
<1> QED BY <1>8, <1>11, <1>17, <1>18, <1>19 DEF OneLedger, Kept

\* A witness that acts stands in the running slot, in which nothing is settled,
\* and every node that runs has only blocks between its slot and this one.
LEMMA ActsInRunningSlot ==
  ASSUME KeepsUp, TypeOK, NEW ledger, Kept(ledger), NEW n \in Members, MayAct(n)
  PROVE  /\ n \in Running /\ checking[n] = {} /\ ~waitingForOwn[n]
         /\ epoch[n].idx = Latest(ledger)
         /\ epoch[n] = EpochAt(ledger, Latest(ledger))
         /\ head[n] = HeadAt(ledger, Latest(ledger))
         /\ EndOf(ledger, Latest(ledger)) = "open"
         /\ Owner(ledger, Latest(ledger)) = n
         /\ \A m \in Running : \A k \in epoch[m].idx..(Latest(ledger) - 1) :
              EndOf(ledger, k) = "block"
<1> DEFINE i == epoch[n].idx
           F == Latest(ledger)
<1>1. /\ n \in Running /\ checking[n] = {} /\ ~waitingForOwn[n]
      /\ Expected(n) = n
      /\ skipped[n] => \A m \in Running : epoch[m].idx >= epoch[n].idx
  BY DEF MayAct, Idle, KeepsUp
<1>2. /\ LedgerOK(ledger) /\ F \in Nat /\ i \in 0..F
      /\ epoch[n] = EpochAt(ledger, i) /\ head[n] = HeadAt(ledger, i)
      /\ Owner(ledger, i) = n
      /\ skipped[n] <=> (i > 0 /\ EndOf(ledger, i - 1) # "block")
  BY <1>1, Stands DEF Kept, LedgerOK
<1>3. Pending(ledger, n, i, onTheWay[n], cache[n], {}, waitingForOwn[n])
  BY <1>1 DEF Kept, AllPending
<1>4. EndOf(ledger, i) = "open"
  <2>1. EndOf(ledger, i) # "block"
    BY <1>1, <1>2, <1>3 DEF Pending
  <2>2. EndOf(ledger, i) # "missed"
    BY <1>1, <1>2 DEF Kept, Acted, Running
  <2>3. EndOf(ledger, i) # "empty"
    <3>1. EndOf(ledger, i) = "empty" => epoch[n].idx > i
      BY <1>2 DEF Kept, Acted
    <3> QED BY <1>2, <3>1
  <2> QED BY <1>2, <2>1, <2>2, <2>3, SlotTypes DEF Ends
<1>5. i = F
  <2>1. i \in 0..(F - 1) => EndOf(ledger, i) # "open"
    BY <1>2 DEF LedgerOK, Leads
  <2> QED BY <1>2, <1>4, <2>1
<1>6. ASSUME NEW m \in Running, NEW k \in epoch[m].idx..(F - 1)
      PROVE  EndOf(ledger, k) = "block"
  <2>1. epoch[m].idx \in 0..F
    BY Stands DEF Running
  <2>2. epoch[m].idx < F /\ F > 0 /\ F - 1 \in epoch[m].idx..F /\ k \in Int
    BY <1>2, <1>6, <2>1
  <2>3. EndOf(ledger, F - 1) = "block"
    BY <1>1, <1>2, <1>5, <2>1, <2>2
  <2>4. Pending(ledger, m, epoch[m].idx, onTheWay[m], cache[m], checking[m], waitingForOwn[m])
    BY DEF Kept, AllPending
  <2>5. \A l \in epoch[m].idx..((F - 1) - 1) : EndOf(ledger, l) = "block"
    BY <2>2, <2>3, <2>4 DEF Pending
  <2>6. k = F - 1 \/ k \in epoch[m].idx..((F - 1) - 1)
    BY <1>2, <1>6, <2>1
  <2> QED BY <2>3, <2>5, <2>6
<1> QED BY <1>1, <1>2, <1>4, <1>5, <1>6

\* _finalize_block: the ledger learns that the last slot has a block.
LEMMA ProduceKeeps ==
  ASSUME KeepsUp, TypeOK, NEW ledger, Kept(ledger), NEW n \in Members, Produce(n)
  PROVE  OneLedger'
<1> DEFINE F == Latest(ledger)
           more == Signed(ledger)
           msg == BlockMsg(ledger, F)
<1>1. /\ n \in Running /\ checking[n] = {} /\ ~waitingForOwn[n]
      /\ epoch[n].idx = F /\ head[n] = HeadAt(ledger, F)
      /\ EndOf(ledger, F) = "open" /\ Owner(ledger, F) = n
      /\ \A m \in Running : \A k \in epoch[m].idx..(F - 1) : EndOf(ledger, k) = "block"
  BY ActsInRunningSlot DEF Produce
<1>2. LedgerOK(ledger) /\ F \in Nat /\ F \in 0..F
  BY DEF Kept, LedgerOK
<1>3. /\ LedgerOK(more) /\ Grown(ledger, more)
      /\ Latest(more) = F /\ EndOf(more, F) = "block"
      /\ \A i \in 0..(F - 1) : EndOf(more, i) = EndOf(ledger, i)
  BY <1>2, SignedLedger
<1>4. /\ onTheWay' = [m \in Members |-> onTheWay[m] \cup {msg}]
      /\ waitingForOwn' = [waitingForOwn EXCEPT ![n] = TRUE]
      /\ UNCHANGED <<epoch, head, cache, checking, crashed, skipped>>
  <2>1. msg = [from |-> n, slot |-> epoch[n].idx, empty |-> FALSE, block |-> Append(head[n], n)]
    BY <1>1 DEF BlockMsg, BlockOf
  <2> HIDE DEF msg
  <2>2. onTheWay' = [m \in Members |-> onTheWay[m] \cup IF m \in Members THEN {msg} ELSE {}]
    BY <2>1 DEF Produce, SendTo
  <2> QED BY <2>2 DEF Produce, blocks
<1>5. msg \in Message
  BY <1>2, SlotTypes
<1>6. msg = BlockMsg(more, F) /\ \A i \in 0..F : Owner(more, i) = Owner(ledger, i)
  BY <1>2, <1>3, GrownSays
<1> HIDE DEF more, F, msg
<1>7. Acted(more)'
  <2>1. SUFFICES ASSUME NEW i \in 0..F
                 PROVE  /\ EndOf(more, i) = "missed" => Owner(more, i) \in crashed'
                        /\ EndOf(more, i) = "block" => epoch'[Owner(more, i)].idx >= i
                        /\ EndOf(more, i) = "empty" => epoch'[Owner(more, i)].idx > i
    BY <1>3 DEF Acted
  <2>2. CASE i = F
    <3>1. epoch'[Owner(more, i)].idx = F
      BY <1>1, <1>2, <1>4, <1>6, <2>2
    <3> QED BY <1>2, <1>3, <2>2, <3>1
  <2>3. CASE i # F
    <3>1. i \in 0..(F - 1)
      BY <1>2, <2>3
    <3> QED BY <1>3, <1>4, <1>6, <3>1 DEF Kept, Acted, F
  <2> QED BY <2>2, <2>3
<1>8. AllFollow(more)'
  BY <1>2, <1>3, <1>4, GrownKeeps DEF Kept, AllFollow
<1>9. AllFromLedger(more)'
  <2>1. ASSUME NEW m \in Members PROVE FromLedger(more, onTheWay'[m], cache'[m])
    <3>1. FromLedger(more, onTheWay[m], cache[m])
      BY <1>2, <1>3, GrownKeeps DEF Kept, AllFromLedger
    <3>2. onTheWay'[m] = onTheWay[m] \cup {msg} /\ cache'[m] = cache[m]
      BY <1>4
    <3> QED BY <1>2, <1>3, <1>6, <3>1, <3>2 DEF FromLedger
  <2> QED BY <2>1 DEF AllFromLedger
<1>10. AllPending(more)'
  <2>1. ASSUME NEW m \in Running
        PROVE  Pending(more, m, epoch[m].idx, onTheWay[m] \cup {msg}, cache[m], checking[m],
                       waitingForOwn'[m])
    <3>1. /\ epoch[m].idx \in 0..F
          /\ FromLedger(ledger, onTheWay[m], cache[m])
          /\ Pending(ledger, m, epoch[m].idx, onTheWay[m], cache[m], checking[m],
                     waitingForOwn[m])
      BY Stands DEF Kept, AllPending, Running, F
    <3>2. waitingForOwn'[m] <=> waitingForOwn[m] \/ m = n
      BY <1>4 DEF TypeOK, Running
    <3>3. m = n <=> epoch[m].idx = F /\ Owner(ledger, epoch[m].idx) = m
      BY <1>1
    <3>4. waitingForOwn'[m] <=> \/ waitingForOwn[m]
                                \/ /\ EndOf(more, F) = "block" /\ epoch[m].idx = F
                                   /\ Owner(ledger, epoch[m].idx) = m
      BY <1>3, <3>2, <3>3
    <3>5. msg = IF EndOf(more, F) = "block" THEN BlockMsg(ledger, F) ELSE EmptyMsg(ledger, F)
      BY <1>3 DEF msg
    <3>6. EndOf(more, F) \in {"block", "empty"}
          /\ \A j \in 0..Latest(more) : EndOf(more, j) \in {"block", "empty"} => j \in 0..F
      BY <1>3
    <3> QED BY <1>1, <1>2, <1>3, <3>1, <3>4, <3>5, <3>6, PendingSpoken DEF F
  <2>2. \A m \in Running : onTheWay'[m] = onTheWay[m] \cup {msg}
    BY <1>4 DEF Running
  <2> QED BY <1>4, <2>1, <2>2 DEF AllPending, Running
<1>11. TypeOK'
  <2>1. onTheWay' \in [Members -> SUBSET Message]
    BY <1>4, <1>5 DEF TypeOK
  <2>2. waitingForOwn' \in [Members -> BOOLEAN]
    BY <1>4 DEF TypeOK
  <2> QED BY <1>4, <2>1, <2>2 DEF TypeOK
<1> QED BY <1>3, <1>7, <1>8, <1>9, <1>10, <1>11 DEF OneLedger, Kept

\* broadcast_empty_slot: the ledger learns that the last slot is empty.
LEMMA DeclareEmptyKeeps ==
  ASSUME KeepsUp, TypeOK, NEW ledger, Kept(ledger), NEW n \in Members, DeclareEmpty(n)
  PROVE  OneLedger'
<1> DEFINE F == Latest(ledger)
           msg == EmptyMsg(ledger, F)
<1>1. /\ n \in Running /\ checking[n] = {} /\ ~waitingForOwn[n]
      /\ epoch[n].idx = F
      /\ epoch[n] = EpochAt(ledger, F) /\ head[n] = HeadAt(ledger, F)
      /\ EndOf(ledger, F) = "open" /\ Owner(ledger, F) = n
      /\ \A m \in Running : \A k \in epoch[m].idx..(F - 1) : EndOf(ledger, k) = "block"
  BY ActsInRunningSlot DEF DeclareEmpty
<1>2. LedgerOK(ledger) /\ F \in Nat /\ F \in 0..F
  BY DEF Kept, LedgerOK
<1>3. PICK next \in IncrementWitness(epoch[n], head[n]) : epoch' = [epoch EXCEPT ![n] = next]
  BY DEF DeclareEmpty, NextSlot
<1> DEFINE more == Longer(ledger, "empty", next)
<1>4. /\ LedgerOK(more) /\ Grown(ledger, more)
      /\ Latest(more) = F + 1 /\ EndOf(more, F) = "empty" /\ EndOf(more, F + 1) = "open"
      /\ \A i \in 0..(F - 1) : EndOf(more, i) = EndOf(ledger, i)
      /\ EpochAt(more, F + 1) = next
      /\ HeadAt(more, F + 1) = head[n]
  <2>1. next \in IncrementWitness(Left(EpochAt(ledger, F), "empty"), HeadAfter(ledger, F, "empty"))
    BY <1>1, <1>3 DEF Left, HeadAfter
  <2>2. HeadAfter(ledger, F, "empty") = head[n]
    BY <1>1 DEF HeadAfter
  <2> QED BY <1>1, <1>2, <2>1, <2>2, LongerLedger
<1>5. /\ onTheWay' = [m \in Members |-> onTheWay[m] \cup IF m # n THEN {msg} ELSE {}]
      /\ skipped' = [skipped EXCEPT ![n] = TRUE]
      /\ UNCHANGED <<head, cache, checking, waitingForOwn, crashed>>
  <2>1. msg = [from |-> n, slot |-> epoch[n].idx, empty |-> TRUE, block |-> Root]
    BY <1>1 DEF EmptyMsg
  <2> HIDE DEF msg
  <2>2. onTheWay' = [m \in Members |-> onTheWay[m] \cup IF m \in Members \ {n} THEN {msg} ELSE {}]
    BY <2>1 DEF DeclareEmpty, SendTo
  <2> QED BY <2>2 DEF DeclareEmpty, NextSlot, blocks
<1>6. msg \in Message
  BY <1>2, SlotTypes
<1>7. msg = EmptyMsg(more, F) /\ \A i \in 0..F : Owner(more, i) = Owner(ledger, i)
  BY <1>2, <1>4, GrownSays
<1>8. /\ F + 1 \in 0..(F + 1) /\ F \in 0..(F + 1) /\ F + 1 > 0 /\ (F + 1) - 1 = F
      /\ \A i \in 0..(F + 1) : i \in 0..(F - 1) \/ i = F \/ i = F + 1
      /\ \A i \in 0..(F - 1) : i \in 0..F
  BY <1>2
<1> HIDE DEF more, F, msg
<1>9. next \in EpochState /\ next.idx = F + 1
  BY <1>4, <1>8, SlotTypes
<1>10. /\ epoch'[n] = next /\ head'[n] = head[n] /\ skipped'[n] /\ onTheWay'[n] = onTheWay[n]
       /\ \A m \in Members \ {n} : /\ epoch'[m] = epoch[m] /\ head'[m] = head[m]
                                   /\ skipped'[m] = skipped[m]
                                   /\ onTheWay'[m] = onTheWay[m] \cup {msg}
  BY <1>3, <1>5 DEF TypeOK
<1>11. Acted(more)'
  <2>1. SUFFICES ASSUME NEW i \in 0..(F + 1)
                 PROVE  /\ EndOf(more, i) = "missed" => Owner(more, i) \in crashed'
                        /\ EndOf(more, i) = "block" => epoch'[Owner(more, i)].idx >= i
                        /\ EndOf(more, i) = "empty" => epoch'[Owner(more, i)].idx > i
    BY <1>4 DEF Acted
  <2>2. CASE i = F + 1
    BY <1>4, <2>2
  <2>3. CASE i = F
    <3>1. epoch'[Owner(more, i)].idx = F + 1
      BY <1>1, <1>2, <1>7, <1>9, <1>10, <2>3 DEF F
    <3> QED BY <1>2, <1>4, <2>3, <3>1
  <2>4. CASE i \in 0..(F - 1)
    <3>1. \A m \in Members : /\ epoch[m].idx \in Int /\ epoch'[m].idx \in Int
                             /\ epoch'[m].idx >= epoch[m].idx
      <4>1. \A m \in Members : epoch[m].idx \in 0..F
        BY Stands DEF F
      <4> QED BY <1>1, <1>2, <1>9, <1>10, <4>1
    <3>2. Acted(ledger)'
      BY <1>2, <1>5, <3>1, ActedKeeps DEF Kept
    <3> QED BY <1>4, <1>7, <1>8, <2>4, <3>2 DEF Acted, F
  <2> QED BY <1>8, <2>2, <2>3, <2>4
<1>12. AllFollow(more)'
  <2>1. FollowsLedger(more, epoch'[n], head'[n], skipped'[n])
    BY <1>4, <1>8, <1>9, <1>10 DEF FollowsLedger
  <2>2. \A m \in Members \ {n} : FollowsLedger(more, epoch'[m], head'[m], skipped'[m])
    BY <1>2, <1>4, <1>10, GrownKeeps DEF Kept, AllFollow
  <2> QED BY <2>1, <2>2 DEF AllFollow
<1>13. AllFromLedger(more)'
  <2>1. ASSUME NEW m \in Members PROVE FromLedger(more, onTheWay'[m], cache'[m])
    <3>1. FromLedger(more, onTheWay[m], cache[m])
      BY <1>2, <1>4, GrownKeeps DEF Kept, AllFromLedger
    <3>2. onTheWay'[m] \subseteq onTheWay[m] \cup {msg} /\ cache'[m] = cache[m]
      BY <1>5, <1>10
    <3> QED BY <1>4, <1>7, <1>8, <3>1, <3>2 DEF FromLedger
  <2> QED BY <2>1 DEF AllFromLedger
<1>14. AllPending(more)'
  <2>1. ASSUME NEW m \in Running
        PROVE  /\ epoch[m].idx \in 0..F
               /\ FromLedger(ledger, onTheWay[m], cache[m])
               /\ Pending(ledger, m, epoch[m].idx, onTheWay[m], cache[m], checking[m],
                          waitingForOwn[m])
    BY <2>1, Stands DEF Kept, AllPending, Running, F
  <2>2. ASSUME NEW m \in Running \ {n}
        PROVE  Pending(more, m, epoch[m].idx, onTheWay[m] \cup {msg}, cache[m], checking[m],
                       waitingForOwn[m])
    <3>1. waitingForOwn[m] <=> \/ waitingForOwn[m]
                               \/ /\ EndOf(more, F) = "block" /\ epoch[m].idx = F
                                  /\ Owner(ledger, epoch[m].idx) = m
      BY <1>4
    <3>2. msg = IF EndOf(more, F) = "block" THEN BlockMsg(ledger, F) ELSE EmptyMsg(ledger, F)
      BY <1>4 DEF msg
    <3>3. EndOf(more, F) \in {"block", "empty"}
          /\ \A j \in 0..Latest(more) : EndOf(more, j) \in {"block", "empty"} => j \in 0..F
      BY <1>2, <1>4, <1>8
    <3> QED BY <1>1, <1>2, <1>4, <2>1, <3>1, <3>2, <3>3, PendingSpoken DEF F
  <2>3. onTheWay[n] = {}
    <3>1. SUFFICES ASSUME NEW m \in onTheWay[n] PROVE FALSE
      OBVIOUS
    <3>2. Pending(ledger, n, F, onTheWay[n], cache[n], checking[n], waitingForOwn[n])
          /\ FromLedger(ledger, onTheWay[n], cache[n])
      BY <1>1, <2>1
    <3>3. m.slot >= F
      BY <3>2 DEF Pending
    <3>4. PICK j \in 0..F : \/ EndOf(ledger, j) = "block" /\ m = BlockMsg(ledger, j)
                            \/ EndOf(ledger, j) = "empty" /\ m = EmptyMsg(ledger, j)
      BY <3>2 DEF FromLedger, F
    <3>5. m.slot = j
      BY <3>4, MessageOfSlot
    <3>6. j = F
      BY <1>2, <3>3, <3>4, <3>5
    <3> QED BY <1>1, <3>4, <3>6
  <2>4. Pending(more, n, F + 1, {}, cache[n], {}, FALSE)
    <3>1. \A j \in (F + 1)..Latest(more) : j = F + 1
      BY <1>2, <1>4
    <3> QED BY <1>4, <3>1 DEF Pending, Heard
  <2>5. Pending(more, n, epoch'[n].idx, onTheWay'[n], cache'[n], checking'[n], waitingForOwn'[n])
    BY <1>1, <1>5, <1>9, <1>10, <2>3, <2>4 DEF Pending
  <2>6. ASSUME NEW m \in Running \ {n}
        PROVE  Pending(more, m, epoch'[m].idx, onTheWay'[m], cache'[m], checking'[m],
                       waitingForOwn'[m])
    <3>1. epoch'[m] = epoch[m] /\ onTheWay'[m] = onTheWay[m] \cup {msg}
      BY <1>10 DEF Running
    <3> QED BY <1>5, <2>2, <3>1
  <2> QED BY <1>5, <2>5, <2>6 DEF AllPending, Running
<1>15. TypeOK'
  <2>1. onTheWay' \in [Members -> SUBSET Message]
    BY <1>5, <1>6 DEF TypeOK
  <2>2. epoch' \in [Members -> EpochState] /\ skipped' \in [Members -> BOOLEAN]
    BY <1>3, <1>5, <1>9 DEF TypeOK
  <2> QED BY <1>5, <2>1, <2>2 DEF TypeOK
<1> QED BY <1>4, <1>11, <1>12, <1>13, <1>14, <1>15 DEF OneLedger, Kept

\* A node that stops leaves the ledger as it is.
LEMMA CrashKeeps ==
  ASSUME TypeOK, NEW ledger, Kept(ledger), NEW n \in Members, Crash(n)
  PROVE  OneLedger'
<1>1. /\ crashed' = crashed \cup {n}
      /\ UNCHANGED <<epoch, head, cache, checking, waitingForOwn, onTheWay, skipped>>
  BY DEF Crash, blocks
<1>2. LedgerOK(ledger) /\ TypeOK'
  BY <1>1 DEF Kept, TypeOK
<1>3. Acted(ledger)' /\ AllFollow(ledger)' /\ AllFromLedger(ledger)'
  BY <1>1 DEF Kept, Acted, AllFollow, AllFromLedger
<1>4. AllPending(ledger)'
  BY <1>1 DEF Kept, AllPending, Running
<1> QED BY <1>2, <1>3, <1>4 DEF OneLedger, Kept

\* The ledger begins with the list that all nodes have.
LEMMA LedgerBegins ==
  ASSUME Init
  PROVE  OneLedger
<1>1. PICK list \in Rankings :
        epoch = [n \in Members |-> SetCandidatesAndWitnesses(NewEpoch(1), list)]
  BY NetworkAssumption DEF Init
<1> DEFINE first == SetCandidatesAndWitnesses(NewEpoch(1), list)
           ledger == [latest |-> 0, epoch |-> [i \in Nat |-> first],
                      head |-> [i \in Nat |-> Root], end |-> [i \in Nat |-> "open"]]
<1>2. first \in EpochState /\ Placed(first) /\ first.idx = 0
  BY NewEpochPlaced
<1>3. epoch = [n \in Members |-> first]
  BY <1>1
<1> HIDE DEF first
<1>4. /\ Latest(ledger) = 0 /\ EpochAt(ledger, 0) = first
      /\ HeadAt(ledger, 0) = Root /\ EndOf(ledger, 0) = "open"
  BY DEF Latest, EpochAt, HeadAt, EndOf
<1> HIDE DEF ledger
<1>5. Root \in Seq(Members) /\ Len(Root) = 0
  BY EmptySeq DEF Root
<1>6. /\ 0..0 = {0} /\ 0..(0 - 1) = {}
  OBVIOUS
<1>7. LedgerOK(ledger)
  <2>1. SlotsOK(ledger)
    <3>1. \A i \in 0..Latest(ledger) : i = 0
      BY <1>4, <1>6
    <3>2. EndOf(ledger, 0) \in Ends
      BY <1>4 DEF Ends
    <3> QED BY <1>2, <1>4, <1>5, <3>1, <3>2 DEF SlotsOK
  <2>2. OneChain(ledger)
    BY <1>4, <1>5, <1>6 DEF OneChain, IsPrefixOf
  <2> QED BY <1>4, <1>6, <2>1, <2>2 DEF LedgerOK
<1>8. ASSUME NEW n \in Members
      PROVE  /\ epoch[n] = first /\ head[n] = Root /\ cache[n] = {Root} /\ checking[n] = {}
             /\ ~waitingForOwn[n] /\ onTheWay[n] = {} /\ ~skipped[n]
  BY <1>3 DEF Init
<1>9. Acted(ledger)
  BY <1>4, <1>6 DEF Acted
<1>10. AllFollow(ledger) /\ AllFromLedger(ledger)
  <2>1. ASSUME NEW n \in Members PROVE FollowsLedger(ledger, epoch[n], head[n], skipped[n])
    BY <1>2, <1>4, <1>6, <1>8 DEF FollowsLedger
  <2>2. ASSUME NEW n \in Members PROVE FromLedger(ledger, onTheWay[n], cache[n])
    BY <1>8 DEF FromLedger
  <2> QED BY <2>1, <2>2 DEF AllFollow, AllFromLedger
<1>11. AllPending(ledger)
  <2>1. ASSUME NEW n \in Running
        PROVE  Pending(ledger, n, epoch[n].idx, onTheWay[n], cache[n], checking[n],
                       waitingForOwn[n])
    <3>1. Pending(ledger, n, 0, {}, {Root}, {}, FALSE)
      BY <1>4, <1>6 DEF Pending, Heard
    <3> QED BY <1>2, <1>8, <3>1 DEF Running, Pending
  <2> QED BY <2>1 DEF AllPending
<1>12. TypeOK
  <2>1. /\ epoch \in [Members -> EpochState]
        /\ head \in [Members -> Seq(Members)]
        /\ cache \in [Members -> SUBSET Seq(Members)]
        /\ checking \in [Members -> SUBSET Seq(Members)]
        /\ waitingForOwn \in [Members -> BOOLEAN]
        /\ onTheWay \in [Members -> SUBSET Message]
        /\ crashed \subseteq Members
        /\ skipped \in [Members -> BOOLEAN]
    BY <1>2, <1>3, <1>5 DEF Init
  <2>2. ASSUME NEW n \in Members PROVE checking[n] \subseteq cache[n] /\ Cardinality(checking[n]) <= 1
    <3>1. checking[n] = {}
      BY <1>8
    <3> QED BY <3>1, AtMostOne
  <2> QED BY <2>1, <2>2 DEF TypeOK
<1> QED BY <1>7, <1>9, <1>10, <1>11, <1>12 DEF OneLedger, Kept

\* The ledger is inductive.
LEMMA StepKeepsLedger ==
  ASSUME HashIsNumber, KeepsUp, OneLedger, [Next]_vars
  PROVE  OneLedger'
<1>1. TypeOK
  BY DEF OneLedger
<1>2. PICK ledger : Kept(ledger)
  BY DEF OneLedger
<1>3. CASE UNCHANGED vars
  <2>1. UNCHANGED <<epoch, head, cache, checking, waitingForOwn, onTheWay, crashed, skipped>>
    BY <1>3 DEF vars, blocks
  <2>2. Kept(ledger)'
    BY <1>2, <2>1 DEF Kept, Acted, AllFollow, AllFromLedger, AllPending, Running
  <2>3. TypeOK'
    BY <1>1, <2>1 DEF TypeOK
  <2> QED BY <2>2, <2>3 DEF OneLedger
<1>4. CASE Next
  <2>1. PICK n \in Members : Step(n) \/ Crash(n)
    BY <1>4 DEF Next
  <2>2. CASE TimeOut(n)
    BY <1>1, <1>2, <2>2, TimeOutKeeps
  <2>3. CASE Produce(n)
    BY <1>1, <1>2, <2>3, ProduceKeeps
  <2>4. CASE DeclareEmpty(n)
    BY <1>1, <1>2, <2>4, DeclareEmptyKeeps
  <2>5. CASE Handle(n)
    <3>1. n \in Running /\ \E msg \in onTheWay[n] : HandleNewBlock(n, msg) \/ HandleEmptySlot(n, msg)
      BY <2>5 DEF Handle
    <3>2. PICK msg \in onTheWay[n] : HandleNewBlock(n, msg) \/ HandleEmptySlot(n, msg)
      BY <3>1
    <3>3. CASE HandleNewBlock(n, msg)
      BY <1>1, <1>2, <3>1, <3>3, HandleNewBlockKeeps
    <3>4. CASE HandleEmptySlot(n, msg)
      BY <1>1, <1>2, <3>1, <3>4, HandleEmptySlotKeeps
    <3> QED BY <3>2, <3>3, <3>4
  <2>6. CASE BlockChecked(n)
    BY <1>1, <1>2, <2>6, BlockCheckedKeeps
  <2>7. CASE Crash(n)
    BY <1>1, <1>2, <2>7, CrashKeeps
  <2> QED BY <2>1, <2>2, <2>3, <2>4, <2>5, <2>6, <2>7 DEF Step
<1> QED BY <1>3, <1>4

\* Of two nodes, the head of the one that is behind is a part of the other's.
LEMMA HeadsAreOneChain ==
  ASSUME OneLedger, NEW m \in Members, NEW n \in Members
  PROVE  /\ head[m] \in Seq(Members) /\ head[n] \in Seq(Members)
         /\ epoch[m].idx = epoch[n].idx => epoch[m] = epoch[n] /\ head[m] = head[n]
         /\ IsPrefixOf(head[m], head[n]) \/ IsPrefixOf(head[n], head[m])
<1>1. PICK ledger : TypeOK /\ Kept(ledger)
  BY DEF OneLedger
<1>2. /\ epoch[m].idx \in 0..Latest(ledger) /\ epoch[n].idx \in 0..Latest(ledger)
      /\ epoch[m] = EpochAt(ledger, epoch[m].idx) /\ head[m] = HeadAt(ledger, epoch[m].idx)
      /\ epoch[n] = EpochAt(ledger, epoch[n].idx) /\ head[n] = HeadAt(ledger, epoch[n].idx)
  BY <1>1, Stands
<1>3. Latest(ledger) \in Nat /\ OneChain(ledger)
  BY <1>1 DEF Kept, LedgerOK
<1>4. epoch[m].idx <= epoch[n].idx \/ epoch[n].idx <= epoch[m].idx
  BY <1>2, <1>3
<1>5. IsPrefixOf(head[m], head[n]) \/ IsPrefixOf(head[n], head[m])
  BY <1>2, <1>3, <1>4 DEF OneChain
<1> QED BY <1>1, <1>2, <1>5 DEF TypeOK

---------------------------------------------------------------------------
(* The theorems *)

\* The inductive invariant: in a network that keeps up, all nodes go through one
\* ledger, whatever they hear in whatever order, and whoever stops.
THEOREM NetworkInvariant ==
  ASSUME HashIsNumber, KeepsUp
  PROVE  Spec => []OneLedger
<1>1. OneLedger /\ [Next]_vars => OneLedger'
  BY StepKeepsLedger
<1> QED BY <1>1, LedgerBegins, PTL DEF Spec

\* Every variable keeps its type, and check_blocks is asked for one block at a time.
THEOREM TypeCorrect ==
  ASSUME HashIsNumber, KeepsUp
  PROVE  Spec => []TypeOK
<1>1. OneLedger => TypeOK
  BY DEF OneLedger
<1> QED BY <1>1, NetworkInvariant, PTL

\* Nodes in the same slot have the same schedule and the same head.
THEOREM NodesAgree ==
  ASSUME HashIsNumber, KeepsUp
  PROVE  Spec => []Agreement
<1>1. OneLedger => Agreement
  BY HeadsAreOneChain DEF Agreement
<1> QED BY <1>1, NetworkInvariant, PTL

\* No two nodes ever commit different blocks at the same height.
THEOREM ChainNeverForks ==
  ASSUME HashIsNumber, KeepsUp
  PROVE  Spec => []NoFork
<1>1. ASSUME OneLedger, NEW m \in Members, NEW n \in Members, Len(head[m]) <= Len(head[n])
      PROVE  SubSeq(head[n], 1, Len(head[m])) = head[m]
  <2>1. /\ head[m] \in Seq(Members) /\ head[n] \in Seq(Members)
        /\ IsPrefixOf(head[m], head[n]) \/ IsPrefixOf(head[n], head[m])
    BY <1>1, HeadsAreOneChain
  <2>2. Len(head[m]) \in Nat /\ Len(head[n]) \in Nat
    BY <2>1, LenProperties
  <2>3. IsPrefixOf(head[m], head[n])
    BY <1>1, <2>1, <2>2 DEF IsPrefixOf
  <2> QED BY <2>1, <2>3, PrefixAsSubSeq
<1>2. OneLedger => NoFork
  BY <1>1 DEF NoFork
<1> QED BY <1>2, NetworkInvariant, PTL

\* No running witness is ever taken off the list of witnesses.
THEOREM RunningWitnessStays ==
  ASSUME HashIsNumber, KeepsUp
  PROVE  Spec => KeepsItsPlace
<1> DEFINE Stays == \A m, n \in Members :
                      IsWitness(epoch[n], m) /\ ~IsWitness(epoch'[n], m) => m \in crashed
<1>1. ASSUME OneLedger, Next PROVE Stays
  <2>1. SUFFICES ASSUME NEW n \in Members, NEW m \in Members,
                        IsWitness(epoch[n], m), ~IsWitness(epoch'[n], m)
                 PROVE  m \in crashed
    OBVIOUS
  <2>2. PICK ledger : TypeOK /\ Kept(ledger)
    BY <1>1 DEF OneLedger
  <2>3. epoch[n] \in EpochState /\ Placed(epoch[n])
    <3>1. LedgerOK(ledger) /\ epoch[n].idx \in 0..Latest(ledger)
          /\ epoch[n] = EpochAt(ledger, epoch[n].idx)
      BY <2>2, Stands DEF Kept
    <3> QED BY <3>1, SlotTypes
  <2>4. ASSUME NEW hd, NEW next \in IncrementWitness(epoch[n], hd),
               epoch' = [epoch EXCEPT ![n] = next]
        PROVE  FALSE
    <3>1. epoch'[n] = next
      BY <2>2, <2>4 DEF TypeOK
    <3> QED BY <2>1, <2>3, <2>4, <3>1, IncrementKeepsWitnesses
  <2>5. PICK k \in Members : Step(k) \/ Crash(k)
    BY <1>1 DEF Next
  <2>6. \/ UNCHANGED epoch
        \/ \E hd, next : epoch' = [epoch EXCEPT ![k] = next]
                         /\ next \in IncrementWitness(epoch[k], hd)
        \/ TimeOut(k)
    BY <2>5 DEF Step, Crash, Produce, DeclareEmpty, Handle, HandleNewBlock, HandleEmptySlot,
                BlockChecked, NextSlot
  <2>7. k = n /\ TimeOut(n)
    <3>1. \A next : k # n => [epoch EXCEPT ![k] = next][n] = epoch[n]
      BY <2>2 DEF TypeOK
    <3>2. \E next : TimeOut(k) => epoch' = [epoch EXCEPT ![k] = next]
      BY DEF TimeOut, NextSlot
    <3> QED BY <2>1, <2>4, <2>6, <3>1, <3>2
  <2>8. Expected(n) \in crashed
    BY <1>1, <2>2, <2>7, MissedHaveStopped
  <2>9. PICK next \in IncrementWitness(DowngradeWitness(epoch[n], Expected(n)), head[n]) :
          epoch' = [epoch EXCEPT ![n] = next]
    BY <2>7 DEF TimeOut, NextSlot, MissedSlot
  <2> DEFINE down == DowngradeWitness(epoch[n], Expected(n))
  <2>10. Expected(n) \in Members
    BY <2>3, WitnessIsMember DEF Expected
  <2>11. /\ down \in EpochState /\ Placed(down)
         /\ \A i \in 1..NumSlots :
              epoch[n].witnesses[i] # Expected(n) => down.witnesses[i] = epoch[n].witnesses[i]
    BY <2>3, <2>10, DowngradePlaced
  <2>12. ~IsWitness(down, m)
    <3>1. epoch'[n] = next
      BY <2>2, <2>9 DEF TypeOK
    <3> HIDE DEF down
    <3> QED BY <2>1, <2>9, <2>11, <3>1, IncrementKeepsWitnesses DEF down
  <2>13. m = Expected(n)
    <3>1. PICK i \in 1..NumSlots : epoch[n].witnesses[i] = m
      BY <2>1, <2>3 DEF Placed, IsWitness, Range
    <3>2. DOMAIN down.witnesses = 1..NumSlots
      BY <2>11 DEF Placed
    <3> HIDE DEF down
    <3> QED BY <2>11, <2>12, <3>1, <3>2 DEF IsWitness, Range
  <2> QED BY <2>8, <2>13
<1>2. OneLedger /\ [Next]_vars => [Stays]_vars
  BY <1>1 DEF vars
<1> QED BY <1>2, NetworkInvariant, PTL DEF Spec, KeepsItsPlace

---------------------------------------------------------------------------
(* The refinement: the network has one chain *)

LongestOf(heads) ==
  CHOOSE h \in { heads[n] : n \in Members } : \A n \in Members : Len(heads[n]) <= Len(h)

\* Heads of which one is the beginning of the other, none longer than some bound.
HeadsOK(heads) ==
  /\ heads \in [Members -> Seq(Members)]
  /\ \A m, n \in Members : IsPrefixOf(heads[m], heads[n]) \/ IsPrefixOf(heads[n], heads[m])
  /\ \E bound \in Nat : \A n \in Members : Len(heads[n]) <= bound

\* The longest head is the head of a node, and of all whose heads are as long.
LEMMA LongestIsHead ==
  ASSUME NEW heads, HeadsOK(heads)
  PROVE  /\ \E n \in Members : LongestOf(heads) = heads[n]
         /\ \A n \in Members : Len(heads[n]) <= Len(LongestOf(heads))
         /\ \A n \in Members : Len(heads[n]) = Len(LongestOf(heads)) => heads[n] = LongestOf(heads)
<1>1. /\ \A n \in Members : heads[n] \in Seq(Members) /\ Len(heads[n]) \in Nat
      /\ \A m, n \in Members : IsPrefixOf(heads[m], heads[n]) \/ IsPrefixOf(heads[n], heads[m])
  BY LenProperties DEF HeadsOK
<1>2. PICK bound \in Nat : \A n \in Members : Len(heads[n]) <= bound
  BY DEF HeadsOK
<1>3. PICK longest \in Members : \A n \in Members : Len(heads[n]) <= Len(heads[longest])
  <2> DEFINE S == { bound - Len(heads[n]) : n \in Members }
  <2>1. S \in SUBSET Nat
    BY <1>1, <1>2
  <2>2. S # {}
    <3>1. Members # {}
      <4>1. Members = {} => Cardinality(Members) = 0
        BY FS_EmptySet
      <4> QED BY <4>1, Sizes, EpochAssumption
    <3> QED BY <3>1
  <2>3. PICK least \in S : \A k \in S : least <= k
    BY <2>1, <2>2, Smallest
  <2>4. PICK l \in Members : least = bound - Len(heads[l])
    BY <2>3
  <2>5. ASSUME NEW n \in Members PROVE Len(heads[n]) <= Len(heads[l])
    <3>1. bound - Len(heads[l]) <= bound - Len(heads[n])
      BY <2>3, <2>4
    <3> QED BY <1>1, <1>2, <3>1
  <2> QED BY <2>5
<1> DEFINE h == LongestOf(heads)
<1>4. h \in { heads[n] : n \in Members } /\ \A n \in Members : Len(heads[n]) <= Len(h)
  <2>1. \E x \in { heads[n] : n \in Members } : \A n \in Members : Len(heads[n]) <= Len(x)
    BY <1>3
  <2> QED BY <2>1 DEF LongestOf
<1> HIDE DEF h
<1>5. PICK l \in Members : h = heads[l]
  BY <1>4
<1>6. ASSUME NEW n \in Members, Len(heads[n]) = Len(h) PROVE heads[n] = h
  <2>1. \A k \in 1..Len(h) : heads[n][k] = h[k]
    BY <1>1, <1>5, <1>6 DEF IsPrefixOf
  <2> QED BY <1>1, <1>5, <1>6, <2>1, SeqEqual
<1> QED BY <1>4, <1>5, <1>6 DEF h

\* The heads of a network with a ledger have a longest.
LEMMA LedgerHeads == OneLedger => HeadsOK(head)
<1> SUFFICES ASSUME OneLedger PROVE HeadsOK(head)
  OBVIOUS
<1>1. PICK ledger : TypeOK /\ Kept(ledger)
  BY DEF OneLedger
<1>2. /\ Latest(ledger) \in Nat /\ Latest(ledger) \in 0..Latest(ledger)
      /\ LedgerOK(ledger) /\ OneChain(ledger)
  BY <1>1 DEF Kept, LedgerOK
<1> DEFINE bound == Len(HeadAt(ledger, Latest(ledger)))
<1>3. bound \in Nat
  BY <1>2, SlotTypes
<1>4. ASSUME NEW n \in Members PROVE Len(head[n]) <= bound
  <2>1. epoch[n].idx \in 0..Latest(ledger) /\ head[n] = HeadAt(ledger, epoch[n].idx)
    BY <1>1, Stands
  <2>2. epoch[n].idx <= Latest(ledger)
    BY <1>2, <2>1
  <2>3. IsPrefixOf(HeadAt(ledger, epoch[n].idx), HeadAt(ledger, Latest(ledger)))
    BY <1>2, <2>1, <2>2 DEF OneChain
  <2> QED BY <2>1, <2>3 DEF IsPrefixOf
<1>5. \E most \in Nat : \A n \in Members : Len(head[n]) <= most
  BY <1>3, <1>4
<1>6. \A m, n \in Members : IsPrefixOf(head[m], head[n]) \/ IsPrefixOf(head[n], head[m])
  BY HeadsAreOneChain
<1> QED BY <1>1, <1>5, <1>6 DEF HeadsOK, TypeOK

\* A step moves no head, or one by a block.
LEMMA OneHeadMoves ==
  ASSUME OneLedger, Next
  PROVE  \/ head' = head
         \/ \E n, w \in Members : head' = [head EXCEPT ![n] = Append(head[n], w)]
<1>1. PICK ledger : TypeOK /\ Kept(ledger)
  BY DEF OneLedger
<1>2. PICK n \in Members : Step(n) \/ Crash(n)
  BY DEF Next
<1>3. head' = head \/ BlockChecked(n)
  BY <1>2 DEF Step, Crash, TimeOut, Produce, DeclareEmpty, Handle, HandleNewBlock,
              HandleEmptySlot, blocks
<1>4. CASE BlockChecked(n)
  <2>1. PICK b \in checking[n] : head' = head \/ head' = [head EXCEPT ![n] = b]
    BY <1>4 DEF BlockChecked
  <2>2. /\ epoch[n].idx \in 0..Latest(ledger) /\ head[n] = HeadAt(ledger, epoch[n].idx)
        /\ LedgerOK(ledger)
        /\ Pending(ledger, n, epoch[n].idx, onTheWay[n], cache[n], checking[n], waitingForOwn[n])
    BY <1>1, <1>4, Stands DEF Kept, AllPending, BlockChecked
  <2>3. b = BlockOf(ledger, epoch[n].idx)
    BY <2>1, <2>2 DEF Pending
  <2>4. Owner(ledger, epoch[n].idx) \in Members
    BY <2>2, SlotTypes
  <2>5. b = Append(head[n], Owner(ledger, epoch[n].idx))
    BY <2>2, <2>3 DEF BlockOf
  <2> QED BY <2>1, <2>4, <2>5
<1> QED BY <1>3, <1>4

\* A head that grows by a block is one that follows the chain or makes it longer.
LEMMA GrowthIsShared ==
  ASSUME HeadsOK(head), HeadsOK(head'),
         NEW n \in Members, NEW w \in Members, head' = [head EXCEPT ![n] = Append(head[n], w)]
  PROVE  Shared!Follow(n) \/ Shared!Extend(n)
<1> DEFINE h == LongestOf(head)
           next == LongestOf(head')
<1>1. /\ head \in [Members -> Seq(Members)]
      /\ \A m \in Members : Len(head[m]) \in Nat /\ Len(head[m]) <= Len(h)
      /\ \A m \in Members : Len(head[m]) = Len(h) => head[m] = h
  BY LongestIsHead, LenProperties DEF HeadsOK
<1>2. PICK l \in Members : h = head[l]
  BY LongestIsHead
<1>3. /\ \A m \in Members : Len(head'[m]) <= Len(next)
      /\ \A m \in Members : Len(head'[m]) = Len(next) => head'[m] = next
  BY LongestIsHead
<1>4. PICK k \in Members : next = head'[k]
  BY LongestIsHead
<1>5. /\ head'[n] = Append(head[n], w) /\ Len(head'[n]) = Len(head[n]) + 1
      /\ \A m \in Members \ {n} : head'[m] = head[m]
  BY <1>1
<1> HIDE DEF h, next
<1>6. Longest = h /\ Longest' = next
  BY DEF Longest, LongestOf, h, next
<1>7. Shared!Commit(n, w)
  BY DEF Shared!Commit
<1>8. CASE Len(head[n]) < Len(h)
  <2>1. l # n /\ head'[l] = h
    BY <1>2, <1>5, <1>8
  <2>2. Len(next) = Len(h)
    <3>1. Len(h) <= Len(next)
      BY <1>3, <2>1
    <3>2. Len(next) <= Len(h)
      <4>1. CASE k = n
        BY <1>1, <1>2, <1>4, <1>5, <1>8, <4>1
      <4>2. CASE k # n
        BY <1>1, <1>4, <1>5, <4>2
      <4> QED BY <4>1, <4>2
    <3>3. Len(next) \in Nat /\ Len(h) \in Nat
      BY <1>1, <1>2, <1>4, <1>5
    <3> QED BY <3>1, <3>2, <3>3
  <2>3. next = h
    BY <1>3, <2>1, <2>2
  <2>4. w = h[Len(head[n]) + 1]
    <3> DEFINE i == Len(head[n]) + 1
    <3>1. head'[n][i] = w
      BY <1>1, <1>5, AppendProperties
    <3>2. i = Len(head'[n]) /\ i \in Nat /\ i >= 1 /\ i <= Len(h) /\ Len(h) \in Nat
      BY <1>1, <1>2, <1>5, <1>8
    <3>3. IsPrefixOf(head'[n], h) \/ IsPrefixOf(h, head'[n])
      BY <2>1 DEF HeadsOK
    <3> HIDE DEF i
    <3>4. i \in 1..Len(h) /\ i \in 1..Len(head'[n])
      BY <3>2
    <3>5. h[i] = head'[n][i]
      BY <3>3, <3>4 DEF IsPrefixOf
    <3> QED BY <3>1, <3>5 DEF i
  <2>5. Len(head[n]) < Len(Longest) /\ UNCHANGED Longest /\ w = Longest[Len(head[n]) + 1]
    BY <1>6, <1>8, <2>3, <2>4
  <2> QED BY <1>7, <2>5 DEF Shared!Follow
<1>9. CASE Len(head[n]) = Len(h)
  <2>1. head[n] = h
    BY <1>1, <1>9
  <2>2. k = n
    <3>1. SUFFICES ASSUME k # n PROVE FALSE
      OBVIOUS
    <3>2. Len(next) <= Len(h)
      BY <1>1, <1>4, <1>5, <3>1
    <3>3. Len(h) + 1 <= Len(next)
      BY <1>3, <1>5, <1>9
    <3>4. Len(next) \in Nat /\ Len(h) \in Nat
      BY <1>1, <1>2, <1>4, <1>5
    <3> QED BY <3>2, <3>3, <3>4
  <2>3. head[n] = Longest /\ Longest' = Append(Longest, w)
    BY <1>4, <1>5, <1>6, <1>9, <2>1, <2>2
  <2> QED BY <1>7, <2>3 DEF Shared!Extend
<1>10. Len(head[n]) < Len(h) \/ Len(head[n]) = Len(h)
  BY <1>1, <1>2
<1> QED BY <1>8, <1>9, <1>10

\* Before the first block all heads are the last block before the epoch.
LEMMA BeginsTogether == ASSUME HeadsOK(head), Init PROVE Shared!Init
<1>1. head = [n \in Members |-> Root]
  BY DEF Init
<1>2. PICK n \in Members : LongestOf(head) = head[n]
  BY LongestIsHead
<1>3. Longest = <<>>
  BY <1>1, <1>2 DEF Longest, LongestOf, Root
<1> QED BY <1>1, <1>3 DEF Shared!Init, Root

\* In a network that keeps up, the engines have one chain: a commit is the block
\* that the others have next or have next to make, and no node goes back.
\* handle_missed_slot, _handle_empty_slot and _handle_committed_block each move
\* the schedule of one node alone.
THEOREM NetworkIsOneChain ==
  ASSUME HashIsNumber, KeepsUp PROVE Spec => ImplementsSharedChain
<1>1. Init => Shared!Init
  BY LedgerBegins, LedgerHeads, BeginsTogether
<1>2. OneLedger /\ OneLedger' /\ [Next]_vars => [Shared!Next]_(Shared!chainVars)
  <2> SUFFICES ASSUME OneLedger, OneLedger', [Next]_vars
               PROVE  Shared!Next \/ UNCHANGED Shared!chainVars
    OBVIOUS
  <2>1. HeadsOK(head) /\ HeadsOK(head')
    <3>1. (OneLedger => HeadsOK(head))'
      BY LedgerHeads, PTL
    <3> QED BY <3>1, LedgerHeads
  <2>2. CASE head' = head
    BY <2>2 DEF Shared!chainVars, Longest
  <2>3. CASE head' # head
    <3>1. PICK n, w \in Members : head' = [head EXCEPT ![n] = Append(head[n], w)]
      BY <2>3, OneHeadMoves DEF vars, blocks
    <3>2. Shared!Follow(n) \/ Shared!Extend(n)
      BY <2>1, <3>1, GrowthIsShared
    <3> QED BY <3>2 DEF Shared!Next
  <2> QED BY <2>2, <2>3
<1> QED BY <1>1, <1>2, NetworkInvariant, PTL DEF Spec, ImplementsSharedChain, Shared!Spec

=============================================================================
