------------------------ MODULE EpochScheduleProofs ------------------------
(***************************************************************************)
(* The invariants of a node's schedule, for every number of members, slots *)
(* and rounds and for every bound on epochs and slots.                     *)
(***************************************************************************)
EXTENDS EpochSchedule, EpochProofs

\* Before the first epoch a schedule is empty; from then on every member has
\* one place in it.
Sound(ep) == ep \in EpochState /\ (HasWitnesses(ep) => Placed(ep))

\* RoundRobin for all the positions that are still to come in this round.
Unserved ==
  HasWitnesses(epoch) /\ ~skewed =>
    \A j \in 1..NumSlots : j > epoch.idx % NumSlots => epoch.witnesses[j] \notin served

Inv ==
  /\ TypeOK
  /\ Sound(epoch)
  /\ Unserved
  /\ NeverWaitsWithResult
  /\ StateMatchesSchedule

---------------------------------------------------------------------------

\* A new epoch has slots to serve.
LEMMA NewEpochNotOver ==
  ASSUME NEW number \in Nat, NEW list \in Rankings
  PROVE  LET ep == SetCandidatesAndWitnesses(NewEpoch(number), list) IN
         /\ Sound(ep)
         /\ ep.number = number
         /\ ep.idx = 0
         /\ HasWitnesses(ep)
         /\ ~IsOver(ep)
<1> DEFINE ep == SetCandidatesAndWitnesses(NewEpoch(number), list)
<1>1. Placed(ep) /\ ep \in EpochState /\ ep.number = number /\ ep.idx = 0
  BY NewEpochPlaced
<1> HIDE DEF ep
<1>2. Len(ep.witnesses) = NumSlots /\ HasWitnesses(ep)
  BY <1>1, PlacedSizes
<1>3. NumSlots * RoundsPerEpoch >= 1
  <2>1. \A a, b \in Nat \ {0} : a * b >= 1
    OBVIOUS
  <2> QED BY <2>1, EpochAssumption
<1>4. ~IsOver(ep)
  BY <1>1, <1>2, <1>3, EpochAssumption DEF IsOver
<1> QED BY <1>1, <1>2, <1>4 DEF Sound, ep

\* An epoch without witnesses is over, and has nobody to downgrade.
LEMMA EmptyIsOver ==
  ASSUME NEW ep \in EpochState, ~HasWitnesses(ep)
  PROVE  IsOver(ep) /\ CurrentWitness(ep) = NoKey /\ \A key : ~IsWitness(ep, key)
<1>1. ep.witnesses = <<>> /\ ep.idx \in Nat
  BY DEF HasWitnesses, EpochState
<1>2. Len(ep.witnesses) * RoundsPerEpoch = 0
  BY <1>1, EpochAssumption
<1>3. \A key : ~IsWitness(ep, key)
  BY <1>1 DEF IsWitness, Range
<1> QED BY <1>1, <1>2, <1>3 DEF IsOver, CurrentWitness

\* The owner of the running slot is a member, at the position of the index.
LEMMA CurrentIsMember ==
  ASSUME NEW ep, Sound(ep), HasWitnesses(ep)
  PROVE  /\ ep.idx % NumSlots \in 0..(NumSlots - 1)
         /\ CurrentWitness(ep) = ep.witnesses[1 + (ep.idx % NumSlots)]
         /\ CurrentWitness(ep) \in Members
<1>1. /\ Len(ep.witnesses) = NumSlots
      /\ ep.witnesses \in [1..NumSlots -> Members]
      /\ ep.idx \in Nat
      /\ NumSlots \in Nat \ {0}
  BY PlacedSizes, EpochAssumption DEF Sound, Placed, EpochState
<1>2. ep.idx % NumSlots \in 0..(NumSlots - 1)
  BY <1>1, ModSucc
<1>3. 1 + (ep.idx % NumSlots) \in 1..NumSlots
  BY <1>1, <1>2
<1> QED BY <1>1, <1>2, <1>3 DEF CurrentWitness, WitnessOfSlot

\* What next_slot does: the index moves, and then the epoch goes on, or it ends
\* without a result for the next one, or it ends and the next one begins.
LEMMA NextSlotCases ==
  ASSUME NEW ep, Sound(ep), NEW st, NEW seed, NextSlot(ep, st, seed)
  PROVE  \E moved :
    /\ Sound(moved)
    /\ moved.number = ep.number
    /\ moved.idx = ep.idx + 1
    /\ HasWitnesses(moved) <=> HasWitnesses(ep)
    /\ moved.idx % NumSlots # 0 => moved.witnesses = ep.witnesses
    /\ Len(moved.witnesses) = Len(ep.witnesses)
    /\ \/ /\ HasWitnesses(ep) => ~IsOver(moved)
          /\ epoch' = moved
          /\ state' = st
          /\ elected' = elected
       \/ /\ HasWitnesses(ep) /\ IsOver(moved)
          /\ NextEpochNumber(ep) \notin DOMAIN elected
          /\ epoch' = moved
          /\ state' = UnlessCatchingUp(st, "IDLE")
          /\ elected' = Restrict(elected, DOMAIN elected \ {ep.number - 2})
       \/ /\ HasWitnesses(ep) /\ IsOver(moved)
          /\ NextEpochNumber(ep) \in DOMAIN elected
          /\ epoch' = SetCandidatesAndWitnesses(NewEpoch(NextEpochNumber(ep)),
                                                elected[NextEpochNumber(ep)])
          /\ state' = UnlessCatchingUp(UnlessCatchingUp(st, "IDLE"), "PRODUCTION")
          /\ elected' = Restrict(elected, DOMAIN elected \ {ep.number - 2})
<1>1. PICK moved \in IncrementWitness(ep, seed) :
        IF HasWitnesses(ep) /\ IsOver(moved)
        THEN EpochEnds(moved, st)
        ELSE epoch' = moved /\ state' = st /\ UNCHANGED elected
  BY DEF NextSlot
<1>2. /\ Sound(moved)
      /\ moved.number = ep.number
      /\ moved.idx = ep.idx + 1
      /\ HasWitnesses(moved) <=> HasWitnesses(ep)
      /\ moved.idx % NumSlots # 0 => moved.witnesses = ep.witnesses
      /\ Len(moved.witnesses) = Len(ep.witnesses)
  <2>1. CASE HasWitnesses(ep)
    <3>1. /\ Placed(moved) /\ moved \in EpochState
          /\ moved.number = ep.number /\ moved.idx = ep.idx + 1
          /\ moved.idx % NumSlots # 0 => moved.witnesses = ep.witnesses
      BY <1>1, <2>1, IncrementPlaced DEF Sound
    <3> QED BY <2>1, <3>1, PlacedSizes DEF Sound
  <2>2. CASE ~HasWitnesses(ep)
    BY <1>1, <2>2 DEF IncrementWitness, HasWitnesses, Sound, EpochState
  <2> QED BY <2>1, <2>2
<1>3. CASE ~(HasWitnesses(ep) /\ IsOver(moved))
  BY <1>1, <1>2, <1>3
<1>4. CASE HasWitnesses(ep) /\ IsOver(moved)
  <2>1. EpochEnds(moved, st) /\ NextEpochNumber(moved) = NextEpochNumber(ep)
    BY <1>1, <1>2, <1>4 DEF NextEpochNumber
  <2> QED BY <1>2, <1>4, <2>1 DEF EpochEnds, InitializeEpoch
<1> QED BY <1>3, <1>4

\* Whatever ends the slot, the invariant survives next_slot and its history, if
\* the schedule and the State it is called with are consistent and none of the
\* positions still to come has been served.
LEMMA SlotPreservesInv ==
  ASSUME Inv,
         NEW ep, Sound(ep), ep.number \in 0..MaxEpoch,
         NEW st \in States, NEW seed,
         NEW owner \in Members \cup {NoKey},
         NEW past \in SUBSET (Members \cup {NoKey}),
         NEW skew \in BOOLEAN,
         NextSlot(ep, st, seed), Record(owner, past, skew), voted' = voted,
         HasWitnesses(ep) \/ ( /\ NextEpochNumber(ep) \notin DOMAIN elected
                               /\ st # "PRODUCTION" ),
         st = "IDLE" => IsOver(ep),
         st = "ELECTION" => NextEpochNumber(ep) \in voted,
         HasWitnesses(ep) /\ ~skew =>
           \A j \in 1..NumSlots :
             j > 1 + (ep.idx % NumSlots) => ep.witnesses[j] \notin past \cup {owner}
  PROVE  Inv'
<1> DEFINE next == NextEpochNumber(ep)
           kept == Restrict(elected, DOMAIN elected \ {ep.number - 2})
           Shape(moved) ==
             /\ Sound(moved)
             /\ moved.number = ep.number
             /\ moved.idx = ep.idx + 1
             /\ HasWitnesses(moved) <=> HasWitnesses(ep)
             /\ moved.idx % NumSlots # 0 => moved.witnesses = ep.witnesses
             /\ Len(moved.witnesses) = Len(ep.witnesses)
           Stays(moved) ==
             /\ HasWitnesses(ep) => ~IsOver(moved)
             /\ epoch' = moved
             /\ state' = st
             /\ elected' = elected
           Ends(moved) ==
             /\ HasWitnesses(ep) /\ IsOver(moved)
             /\ next \notin DOMAIN elected
             /\ epoch' = moved
             /\ state' = UnlessCatchingUp(st, "IDLE")
             /\ elected' = kept
           Begins(moved) ==
             /\ HasWitnesses(ep) /\ IsOver(moved)
             /\ next \in DOMAIN elected
             /\ epoch' = SetCandidatesAndWitnesses(NewEpoch(next), elected[next])
             /\ state' = UnlessCatchingUp(UnlessCatchingUp(st, "IDLE"), "PRODUCTION")
             /\ elected' = kept
<1>1. PICK moved : Shape(moved) /\ (Stays(moved) \/ Ends(moved) \/ Begins(moved))
  BY NextSlotCases
<1>2. /\ ep \in EpochState /\ moved \in EpochState
      /\ ep.idx \in Nat /\ ep.number \in Nat /\ next = ep.number + 1
  BY <1>1 DEF Sound, EpochState, NextEpochNumber
<1>3. /\ epoch \in EpochState /\ state \in States /\ voted \subseteq Epochs
      /\ DOMAIN elected \subseteq Epochs
      /\ elected \in [DOMAIN elected -> Lists]
      /\ MaxEpoch \in Nat
  BY ScheduleAssumption DEF Inv, TypeOK
<1>4. Begins(moved) => /\ Sound(epoch') /\ epoch'.number = next /\ epoch'.idx = 0
                       /\ HasWitnesses(epoch') /\ ~IsOver(epoch')
                       /\ next \in 0..MaxEpoch
  <2>1. SUFFICES ASSUME Begins(moved)
                 PROVE  /\ Sound(epoch') /\ epoch'.number = next /\ epoch'.idx = 0
                        /\ HasWitnesses(epoch') /\ ~IsOver(epoch')
                        /\ next \in 0..MaxEpoch
    OBVIOUS
  <2>2. elected[next] \in Rankings /\ next \in Epochs
    BY <1>3, <2>1, ScheduleAssumption
  <2>3. next \in Nat /\ next \in 0..MaxEpoch
    BY <1>2, <1>3, <2>2 DEF Epochs
  <2> HIDE DEF next
  <2> QED BY <2>1, <2>2, <2>3, NewEpochNotOver
<1>5. IsOver(ep) => IsOver(moved)
  <2>1. Len(ep.witnesses) * RoundsPerEpoch \in Int
    BY <1>2, EpochAssumption DEF EpochState
  <2> QED BY <1>1, <1>2, <2>1 DEF IsOver
<1>6. /\ DOMAIN elected' \subseteq DOMAIN elected
      /\ elected' \in [DOMAIN elected' -> Lists]
  BY <1>1, <1>3 DEF Restrict
<1>7. TypeOK'
  <2>1. state' \in States
    BY <1>1 DEF UnlessCatchingUp, States
  <2>2. epoch' \in EpochState /\ epoch'.number \in 0..MaxEpoch
    BY <1>1, <1>2, <1>4 DEF Sound
  <2>3. served' \in SUBSET (Members \cup {NoKey}) /\ skewed' \in BOOLEAN
    BY DEF Record
  <2> QED BY <1>3, <1>6, <2>1, <2>2, <2>3 DEF TypeOK
<1>8. Sound(epoch)'
  <2>1. Sound(epoch')
    BY <1>1, <1>4
  <2> QED BY <2>1 DEF Sound, Placed, EpochState, HasWitnesses
<1>9. Unserved'
  <2>1. SUFFICES ASSUME HasWitnesses(epoch)', ~skewed',
                        NEW j \in 1..NumSlots, j > epoch'.idx % NumSlots
                 PROVE  epoch'.witnesses[j] \notin served'
    BY DEF Unserved
  <2>2. CASE epoch'.idx % NumSlots = 0
    BY <2>2 DEF Record
  <2>3. CASE epoch'.idx % NumSlots # 0
    <3>1. NumSlots \in Nat \ {0} /\ 0 % NumSlots = 0
      BY EpochAssumption
    <3>2. ~Begins(moved)
      BY <1>4, <2>3, <3>1
    <3>3. epoch' = moved
      BY <1>1, <3>2
    <3>4. /\ HasWitnesses(ep)
          /\ epoch'.witnesses = ep.witnesses
          /\ epoch'.idx % NumSlots = (ep.idx + 1) % NumSlots
      BY <1>1, <2>1, <2>3, <3>3 DEF HasWitnesses
    <3>5. epoch'.idx % NumSlots = (ep.idx % NumSlots) + 1
      BY <1>2, <2>3, <3>1, <3>4, ModSucc
    <3>6. served' = past \cup {owner} /\ ~skew
      BY <2>1, <2>3 DEF Record
    <3>7. ep.idx % NumSlots \in Nat
      BY <1>2, <3>1, ModSucc
    <3>8. j > 1 + (ep.idx % NumSlots)
      BY <2>1, <3>5, <3>7
    <3> QED BY <3>4, <3>6, <3>8
  <2> QED BY <2>2, <2>3
<1>10. NeverWaitsWithResult'
  <2>1. CASE Stays(moved) /\ HasWitnesses(ep)
    BY <2>1 DEF NeverWaitsWithResult, IsOver
  <2>2. CASE Stays(moved) /\ ~HasWitnesses(ep)
    BY <1>1, <2>2 DEF NeverWaitsWithResult, NextEpochNumber
  <2>3. CASE Ends(moved)
    BY <1>1, <1>6, <2>3 DEF NeverWaitsWithResult, NextEpochNumber
  <2>4. CASE Begins(moved)
    BY <1>4, <2>4 DEF NeverWaitsWithResult, IsOver
  <2> QED BY <1>1, <2>1, <2>2, <2>3, <2>4
<1>11. StateMatchesSchedule'
  <2>1. CASE Stays(moved)
    <3>1. state' = "IDLE" => IsOver(moved)
      BY <1>5, <2>1
    <3>2. state' = "PRODUCTION" => ~IsOver(moved)
      BY <2>1
    <3>3. state' = "ELECTION" => NextEpochNumber(moved) \in voted'
      BY <1>1, <2>1 DEF NextEpochNumber
    <3> QED BY <2>1, <3>1, <3>2, <3>3 DEF StateMatchesSchedule, IsOver, NextEpochNumber
  <2>2. CASE Ends(moved)
    BY <2>2 DEF StateMatchesSchedule, IsOver, UnlessCatchingUp
  <2>3. CASE Begins(moved)
    BY <1>4, <2>3 DEF StateMatchesSchedule, IsOver, UnlessCatchingUp
  <2> QED BY <1>1, <2>1, <2>2, <2>3
<1> QED BY <1>7, <1>8, <1>9, <1>10, <1>11 DEF Inv

\* A downgrade keeps the number and the index of the epoch, and changes no
\* position of the list but the one of the downgraded key.
LEMMA DowngradeSound ==
  ASSUME NEW ep, Sound(ep), NEW key \in Members
  PROVE  LET down == DowngradeWitness(ep, key) IN
         /\ Sound(down)
         /\ down.number = ep.number
         /\ down.idx = ep.idx
         /\ HasWitnesses(down) <=> HasWitnesses(ep)
         /\ IsOver(down) <=> IsOver(ep)
         /\ HasWitnesses(ep) =>
              \A i \in 1..NumSlots :
                ep.witnesses[i] # key => down.witnesses[i] = ep.witnesses[i]
<1> DEFINE down == DowngradeWitness(ep, key)
<1>1. CASE HasWitnesses(ep)
  <2>1. /\ Placed(ep) /\ ep \in EpochState
    BY <1>1 DEF Sound
  <2>2. /\ Placed(down) /\ down \in EpochState
        /\ down.number = ep.number /\ down.idx = ep.idx
        /\ \A i \in 1..NumSlots :
             ep.witnesses[i] # key => down.witnesses[i] = ep.witnesses[i]
    BY <2>1, DowngradePlaced
  <2> HIDE DEF down
  <2>3. Len(down.witnesses) = Len(ep.witnesses) /\ HasWitnesses(down)
    BY <2>1, <2>2, PlacedSizes
  <2> QED BY <1>1, <2>2, <2>3 DEF Sound, IsOver, down
<1>2. CASE ~HasWitnesses(ep)
  <2>1. down = ep
    BY <1>2, EmptyIsOver DEF DowngradeWitness, Sound
  <2> QED BY <1>2, <2>1
<1> QED BY <1>1, <1>2

\* The initial schedule satisfies the invariant, and so does a restarted one.
LEMMA EmptySchedule ==
  /\ NewEpoch(0) \in EpochState
  /\ NewEpoch(0).number = 0
  /\ ~HasWitnesses(NewEpoch(0))
  /\ IsOver(NewEpoch(0))
  /\ Sound(NewEpoch(0))
  /\ 0 \in 0..MaxEpoch
  /\ <<>> \in [DOMAIN <<>> -> Lists]
  /\ DOMAIN <<>> = {}
<1>1. /\ NewEpoch(0) \in EpochState
      /\ NewEpoch(0).number = 0
      /\ ~HasWitnesses(NewEpoch(0))
  BY DEF NewEpoch, EpochState, HasWitnesses
<1>2. 0 \in 0..MaxEpoch
  BY ScheduleAssumption
<1>3. <<>> \in [DOMAIN <<>> -> Lists] /\ DOMAIN <<>> = {}
  OBVIOUS
<1> QED BY <1>1, <1>2, <1>3, EmptyIsOver DEF Sound

\* There is no list before the first result.
LEMMA InitInv == Init => Inv
<1>1. SUFFICES ASSUME Init PROVE Inv
  OBVIOUS
<1>2. TypeOK
  BY <1>1, EmptySchedule DEF Init, TypeOK, States
<1>3. NeverWaitsWithResult /\ StateMatchesSchedule /\ Unserved /\ Sound(epoch)
  BY <1>1, EmptySchedule DEF Init, NeverWaitsWithResult, StateMatchesSchedule, Unserved
<1> QED BY <1>2, <1>3 DEF Inv

---------------------------------------------------------------------------
(* One lemma per event *)

\* vote changes the state only.
LEMMA VoteInv == Inv /\ Vote => Inv'
<1>1. SUFFICES ASSUME Inv, Vote PROVE Inv'
  OBVIOUS
<1>2. TypeOK'
  BY <1>1 DEF Inv, TypeOK, Vote, States
<1>3. StateMatchesSchedule'
  BY <1>1 DEF Vote, StateMatchesSchedule, NextEpochNumber
<1>4. Sound(epoch)' /\ Unserved' /\ NeverWaitsWithResult'
  BY <1>1 DEF Inv, Vote, Sound, Placed, EpochState, HasWitnesses, Unserved,
              NeverWaitsWithResult, IsOver, NextEpochNumber
<1> QED BY <1>2, <1>3, <1>4 DEF Inv

\* So does the beginning of a catch-up.
LEMMA BeginCatchUpInv == Inv /\ BeginCatchUp => Inv'
<1>1. SUFFICES ASSUME Inv, BeginCatchUp PROVE Inv'
  OBVIOUS
<1>2. TypeOK'
  BY <1>1 DEF Inv, TypeOK, BeginCatchUp, States
<1>3. StateMatchesSchedule'
  BY <1>1 DEF BeginCatchUp, StateMatchesSchedule
<1>4. Sound(epoch)' /\ Unserved' /\ NeverWaitsWithResult'
  BY <1>1 DEF Inv, BeginCatchUp, Sound, Placed, EpochState, HasWitnesses, Unserved,
              NeverWaitsWithResult, IsOver, NextEpochNumber
<1> QED BY <1>2, <1>3, <1>4 DEF Inv

\* A restart forgets all.
LEMMA RestartInv == Inv /\ Restart => Inv'
<1>1. SUFFICES ASSUME Restart PROVE Inv'
  OBVIOUS
<1>2. TypeOK'
  BY <1>1, EmptySchedule DEF Restart, TypeOK, States
<1>3. epoch' = NewEpoch(0) /\ elected' = <<>> /\ state' = "WAITING_FOR_BOOTSTRAP"
  BY <1>1 DEF Restart
<1>4. Sound(epoch)'
  BY <1>3, EmptySchedule DEF Sound, Placed, EpochState, HasWitnesses
<1>5. Unserved' /\ NeverWaitsWithResult' /\ StateMatchesSchedule'
  BY <1>3, EmptySchedule
     DEF Unserved, NeverWaitsWithResult, StateMatchesSchedule, HasWitnesses
<1> QED BY <1>2, <1>4, <1>5 DEF Inv

\* handle_vote_result: the list is kept for later or begins an epoch.
LEMMA AcceptResultInv == ASSUME NEW list \in Lists PROVE Inv /\ AcceptResult(list) => Inv'
<1> DEFINE next == NextEpochNumber(epoch)
<1>1. SUFFICES ASSUME Inv, AcceptResult(list) PROVE Inv'
  OBVIOUS
<1>2. /\ epoch \in EpochState /\ epoch.number \in Nat /\ next = epoch.number + 1
      /\ next \in Epochs /\ next \in 0..MaxEpoch /\ next \in Nat
      /\ list \in Rankings
  BY <1>1, ScheduleAssumption
     DEF Inv, TypeOK, EpochState, AcceptResult, NextEpochNumber, Epochs
<1>3. /\ DOMAIN elected' = DOMAIN elected \cup {next}
      /\ DOMAIN elected' \subseteq Epochs
      /\ elected' \in [DOMAIN elected' -> Lists]
      /\ voted' = voted
  BY <1>1, <1>2 DEF Inv, TypeOK, AcceptResult
<1>4. CASE IsOver(epoch)
  <2>1. /\ epoch' = SetCandidatesAndWitnesses(NewEpoch(next), list)
        /\ state' = UnlessCatchingUp(state, "PRODUCTION")
        /\ served' = {} /\ skewed' = FALSE
    BY <1>1, <1>4 DEF AcceptResult, InitializeEpoch
  <2> HIDE DEF next
  <2>2. /\ Sound(epoch') /\ epoch'.number = next /\ HasWitnesses(epoch') /\ ~IsOver(epoch')
    BY <1>2, <2>1, NewEpochNotOver
  <2>3. TypeOK'
    BY <1>1, <1>2, <1>3, <2>1, <2>2
       DEF Inv, TypeOK, Sound, UnlessCatchingUp, States
  <2>4. Sound(epoch)'
    BY <2>2 DEF Sound, Placed, EpochState, HasWitnesses
  <2>5. Unserved' /\ NeverWaitsWithResult' /\ StateMatchesSchedule'
    BY <2>1, <2>2 DEF Unserved, NeverWaitsWithResult, StateMatchesSchedule, IsOver,
                      UnlessCatchingUp
  <2> QED BY <2>3, <2>4, <2>5 DEF Inv
<1>5. CASE ~IsOver(epoch)
  <2>1. UNCHANGED <<epoch, state, served, skewed>>
    BY <1>1, <1>5 DEF AcceptResult
  <2>2. TypeOK'
    BY <1>1, <1>3, <2>1 DEF Inv, TypeOK
  <2>3. Sound(epoch)' /\ Unserved'
    BY <1>1, <2>1 DEF Inv, Sound, Placed, EpochState, HasWitnesses, Unserved
  <2>4. NeverWaitsWithResult' /\ StateMatchesSchedule'
    BY <1>1, <1>3, <1>5, <2>1
       DEF Inv, NeverWaitsWithResult, StateMatchesSchedule, IsOver, NextEpochNumber
  <2> QED BY <2>2, <2>3, <2>4 DEF Inv
<1> QED BY <1>4, <1>5

\* A slot of the node's own schedule that ends after a downgrade of key: the
\* current witness, or, in a skewed round, anybody.
LEMMA OwnSlotInv ==
  ASSUME Inv, NEW ep, NEW seed, NEW skew \in BOOLEAN,
         \/ ep = epoch
         \/ \E key \in Members : /\ ep = DowngradeWitness(epoch, key)
                                 /\ key = CurrentWitness(epoch) \/ skew,
         skewed => skew,
         NextSlot(ep, state, seed), Record(CurrentWitness(epoch), served, skew),
         voted' = voted
  PROVE  Inv'
<1>1. /\ Sound(epoch) /\ epoch \in EpochState /\ epoch.number \in 0..MaxEpoch
      /\ state \in States /\ served \in SUBSET (Members \cup {NoKey})
  BY DEF Inv, TypeOK
<1>2. /\ Sound(ep)
      /\ ep.number = epoch.number
      /\ ep.idx = epoch.idx
      /\ HasWitnesses(ep) <=> HasWitnesses(epoch)
      /\ IsOver(ep) <=> IsOver(epoch)
  BY <1>1, DowngradeSound
<1>3. CurrentWitness(epoch) \in Members \cup {NoKey}
  BY <1>1, CurrentIsMember, EmptyIsOver
<1>4. HasWitnesses(ep) \/ ( /\ NextEpochNumber(ep) \notin DOMAIN elected
                            /\ state # "PRODUCTION" )
  BY <1>1, <1>2, EmptyIsOver DEF Inv, NeverWaitsWithResult, StateMatchesSchedule, NextEpochNumber
<1>5. /\ state = "IDLE" => IsOver(ep)
      /\ state = "ELECTION" => NextEpochNumber(ep) \in voted
  BY <1>2 DEF Inv, StateMatchesSchedule, NextEpochNumber
<1>6. HasWitnesses(ep) /\ ~skew =>
        \A j \in 1..NumSlots : j > 1 + (ep.idx % NumSlots) =>
          ep.witnesses[j] \notin served \cup {CurrentWitness(epoch)}
  <2>1. SUFFICES ASSUME HasWitnesses(ep), ~skew,
                        NEW j \in 1..NumSlots, j > 1 + (ep.idx % NumSlots)
                 PROVE  ep.witnesses[j] \notin served \cup {CurrentWitness(epoch)}
    OBVIOUS
  <2>2. /\ epoch.idx % NumSlots \in 0..(NumSlots - 1)
        /\ CurrentWitness(epoch) = epoch.witnesses[1 + (epoch.idx % NumSlots)]
        /\ NumSlots \in Nat
    BY <1>1, <1>2, <2>1, CurrentIsMember, EpochAssumption
  <2>3. /\ 1 + (epoch.idx % NumSlots) \in 1..NumSlots
        /\ j > epoch.idx % NumSlots
        /\ j # 1 + (epoch.idx % NumSlots)
    BY <1>2, <2>1, <2>2
  <2>4. epoch.witnesses[j] \notin served
    BY <1>2, <2>1, <2>3 DEF Inv, Unserved
  <2>5. epoch.witnesses[j] # CurrentWitness(epoch)
    BY <1>1, <1>2, <2>1, <2>2, <2>3 DEF Sound, Placed
  <2>6. ep.witnesses[j] = epoch.witnesses[j]
    BY <1>1, <1>2, <2>1, <2>5, DowngradeSound
  <2> QED BY <2>4, <2>5, <2>6
<1> QED BY <1>1, <1>2, <1>3, <1>4, <1>5, <1>6, SlotPreservesInv

\* _next_slot after a block or an EMPTY_SLOT.
LEMMA EndSlotInv == ASSUME NEW seed \in Seeds PROVE Inv /\ EndSlot(seed) => Inv'
<1>1. SUFFICES ASSUME Inv, EndSlot(seed) PROVE Inv'
  OBVIOUS
<1>2. skewed \in BOOLEAN
  BY <1>1 DEF Inv, TypeOK
<1> QED BY <1>1, <1>2, OwnSlotInv DEF EndSlot

\* handle_missed_slot: a downgrade, then the next slot.
LEMMA MissSlotInv == ASSUME NEW seed \in Seeds PROVE Inv /\ MissSlot(seed) => Inv'
<1>1. SUFFICES ASSUME Inv, MissSlot(seed) PROVE Inv'
  OBVIOUS
<1>2. skewed \in BOOLEAN /\ CurrentWitness(epoch) \in Members
  BY <1>1, CurrentIsMember DEF Inv, TypeOK, MissSlot
<1> QED BY <1>1, <1>2, OwnSlotInv DEF MissSlot

\* _handle_invalid_block: the signer is downgraded if it is a witness.
LEMMA RejectBlockInv ==
  ASSUME NEW key \in Members, NEW seed \in Seeds
  PROVE  Inv /\ RejectBlock(key, seed) => Inv'
<1>1. SUFFICES ASSUME Inv, RejectBlock(key, seed) PROVE Inv'
  OBVIOUS
<1>2. DEFINE skew == skewed \/ key # CurrentWitness(epoch)
<1>3. skew \in BOOLEAN /\ (key = CurrentWitness(epoch) \/ skew) /\ (skewed => skew)
  BY <1>1 DEF Inv, TypeOK
<1>4. /\ NextSlot(DowngradeWitness(epoch, key), state, seed)
      /\ Record(CurrentWitness(epoch), served, skew)
      /\ voted' = voted
  BY <1>1 DEF RejectBlock
<1> HIDE DEF skew
<1> QED BY <1>1, <1>3, <1>4, OwnSlotInv

\* bootstrap: the schedule is taken from a block.
LEMMA FinishCatchUpInv ==
  ASSUME NEW number \in Epochs, NEW idx \in 0..MaxIdx, NEW list \in Lists, NEW seed \in Seeds
  PROVE  Inv /\ FinishCatchUp(number, idx, list, seed) => Inv'
<1> DEFINE new == SetCandidatesAndWitnesses(NewEpoch(number), list)
           told == [new EXCEPT !.idx = idx]
<1>1. SUFFICES ASSUME Inv, FinishCatchUp(number, idx, list, seed) PROVE Inv'
  OBVIOUS
<1>2. number \in Nat /\ number \in 0..MaxEpoch /\ list \in Rankings /\ idx \in Nat
  BY ScheduleAssumption DEF Epochs
<1>3. /\ Placed(new) /\ new \in EpochState /\ new.number = number /\ HasWitnesses(new)
  BY <1>2, NewEpochPlaced, NewEpochNotOver
<1>4. /\ NextSlot(told, "PRODUCTION", seed)
      /\ Record(CurrentWitness(told), {}, FALSE)
      /\ voted' = voted
  BY <1>1 DEF FinishCatchUp
<1> HIDE DEF new
<1>5. /\ told \in EpochState /\ told.number = number /\ told.idx = idx
      /\ told.witnesses = new.witnesses /\ told.candidates = new.candidates
  BY <1>2, <1>3 DEF EpochState
<1>6. Sound(told) /\ HasWitnesses(told)
  BY <1>3, <1>5 DEF Sound, Placed, HasWitnesses
<1> HIDE DEF told
<1>7. /\ CurrentWitness(told) = told.witnesses[1 + (told.idx % NumSlots)]
      /\ CurrentWitness(told) \in Members
      /\ told.idx % NumSlots \in 0..(NumSlots - 1)
      /\ NumSlots \in Nat
  BY <1>6, CurrentIsMember, EpochAssumption
<1>8. \A j \in 1..NumSlots : j > 1 + (told.idx % NumSlots) =>
        told.witnesses[j] \notin {} \cup {CurrentWitness(told)}
  BY <1>6, <1>7 DEF Sound, Placed
<1>9. told.number \in 0..MaxEpoch /\ "PRODUCTION" \in States
      /\ {} \in SUBSET (Members \cup {NoKey}) /\ FALSE \in BOOLEAN
  BY <1>2, <1>5 DEF States
<1> QED BY <1>1, <1>4, <1>6, <1>7, <1>8, <1>9, SlotPreservesInv

---------------------------------------------------------------------------
(* The theorems *)

\* The invariant is inductive.
LEMMA NextInv == Inv /\ [Next]_vars => Inv'
<1>1. ASSUME Inv, UNCHANGED vars PROVE Inv'
  <2>1. TypeOK'
    BY <1>1 DEF Inv, TypeOK, vars
  <2>2. Sound(epoch)' /\ Unserved'
    BY <1>1 DEF Inv, vars, Sound, Placed, EpochState, HasWitnesses, Unserved
  <2>3. NeverWaitsWithResult' /\ StateMatchesSchedule'
    BY <1>1 DEF Inv, vars, NeverWaitsWithResult, StateMatchesSchedule, IsOver, NextEpochNumber
  <2> QED BY <2>1, <2>2, <2>3 DEF Inv
<1>2. ASSUME Inv, Next PROVE Inv'
  BY <1>2, VoteInv, AcceptResultInv, EndSlotInv, MissSlotInv, RejectBlockInv,
     BeginCatchUpInv, FinishCatchUpInv, RestartInv DEF Next
<1> QED BY <1>1, <1>2

\* The inductive invariant holds in every reachable state.
THEOREM ScheduleInvariant == Spec => []Inv
<1>1. Init => Inv
  BY InitInv
<1>2. Inv /\ [Next]_vars => Inv'
  BY NextInv
<1> QED BY <1>1, <1>2, PTL DEF Spec

\* Every variable keeps its type, the epoch and slot bounds included.
THEOREM TypeCorrect == Spec => []TypeOK
<1>1. Inv => TypeOK
  BY DEF Inv
<1> QED BY <1>1, ScheduleInvariant, PTL

\* Every member stays in exactly one place of the witness list or the candidate
\* queue through downgrades and reorderings of any number of members.
THEOREM MembersAreConserved == Spec => []MembersConserved
<1>1. Inv => MembersConserved
  BY PlacedSizes, PlacedIsRanking DEF Inv, MembersConserved, Sound
<1> QED BY <1>1, ScheduleInvariant, PTL

\* The engine's thread never waits in downgrade_witness for a candidate.
THEOREM DowngradesNeverBlock == Spec => []DowngradeNeverBlocks
<1>1. Inv => DowngradeNeverBlocks
  <2>1. ASSUME Inv, NEW key \in Members PROVE ~DowngradeBlocks(epoch, key)
    <3>1. CASE HasWitnesses(epoch)
      BY <2>1, <3>1, PlacedSizes DEF Inv, Sound, DowngradeBlocks
    <3>2. CASE ~HasWitnesses(epoch)
      BY <2>1, <3>2, EmptyIsOver DEF Inv, Sound, DowngradeBlocks
    <3> QED BY <3>1, <3>2
  <2> QED BY <2>1 DEF DowngradeNeverBlocks
<1> QED BY <1>1, ScheduleInvariant, PTL

\* Within a round no member is given a second slot, unless a witness was
\* replaced ahead of its turn by an invalid block.
THEOREM RoundsAreRoundRobin == Spec => []RoundRobin
<1>1. Inv => RoundRobin
  <2>1. SUFFICES ASSUME Inv, HasWitnesses(epoch), ~skewed
                 PROVE  CurrentWitness(epoch) \notin served
    BY DEF RoundRobin
  <2>2. /\ epoch.idx % NumSlots \in 0..(NumSlots - 1)
        /\ CurrentWitness(epoch) = epoch.witnesses[1 + (epoch.idx % NumSlots)]
        /\ NumSlots \in Nat
    BY <2>1, CurrentIsMember, EpochAssumption DEF Inv
  <2>3. /\ 1 + (epoch.idx % NumSlots) \in 1..NumSlots
        /\ 1 + (epoch.idx % NumSlots) > epoch.idx % NumSlots
    BY <2>2
  <2> QED BY <2>1, <2>2, <2>3 DEF Inv, Unserved
<1> QED BY <1>1, ScheduleInvariant, PTL

\* No node sits at the end of an epoch with the next result accepted.
THEOREM ResultsAreUsed == Spec => []NeverWaitsWithResult
<1>1. Inv => NeverWaitsWithResult
  BY DEF Inv
<1> QED BY <1>1, ScheduleInvariant, PTL

\* Idle, producing and electing nodes have the schedule their State stands for.
THEOREM StatesMatch == Spec => []StateMatchesSchedule
<1>1. Inv => StateMatchesSchedule
  BY DEF Inv
<1> QED BY <1>1, ScheduleInvariant, PTL

\* A slot that ends on the node's own schedule changes the epoch only if all
\* rounds of it have been passed.
LEMMA SlotNeverCutsShort ==
  ASSUME Inv, NEW ep, NEW seed,
         ep = epoch \/ \E key \in Members : ep = DowngradeWitness(epoch, key),
         NextSlot(ep, state, seed),
         epoch'.number # epoch.number
  PROVE  /\ epoch'.number = epoch.number + 1
         /\ epoch.idx + 1 >= Len(epoch.witnesses) * RoundsPerEpoch
<1>1. Sound(epoch) /\ Lists \subseteq Rankings /\ DOMAIN elected \subseteq Epochs
      /\ elected \in [DOMAIN elected -> Lists]
  BY ScheduleAssumption DEF Inv, TypeOK
<1>2. /\ Sound(ep) /\ ep.number = epoch.number /\ ep.idx = epoch.idx
      /\ HasWitnesses(ep) <=> HasWitnesses(epoch)
  BY <1>1, DowngradeSound
<1>3. HasWitnesses(ep) => Len(ep.witnesses) = Len(epoch.witnesses)
  BY <1>1, <1>2, PlacedSizes DEF Sound
<1>4. PICK moved : /\ moved.number = ep.number
                   /\ moved.idx = ep.idx + 1
                   /\ Len(moved.witnesses) = Len(ep.witnesses)
                   /\ \/ epoch' = moved
                      \/ /\ HasWitnesses(ep) /\ IsOver(moved)
                         /\ NextEpochNumber(ep) \in DOMAIN elected
                         /\ epoch' = SetCandidatesAndWitnesses(NewEpoch(NextEpochNumber(ep)),
                                                               elected[NextEpochNumber(ep)])
  BY <1>2, NextSlotCases
<1>5. HasWitnesses(ep) /\ IsOver(moved) /\ epoch'.number = NextEpochNumber(ep)
  <2>1. epoch' # moved
    BY <1>2, <1>4
  <2>2. NextEpochNumber(ep) \in Nat /\ elected[NextEpochNumber(ep)] \in Rankings
    BY <1>1, <1>4, <2>1 DEF Epochs
  <2> QED BY <1>4, <2>1, <2>2, NewEpochNotOver
<1> QED BY <1>2, <1>3, <1>4, <1>5 DEF IsOver, NextEpochNumber

\* Outside catch-ups and restarts an epoch gives way only to its successor, and
\* only after its last round.
THEOREM EpochsAreNotCutShort == Spec => EpochNeverCutShort
<1> DEFINE Uncut == epoch'.number \notin {epoch.number, 0} /\ state # "CATCHING_UP"
                    => /\ epoch'.number = epoch.number + 1
                       /\ epoch.idx + 1 >= Len(epoch.witnesses) * RoundsPerEpoch
<1>1. Inv /\ [Next]_vars => Uncut
  <2>1. SUFFICES ASSUME Inv, [Next]_vars,
                        epoch'.number \notin {epoch.number, 0}, state # "CATCHING_UP"
                 PROVE  /\ epoch'.number = epoch.number + 1
                        /\ epoch.idx + 1 >= Len(epoch.witnesses) * RoundsPerEpoch
    OBVIOUS
  <2>2. epoch' # epoch
    BY <2>1
  <2>3. CASE \E list \in Lists : AcceptResult(list)
    <3>1. PICK list \in Lists : AcceptResult(list)
      BY <2>3
    <3>2. IsOver(epoch) /\ epoch'.number = NextEpochNumber(epoch)
      BY <2>2, <3>1
         DEF AcceptResult, InitializeEpoch, SetCandidatesAndWitnesses, NewEpoch
    <3>3. epoch.idx \in Nat /\ Len(epoch.witnesses) * RoundsPerEpoch \in Int
      BY <2>1, EpochAssumption DEF Inv, TypeOK, EpochState
    <3> QED BY <3>2, <3>3 DEF IsOver, NextEpochNumber
  <2>4. CASE \E seed \in Seeds : EndSlot(seed)
    BY <2>1, <2>4, SlotNeverCutsShort DEF EndSlot
  <2>5. CASE \E seed \in Seeds : MissSlot(seed)
    <3>1. PICK seed \in Seeds : MissSlot(seed)
      BY <2>5
    <3>2. CurrentWitness(epoch) \in Members
      BY <2>1, <3>1, CurrentIsMember DEF Inv, MissSlot
    <3> QED BY <2>1, <3>1, <3>2, SlotNeverCutsShort DEF MissSlot
  <2>6. CASE \E key \in Members, seed \in Seeds : RejectBlock(key, seed)
    BY <2>1, <2>6, SlotNeverCutsShort DEF RejectBlock
  <2>7. CASE Restart
    BY <2>1, <2>7, EmptySchedule DEF Restart
  <2> QED BY <2>1, <2>2, <2>3, <2>4, <2>5, <2>6, <2>7
          DEF Next, Vote, BeginCatchUp, FinishCatchUp, vars
<1>2. Spec => [][Uncut]_vars
  BY <1>1, ScheduleInvariant, PTL DEF Spec
<1> QED BY <1>2 DEF EpochNeverCutShort

=============================================================================
