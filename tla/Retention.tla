----------------------------- MODULE Retention -----------------------------
(***************************************************************************)
(* What a node keeps of its elections: VotingSystem has a dictionary of    *)
(* ballots, one of results and one of accepted lists, each by epoch, and   *)
(* remove_old_epoch_data, called when an epoch begins, deletes from all    *)
(* three in turn what the results say is old (voting_system.py,            *)
(* ddpoa_node.py).  A dictionary is the set of the epochs it has an entry  *)
(* for; who voted and for whom is in Election.                             *)
(***************************************************************************)
EXTENDS Integers, FiniteSets

CONSTANTS
  Limit,      \* so many epochs with results start a removal (10 in the code)
  Keep,       \* so many of them are kept (5)
  MaxEpoch    \* bound: elections up to this epoch

ASSUME RetentionAssumption ==
  /\ Limit \in Nat /\ Keep \in Nat \ {0} /\ Keep < Limit
  /\ MaxEpoch \in Nat

Epochs == 1..MaxEpoch

VARIABLES
  number,     \* epoch.number
  over,       \* epoch.is_over
  voting,     \* [ballots, results, candidates]: the epochs in each dictionary
  ready,      \* the epochs in ready_result
  timer,      \* the epoch broadcast_timer is armed for, or 0
  stuck,      \* whether an answer of the validator was never counted down
  gaps,       \* history: epochs begun by a catch-up, skipped by one, or begun
              \* without a ballot
  raised      \* history: epochs at which a removal stopped

vars == <<number, over, voting, ready, timer, stuck, gaps, raised>>

NextEpoch == number + 1

TypeOK ==
  /\ number \in 0..MaxEpoch
  /\ over \in BOOLEAN
  /\ voting \in [ballots : SUBSET Epochs, results : SUBSET Epochs,
                 candidates : SUBSET Epochs]
  /\ ready \subseteq Epochs
  /\ timer \in 0..MaxEpoch
  /\ stuck \in BOOLEAN
  /\ gaps \subseteq Epochs
  /\ raised \subseteq Epochs

Init ==
  /\ number = 0
  /\ over = TRUE
  /\ voting = [ballots |-> {}, results |-> {}, candidates |-> {}]
  /\ ready = {}
  /\ timer = 0
  /\ stuck = FALSE
  /\ gaps = {}
  /\ raised = {}

---------------------------------------------------------------------------
(* remove_old_epoch_data *)

\* Mutant: all but the first epochs, not all but the last.
Old_Newest(v) == { e \in v.results : Cardinality({ x \in v.results : x < e }) >= Keep }

\* All epochs with results but the last ones.
Old(v) == { e \in v.results : Cardinality({ x \in v.results : x > e }) >= Keep }

\* An entry to delete is missing: KeyError, with the result already deleted.
Incomplete(v) == { e \in Old(v) : e \notin v.candidates \/ e \notin v.ballots }

IsFull(v) == Cardinality(v.results) >= Limit

\* The epochs the loop gets to: from the oldest to the first that raises.
Reached(v) == { e \in Old(v) : \A x \in Incomplete(v) : e <= x }

StopsAt(v) == IF IsFull(v) THEN Reached(v) \cap Incomplete(v) ELSE {}

\* Mutant: the ballots stay.
RemoveOldEpochData_NoBallots(v) ==
  IF IsFull(v)
  THEN [v EXCEPT !.results = @ \ Reached(v), !.candidates = @ \ Reached(v)]
  ELSE v

RemoveOldEpochData(v) ==
  IF IsFull(v)
  THEN [results |-> v.results \ Reached(v),
        candidates |-> v.candidates \ Reached(v),
        ballots |-> v.ballots \ (Reached(v) \ Incomplete(v))]
  ELSE v

---------------------------------------------------------------------------
(* Ballots and results *)

WithBallot == [voting EXCEPT !.ballots = @ \cup {NextEpoch}]

\* vote
CastVote ==
  /\ NextEpoch \in Epochs
  /\ voting' = WithBallot
  /\ UNCHANGED <<number, over, ready, timer, stuck, gaps, raised>>

\* handle_vote: all ballots are in and the result is stored, or enough are and
\* the timer is armed, or neither.
HandleVote ==
  /\ NextEpoch \in Epochs
  /\ \/ voting' = [WithBallot EXCEPT !.results = @ \cup {NextEpoch}] /\ timer' = 0
     \/ voting' = WithBallot /\ timer' \in {0, NextEpoch}
  /\ UNCHANGED <<number, over, ready, stuck, gaps, raised>>

\* calculate_result in the thread of broadcast_timer: raises there without ballots.
TimerFires ==
  /\ timer # 0
  /\ timer' = 0
  /\ voting' = [voting EXCEPT !.results =
       IF timer \in voting.ballots THEN @ \cup {timer} ELSE @]
  /\ UNCHANGED <<number, over, ready, stuck, gaps, raised>>

---------------------------------------------------------------------------
(* Epochs *)

\* initialize_epoch, with what the dictionaries are by then.
InitializeEpoch(e, v) ==
  /\ number' = e
  /\ over' = FALSE
  /\ voting' = RemoveOldEpochData(v)
  /\ raised' = raised \cup StopsAt(v)

\* Mutant: the list is accepted, but not stored.
HandleResult_NotStored(accepted) ==
  LET e == NextEpoch
      v == [voting EXCEPT !.results = @ \cup {e}]
  IN  /\ e \in Epochs
      /\ ready' = IF accepted THEN ready \cup {e} ELSE ready
      /\ IF accepted /\ over
         THEN /\ InitializeEpoch(e, v)
              /\ gaps' = IF e \in v.ballots THEN gaps ELSE gaps \cup {e}
         ELSE voting' = v /\ UNCHANGED <<number, over, gaps, raised>>
      /\ UNCHANGED <<timer, stuck>>

\* handle_vote_result
HandleResult(accepted) ==
  LET e == NextEpoch
      v == [voting EXCEPT !.results = @ \cup {e},
                          !.candidates = IF accepted THEN @ \cup {e} ELSE @]
  IN  /\ e \in Epochs
      /\ ready' = IF accepted THEN ready \cup {e} ELSE ready
      /\ IF accepted /\ over
         THEN /\ InitializeEpoch(e, v)
              /\ gaps' = IF e \in v.ballots THEN gaps ELSE gaps \cup {e}
         ELSE voting' = v /\ UNCHANGED <<number, over, gaps, raised>>
      /\ UNCHANGED <<timer, stuck>>

\* Mutant: begins the next epoch with or without its result.
EpochEnds_Unready(n, skipped) ==
  /\ ready' = ready \ {n - 2}
  /\ InitializeEpoch(n + 1, voting)
  /\ gaps' = gaps \cup skipped

\* next_slot in the last slot of epoch n: finalize_epoch, and initialize_epoch if
\* the result is ready.  skipped: the epochs that a catch-up has just passed.
EpochEnds(n, skipped) ==
  /\ ready' = ready \ {n - 2}
  /\ IF n + 1 \in ready'
     THEN /\ InitializeEpoch(n + 1, voting)
          /\ gaps' = gaps \cup skipped \cup ({n + 1} \ voting.ballots)
     ELSE /\ number' = n
          /\ over' = TRUE
          /\ gaps' = gaps \cup skipped
          /\ UNCHANGED <<voting, raised>>

\* The last slot of the epoch ends with a commit, an empty or a missed slot, or
\* with an invalid block.  If the removal raises, what comes after it is skipped:
\* for an invalid block the count-down of _waiting_for_validation (and for all of
\* them the start of the slot, which is not kept here).
EndLastSlot(invalid) ==
  /\ number # 0
  /\ ~over
  /\ EpochEnds(number, {})
  /\ stuck' = (stuck \/ (invalid /\ raised' # raised))
  /\ UNCHANGED timer

\* bootstrap to epoch n, which stores no list, then next_slot.
CatchUp(n, last) ==
  /\ n >= number /\ n # 0
  /\ IF last
     THEN EpochEnds(n, number + 1 .. n)
     ELSE /\ number' = n
          /\ over' = FALSE
          /\ gaps' = gaps \cup (number + 1 .. n)
          /\ UNCHANGED <<voting, ready, raised>>
  /\ UNCHANGED <<timer, stuck>>

---------------------------------------------------------------------------

Next ==
  \/ CastVote \/ HandleVote \/ TimerFires
  \/ \E accepted \in BOOLEAN : HandleResult(accepted)
  \/ \E invalid \in BOOLEAN : EndLastSlot(invalid)
  \/ \E n \in Epochs, last \in BOOLEAN : CatchUp(n, last)

Spec == Init /\ [][Next]_vars

---------------------------------------------------------------------------
(* Properties *)

\* The deletions from the three dictionaries stay in step: one raises, and leaves
\* the validation of an invalid block uncounted, only at an epoch that the node did
\* not elect from beginning to end (a catch-up passed it, or no ballot of it came).
RemovalStopsAtGaps == raised \subseteq gaps /\ (stuck => raised # {})

\* voting_system.py:176, "Keeps data for 5 last epochs": nothing is forgotten of the
\* epoch that runs, the one being elected, or the ones just before.
RecentKept ==
  [][\A e \in Epochs, d \in DOMAIN voting :
       e \in voting[d] \ voting'[d] => e + Keep <= number']_vars

\* "Removes data for old epochs": a node that elects every epoch itself never has
\* more than the limit, not even of ballots, which nothing counts.
DataBounded ==
  gaps = {} =>
    /\ Cardinality(voting.results) <= Limit
    /\ Cardinality(voting.candidates) <= Limit
    /\ Cardinality(voting.ballots) <= Limit

=============================================================================
