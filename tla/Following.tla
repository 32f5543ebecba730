----------------------------- MODULE Following -----------------------------
(***************************************************************************)
(* What catching up promises, whatever way a node goes about it: the head  *)
(* moves along the chain block by block, a goal is a block that some peer  *)
(* has committed, and it is given up only by reaching it.  A block is its  *)
(* number.                                                                 *)
(***************************************************************************)
EXTENDS Integers

CONSTANT MaxNum       \* bound: the last block

VARIABLES
  head,               \* the last block the node has committed
  goal,               \* the block it catches up to, or None
  made,               \* the last block of the chain
  confirmed           \* the blocks that some peer has committed

followVars == <<head, goal, made, confirmed>>

None == -1

Init ==
  /\ head = 0 /\ goal = None
  /\ made = 0 /\ confirmed = {0}

\* The network goes on.
Grow ==
  /\ made' \in made .. MaxNum
  /\ confirmed \subseteq confirmed' /\ confirmed' \subseteq 0 .. made'
  /\ UNCHANGED <<head, goal>>

Advance ==
  /\ head < made
  /\ head' = head + 1
  /\ goal' = IF goal = head' THEN None ELSE goal
  /\ UNCHANGED <<made, confirmed>>

SetGoal ==
  /\ goal = None
  /\ goal' \in confirmed \ {head}
  /\ UNCHANGED <<head, made, confirmed>>

Next == Grow \/ Advance \/ SetGoal

Spec == Init /\ [][Next]_followVars

=============================================================================
