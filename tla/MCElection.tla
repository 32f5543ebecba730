----------------------------- MODULE MCElection -----------------------------
(* Small instances of Election. *)
EXTENDS Election, TLC

\* Every other set of ballots elects another list: the least agreement that a
\* tally can give.
MCTally(voters) == voters

FullMesh == [n \in Nodes |-> Nodes \ {n}]

NoMesh == [n \in Nodes |-> {}]

\* One node is connected to nobody yet.
LateNode == CHOOSE n \in Nodes : TRUE

LateMesh == [n \in Nodes |-> IF n = LateNode THEN {} ELSE Nodes \ {n}]

NotLate == Nodes \ {LateNode}

LateSymmetry == Permutations(Nodes \ {LateNode})

Symmetry == Permutations(Nodes)

=============================================================================
