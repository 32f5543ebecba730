---------------------------- MODULE SharedChain ----------------------------
(***************************************************************************)
(* What the engines of a network promise, however they go about it: there  *)
(* is one chain, what every node has committed is a beginning of it, and a *)
(* node moves only by the block of it that comes next.  Who is at the end  *)
(* makes the chain longer, and nobody goes back.  A block is its signer.   *)
(***************************************************************************)
EXTENDS Integers, Sequences

CONSTANT Signers      \* the members, which are the nodes as well

VARIABLES
  chain,              \* the signers of its blocks
  committed           \* [n]: the signers of the blocks that n has committed

chainVars == <<chain, committed>>

Init ==
  /\ chain = <<>>
  /\ committed = [n \in Signers |-> <<>>]

Commit(n, signer) == committed' = [committed EXCEPT ![n] = Append(@, signer)]

\* A node that is behind commits the block of the chain that it has next.
Follow(n) ==
  /\ Len(committed[n]) < Len(chain)
  /\ Commit(n, chain[Len(committed[n]) + 1])
  /\ UNCHANGED chain

\* A node that has all of the chain commits a new block, which makes it longer.
Extend(n) ==
  /\ committed[n] = chain
  /\ \E signer \in Signers : chain' = Append(chain, signer) /\ Commit(n, signer)

Next == \E n \in Signers : Follow(n) \/ Extend(n)

Spec == Init /\ [][Next]_chainVars

=============================================================================
