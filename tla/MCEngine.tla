------------------------------ MODULE MCEngine ------------------------------
(* Small instances of Engine. *)
EXTENDS Engine

\* Stands for sha256(key + block id + index).
MCHash(key, block, idx) == (key * (1 + ((Len(block) + idx) % 2))) % 4

TwoLists == { <<1, 2, 3>>, <<2, 1, 3>> }

OneList == { <<2, 1, 3>> }

\* Two chains, and the blocks of the engine, member 1, on them.
TwoChains == { <<>>, <<1>>, <<2>>, <<3>>, <<1, 2>>, <<2, 1>>, <<2, 3>>, <<1, 2, 1>> }

\* One chain, and the blocks of the engine on it.
OneChain == { <<>>, <<1>>, <<2>>, <<2, 1>>, <<2, 3>> }

AlsoInvalid == { <<3>> }

NoneInvalid == {}

=============================================================================
