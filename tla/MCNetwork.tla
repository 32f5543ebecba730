----------------------------- MODULE MCNetwork -----------------------------
(* Small instances of Network. *)
EXTENDS Network

\* Stands for sha256(key + block id + index): numbers that differ per key and
\* whose order changes with the block and the index.
MCHash(key, block, idx) == (key * (1 + ((Len(block) + idx) % 2))) % 5

OneList == { <<2, 1, 3>> }

TwoLists == { <<1, 2, 3>>, <<2, 1, 3>> }

=============================================================================
