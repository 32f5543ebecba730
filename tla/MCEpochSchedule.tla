-------------------------- MODULE MCEpochSchedule --------------------------
(* Small instances of EpochSchedule. *)
EXTENDS EpochSchedule

\* Stands for sha256(key + seed + index): numbers that differ per key and whose
\* order changes with the seed and the index.
MCHash(key, seed, idx) == (key * (1 + ((seed + idx) % 4))) % 5

\* Elections whose results share members in all positions.
Lists4 == { <<1, 2, 3, 4>>, <<3, 1, 4, 2>>, <<4, 3, 2, 1>> }

=============================================================================
