----------------------------- MODULE MCHardLinks -----------------------------
(* Small instances of the hard-link step for TLC.                          *)
EXTENDS HardLinks, TLC

Symmetry == Permutations(Paths) \cup Permutations(Inodes)
            \cup Permutations(Hashes) \cup Permutations(Linkers)
=============================================================================
