--------------------------- MODULE MCEncryptedFiles ---------------------------
(* Small instances of encryption in place for TLC.                         *)
EXTENDS EncryptedFiles, TLC

CONSTANTS f1, f2, n1

\* notes.txt and notes.md.
OneStem == f1 :> n1 @@ f2 :> n1

Symmetry == Permutations(Contents) \cup Permutations(Tasks)
=============================================================================
