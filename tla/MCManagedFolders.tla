--------------------------- MODULE MCManagedFolders ---------------------------
(* Small instances of the managed folder engine for TLC.                   *)
EXTENDS ManagedFolders, TLC

CONSTANTS a, b

\* A file of one chunk, and one that holds the same chunk and another.
SharedContents == {<<a>>, <<b, a>>}
=============================================================================
