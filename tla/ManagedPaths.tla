----------------------------- MODULE ManagedPaths -----------------------------
(***************************************************************************)
(* What the two halves of the managed folder engine have in common:        *)
(* ManagedFolders, from a file event to the manifest row, and HardLinks,   *)
(* from the row to the shared inode.                                       *)
(***************************************************************************)
CONSTANTS
    Paths,       \* files of the folder
    None,
    Crashes      \* the process may die
=============================================================================
