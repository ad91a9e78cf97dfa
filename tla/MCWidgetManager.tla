--------------------------- MODULE MCWidgetManager ---------------------------
(* Small instances of the widget manager for TLC.                          *)
EXTENDS WidgetManager, TLC

Symmetry == Permutations(Widgets) \cup Permutations(Tasks) \cup Permutations(Flushers)
=============================================================================
