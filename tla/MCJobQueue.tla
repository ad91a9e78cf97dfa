----------------------------- MODULE MCJobQueue -----------------------------
(* Small instances of JobQueue for TLC. *)
EXTENDS JobQueue, TLC

CONSTANTS k1, k2, c1

OneOwner == (c1 :> {k1})

NoOwner  == << >>

Symmetry == Permutations(Callers) \cup Permutations(Tickers)
                 \cup Permutations(Flights)
=============================================================================
