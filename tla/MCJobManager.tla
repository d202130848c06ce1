--------------------------- MODULE MCJobManager ---------------------------
(* JobManager on small instances.  The urls are interchangeable.           *)
EXTENDS JobManager, TLC

Symmetry == Permutations(Urls)
=============================================================================
