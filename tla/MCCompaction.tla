----------------------------- MODULE MCCompaction -----------------------------
(* Model values and hazard sets for the runs of Compaction.                *)
EXTENDS Compaction, TLC

Symmetry == Permutations(Files)
===============================================================================
