--------------------------- MODULE MCPrimaryWrites ---------------------------
(* Instances of PrimaryWrites for TLC.                                     *)
EXTENDS PrimaryWritesRefinement, TLC

(* Neither nodes nor schemas are ordered or told apart.                    *)
Symmetry == Permutations(Nodes) \cup Permutations(Schemas)
=============================================================================
