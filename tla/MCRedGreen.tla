----------------------------- MODULE MCRedGreen -----------------------------
(* Model-checking instance of RedGreen. *)
EXTENDS RedGreen, TLC, FiniteSets

CONSTANTS t1, t2

MCTool == {t1, t2}
MCSymmetry == Permutations(MCTool)

\* Files of one line and of two.
MCFiles == {F \in SUBSET Line : Cardinality(F) \in {1, 2}}
=============================================================================
