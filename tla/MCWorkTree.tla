----------------------------- MODULE MCWorkTree -----------------------------
(* A root and the work items below it: see the configurations.             *)
EXTENDS WorkTree, TLC

Interchangeable == Permutations(Nodes \ {Root}) \cup Permutations(Tasks)
=============================================================================
