-------------------------- MODULE MCControlStore --------------------------
(* Two frames of the controller over a root and its child: see the cfg.    *)
EXTENDS ControlStore, TLC

Interchangeable == Permutations(Clients) \cup Permutations(Works)
=============================================================================
