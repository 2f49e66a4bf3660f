---------------------------- MODULE MCMediaPipes ----------------------------
(* Instances of MediaPipes for model checking: clients are interchangeable. *)
EXTENDS MediaPipes, TLC

Symmetry == Permutations(Clients)
=============================================================================
