--------------------------- MODULE MCStreamRelay ---------------------------
(* Instances of StreamRelay for model checking: players are interchangeable. *)
EXTENDS StreamRelay, TLC

Symmetry == Permutations(Players)
=============================================================================
