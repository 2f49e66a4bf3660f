---------------------------- MODULE MCRtmpServer ----------------------------
(* Instances of RtmpServer for model checking: sessions, applications and   *)
(* client ids are interchangeable.                                          *)
EXTENDS RtmpServer, TLC

Symmetry == Permutations(Sessions) \cup Permutations(Apps) \cup Permutations(Cids)
=============================================================================
