---------------------------- MODULE MCThreadList ----------------------------
(* ThreadList with a few threads; addresses are interchangeable, and so    *)
(* are the threads with ids of the same kind.                              *)
EXTENDS ThreadList, TLC

MCSymmetry == Permutations(Descs) \cup Permutations(Fits)
=============================================================================
