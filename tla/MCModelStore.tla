----------------------------- MODULE MCModelStore -----------------------------
(* Three requests of any kind about models of two or three parts: an upload   *)
(* that overtakes another, one that rewrites the file under a load, and two   *)
(* that a load finds one after the other.                                     *)
EXTENDS ModelStore, TLC

MCSizes == {2, 3}
Symmetry == Permutations(Conns)
=============================================================================
