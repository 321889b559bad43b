---------------------------- MODULE MCOwnership ----------------------------
(* Three objects, a list, a request and a transaction, with a guard for    *)
(* each and another for an object.                                         *)
EXTENDS Ownership, TLC

Symmetry == Permutations(Objects) \cup Permutations(ObjectGuards)
=============================================================================
