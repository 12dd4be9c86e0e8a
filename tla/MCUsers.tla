------------------------------ MODULE MCUsers ------------------------------
(* Two people, interchangeable, and three accounts: one for each of them in *)
(* the mini program and one more from the public account.                   *)
EXTENDS Users, TLC

Symmetry == Permutations(Persons)
=============================================================================
