------------------------------ MODULE MCFLcode ------------------------------
(* Workbooks with a new number, a number twice, and an invalid row.        *)
EXTENDS FLcode, TLC

CONSTANTS p1, p2, k1, k2

R(p, k) == [phone |-> p, code |-> k]
Symmetry == Permutations(Tokens)

MCFiles == {<<R(p1, k1), R(p1, k2)>>, <<R(Invalid, k1), R(p2, k2)>>}
=============================================================================
