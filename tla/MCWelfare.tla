------------------------------ MODULE MCWelfare -----------------------------
(* Two rows, of one code or of two, used twice, and a setback.              *)
EXTENDS Welfare
=============================================================================
