----------------------------- MODULE MCMiniShop -----------------------------
(* A code with a price, one that is free; any quote may also be refused.   *)
EXTENDS MiniShop

CONSTANTS k1, k2

MCQuote == [c \in Codes |-> CASE c = k1 -> 1 [] c = k2 -> 0]
=============================================================================
