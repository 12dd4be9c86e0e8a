------------------------------ MODULE MCUpgrade -----------------------------
(* Two codes, the order of one, a plain order and one that comes later.    *)
EXTENDS Upgrade
=============================================================================
