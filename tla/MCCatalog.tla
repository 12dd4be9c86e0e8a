----------------------------- MODULE MCCatalog ------------------------------
(* Two tabs with forms besides the other pages, two categories, two        *)
(* properties and a crash or a lost container.                             *)
EXTENDS Catalog, TLC

MCSymmetry == Permutations(Tabs)
=============================================================================
