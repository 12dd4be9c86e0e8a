--------------------------- MODULE MCMiniAccount ----------------------------
(* One order, a second that is placed and one that is deleted while pages  *)
(* of one order are loaded, over and over.  Two handlers at a time.        *)
EXTENDS MiniAccount
=============================================================================
