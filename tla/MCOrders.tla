------------------------------ MODULE MCOrders -----------------------------
(* Customers are interchangeable, and so are order numbers.                *)
EXTENDS Orders, TLC

Symmetry == Permutations(Users) \cup Permutations(OrderNos)
=============================================================================
