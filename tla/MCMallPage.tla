----------------------------- MODULE MCMallPage ----------------------------
(* One keyword besides the empty one, a category on offer and one that is   *)
(* not; everything on the shelf fills two pages, the category one page      *)
(* exactly, and nothing satisfies both; one property is off the shelf, and  *)
(* two were created by one import.                                          *)
EXTENDS MallPage

CONSTANTS i1, i2, i3, i4, c1, c2, k0, k1

Property(category, words, status, featured, order, created, place) ==
    [category_id |-> category, words |-> words, status |-> status,
     is_featured |-> featured, sort_order |-> order, created_at |-> created,
     place |-> place]

MCRows == i1 :> Property(c2, {k1}, 1, 1, 0, 1, 1) @@ i2 :> Property(c1, {}, 1, 0, 0, 2, 3)
       @@ i3 :> Property(c1, {}, 1, 0, 0, 2, 2)    @@ i4 :> Property(c1, {k1}, 0, 1, 1, 4, 4)

MCShelf == [c \in Categories |-> IF c = c1 THEN 1 ELSE 0]
=============================================================================
