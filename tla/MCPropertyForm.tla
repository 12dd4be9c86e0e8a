--------------------------- MODULE MCPropertyForm --------------------------
(* One property that was imported, with a cover, typed amounts and no tabs, *)
(* and one that was saved by the form with a hidden tab.                    *)
EXTENDS PropertyForm

CONSTANTS i1, i2, k1, k2

MCKeys == <<k1, k2>>

MCImported ==
    [inputs |-> [f \in Inputs |-> IF f = "starting_price" THEN 1 ELSE 0],
     derived |-> [d \in Derived |-> IF d = "starting_unit_price" THEN Typed ELSE Blank],
     images |-> <<>>, cover |-> i1, tabs |-> NoTabs]

MCSaved ==
    [inputs |-> [f \in Inputs |-> IF f \in {"starting_price", "building_area"} THEN 1 ELSE 0],
     derived |-> [d \in Derived |-> IF d = "starting_unit_price" THEN Typed ELSE Blank],
     images |-> <<i2>>, cover |-> i2,
     tabs |-> <<[key |-> k1, visible |-> FALSE, order |-> 2],
                [key |-> k2, visible |-> TRUE, order |-> 1]>>]

MCFirstRows == {MCImported, MCSaved}
=============================================================================
