CONSTANTS
    Names = {c1, c2}
    Counts = {1, 2}
    NoRow = NoRow
    MaxRows = 2
    MaxSetbacks = 1
SPECIFICATION Spec
INVARIANTS AcceptedWithinLimit
PROPERTIES OnlyRaisingReopens
