CONSTANTS
    Persons = {p1, p2}
    Mini = mini
    Mp = mp
    MaxUsers = 3
    MaxCrashes = 2
    NoUnion = NoUnion
SYMMETRY Symmetry
SPECIFICATION Spec
INVARIANTS TokenKeepsAccount TokensTellPeopleApart
