CONSTANTS
    i1 = i1
    i2 = i2
    k1 = k1
    k2 = k2
    Amounts = {0, 1}
    Edited = {"starting_price", "building_area"}
    Images = {i1, i2}
    Limit = 2
    Keys <- MCKeys
    FirstRows <- MCFirstRows
    MaxRows = 2
    MaxEdits = 3
    MaxSaves = 1
    NoImage = NoImage
    NoTabs = NoTabs
    Blank = Blank
    Typed = Typed
    Nothing = Nothing
SPECIFICATION FormSpec
INVARIANTS DerivedAgrees VisitorsSeeImages PageOpensOnSection DeletedStays
