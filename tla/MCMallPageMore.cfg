CONSTANTS
    i1 = i1
    i2 = i2
    i3 = i3
    i4 = i4
    c1 = c1
    c2 = c2
    k0 = k0
    k1 = k1
    Items = {i1, i2, i3, i4}
    Covers = {i1, i2}
    Categories = {c1, c2}
    Keywords = {k0, k1}
    NoKeyword = k0
    NoCategory = NoCategory
    Rows <- MCRows
    Shelf <- MCShelf
    PageSize = 2
    MaxRequests = 2
SPECIFICATION Spec
PROPERTIES ScrollLoadsMore
