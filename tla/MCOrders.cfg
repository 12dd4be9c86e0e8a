CONSTANTS
    Users = {u1}
    OrderNos = {n1, n2}
    Remarks = {r1}
    MaxLogs = 3
    MaxCrashes = 1
    NoRemark = NoRemark
SYMMETRY Symmetry
SPECIFICATION Spec
INVARIANTS LogExplainsOrder
PROPERTIES SavedOrdersStay
