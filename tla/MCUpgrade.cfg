CONSTANTS
    Codes = {c1, c2}
    OrderNos = {o1, o2, o3}
    First = o1
    FirstCode = c1
    Plain = o2
    Notes = {n1, n2}
    BuyerNote = BuyerNote
    None = None
    MaxScripts = 2
    MaxAborts = 1
    MaxEdits = 2
SPECIFICATION UpgradeSpec
INVARIANTS CopiedIsCleared OkMovedBoth OkCanBeUndone OneItemPerCode DifferenceMeansLoss
CHECK_DEADLOCK FALSE
