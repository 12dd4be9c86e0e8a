CONSTANTS
    k1 = k1
    k2 = k2
    Keys = {l1}
    Codes = {k1, k2}
    Quote <- MCQuote
    Refused = Refused
    Short = Short
    None = None
    WelfareItem = WelfareItem
    ProductPrice = 9
    Limit = 2
    AnswersOrderNo = TRUE
    MaxQty = 2
    MaxPages = 2
    MaxOrders = 2
SPECIFICATION Spec
INVARIANTS PriceFollowsVerdict PostedIsOneKind
PROPERTIES ClearsWhatWasOrdered NoRevival SubmitEnds
CHECK_DEADLOCK FALSE
