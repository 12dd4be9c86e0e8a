CONSTANTS
    p1 = p1
    p2 = p2
    k1 = k1
    k2 = k2
    Phones = {p1, p2}
    CodeValues = {k1, k2}
    Tokens = {t1, t2}
    Passwords = {w1, w2}
    Default = w1
    Invalid = Invalid
    Files <- MCFiles
    Ttl = 1
    MaxTime = 3
    MaxRows = 2
    MaxRestarts = 1
SYMMETRY Symmetry
SPECIFICATION Spec
INVARIANTS AnswerStays OldListsAreSafe PasswordStays
PROPERTIES AcceptedIsRecent
CHECK_DEADLOCK FALSE
