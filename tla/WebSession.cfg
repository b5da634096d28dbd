SPECIFICATION SessionSpec
CONSTANTS
    c1 = c1
    c2 = c2
    Call = {c1, c2}
    MaxLogins = 2
    MaxExpiries = 2
    Nil = Nil
INVARIANT HoldsTheHead
PROPERTY SignedOutForAReason
CHECK_DEADLOCK FALSE
