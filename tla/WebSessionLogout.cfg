SPECIFICATION SessionSpec
CONSTANTS
    c1 = c1
    c2 = c2
    Call = {c1, c2}
    MaxLogins = 1
    MaxExpiries = 1
    Nil = Nil
INVARIANT LogoutLeavesNoTokens
CHECK_DEADLOCK FALSE
