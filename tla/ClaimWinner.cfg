SPECIFICATION Spec
CONSTANTS
    Alumni = {a1, a2, a3}
    Amms = {m1, m2}
    None = None
    MaxWeight = 3
INVARIANT WinnerRouted
CHECK_DEADLOCK FALSE
