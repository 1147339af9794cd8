SPECIFICATION Spec
CONSTANTS
    Students = {s1}
    Courses = {c1}
    Payments = {0, 16}
    Intervals = {2}
    BaseRate = 2
    DiscountThreshold = 1
    DiscountPercentage = 50
    MinDeposit = 2
    SUBSCRIPTION = 1
    MINOR_PAUSE = 2
    PAYLOAD_AGE = 1
    CLOCK_TOLERANCE = 1
    HALT_FOREVER = 6
    None = None
    StartTime = 1
    MaxTime = 3
    MaxCustody = 32
    MaxRefund = 2
INVARIANTS
    RecordsKept
    WatchTimeElapsed
    HaltAgrees
PROPERTIES
    AccessIsBought
