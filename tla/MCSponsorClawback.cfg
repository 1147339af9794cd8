SPECIFICATION ClawbackSpec
CONSTANTS
    Students = {s1}
    Funders = {f1}
    Tokens = {t1}
    Universities = {}
    Officers = {}
    Voters = {v1}
    None = None
    FundAmounts = {34}
    WithdrawAmounts = {5}
    TaxRates = {}
    COMMUNITY_VOTE_THRESHOLD = 1
    NATIVE_XLM_RESERVE = 1
    SECURITY_HOLD_DURATION = 2
    UNLOCK_STEP = 6
    StartTime = 1
    MaxTime = 3
    MaxGrant = 11
    MaxUnlocked = 12
    TriggerTypes = {"GpaThreshold"}
    Percentages = {50}
    TIME_THRESHOLD = 1
    DEFAULT_CLAWBACK_COOLDOWN = 1
    CLAWBACK_EXECUTION_TIMEOUT = 1
INVARIANTS
    BooksKept
PROPERTIES
    AccountsKept
    ExecutedIsFinal
    ClawbackGrounded
