SPECIFICATION ReconciliationSpec
CONSTANTS
    Students = {s1, s2}
    Funders = {f1}
    Tokens = {t1}
    Universities = {}
    Officers = {}
    Voters = {v1}
    None = None
    FundAmounts = {34}
    WithdrawAmounts = {5}
    TaxRates = {0}
    COMMUNITY_VOTE_THRESHOLD = 1
    NATIVE_XLM_RESERVE = 1
    SECURITY_HOLD_DURATION = 2
    UNLOCK_STEP = 4
    StartTime = 1
    MaxTime = 1
    MaxGrant = 11
    MaxUnlocked = 0
    Evidence = {e1}
    IssuerAmounts = {10}
    DeficitClaims = {1}
INVARIANT ClawbackDetected
