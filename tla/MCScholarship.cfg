SPECIFICATION Spec
CONSTANTS
    Students = {s1, s2}
    Funders = {f1}
    Tokens = {t1}
    Universities = {u1, u2}
    Officers = {o1}
    Voters = {v1, v2}
    None = None
    FundAmounts = {34}
    WithdrawAmounts <- Requests
    TaxRates = {0, 2500}
    COMMUNITY_VOTE_THRESHOLD = 2
    NATIVE_XLM_RESERVE = 1
    SECURITY_HOLD_DURATION = 2
    UNLOCK_STEP = 4
    StartTime = 1
    MaxTime = 3
    MaxGrant = 22
    MaxUnlocked = 12
SYMMETRY Symmetry
CONSTRAINT Small
INVARIANTS
    TypeOK
    UnlockedCoversBalance
    GrantConserved
    WithdrawalsRespectLock
    ReleaseNeedsQuorum
    CustodyAccounted
    ClaimMathMirrors
PROPERTIES
    AccountsKept
