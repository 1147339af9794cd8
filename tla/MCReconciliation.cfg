SPECIFICATION ReconciliationSpec
CONSTANTS
    Students = {s1, s2}
    Funders = {f1}
    Tokens = {t1}
    Universities = {}
    Officers = {}
    Voters = {v1}
    None = None
    FundAmounts = {34}
    WithdrawAmounts = {10}
    TaxRates = {2500}
    COMMUNITY_VOTE_THRESHOLD = 1
    NATIVE_XLM_RESERVE = 1
    SECURITY_HOLD_DURATION = 2
    UNLOCK_STEP = 4
    StartTime = 1
    MaxTime = 1
    MaxGrant = 22
    MaxUnlocked = 0
    Evidence = {e1, e2}
    IssuerAmounts = {29}
    DeficitClaims = {1,2,3,4,5,6,7,8,9,10,11,12,13,14,15,16,17,18,19,20,21,22,23,24}
SYMMETRY ReconciliationSymmetry
INVARIANTS
    BooksKept
PROPERTIES
    AccountsKept
    CutFair
    LossPassedOnOnce
    TerminatedStaysShut
