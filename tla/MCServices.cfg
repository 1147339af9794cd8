SPECIFICATION Spec
CONSTANTS
    None = None
    StartTime = 1
    MaxTime = 4
    Owners = {o1}
    Contributors = {c1}
    Amounts = {1, 3}
    Pools = {4}
    QF_MATCHING_POOL_RESERVE = 3
    QF_MIN_CONTRIBUTION = 1
    QF_MAX_PROJECTS = 2
    QF_ROUND_DURATION = 1
    MaxRounds = 1
    MaxCount = 3
    Students = {s1, s2}
    Sponsors = {f1}
    Schools = {i1}
    Deposits <- DepositsNamed
    Matches <- MatchesAsked
    Caps = {1}
    Yields <- Harvests
    Inflows = {2}
    MaxBalance = 4
    Rates <- StreamRates
    Percentages = {50}
    MAX_SUBSIDIZED_STUDENTS = 1
    SUBSIDY_THRESHOLD = 1
    SUBSIDY_AMOUNT = 1
    FLOW_CHECK = 2
    MaxTracked = 6
    MaxCapital = 2
    Alumni = {a1, a2}
    Amms = {m1, m2}
    MaxWeight = 3
    Addresses = {p1, p2}
    UNLOCK_DELAY = 2
    Oracles = {r1}
    Learners = {s1}
    Courses = {k1}
    Nonces = {1, 2}
    Gpas = {300, 400}
    ORACLE_STALENESS_THRESHOLD = 1
    Clients = {1, 2}
    EXPORT_FEE = 2
    MaxWallet = 4
    Holders = {h1, h2}
    Spenders = {d1}
    TransferAmounts <- TokenAmounts
    Expirations = {1}
    I128_MAX = 2
    MaxSequence = 2
    RENEWAL_PERIOD_SECS = 2
    MAX_RENEWALS = 2
    MIN_REMAINING_BEFORE_RENEWAL = 1
    Tokens = {1, 2}
    DonorTokens = 4
INVARIANTS
    BooksKept
    MatchingFits
    StreamsExact
    ExportsCounted
    YearsFollow
PROPERTIES
    PayoutTimelocked
    CapRespected
CHECK_DEADLOCK FALSE
