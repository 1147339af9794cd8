SPECIFICATION Spec
CONSTANTS
    Grants = {g1}
    MilestoneIds = {0, 1, 2}
    ReviewedIds = {2}
    Graphs <- MCGraphs
    Committees = {c1}
    Members = {m1, m2}
    Thresholds = {2}
    Amounts = {0, 1}
    None = None
    COMMITTEE_SLOTS = 2
    COMMITTEE_REVIEW_TIMEOUT_SECS = 1
    StartTime = 1
    MaxTime = 2
    MaxReserve = 1
SYMMETRY MemberSymmetry
INVARIANTS
    TypeOK
    GraphOrderable
    PrerequisitesKept
    ReserveConserved
    ReviewWindowFixed
PROPERTIES
    CutOffStaysShut
    ReviewGrounded
