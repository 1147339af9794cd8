SPECIFICATION Spec
CONSTANTS
    Referenda = {1, 2}
    Voters = {v1, v2}
    Councils = {a}
    Bonds = {3}
    Powers = {1}
    This = this
    Targets = {this, other}
    VOTING_PERIOD = 1
    EXECUTION_DELAY = 1
    ROTATION_TIMELOCK = 1
    ROTATION_INTERVAL = 1
    None = None
    StartTime = 1
    LastCreation = 2
    LastQueue = 3
    MaxTime = 4
INVARIANTS
    BooksKept
    ExecutionGrounded
PROPERTIES
    RotationGrounded
    PassedIsExecuted
