SPECIFICATION Spec
CONSTANTS
    alice = alice
    bob = bob
    op1 = op1
    op2 = op2
    xlm = xlm
    Address <- MCAddress
    Token <- MCToken
    Operator <- MCOperator
    DepositRequest <- MCDepositRequest
    StateRoot <- MCStateRoot
    WithdrawalsRoot <- MCWithdrawalsRoot
    ChallengePeriod = 1
    LivenessTimeout = 2
    DeployLedger = 0
    U32Max = 4
    MaxBatches = 2
    MaxDeposits = 2
SYMMETRY Symmetry
INVARIANTS
    TypeOK
    EscapeAlwaysFinalized
    PaidOnce
    PayoutsJustified
PROPERTIES
    ExitRightsPersist
CHECK_DEADLOCK FALSE
