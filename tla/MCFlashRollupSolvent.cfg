SPECIFICATION SpecMock
CONSTANTS
    alice = alice
    bob = bob
    op = op
    xlm = xlm
    Address <- MCAddress
    Token <- MCToken
    Operator <- MCOperator
    DepositRequest <- MCDepositRequest
    StateRoot <- MCNoRoot
    WithdrawalsRoot <- MCNoRoot
    L2Request <- MCL2Request
    MaxNonce = 1
    ChallengePeriod = 1
    LivenessTimeout = 1
    DeployLedger = 0
    U32Max = 5
    MaxBatches = 3
    MaxDeposits = 2
INVARIANTS
    Solvent
CHECK_DEADLOCK FALSE
