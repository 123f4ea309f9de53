SPECIFICATION Spec
CONSTANTS
    alice = alice
    bob = bob
    xlm = xlm
    usdc = usdc
    NoSnapshot = NoSnapshot
    Account <- MCAccount
    Token <- MCToken
    Request <- MCRequest
    L1Deposit <- MCL1Deposit
    AllowedTokenSets <- MCAllowedTokenSets
    TxBytes <- MCTxBytes
    MaxBatchBytes = 11
    MaxBatchTxs = 3
    SnapshotEvery = 2
    ReloadLimit = 2
    MaxLog = 5
INVARIANTS
    AuditPasses
