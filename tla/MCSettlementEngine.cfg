SPECIFICATION Spec
CONSTANTS
    genesis = genesis
    r1 = r1
    NoLedger = NoLedger
    NoTx = NoTx
    BatchRoot <- MCBatchRoot
    GenesisRoot = genesis
    ChallengePeriod = 2
    ConfiguredChallenge = 2
    Servers = 2
    MaxBatches = 2
    MaxLedger = 3
INVARIANTS
    TypeOK
    PublishedInOrder
    CommittedIsOnL1
    FinalizedIsFinal
