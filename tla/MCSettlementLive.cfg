SPECIFICATION Spec
CONSTANTS
    genesis = genesis
    r1 = r1
    NoLedger = NoLedger
    NoTx = NoTx
    BatchRoot <- MCOneRoot
    GenesisRoot = genesis
    ChallengePeriod = 1
    ConfiguredChallenge = 1
    Servers = 1
    MaxBatches = 2
    MaxLedger = 1
PROPERTIES
    EventuallyCommitted
    EventuallyFinalized
