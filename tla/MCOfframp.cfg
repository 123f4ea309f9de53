SPECIFICATION Spec
CONSTANTS
    ann = ann
    ben = ben
    NoLedger = NoLedger
    NoTx = NoTx
    Payees <- MCPayees
    Outboxes <- MCOutboxes
    ChallengePeriod = 1
    PerTick = 2
    Servers = 2
    MaxTree = 5
    MaxLedger = 1
INVARIANTS
    TypeOK
    ClaimedIsPaid
    PaidAsWithdrawn
PROPERTIES
    PathsVerify
    EventuallyClaimed
