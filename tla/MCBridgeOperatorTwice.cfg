SPECIFICATION Spec
CONSTANTS
    alice = alice
    bob = bob
    NoPayment = NoPayment
    NoTx = NoTx
    NoLedger = NoLedger
    Unset = Unset
    Accounts <- MCAccounts
    Depositors <- MCNobody
    Amounts <- MCOneAmount
    Allowlist <- MCAlice
    PageLimit = 2
    FirstScan = 2
    Retention = 2
    MinAmount = 1
    AccountCap = 2
    VaultCap = 2
    PerTick = 1
    HorizonPage = 2
    Servers = 2
    MaxPayments = 1
    MaxDeposits = 3
    MaxLedger = 2
INVARIANTS
    OneDepositPerPayment
