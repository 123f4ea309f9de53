SPECIFICATION Spec
CONSTANTS
    ann = ann
    ben = ben
    xlm = xlm
    None = None
    Domain = "domain"
    Account <- MCAccount
    Token <- MCToken
    Mine <- MCAccount
    Asset = xlm
    Stages <- MCStages
    Funding <- MCFunding
    Forms <- MCForms
    OthersForms <- MCOthersForms
    Allowlist <- MCAllowlist
    MaxMoves = 2
    MaxRows = 3
CHECK_DEADLOCK FALSE
INVARIANTS
    TypeOK
    ExecutedAsTapped
    NoticeIsTrue
    NobodyTrapped
PROPERTIES
    PageSettles
