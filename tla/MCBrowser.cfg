SPECIFICATION BrowserSpec
CONSTANTS
    FieldOrder = 40009
    RangeBound = 4
    Keys <- MCKeys
    Accounts <- MCAccounts
    Denoms <- MCDenoms
    Controls <- MCControls
    InitialFunds <- MCFunds
    ResetRandomness <- MCReset
    Messages <- MCMessages
    MaxBroadcasts <- MCBroadcasts
    MaxUint64 = 8
    HKDF <- MCHKDF
    AuditorKeys <- MCAuditorKeys
    Tabs <- MCTabs
    Owner <- MCOwner
    SendAmounts = {1, 2}
    AliceFunds = 3
    AliceTabs = {tab1}
    AliceBroadcasts = 3
    BobBroadcasts = 2
    MaxCrashes = 0
    CrashInFlight = FALSE
    MaxRotations = 0
    minSendAmount = 1
    PerPage = 2
    MaxHeight = 5
    MaxTimeouts = 0
    Authority = gov
    denom = atom
    gov = gov
    alice = alice
    bob = bob
    atom = atom
    tab1 = tab1
    bobTab = bobTab
    kAlice = kAlice
    kBob = kBob
    kAudit = kAudit
    NoKey = NoKey
    AnyKey = AnyKey
    Garbled = Garbled
    Nil = Nil
INVARIANTS
    RecoveredStateOpensBalance
    IdlePageOpensBalance
CHECK_DEADLOCK FALSE
