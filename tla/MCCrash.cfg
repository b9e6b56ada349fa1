SPECIFICATION WalletSpec
CONSTANTS
    FieldOrder = 40009
    RangeBound = 4
    Keys <- MCKeys
    Accounts <- MCAccounts
    Denoms <- MCDenoms
    Controls <- MCControls
    InitialFunds <- MCFunds
    ResetRandomness <- MCReset
    Messages <- MCMessages
    MaxBroadcasts <- MCBroadcasts
    MaxUint64 = 4
    HKDF <- MCHKDF
    AuditorKeys <- MCAuditorKeys
    SendAmounts = {1, 2}
    AliceBroadcasts = 2
    BobBroadcasts = 2
    MaxCrashes = 1
    CrashInFlight = TRUE
    MaxRotations = 1
    Authority = gov
    denom = atom
    gov = gov
    alice = alice
    bob = bob
    atom = atom
    kAlice = kAlice
    kBob = kBob
    kAudit1 = kAudit1
    kAudit2 = kAudit2
    NoKey = NoKey
    AnyKey = AnyKey
    Garbled = Garbled
    Nil = Nil
INVARIANTS
    SpendsNeverPanic
    OthersCannotInvalidate
    NoRandomnessReuse
CHECK_DEADLOCK FALSE
