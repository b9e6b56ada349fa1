SPECIFICATION StoreSpec
CONSTANTS
    FieldOrder = 4
    MaxTransferBits = 1
    Keys <- MCKeys
    Bytes <- MCBytes
    Accounts <- MCAccounts
    Denoms <- MCDenoms
    Controls <- MCControls
    InitialFunds <- MCFunds
    ResetRandomness <- MCReset
    Messages <- MCMessages
    Authority = gov
    Slash = Slash
    gov = gov
    kAlice = kAlice
    kBob = kBob
    kAudit = kAudit
    kSpare = kSpare
    NoKey = NoKey
    AnyKey = AnyKey
    Garbled = Garbled
    Nil = Nil
INVARIANTS
    ExportRoundTrips
    ExportValidates
PROPERTIES
    ImplementsKeeper
    AnswersStayTrue
