SPECIFICATION Spec
CONSTANTS
    FieldOrder = 8
    RangeBound = 2
    Keys <- MCKeys
    Accounts <- MCAccounts
    Denoms <- MCDenoms
    Controls <- MCControls
    InitialFunds <- MCFunds
    ResetRandomness <- MCReset
    Messages <- MCMessages
    Authority = gov
    gov = gov
    alice = alice
    bob = bob
    atom = atom
    kAlice = kAlice
    kBob = kBob
    kAudit1 = kAudit1
    kAudit2 = kAudit2
    NoKey = NoKey
    AnyKey = AnyKey
    Garbled = Garbled
    Nil = Nil
INVARIANT
    AvailableWithdrawable
