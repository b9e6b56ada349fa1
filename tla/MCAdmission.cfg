SPECIFICATION AdmissionSpec
CONSTANTS
    Accounts <- MCAccounts
    Word = 3
    MaxTransferBits = 3
    Significand = 2
    Amounts = {0, 1, 3, 5, 7, 8, 9}
    MemoLengths = {0, 48, 1024}
    OddLengths <- MCOddLengths
INVARIANTS
    HandlersNeverPanic
    BothSidesMoveTheSame
    HonestMessagesAccepted
    OtherClientsAccepted
