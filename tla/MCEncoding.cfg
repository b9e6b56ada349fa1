SPECIFICATION EncodingSpec
CONSTANTS
    Base = 5
    SlashByte = 4
    ChainIDs <- MCChainIDs
    DenomNames <- MCDenomNames
    Ops <- MCOps
    Addresses <- MCAddresses
    Words = {2, 22}
    Indices = {0, 3}
    RandomnessWidth = 3
INVARIANTS
    DerivationSeparates
    TranscriptsBind
    ZerosApart
    MemoReadsBack
