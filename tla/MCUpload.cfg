SPECIFICATION Spec
CONSTANTS
    UINT160_LEN = 1
    ECPOINT_LEN = 2
    IntLen = 1
    IntWidths <- MCIntWidths
    TransferCall <- MCTransferCall
    VoteCall <- MCVoteCall
    NeoHash <- MCNeoHash
    GasHash <- MCGasHash
    SysCall <- MCSysCall
    SigningFronts <- MCSigningFronts
    MaxLen = 35
    MaxSigners = 2
    MaxContracts = 2
    MaxGroups = 1
    MaxAttributes = 2
    SlotCount = 3
    Contents <- MCContents
    Others <- MCOthers
VIEW MCView
INVARIANTS
    TypeOK ItemsFit PagesShowUpload PagesShowTransaction FieldsCoverUpload ScriptMatchedAfresh ReviewedOnce BothBuildsAgree
PROPERTIES
    SupportedIsParsed
