SPECIFICATION Spec
CONSTANTS
    Uploads = {"u1", "u2"}
    Rows = {1, 2, 3, 4}
    UploadOf <- ThreeAndOne
    KeyOf <- SecondLineAgain
    WithContract = {1, 2}
    MaxBlockSize = 2
    MaxDay = 1
CHECK_DEADLOCK FALSE
INVARIANTS
    BlockIsUnsent
    UnrecordedIsInFlight
    BoundOnlyIfLoaded
    EarlierBlocksAreOnRecord
    ReportIsFaithful
PROPERTIES
    ImplementsLedger
    UploadEnds
