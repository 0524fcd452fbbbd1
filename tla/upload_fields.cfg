SPECIFICATION Spec
CONSTANTS
    Uploads = {"u1", "u2"}
    Rows = {1, 2}
    UploadOf <- OneByOne
    KeyOf <- AllAlike
    WithContract = {1, 2}
    MaxBlockSize = 2
    MaxDay = 1
CHECK_DEADLOCK FALSE
INVARIANTS
    SkippedIsTheSameOrder
