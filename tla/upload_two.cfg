SPECIFICATION Spec
CONSTANTS
    Uploads = {"u1", "u2"}
    Rows = {1, 2, 3, 4}
    UploadOf <- TwoByTwo
    KeyOf <- FirstLinesAlike
    WithContract = {1, 3}
    MaxBlockSize = 2
    MaxDay = 2
CHECK_DEADLOCK FALSE
INVARIANTS
    TypeOK
    NoResubmission
    RecordedBeforeExecution
    SuccessIsTrue
PROPERTIES
    RecordsAreFinal
