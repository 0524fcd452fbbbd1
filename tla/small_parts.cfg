CONSTANTS
    a1 = a1
    a2 = a2
    b1 = b1
    c1 = c1
    h1 = h1
    h2 = h2
    h3 = h3
    Calls = {a1, a2, b1}
    Requests = {a1, a2, b1}
    FileName <- UploadedNames
    HalfDay = 2
    MaxTime = 2
    MaxFailures = 1
    MaxInterruptions = 2
SPECIFICATION MCSpec
SYMMETRY RequestsAreAlike
CONSTRAINT StreamBound
INVARIANTS
    TypesOK
    OnlyTimeoutsBreakTheLock
    OnlyInterruptionsBreakTheFile
    ArchivesAreOwn
    DocumentsLeadToTheirFiles
PROPERTIES
    ReplayLeavesNoGap
CHECK_DEADLOCK FALSE
