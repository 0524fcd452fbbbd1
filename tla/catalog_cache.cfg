CONSTANTS
    p1 = p1
    p2 = p2
    r1 = r1
    r2 = r2
    Products = {p1, p2}
    Readers = {r1, r2}
    MaxWrites = 2
    MaxBatch = 2
    MaxFailures = 1
SPECIFICATION Spec
INVARIANTS
    TypeOK
    CacheFollowsTable
PROPERTIES
    ChangesAreHandled
CHECK_DEADLOCK FALSE
