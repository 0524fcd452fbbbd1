CONSTANTS
    c1 = c1
    c2 = c2
    h1 = h1
    h2 = h2
    h3 = h3
    Clients = {c1, c2}
    Handlers = {h1, h2, h3}
    ClientOf <- ReturningAndOther
    Plain = {h3}
    MaxBufferSize = 1
    MaxOrders = 3
SPECIFICATION Spec
INVARIANTS
    TypeOK
    EventIdsAreUnique
    SeenInOrder
    BufferSizeIsNearlyKept
PROPERTIES
    ReplayLeavesNoGap
    OrdersAreTaken
CHECK_DEADLOCK FALSE
