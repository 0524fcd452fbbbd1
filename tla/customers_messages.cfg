CONSTANTS
    a = a
    q1 = q1
    q2 = q2
    q3 = q3
    w1 = w1
    Customers = {a}
    Requests = {q1, q2, q3}
    Consumers = {w1}
    MaxMessages = 2
    MaxFailures = 1
SPECIFICATION Spec
INVARIANTS
    TypeOK
    ChangesAreAnnounced
    LifeOfACustomer
PROPERTIES
    MessagesAreHandled
    ImplementsLog
CONSTRAINT StartInOrder
CHECK_DEADLOCK FALSE
