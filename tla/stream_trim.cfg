CONSTANTS
    c1 = c1
    c2 = c2
    h1 = h1
    h2 = h2
    h3 = h3
    Clients = {c1, c2}
    Handlers = {h1, h2, h3}
    ClientOf <- TwoClients
    Plain = {h3}
    MaxBufferSize = 1
    MaxOrders = 3
SPECIFICATION Spec
PROPERTIES
    BufferSizeIsMaintained
CHECK_DEADLOCK FALSE
