SPECIFICATION FairSpec
CONSTANTS
    None = None
    w1 = w1  w2 = w2  w3 = w3  g = g  h = h
    m1 = m1  m2 = m2  m3 = m3  m4 = m4  m5 = m5
    e1 = e1  e2 = e2  e3 = e3  e5 = e5
    Threads = {g, h}
    Events = {e1, e2, e3, e5}
    EventOf <- MCEventOf
    ThreadOf <- MCThreadOf
    Messages = {m1, m2, m3, m4, m5}
    Workers = {w1}
    Commands = {m2, m3}
    Unroutable = {m3}
    BatchMax = 3
    QueueMax = 0
    DedupWindow = 2
    SlowBatches = TRUE
INVARIANTS TypeOK GlobalOrder CommandsInOrder
PROPERTIES WindowExact ImplementsThreadFifo
