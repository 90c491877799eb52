CONSTANTS
    BusCalls = {c1}
    YieldCalls = {c2}
    Signal = Signal
    MaxSignals = 2
    MaxStalls = 1
    MaxRequests = 3
    MaxEvents = 2
    Interfaces = {i1, i2}
    Calls = {k1}
    None = None
    MaxRegistrations = 2
    Objects = {o1, o2}
    Composed = {p1}
    t1 = t1
    t2 = t2
    Threads = {t1, t2}
    BusHash <- MCHash
    ThreadHash <- MCHash
    Width = 3
    Cookies = {1, 2}
    MaxTime = 2
    MaxNesting = 4
    Strings = {"E.B", "text"}
    VectorLengths = {0, 2}
    MapLengths = {1}
    Sendable <- MCSendable
    Readable <- MCReadable
    MaxArguments = 2
    Characters = {48, 71, 102, 95, 45, 47}
    MaxCharacters = 3
    Slots = {s1, s2}
    NoSlot = NoSlot
    Keys = {x1, x2}
    MaxEntries = 2
    MaxAnswers = 2
SPECIFICATION Spec
INVARIANTS
    TransactionKept
CHECK_DEADLOCK FALSE
