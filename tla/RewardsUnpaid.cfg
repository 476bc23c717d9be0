SPECIFICATION Spec
CONSTANTS
    a = a
    b = b
    w1 = w1
    Contribs <- TwoKinds
    Addrs = {w1}
    NoAddr = NoAddr
    RateTables <- NoNewRates
    DefaultRates <- OneEach
    NoRates = NoRates
    NoRow = NoRow
    MinPayout = 2
    Methods = {"uphold"}
    Handlers = {h1}
    MaxQueued = 2
    FaultKinds = {}
    MaxFaults = 0
PROPERTY PaysAllPending
