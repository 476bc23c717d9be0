SPECIFICATION Spec
CONSTANTS
    a = a
    b = b
    w1 = w1
    Contribs <- TwoKinds
    Addrs = {w1}
    NoAddr = NoAddr
    RateTables <- RaisedRates
    DefaultRates <- OneEach
    NoRates = NoRates
    NoRow = NoRow
    MinPayout = 2
    Methods = {"uphold", "erc20", "none"}
    Handlers = {h1, h2}
    MaxQueued = 2
    FaultKinds = {"insert", "update", "rates", "token", "refused", "lost", "stop", "crash"}
    MaxFaults = 1
INVARIANTS TypeOK NeverSilentlyPaid SentIsSettled BoundedRepay
SYMMETRY HandlerSymmetry
