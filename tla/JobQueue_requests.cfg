CONSTANTS
    k1 = k1
    k2 = k2
    c1 = c1
    None = None
    Stopper = Stopper
    Keys = {k1}
    Clients = {c1}
    Callers = {a1, a2}
    Tickers = {t1}
    Flights = {f1, f2}
    Owns <- OneOwner
    Ops = {"resume", "cancel"}
    Coalesced = {}
    Stops = TRUE
    Interval = 2
    MaxTime = 0
SPECIFICATION FairSpec
INVARIANT NoLostRequest
PROPERTY RequestsServed
PROPERTY QuietShutdownReturns
