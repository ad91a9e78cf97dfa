CONSTANTS
    k1 = k1
    k2 = k2
    c1 = c1
    None = None
    Stopper = Stopper
    Keys = {k1}
    Clients = {c1}
    Callers = {a1}
    Tickers = {t1, t2}
    Flights = {f1, f2}
    Owns <- OneOwner
    Ops = {"schedule", "resume", "pause"}
    Coalesced = {k1}
    Stops = FALSE
    Interval = 2
    MaxTime = 2
SPECIFICATION Spec
INVARIANT SingleFlight
 
PROPERTY ResumeKeepsCadence
PROPERTY GateSpec
SYMMETRY Symmetry
