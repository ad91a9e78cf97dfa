CONSTANTS
    None = None
    a = a
    b = b
    Loop = Loop
    Paths = {p1, p2}
    Chunks = {a, b}
    Contents <- SharedContents
    Callers = {t1}
    Ops = {"ingest", "borrow", "release", "add", "remove"}
    Faults = {"put", "commit", "release"}
    Quota = 1
    Crashes = TRUE
    MaxSaves = 2
    MaxCalls = 2
SPECIFICATION FairSpec
INVARIANT ManifestBacked
 
 
