CONSTANTS
    None = None
    Paths = {p1, p2}
    Existing = {p1}
    BatchMax = 2
    Faults = {"extract", "upsert", "commit", "persist"}
    MaxIncidents = 2
SPECIFICATION FairSpec
INVARIANT IdleIsCommitted
 
 
PROPERTY Settles
CHECK_DEADLOCK FALSE
