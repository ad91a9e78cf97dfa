CONSTANTS
    None = None
    s1 = s1
    s2 = s2
    y1 = y1
    y2 = y2
    Publishers = {p1}
    Subs = {s1, s2}
    EventTypes = {y1}
    Kind <- WithSync
    Priority <- Ranks
    Types <- OneTyped
    Picky = {}
    Policy = "block"
    Capacity = 1
    Panics = FALSE
    Stops = TRUE
    Leaves = {s1}
    MaxEvents = 2
SPECIFICATION FairSpec
INVARIANT UnsubscribeFinal
INVARIANT EndIsFinal
PROPERTY QueuesDrain
 
