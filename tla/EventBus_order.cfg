CONSTANTS
    None = None
    s1 = s1
    s2 = s2
    y1 = y1
    y2 = y2
    Publishers = {p1}
    Subs = {s1, s2}
    EventTypes = {y1, y2}
    Kind <- WithAsync
    Priority <- Ranks
    Types <- OneTyped
    Picky = {s2}
    Policy = "oldest"
    Capacity = 2
    Panics = TRUE
    Stops = TRUE
    Leaves = {}
    MaxEvents = 3
SPECIFICATION Spec
INVARIANT Conserved
INVARIANT InOrder
INVARIANT EarlyHandlersDrain
