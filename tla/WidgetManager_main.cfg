CONSTANTS
    None = None
    Widgets = {w1}
    Tasks = {t1, t2}
    Flushers = {f1, f2}
    Ops = {"create", "close", "move", "save"}
    Faults = {"store", "hook", "restore"}
    MaxLayout = 2
    MaxFails = 1
SPECIFICATION Spec
SYMMETRY Symmetry
INVARIANT OpenHasRow
INVARIANT LayoutTracked
INVARIANT FlushArmed
INVARIANT ClosedGone
INVARIANT QuietShutdownKeeps
