CONSTANTS
    None = None
    Torn = Torn
    f1 = f1
    f2 = f2
    n1 = n1
    Files = {f1, f2}
    Stem <- OneStem
    Contents = {A, B}
    Tasks = {t1}
    Faults = {"write", "rename", "wipe", "remove", "table"}
    Crashes = TRUE
    MaxSaves = 3
SPECIFICATION Spec
SYMMETRY Symmetry
INVARIANT NothingLost
 
CHECK_DEADLOCK FALSE
