CONSTANTS
    None = None
    Chunks = {h1, h2}
    Tasks = {t1}
    Inodes = {i1, i2, i3, i4, i5}
    Ops = {"put", "get", "release", "flush", "gc"}
    Faults = {"write", "commit"}
    Clones = TRUE
    Crashes = TRUE
    FlushAt = 2
    MaxRefs = 2
    MaxTime = 0
SPECIFICATION Spec
SYMMETRY Symmetry
 
 
INVARIANT BytesSurvive
