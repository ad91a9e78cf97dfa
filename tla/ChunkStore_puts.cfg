CONSTANTS
    None = None
    Chunks = {h1}
    Tasks = {t1, t2}
    Inodes = {i1, i2, i3, i4}
    Ops = {"put", "get", "flush", "gc"}
    Faults = {}
    Clones = TRUE
    Crashes = TRUE
    FlushAt = 1
    MaxRefs = 2
    MaxTime = 1
SPECIFICATION Spec
SYMMETRY Symmetry
INVARIANT OwnedReadable
INVARIANT BlobHasRow
INVARIANT RefsAccounted
