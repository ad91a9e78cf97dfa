CONSTANTS
    None = None
    Paths = {p1, p2, p3}
    Inodes = {i1, i2, i3, i4}
    Hashes = {A, B}
    Linkers = {t1, t2}
    LinkFaults = {"rename", "link", "remove"}
    Crashes = TRUE
    MaxActs = 3
SPECIFICATION LinkSpec
SYMMETRY Symmetry
INVARIANT BytesKept
INVARIANT NameKept
