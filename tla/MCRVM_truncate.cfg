CONSTANTS
    s1 = s1
    s2 = s2
    Segs <- MCSegs
    Uses <- MCUses
    SegSize = 2
    Vals = {v1}
    Blank = Blank
    Hole = Hole
    Eof = Eof
    None = None
    MaxTid = 2
    MaxUndo = 2
    MaxLog = 2
    CrashWindows = {"truncate"}
SPECIFICATION Spec
INVARIANT Durability
