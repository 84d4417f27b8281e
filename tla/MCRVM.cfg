CONSTANTS
    s1 = s1
    s2 = s2
    Segs <- MCSegs
    Uses <- MCUses
    SegSize = 2
    Vals = {v1}
    Blank = Blank
    Hole = Hole
    Eof = Eof
    None = None
    MaxTid = 2
    MaxUndo = 2
    MaxLog = 2
    CrashWindows = {}
SPECIFICATION Spec
INVARIANTS TypeOK Atomicity Durability LoggedFileExists Isolation UndoIsCommitted CleanImage
PROPERTIES Refines SegmentsReleased
