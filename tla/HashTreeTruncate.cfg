SPECIFICATION Spec
CONSTANTS
    MaxNode = 4
    MaxChanges = 3
    Cuts = {0, 5, 6, 8}
    MaxCounter = 4
    MinCut = 1
    MaxShrink = 1
    CutMayFail = FALSE
    None = None
    Corrupt = Corrupt
INVARIANT ReopenVerifies
