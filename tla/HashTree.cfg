SPECIFICATION Spec
CONSTANTS
    MaxNode = 3
    MaxChanges = 3
    Cuts = {0, 2, 3, 6}
    MaxCounter = 4
    MinCut = 1
    MaxShrink = 1
    CutMayFail = FALSE
    None = None
    Corrupt = Corrupt
INVARIANT ReopenVerifies
PROPERTY CommittedUntouched
PROPERTY RefinesAtomicFile
