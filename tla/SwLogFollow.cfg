SPECIFICATION Spec
CONSTANTS
    Contexts <- OneWriter
    DataSize = 3
    LineLen = 3
    MaxBytes = 6
    Builds = {TRUE}
    StoresInOrder = TRUE
    RetainedPos = {0}
PROPERTY EmitsNewBytes
