SPECIFICATION Spec
CONSTANTS
    Contexts <- TwoCores
    DataSize = 3
    LineLen = 2
    MaxBytes = 4
    Builds = {TRUE, FALSE}
    StoresInOrder = FALSE
    RetainedPos = {2}
INVARIANTS TailIntact LinesNotMixed
PROPERTIES MaskedLineEnds ReaderComesToRest
