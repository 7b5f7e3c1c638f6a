SPECIFICATION Spec
CONSTANTS
    Flows = {"query", "send"}
    UrcPrefix = {"NEWS", "RING"}
    MaxUrc = 1
    MaxLines = 3
    MaxDepth = 2
    MaxCmds = 2
INVARIANT ErrorKindIsAlwaysOwn
