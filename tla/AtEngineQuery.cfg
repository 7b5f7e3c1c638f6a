SPECIFICATION FairSpec
CONSTANTS
    Flows = {"send", "query", "data", "await"}
    UrcPrefix = {"NEWS"}
    MaxUrc = 1
    MaxLines = 3
    MaxDepth = 2
    MaxCmds = 2
INVARIANTS TypeOK OwnReply ErrorKindIsOwn
PROPERTIES StaysQuiet UrcNeverFiled CallReturns
