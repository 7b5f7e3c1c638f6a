SPECIFICATION FairSpec
CONSTANTS
    Flows = {"submit", "socket", "upload", "url", "post", "publish"}
    UrcPrefix = {"NEWS", "RING"}
    MaxUrc = 1
    MaxLines = 3
    MaxDepth = 2
    MaxCmds = 2
PROPERTIES ImplementsChannel PayloadToOwnCommand ReturnsAfterStorm
