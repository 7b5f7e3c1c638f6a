SPECIFICATION FairSpec
CONSTANTS
    MaxLines = 3
    HostTakes = {"OK", "ERROR", "CONNECT", "NO_CARRIER", "FRAME"}
    Failures = {"TIMEOUT", "IO"}
    MaxStream = 2
    MaxWork = 3
PROPERTIES EndsInSync NoStrayCommand FramesLeftToHost CallReturns
