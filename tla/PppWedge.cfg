SPECIFICATION RetrySpec
CONSTANTS
    MaxLines = 2
    HostTakes = {"OK", "ERROR", "CONNECT", "NO_CARRIER", "FRAME"}
    Failures = {"TIMEOUT", "IO"}
    MaxStream = 1
    MaxWork = 3
PROPERTY NeverWedged
