SPECIFICATION FairSpec
CONSTANTS
    Bytes = {"CR", "LF", "GT", "SP"}
    Cap = 2
    Slices = {1}
    Wants = {1, 2}
    MaxWire = 2
    MaxSince = 3
INVARIANTS TypeOK WholeLines HeldLineStands PromptStartsLine RawVerbatim
PROPERTY ReadReturns
