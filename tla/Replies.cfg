SPECIFICATION Spec
CONSTANTS
    Bytes = {"CR", "LF", "O", "K"}
    BufSz = 2
    MaxDiscard = 4
    MaxLines = 3
    Slices = 0
    MaxBody = 7
    Messages = 3
    Texts <- Shapes
    HeaderLen = 2
    RespSz = 20
    MaxMsgs = 2
    ListLines = 9
    MaxStray = 1
    Symbols = {" ", ",", "q", "-", "x", "1", "2"}
    MaxLen = 5
    MaxIndex = 2
    OutSz = 3
    MaxInt = 12
INVARIANTS
    StopsAtTrailer BodyExact DiscardBounded  
    FieldIsReadRight
CHECK_DEADLOCK FALSE
