SPECIFICATION Spec
CONSTANTS
    c1 = c1
    c2 = c2
    Ids = {c1, c2}
    Configs <- SameIds
    MaxOwed = 1
SYMMETRY Clients
INVARIANTS OpenedAsAsked ConnectedAsOpened
PROPERTY AnsweredInFull
