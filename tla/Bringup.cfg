SPECIFICATION Spec
CONSTANTS
    Addrs = {a1, a2}
    NoAddr = zero
    None = none
    Polls = 2
    MaxOwed = 1
    MaxUnread = 2
PROPERTIES InitOwes RegistrationSeen 
