SPECIFICATION Spec
CONSTANTS
    Conns = {c, t}
    Tls = {t}
    Hosts = {h1, h2}
    None = None
    Lens = {1, 2}
    MaxBytes = 2
    MaxAddrs = 2
    MaxPings = 2
    MaxOwed = 1
    MaxUnread = 1
INVARIANTS QuietWhileAnswered 
PROPERTIES DecidedByOwnLine ReceivedInOrder
SYMMETRY HostSymmetry
