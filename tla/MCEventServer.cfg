SPECIFICATION FairSpec
CONSTANTS
    Ids = {1}
    Counts <- Int32
    AskedIds = {1, 2}
    Amounts <- MCAmounts
    IntMax = 3
    ListenFd = 3
    Fds = {4, 5, 6}
    PoolSize = 2
    NFDBITS = 6
    MaxClients = 3
    ClientOps = {"show", "sell", "buy", "exit", "NOCMD", "INVARG", "NL"}
    ClientEvents = {"line", "partial"}
INVARIANTS
    PoolConsistent
    NoReadyClientSkipped
    IdlePersisted
    NeverOversold
PROPERTY EveryLineServed
