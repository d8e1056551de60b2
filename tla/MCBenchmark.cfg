SPECIFICATION Spec
CONSTANTS
    RIO_BUFSIZE = 2
    MAXLINE = 4
    SocketBuffer = 2
    MaxClients = 2
    ORDER_PER_CLIENT = 2
    Settings <- MCSettings
    MayDie = TRUE
    AddrLists <- MCAddrLists
    Bases = {2, 10, 16}
    Numbers <- MCNumbers
INVARIANTS
    BytesIntact
    ClientsFindServer
    LibraryKeepsPromises
PROPERTIES
    PhaseTimesClients
    ClientsFinish
CHECK_DEADLOCK FALSE
