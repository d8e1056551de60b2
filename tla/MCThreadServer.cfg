SPECIFICATION ServerSpec
CONSTANTS
    Workers = {w1, w2}
    MainThread = main
    Ids = {1}
    Slots = 1
    Fds = {fd1, fd2}
    NoFd = NoFd
    Counts <- Int32
    MaxAccepts = 2
    AskedIds = {1}
    Amounts = {1}
    IntMax = 1
    ClientOps = {"show", "sell", "buy", "NOCMD", "INVARG", "NL"}
    MayReset = TRUE
SYMMETRY Symmetry
PROPERTIES ImplementsThreading AnswersOwnClient
