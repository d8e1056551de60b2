SPECIFICATION OpsSpec
CONSTANTS
    Workers = {w1, w2}
    MainThread = main
    Ids = {1}
    AskedIds = {1}
    Amounts = {1}
    IntMax = 3
INVARIANT NeverOversold
