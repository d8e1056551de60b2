SPECIFICATION OpsFairSpec
CONSTANTS
    Workers = {w1, w2}
    MainThread = main
    Ids = {1}
    AskedIds = {1, 9}
    Amounts = {1}
    IntMax = 1
INVARIANTS CountersExact NoLostUpdate
PROPERTY WriterProceeds
