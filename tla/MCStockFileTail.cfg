SPECIFICATION Spec
CONSTANTS
    StockLists <- MCStockLists
    AskedIds = {1, 2, 7}
    Amounts <- MCAmounts
    MaxCount = 100
    MaxNodes = 5
INVARIANT FileIsMemory
