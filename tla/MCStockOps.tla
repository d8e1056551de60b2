---------------------------- MODULE MCStockOps -----------------------------
EXTENDS StockOps

=============================================================================
