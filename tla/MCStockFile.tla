---------------------------- MODULE MCStockFile ----------------------------
EXTENDS StockFile

Stock(i, c) == [id |-> i, count |-> c, price |-> 7]

(* Two stocks in either order, and a file that names one stock twice. *)
MCStockLists ==
    {<<Stock(2, 100), Stock(1, 10)>>, <<Stock(1, 1), Stock(2, 100)>>,
     <<Stock(1, 1), Stock(1, 100)>>}

MCAmounts == {-99, 99}

=============================================================================
