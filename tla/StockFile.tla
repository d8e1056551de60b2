----------------------------- MODULE StockFile -----------------------------
(***************************************************************************)
(* The stock tree and the stock file (binary_tree.c and stockfile_handle.c,*)
(* the same in both servers but for the lock of a node): the tree is built *)
(* from the file at boot, changed by modify(), and printed over the file   *)
(* by fsync_stockfile(), which opens it without O_TRUNC.  The process may  *)
(* stop at any time and be started again.                                  *)
(*                                                                         *)
(* The file is a sequence of digits and separators; blank and newline are  *)
(* the same to fscanf and to the properties here.  Counts are natural      *)
(* numbers: modify() refuses to go below 0 (see StockOps for the case in   *)
(* which two workers get past that test).                                  *)
(***************************************************************************)
EXTENDS Integers, Sequences, SequencesExt

CONSTANTS
    StockLists,  \* the stock files the server may be given, by stock
    AskedIds,    \* the ids that clients name
    Amounts,     \* what sell and buy add to a count
    MaxCount,    \* bound on a count
    MaxNodes     \* bound on the nodes of the tree

ASSUME StockFileAssumption ==
    /\ MaxCount \in Nat
    /\ MaxNodes \in Nat
    /\ \A s \in StockLists : Len(s) \in 1 .. MaxNodes

VARIABLES
    root,    \* _root
    file,    \* the contents of stock.txt
    synced   \* history: the tree as of the last fsync_stockfile() or boot

vars == <<root, file, synced>>

-----------------------------------------------------------------------------
(***************************************************************************)
(* binary_tree.c.  A pointer is <<>> for NULL, or the sequence of the one  *)
(* node it points to.                                                      *)
(***************************************************************************)
NULL == <<>>

Node(id, count, price) ==
    <<[id |-> id, count |-> count, price |-> price,
       left |-> NULL, right |-> NULL]>>

RECURSIVE insert(_, _, _, _)
insert(p, id, count, price) ==
    IF p = NULL THEN Node(id, count, price)
    ELSE IF p[1].id > id
         THEN [p EXCEPT ![1].left = insert(@, id, count, price)]
         ELSE [p EXCEPT ![1].right = insert(@, id, count, price)]

RECURSIVE find(_, _)
find(id, p) ==
    IF p = NULL \/ p[1].id = id THEN p
    ELSE find(id, IF id > p[1].id THEN p[1].right ELSE p[1].left)

(* stock->count += n, for the node that find() returned. *)
RECURSIVE add(_, _, _)
add(p, id, n) ==
    IF p[1].id = id THEN [p EXCEPT ![1].count = @ + n]
    ELSE IF id > p[1].id
         THEN [p EXCEPT ![1].right = add(@, id, n)]
         ELSE [p EXCEPT ![1].left = add(@, id, n)]

-----------------------------------------------------------------------------
(***************************************************************************)
(* Text: sprintf("%d %d %d\n") of a node, the nodes in preorder.           *)
(***************************************************************************)
Separator == -1

RECURSIVE Digits(_)
Digits(n) == IF n < 10 THEN <<n>> ELSE Digits(n \div 10) \o <<n % 10>>

Line(r) ==
    Digits(r.id) \o <<Separator>> \o Digits(r.count) \o <<Separator>>
    \o Digits(r.price) \o <<Separator>>

(* Variant: the nodes in the order of their ids. *)
RECURSIVE print_to_buf_InOrder(_)
print_to_buf_InOrder(p) ==
    IF p = NULL THEN <<>>
    ELSE print_to_buf_InOrder(p[1].left) \o Line(p[1])
         \o print_to_buf_InOrder(p[1].right)

RECURSIVE print_to_buf(_)
print_to_buf(p) ==
    IF p = NULL THEN <<>>
    ELSE Line(p[1]) \o print_to_buf(p[1].left) \o print_to_buf(p[1].right)

(* fscanf("%s") and atoi: the numbers of the text, one per word. *)
Numbers(text) ==
    LET Scan(acc, c) ==
          IF c = Separator
          THEN [words |-> acc.words \o acc.word, word |-> <<>>]
          ELSE [acc EXCEPT !.word =
                   IF @ = <<>> THEN <<c>> ELSE <<@[1] * 10 + c>>]
        end == FoldLeft(Scan, [words |-> <<>>, word |-> <<>>], text)
    IN  end.words \o end.word

(***************************************************************************)
(* The rounds of while(!feof(fp)): three words each.  If the words run out *)
(* in the last round, the arrays still hold those of the round before.     *)
(***************************************************************************)
Rounds(words) ==
    LET Word(k, round) ==
          IF 3 * (round - 1) + k <= Len(words)
          THEN words[3 * (round - 1) + k] ELSE words[3 * (round - 2) + k]
    IN  [round \in 1 .. (Len(words) + 2) \div 3 |->
            [id |-> Word(1, round), count |-> Word(2, round),
             price |-> Word(3, round)]]

Load(text) ==
    FoldLeft(LAMBDA p, r : insert(p, r.id, r.count, r.price), NULL,
             Rounds(Numbers(text)))

(* Variant: the text goes behind what is in the file (O_APPEND). *)
Overwrite_Append(old, text) == old \o text

(* write() from the start of the file: what is longer stays. *)
Overwrite(old, text) == text \o SubSeq(old, Len(text) + 1, Len(old))

-----------------------------------------------------------------------------
TypeOK ==
    /\ Len(root) = 1
    /\ Len(synced) = 1
    /\ file \in Seq(0 .. 9 \cup {Separator})

Init ==
    /\ \E s \in StockLists :
        file = FoldLeft(LAMBDA text, r : text \o Line(r), <<>>, s)
    /\ root = Load(file)
    /\ synced = root

modify(id, n) ==
    /\ find(id, root) # NULL
    /\ find(id, root)[1].count + n \in 0 .. MaxCount
    /\ root' = add(root, id, n)
    /\ UNCHANGED <<file, synced>>

fsync_stockfile ==
    /\ file' = Overwrite(file, print_to_buf(root))
    /\ synced' = root
    /\ UNCHANGED root

(* The process has stopped and is started again. *)
read_stockfile ==
    /\ Len(Rounds(Numbers(file))) <= MaxNodes
    /\ root' = Load(file)
    /\ synced' = root'
    /\ UNCHANGED file

Next ==
    \/ \E id \in AskedIds, n \in Amounts : modify(id, n)
    \/ fsync_stockfile
    \/ read_stockfile

Spec == Init /\ [][Next]_vars

-----------------------------------------------------------------------------
(***************************************************************************)
(* Printing and reading are inverse: the text of any tree the server can   *)
(* have, several stocks with one id included, is read back as that tree,   *)
(* node by node.  There is always a tree.                                  *)
(***************************************************************************)
LoadsWhatItPrints == TypeOK /\ Load(print_to_buf(root)) = root

(***************************************************************************)
(* Whatever the file was before, a restart finds every stock of the last   *)
(* synchronisation with its count and its price: what is left at the end   *)
(* of the file comes after them and hides none of them.  A synchronisation *)
(* is one step here, so a crash in the middle of it is not covered.        *)
(***************************************************************************)
RestartKeepsStocks ==
    LET again == Load(file)
        saved == Rounds(Numbers(print_to_buf(synced)))
    IN  \A k \in DOMAIN saved :
            LET old == find(saved[k].id, synced)
                new == find(saved[k].id, again)
            IN  /\ old # NULL /\ new # NULL
                /\ new[1].count = old[1].count /\ new[1].price = old[1].price

(***************************************************************************)
(* After fsync_stockfile() the file is what print_to_buf() makes of the    *)
(* tree (stockfile_handle_test.c: "Does contents of on-disk file equals to *)
(* that of in-memory buffer").                                             *)
(***************************************************************************)
FileIsMemory == synced = root => file = print_to_buf(root)

=============================================================================
