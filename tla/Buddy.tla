------------------------------- MODULE Buddy -------------------------------
(***************************************************************************)
(* The buddy allocator (mm.c of mymalloc_buddy): page structs on doubly    *)
(* linked free lists, one list and one bitmap for every order, as          *)
(* operators from a heap to a heap.  Driver calls them.                    *)
(*                                                                         *)
(* The simulated memory holds the tables, META bytes, and behind them the  *)
(* pages.  Addresses are offsets from mem_heap_lo().  free_phy_page_n is   *)
(* never read and is left out.                                             *)
(***************************************************************************)
EXTENDS Integers, Sequences, FiniteSets

CONSTANTS
    PAGE_SIZE,   \* 256 in the code
    MAX_ORDER,   \* the number of orders, and log2 of the number of pages: 16
    BITS,        \* the width of unsigned long, which the bitmaps are made of
    META,        \* the size of the tables in front of the pages
    MaxRegions   \* how often mem_init() can get memory from malloc()

ASSUME BuddyAssumption ==
    /\ PAGE_SIZE \in Nat \ {0}
    /\ MAX_ORDER \in Nat /\ MAX_ORDER >= 2
    /\ BITS \in Nat \ {0}
    /\ META \in Nat \ {0}
    /\ MaxRegions \in Nat

phy_page_n == 2 ^ MAX_ORDER
Pages == 0 .. phy_page_n - 1
Orders == 0 .. MAX_ORDER - 1
BuddyNull == 0

(***************************************************************************)
(* A list node is the node of a page or the head of a free list.  The      *)
(* entry behind the last one of free_area_area[] is page_struct_area[0],   *)
(* whose first field is a list node too.                                   *)
(***************************************************************************)
ListHead(order) == IF order = MAX_ORDER THEN 0 ELSE phy_page_n + order
Nodes == 0 .. phy_page_n + MAX_ORDER - 1
NoNode == -1    \* the NULL of next and prev

-----------------------------------------------------------------------------
(***************************************************************************)
(* Lists.                                                                  *)
(***************************************************************************)
list_add(h, head, new) ==
    LET next == h.next[head]
        a == [h EXCEPT !.prev[next] = new]
        b == [a EXCEPT !.next[new] = next, !.prev[new] = head]
    IN  [b EXCEPT !.next[head] = new]

(* The neighbours of a node that is on a list are joined. *)
Unlink(h, node) ==
    [h EXCEPT !.next[h.prev[node]] = h.next[node],
              !.prev[h.next[node]] = h.prev[node]]

list_del(h, node) ==
    [Unlink(h, node) EXCEPT !.next[node] = NoNode, !.prev[node] = NoNode]

-----------------------------------------------------------------------------
(***************************************************************************)
(* Bitmaps: the word of a bit is pos >> 6 and its place in the 32-bit word *)
(* is pos & 31, so that two positions BITS apart may share a bit.          *)
(***************************************************************************)
BitAt(order, pos) == <<order, pos \div (2 * BITS), pos % BITS>>

bitmap_get(h, order, pos) == BitAt(order, pos) \in h.bitmap

bitmap_switch(h, order, pos) ==
    [h EXCEPT !.bitmap = IF bitmap_get(h, order, pos)
                         THEN @ \ {BitAt(order, pos)}
                         ELSE @ \cup {BitAt(order, pos)}]

MARK_USED(h, page_n, order) ==
    bitmap_switch(h, order, page_n \div 2 ^ (order + 1))

-----------------------------------------------------------------------------
(***************************************************************************)
(* mm_init() calls mem_init() again, which takes new memory and leaves the *)
(* old one.  The two blocks of the highest order are on its list and their *)
(* common bit is set.                                                      *)
(***************************************************************************)
PageBytes == phy_page_n * PAGE_SIZE

physical_memory_area == META

BuddyNoHeap ==
    [next |-> [n \in Nodes |-> NoNode], prev |-> [n \in Nodes |-> NoNode],
     bitmap |-> {}, order |-> [p \in Pages |-> 0],
     mem |-> [a \in 0 .. PageBytes - 1 |-> 0],
     brk |-> 0, regions |-> 1, fault |-> "none"]

EmptyLists ==
    [BuddyNoHeap EXCEPT
        !.next = [n \in Nodes |-> IF n \in Pages THEN NoNode ELSE n],
        !.prev = [n \in Nodes |-> IF n \in Pages THEN NoNode ELSE n]]

init_buddy ==
    LET top == MAX_ORDER - 1
        one == list_add(EmptyLists, ListHead(top), 0)
        two == list_add(one, ListHead(top), 2 ^ top)
    IN  [two EXCEPT !.bitmap = {BitAt(top, 0)}, !.brk = META + PageBytes]

(* Variant: the tables are not set up again. *)
buddy_init_Once(h) ==
    IF h.regions = 1
    THEN [heap |-> [init_buddy EXCEPT !.regions = 2], bp |-> 0]
    ELSE [heap |-> [h EXCEPT !.brk = META + PageBytes], bp |-> 0]

buddy_init(h) ==
    IF h.regions = MaxRegions
    THEN [heap |-> [h EXCEPT !.fault = "exit"], bp |-> -1]
    ELSE [heap |-> [init_buddy EXCEPT !.regions = h.regions + 1], bp |-> 0]

-----------------------------------------------------------------------------
(***************************************************************************)
(* Allocation: the first block of the first order from the one asked for   *)
(* whose list is not empty, split down with the lower halves kept.         *)
(***************************************************************************)
memsize_to_order(size) ==
    LET fit == {i \in 0 .. MAX_ORDER : size <= PAGE_SIZE * 2 ^ i}
    IN  IF fit = {} THEN -1 ELSE CHOOSE i \in fit : \A j \in fit : i <= j

(* Variant: the lower halves are not kept. *)
expand_Lost(h, page, high, low) ==
    [heap |-> h, page |-> page + 2 ^ high - 2 ^ low]

expand(h, page, high, low) ==
    LET Half[o \in low .. high] ==
          IF o = high THEN [heap |-> h, page |-> page]
          ELSE LET up == Half[o + 1]
                   kept == list_add(up.heap, ListHead(o), up.page)
               IN  [heap |-> MARK_USED(kept, up.page, o),
                    page |-> up.page + 2 ^ o]
    IN  Half[low]

Fault(h, what) == [heap |-> [h EXCEPT !.fault = what], bp |-> BuddyNull]

(* A request for all the memory is answered from page_struct_area[0]. *)
alloc_pages(h, order) ==
    LET found == {o \in order .. MAX_ORDER - 1 : h.next[ListHead(o)] # ListHead(o)}
        curr_order == IF order = MAX_ORDER THEN order
                      ELSE CHOOSE o \in found : \A q \in found : o <= q
        page == h.next[ListHead(curr_order)]
        taken == list_del(h, page)
        marked == IF curr_order = MAX_ORDER - 1 THEN taken
                  ELSE MARK_USED(taken, page, curr_order)
        cut == expand(marked, page, curr_order, order)
    IN  CASE order = -1 -> [heap |-> h, bp |-> BuddyNull]
          [] order < MAX_ORDER /\ found = {} -> [heap |-> h, bp |-> BuddyNull]
          [] order = MAX_ORDER /\ page = 0 -> [heap |-> h, bp |-> BuddyNull]
          [] page = NoNode -> Fault(h, "assert")
          [] page \notin Pages \/ order = MAX_ORDER -> Fault(h, "wild")
          [] h.prev[page] = NoNode \/ h.next[page] = NoNode -> Fault(h, "wild")
          [] taken.next[ListHead(curr_order)] = page -> Fault(h, "assert")
          [] OTHER -> [heap |-> [cut.heap EXCEPT !.order[cut.page] = order],
                       bp |-> physical_memory_area + PAGE_SIZE * cut.page]

buddy_malloc(h, size) == alloc_pages(h, memsize_to_order(size))

-----------------------------------------------------------------------------
(***************************************************************************)
(* Freeing: as long as the bit says that the buddy is free, the buddy is   *)
(* taken off its list, through a copy of its page struct, so that the      *)
(* struct itself keeps its old pointers.  The assertions of the loop       *)
(* refuse a buddy at either end of its list, or one without pointers.  A   *)
(* block merged beyond the highest order goes to the list of               *)
(* page_struct_area[0].                                                    *)
(***************************************************************************)
BuddyOf(page, order) ==
    IF (page \div 2 ^ order) % 2 = 0 THEN page + 2 ^ order ELSE page - 2 ^ order

Rise(s, order) ==
    LET pos == s.page \div 2 ^ (order + 1)
        buddy == BuddyOf(s.page, order)
        g == bitmap_switch(s.heap, order, pos)
        ends == {s.heap.next[buddy], s.heap.prev[buddy]}
    IN  IF ~ bitmap_get(s.heap, order, pos)
        THEN [s EXCEPT !.heap = g, !.stop = TRUE]
        ELSE IF ListHead(order) \in ends \/ NoNode \in ends
        THEN [s EXCEPT !.heap = [g EXCEPT !.fault = "assert"], !.stop = TRUE]
        ELSE [heap |-> Unlink(g, buddy), stop |-> FALSE, order |-> order + 1,
              page |-> s.page - (s.page % 2 ^ (order + 1))]

buddy_free(h, ptr) ==
    LET page_n == (ptr - physical_memory_area) \div PAGE_SIZE
        order == h.order[page_n]
        Merge[o \in order .. MAX_ORDER] ==
          IF o = order
          THEN [heap |-> h, stop |-> FALSE, order |-> order, page |-> page_n]
          ELSE LET s == Merge[o - 1] IN IF s.stop THEN s ELSE Rise(s, o - 1)
        m == Merge[MAX_ORDER]
    IN  IF m.heap.fault # "none" THEN m.heap
        ELSE IF m.heap.next[ListHead(m.order)] = NoNode
        THEN [m.heap EXCEPT !.fault = "wild"]
        ELSE list_add(m.heap, ListHead(m.order), m.page)

-----------------------------------------------------------------------------
(***************************************************************************)
(* The pages as memory: what memset() and memcpy() write into them.        *)
(***************************************************************************)
buddy_peek(h, a) ==
    IF a - physical_memory_area \in DOMAIN h.mem
    THEN h.mem[a - physical_memory_area] ELSE 0

buddy_memset(h, p, size, byte) ==
    LET lo == p - physical_memory_area
    IN  [h EXCEPT !.mem = [a \in DOMAIN @ |->
            IF a \in lo .. lo + size - 1 THEN byte ELSE @[a]]]

(* Variant: one byte too many. *)
buddy_memcpy_OneMore(h, dst, src, size) ==
    LET lo == dst - physical_memory_area
    IN  [h EXCEPT !.mem = [a \in DOMAIN @ |->
            IF a \in lo .. lo + size
            THEN buddy_peek(h, src + (a - lo)) ELSE @[a]]]

buddy_memcpy(h, dst, src, size) ==
    LET lo == dst - physical_memory_area
    IN  [h EXCEPT !.mem = [a \in DOMAIN @ |->
            IF a \in lo .. lo + size - 1
            THEN buddy_peek(h, src + (a - lo)) ELSE @[a]]]

(* size bytes are copied whatever the old size is, to NULL too. *)
buddy_realloc(h, ptr, size) ==
    LET new == buddy_malloc(h, size)
        copied == buddy_memcpy(new.heap, new.bp, ptr, size)
    IN  CASE new.heap.fault # "none" -> new
          [] new.bp = BuddyNull -> Fault(h, "wild")
          [] OTHER -> [heap |-> buddy_free(copied, ptr), bp |-> new.bp]

buddy_reset_brk(h) == [h EXCEPT !.brk = 0]

buddy_heapsize(h) == h.brk

-----------------------------------------------------------------------------
(***************************************************************************)
(* What a sound heap is.                                                   *)
(***************************************************************************)
(* The nodes of a list as next chains them, the head in front. *)
FreeList(h, order) ==
    LET Upto[n \in 0 .. phy_page_n] ==
          IF n = 0 THEN <<ListHead(order)>>
          ELSE LET s == Upto[n - 1]
                   next == h.next[s[Len(s)]]
               IN  IF next \in {ListHead(order), NoNode} THEN s ELSE Append(s, next)
    IN  Upto[phy_page_n]

FreeAt(h, order) ==
    LET s == FreeList(h, order) IN {s[i] : i \in 2 .. Len(s)}

(* next and prev agree all around every list. *)
ListsLinked(h) ==
    \A order \in Orders :
        LET s == FreeList(h, order)
        IN  \A i \in 1 .. Len(s) :
                LET j == IF i = Len(s) THEN 1 ELSE i + 1
                IN  h.next[s[i]] = s[j] /\ h.prev[s[j]] = s[i]

(* The bit of the highest order is as init_buddy() has set it: no block of  *)
(* that order has been freed or merged to, which takes the other one for   *)
(* free whatever it is used for.                                           *)
TopUntouched(h) == bitmap_get(h, MAX_ORDER - 1, 0)

(* Every page is in exactly one block, a free one or one of those in use. *)
PagesPartitioned(h, inUse) ==
    LET taken == {<<p, h.order[p]>> : p \in inUse}
        free == UNION {{<<p, order>> : p \in FreeAt(h, order)} : order \in Orders}
    IN  /\ \A b \in free : b[1] % 2 ^ b[2] = 0
        /\ \A q \in Pages :
             Cardinality({b \in taken \cup free :
                             b[1] <= q /\ q < b[1] + 2 ^ b[2]}) = 1

(* Below the highest order, a bit is set while exactly one buddy is free. *)
BitsExact(h) ==
    \A order \in 0 .. MAX_ORDER - 2 :
        LET free == FreeAt(h, order)
        IN  \A p \in {q \in Pages : q % 2 ^ (order + 1) = 0} :
                bitmap_get(h, order, p \div 2 ^ (order + 1))
                    = ((p \in free) # (p + 2 ^ order \in free))

=============================================================================
