------------------------------ MODULE NextFit ------------------------------
(***************************************************************************)
(* The next-fit allocator (mm.c of mymalloc_nextfit, over memlib.c) and    *)
(* the part of mdriver.c that judges it.  The heap is the memory itself:   *)
(* one natural number for every word, so that the tags of a block, the     *)
(* data of a payload and what is left of either are all there.             *)
(*                                                                         *)
(* Addresses are offsets from mem_heap_lo(), which malloc() has aligned.   *)
(* Sizes are multiples of the word, for which PACK adds and never loses a  *)
(* bit; int and size_t do not overflow below MAX_HEAP.                     *)
(***************************************************************************)
EXTENDS Integers, FiniteSets

CONSTANTS
    CHUNCKSIZE,  \* what the heap grows by at least
    MAX_HEAP,    \* the size of the simulated memory
    Indices,     \* the ids of a trace; the driver fills block i with byte i
    Sizes,       \* the sizes a trace asks for
    num_ops      \* bound on the length of a trace

ASSUME NextFitAssumption ==
    /\ CHUNCKSIZE \in Nat /\ CHUNCKSIZE % 8 = 0 /\ CHUNCKSIZE >= 16
    /\ MAX_HEAP \in Nat /\ MAX_HEAP % 8 = 0 /\ MAX_HEAP >= 16 + CHUNCKSIZE
    /\ Indices \subseteq 0 .. 127
    /\ num_ops \in Nat
    /\ \A s \in Sizes : s \in Nat \ {0} /\ s % 4 = 0

VARIABLES
    heap,    \* the memory, mem_brk and last_bp
    ranges,  \* ranges[i]: the payload of block i of the trace, or None
    opnum,   \* the number of requests of the trace that were made
    verdict  \* what eval_mm_valid() has found so far

vars == <<heap, ranges, opnum, verdict>>

WSIZE == 4
DSIZE == 8

Words == {WSIZE * k : k \in 0 .. (MAX_HEAP \div WSIZE) - 1}

NULL == 0
Wild == -1    \* a pointer outside the memory, or a loop that never ends

-----------------------------------------------------------------------------
(***************************************************************************)
(* Tags and pointers.  Memory outside the simulated one reads as 0 and is  *)
(* not written.                                                            *)
(***************************************************************************)
GET(h, p) == IF p \in Words THEN h.mem[p] ELSE 0

PUT(h, p, val) == [h EXCEPT !.mem[p] = val]

PACK(size, alloc) == size + alloc

HEADER_P(bp) == bp - WSIZE

GET_SIZE(h, p) == GET(h, p) - (GET(h, p) % 8)

IS_IT_ALLOC(h, p) == GET(h, p) % 2 = 1

SizeOf(h, bp) == GET_SIZE(h, HEADER_P(bp))

IsFree(h, bp) == ~ IS_IT_ALLOC(h, HEADER_P(bp))

FOOTER_P(h, bp) == bp + SizeOf(h, bp) - DSIZE

NEXT_BLOCK_BP(h, bp) == bp + SizeOf(h, bp)

PREV_BLOCK_BP(h, bp) == bp - GET_SIZE(h, bp - DSIZE)

(* The header, then the footer where the new header says it is. *)
Tag(h, bp, size, alloc) ==
    LET g == PUT(h, HEADER_P(bp), PACK(size, alloc))
    IN  PUT(g, FOOTER_P(g, bp), PACK(size, alloc))

start_bp == 2 * WSIZE

-----------------------------------------------------------------------------
(***************************************************************************)
(* The internal functions of mm.c.                                         *)
(***************************************************************************)
(* Variant: a remainder of two tags and no payload is split off. *)
mark_Sliver(h, bp, adj_size) ==
    LET divided == SizeOf(h, bp) - adj_size
        g == Tag(h, bp, adj_size, 1)
    IN  IF divided >= DSIZE
        THEN Tag(g, NEXT_BLOCK_BP(g, bp), divided, 0)
        ELSE Tag(h, bp, SizeOf(h, bp), 1)

mark(h, bp, adj_size) ==
    LET divided == SizeOf(h, bp) - adj_size
        g == Tag(h, bp, adj_size, 1)
    IN  IF divided >= 2 * DSIZE
        THEN Tag(g, NEXT_BLOCK_BP(g, bp), divided, 0)
        ELSE Tag(h, bp, SizeOf(h, bp), 1)

(* The four cases differ in which neighbours are free; last_bp follows. *)
coalesce(h, bp) ==
    LET prev == PREV_BLOCK_BP(h, bp)
        next == NEXT_BLOCK_BP(h, bp)
        lo == IF IS_IT_ALLOC(h, FOOTER_P(h, prev)) THEN bp ELSE prev
        hi == IF IsFree(h, next) THEN next ELSE bp
        size == SizeOf(h, bp) + (IF lo = bp THEN 0 ELSE SizeOf(h, prev))
                              + (IF hi = bp THEN 0 ELSE SizeOf(h, next))
        g == PUT(h, HEADER_P(lo), PACK(size, 0))
    IN  [heap |-> [PUT(g, FOOTER_P(h, hi), PACK(size, 0)) EXCEPT !.last_bp = lo],
         bp |-> lo]

(* The old break, or NULL when the simulated memory is used up. *)
mem_sbrk(h, incr) ==
    IF h.brk + incr > MAX_HEAP THEN [heap |-> h, bp |-> NULL]
    ELSE [heap |-> [h EXCEPT !.brk = @ + incr], bp |-> h.brk]

(* A free block over the old epilogue, and a new epilogue. *)
extend_heap(h, words) ==
    LET size == WSIZE * (words + (words % 2))
        more == mem_sbrk(h, size)
        g == Tag(more.heap, more.bp, size, 0)
        epilogue == HEADER_P(NEXT_BLOCK_BP(g, more.bp))
    IN  IF more.bp = NULL THEN more
        ELSE coalesce(PUT(g, epilogue, PACK(0, 1)), more.bp)

(***************************************************************************)
(* The two loops of next_fit(): from a block to the epilogue, for a block  *)
(* that is larger, and from a block up to last_bp, for one after it that   *)
(* is at least as large.  A pointer that leaves the memory is Wild, and so *)
(* is one that no longer moves.                                            *)
(***************************************************************************)
Bps == {DSIZE * k : k \in 1 .. MAX_HEAP \div DSIZE}

After(h, bp) ==
    IF NEXT_BLOCK_BP(h, bp) \in Bps THEN NEXT_BLOCK_BP(h, bp) ELSE Wild

ToEnd(h, adj_size, from) ==
    LET Seek[bp \in Bps \cup {Wild}] ==
          IF bp = Wild THEN Wild
          ELSE IF IsFree(h, bp) /\ SizeOf(h, bp) > adj_size THEN bp
          ELSE IF SizeOf(h, bp) = 0 THEN NULL
          ELSE Seek[After(h, bp)]
    IN  Seek[from]

ToLast(h, adj_size, from) ==
    LET Fits(bp) == bp # Wild /\ IsFree(h, bp) /\ SizeOf(h, bp) >= adj_size
        Seek[bp \in Bps \cup {Wild}] ==
          IF bp = Wild THEN Wild
          ELSE IF bp >= h.last_bp THEN NULL
          ELSE IF After(h, bp) = bp THEN Wild
          ELSE IF Fits(After(h, bp)) THEN After(h, bp)
          ELSE Seek[After(h, bp)]
    IN  Seek[from]

(* Variant: the search does not wrap around. *)
next_fit_NoWrap(h, adj_size) == ToEnd(h, adj_size, After(h, h.last_bp))

next_fit(h, adj_size) ==
    LET ahead == ToEnd(h, adj_size, After(h, h.last_bp))
    IN  IF ahead # NULL THEN ahead ELSE ToLast(h, adj_size, start_bp)

-----------------------------------------------------------------------------
(***************************************************************************)
(* The interface of mm.c: the heap after a call, and what it returned.     *)
(***************************************************************************)
mm_init ==
    LET h == [mem |-> [p \in Words |->
                  CASE p \in {WSIZE, 2 * WSIZE} -> PACK(DSIZE, 1)
                    [] p = 3 * WSIZE -> PACK(0, 1)
                    [] OTHER -> 0],
              brk |-> 4 * WSIZE, last_bp |-> start_bp]
    IN  [extend_heap(h, CHUNCKSIZE \div WSIZE).heap EXCEPT !.last_bp = start_bp]

adjusted_size(size) ==
    IF size <= DSIZE THEN 2 * DSIZE
    ELSE DSIZE * ((size + 2 * DSIZE - 1) \div DSIZE)

mm_malloc(h, size) ==
    LET adj == adjusted_size(size)
        fit == next_fit(h, adj)
        more == IF fit = NULL
                THEN extend_heap(h, (IF adj > CHUNCKSIZE THEN adj ELSE CHUNCKSIZE)
                                    \div WSIZE)
                ELSE [heap |-> h, bp |-> fit]
    IN  IF more.bp \in {NULL, Wild} THEN more
        ELSE [heap |-> [mark(more.heap, more.bp, adj) EXCEPT !.last_bp = more.bp],
              bp |-> more.bp]

mm_free(h, ptr) == coalesce(Tag(h, ptr, SizeOf(h, ptr), 0), ptr).heap

memcpy(h, dst, src, n) ==
    [h EXCEPT !.mem = [p \in Words |->
        IF p \in dst .. dst + n - 1 THEN GET(h, p - dst + src) ELSE @[p]]]

(* Variant: the block moves and its data does not. *)
mm_realloc_NoCopy(h, ptr, size) ==
    LET a == mm_malloc(h, size)
    IN  IF a.bp \in {NULL, Wild} THEN [heap |-> h, bp |-> Wild]
        ELSE [heap |-> mm_free(a.heap, ptr), bp |-> a.bp]

(***************************************************************************)
(* Stay, take all of a free successor, or move.  mark() is called for the  *)
(* new block a second time, and for NULL too if there is no memory left.   *)
(***************************************************************************)
mm_realloc(h, ptr, size) ==
    LET cur_size == SizeOf(h, ptr)
        new_size == size + 2 * WSIZE
        next == NEXT_BLOCK_BP(h, ptr)
        merged_size == cur_size + SizeOf(h, next)
        a == mm_malloc(h, new_size)
    IN  IF new_size <= cur_size THEN [heap |-> h, bp |-> ptr]
        ELSE IF IsFree(h, next) /\ merged_size >= new_size
        THEN [heap |-> Tag(h, ptr, merged_size, 1), bp |-> ptr]
        ELSE IF a.bp \in {NULL, Wild} THEN [heap |-> h, bp |-> Wild]
        ELSE [heap |-> mm_free(memcpy(mark(a.heap, a.bp, new_size), a.bp, ptr,
                                      cur_size), ptr),
              bp |-> a.bp]

-----------------------------------------------------------------------------
(***************************************************************************)
(* eval_mm_valid() of the driver: it keeps the range of every payload,     *)
(* fills payload i with byte i, and stops at the first error.              *)
(***************************************************************************)
None == [lo |-> NULL, size |-> 0]

Pattern(i) == 16843009 * i    \* the byte i in all four places

Payload(r) == r.lo .. r.lo + r.size - 1

(* add_range(): aligned, inside the heap, neither end in another range. *)
RangeOK(h, r, others) ==
    /\ r.lo % DSIZE = 0
    /\ Payload(r) \subseteq 0 .. h.brk - 1
    /\ \A o \in others : Payload(o) \cap {r.lo, r.lo + r.size - 1} = {}

memset(h, r, i) ==
    [h EXCEPT !.mem = [p \in Words |-> IF p \in Payload(r) THEN Pattern(i) ELSE @[p]]]

(* The driver takes over the block that call a returned for index i. *)
Adopt(i, a, size) ==
    LET r == [lo |-> a.bp, size |-> size]
        others == {ranges[j] : j \in Indices \ {i}}
        kept == \A p \in Words :
                  p \in a.bp .. a.bp + (IF size < ranges[i].size
                                        THEN size ELSE ranges[i].size) - 1
                  => GET(a.heap, p) = Pattern(i)
    IN  \/ /\ a.bp = NULL
           /\ verdict' = "failed" /\ UNCHANGED <<heap, ranges>>
        \/ /\ a.bp = Wild
           /\ verdict' = "wild" /\ UNCHANGED <<heap, ranges>>
        \/ /\ a.bp \notin {NULL, Wild} /\ ~ RangeOK(a.heap, r, others)
           /\ verdict' = "bad range" /\ UNCHANGED <<heap, ranges>>
        \/ /\ a.bp \notin {NULL, Wild} /\ RangeOK(a.heap, r, others) /\ ~ kept
           /\ verdict' = "data lost" /\ UNCHANGED <<heap, ranges>>
        \/ /\ a.bp \notin {NULL, Wild} /\ RangeOK(a.heap, r, others) /\ kept
           /\ heap' = memset(a.heap, r, i)
           /\ ranges' = [ranges EXCEPT ![i] = r]
           /\ UNCHANGED verdict

Request ==
    /\ verdict = "valid"
    /\ opnum < num_ops
    /\ opnum' = opnum + 1

Alloc(i, size) ==
    /\ Request
    /\ ranges[i] = None
    /\ Adopt(i, mm_malloc(heap, size), size)

Realloc(i, size) ==
    /\ Request
    /\ ranges[i] # None
    /\ Adopt(i, mm_realloc(heap, ranges[i].lo, size), size)

Free(i) ==
    /\ Request
    /\ ranges[i] # None
    /\ heap' = mm_free(heap, ranges[i].lo)
    /\ ranges' = [ranges EXCEPT ![i] = None]
    /\ UNCHANGED verdict

(* The trace is done, or the driver has stopped with an error. *)
Return ==
    /\ opnum = num_ops \/ verdict # "valid"
    /\ UNCHANGED vars

Init ==
    /\ heap = mm_init
    /\ ranges = [i \in Indices |-> None]
    /\ opnum = 0
    /\ verdict = "valid"

Next ==
    \/ \E i \in Indices, size \in Sizes : Alloc(i, size) \/ Realloc(i, size)
    \/ \E i \in Indices : Free(i)
    \/ Return

Spec == Init /\ [][Next]_vars

-----------------------------------------------------------------------------
(***************************************************************************)
(* Properties                                                              *)
(***************************************************************************)
(* The blocks from the prologue on, as the sizes in the headers chain them. *)
Chain(h) ==
    LET From[bp \in Bps] ==
          {bp} \cup IF SizeOf(h, bp) = 0 \/ NEXT_BLOCK_BP(h, bp) > h.brk THEN {}
                    ELSE From[NEXT_BLOCK_BP(h, bp)]
    IN  From[start_bp]

FreeBlocks(h) == {bp \in Chain(h) : IsFree(h, bp)}

TypeOK ==
    /\ heap.mem \in [Words -> Nat]
    /\ heap.brk \in 0 .. MAX_HEAP
    /\ heap.last_bp \in 0 .. heap.brk
    /\ ranges \in [Indices -> [lo : Nat, size : {0} \cup Sizes]]
    /\ opnum \in 0 .. num_ops
    /\ verdict \in {"valid", "failed", "wild", "bad range", "data lost"}

(***************************************************************************)
(* The blocks tile the heap: the chain ends with the epilogue at mem_brk,  *)
(* and header and footer of every block agree, whatever was split, merged, *)
(* moved and filled by the user before.                                    *)
(***************************************************************************)
Tiled ==
    /\ heap.brk \in Chain(heap)
    /\ GET(heap, HEADER_P(heap.brk)) = PACK(0, 1)
    /\ \A bp \in Chain(heap) \ {heap.brk} :
        /\ GET(heap, HEADER_P(bp)) = GET(heap, FOOTER_P(heap, bp))
        /\ bp # start_bp => SizeOf(heap, bp) >= 2 * DSIZE

(***************************************************************************)
(* The allocated blocks are those the user has, each large enough: nothing *)
(* leaks, and nothing is handed out twice.                                 *)
(***************************************************************************)
AllocatedAreInUse ==
    LET inUse == {i \in Indices : ranges[i] # None}
    IN  /\ Chain(heap) \ (FreeBlocks(heap) \cup {start_bp, heap.brk})
             = {ranges[i].lo : i \in inUse}
        /\ \A i \in inUse : ranges[i].size <= SizeOf(heap, ranges[i].lo) - DSIZE

(* Two free blocks are never neighbours: mm_free() and extend_heap() merge *)
(* them at once, and what mark() splits off has no free neighbour.         *)
Coalesced ==
    \A bp \in FreeBlocks(heap) : NEXT_BLOCK_BP(heap, bp) \notin FreeBlocks(heap)

(***************************************************************************)
(* The heap is sound after every request, whatever was split, merged, moved *)
(* and filled by the user before: the blocks tile it and their tags agree, *)
(* the allocated ones are those in use, and no two neighbours are free.    *)
(***************************************************************************)
HeapSound == TypeOK /\ Tiled /\ AllocatedAreInUse /\ Coalesced

(***************************************************************************)
(* The driver never finds a payload misplaced or its data changed.  That a *)
(* call of the allocator leaves the heap (a wild verdict) is not excluded: *)
(* the driver dies of it without a finding.                                *)
(***************************************************************************)
DriverContent == verdict \notin {"bad range", "data lost"}

LastIsBlock == heap.last_bp \in Chain(heap)

(***************************************************************************)
(* The heap grows only if no block is larger than what is asked for: the   *)
(* search from last_bp and around covers every block.  Nothing is said of  *)
(* a last_bp that mm_realloc() has left inside the data of a block.        *)
(***************************************************************************)
GrowsOnlyWhenFull ==
    [][\A i \in Indices :
        ranges[i] = None /\ ranges'[i] # None /\ heap'.brk # heap.brk
        /\ LastIsBlock =>
            \A bp \in FreeBlocks(heap) :
                SizeOf(heap, bp) <= adjusted_size(ranges'[i].size)
      ]_vars

(* The driver gets to the end of every trace, or runs out of memory: no    *)
(* call of the allocator leaves the heap or loops for ever.  It does not   *)
(* hold: mm_realloc() merges the block that last_bp points to.             *)
NeverWild == verdict # "wild"

=============================================================================
