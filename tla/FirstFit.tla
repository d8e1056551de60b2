------------------------------ MODULE FirstFit -----------------------------
(***************************************************************************)
(* The first-fit allocator (mm.c and memlib.c of CSE4100/vm/malloc): an    *)
(* implicit list of blocks with a header and a footer, as operators from a *)
(* heap to a heap.  Driver calls them.                                     *)
(*                                                                         *)
(* The simulated memory has one number for every word.  Addresses are      *)
(* offsets from mem_heap, which is aligned, shifted by FF_LO so that NULL  *)
(* is none of them.  Sizes are multiples of the word.                      *)
(***************************************************************************)
EXTENDS Integers

CONSTANTS
    FF_CHUNK,   \* CHUNKSIZE: what the heap grows by at least
    FF_HEAP     \* MAX_HEAP: the size of the simulated memory

ASSUME FirstFitAssumption ==
    /\ FF_CHUNK \in Nat /\ FF_CHUNK > 0 /\ FF_CHUNK % 8 = 0
    /\ FF_HEAP \in Nat /\ FF_HEAP % 8 = 0 /\ FF_HEAP >= 16 + FF_CHUNK

WSIZE == 4
DSIZE == 8
FF_LO == 8
FFNull == 0
FFWords == {FF_LO + WSIZE * k : k \in 0 .. (FF_HEAP \div WSIZE) - 1}
FFBlocks == {FF_LO + DSIZE * k : k \in 1 .. FF_HEAP \div DSIZE}

-----------------------------------------------------------------------------
(***************************************************************************)
(* The macros.                                                             *)
(***************************************************************************)
GET(h, p) == IF p \in FFWords THEN h.mem[p] ELSE 0

PUT(h, p, val) == [h EXCEPT !.mem[p] = val]

PACK(size, alloc) == size + alloc

GET_SIZE(h, p) == GET(h, p) - (GET(h, p) % 8)

GET_ALLOC(h, p) == GET(h, p) % 2 = 1

HDRP(bp) == bp - WSIZE

FTRP(h, bp) == bp + GET_SIZE(h, HDRP(bp)) - DSIZE

NEXT_BLKP(h, bp) == bp + GET_SIZE(h, HDRP(bp))

PREV_BLKP(h, bp) == bp - GET_SIZE(h, bp - DSIZE)

(* The header, then the footer where the new header says it is. *)
PutTags(h, bp, size, alloc) ==
    LET g == PUT(h, HDRP(bp), PACK(size, alloc))
    IN  PUT(g, FTRP(g, bp), PACK(size, alloc))

-----------------------------------------------------------------------------
(***************************************************************************)
(* memlib.c.  Memory beyond the break keeps what an earlier heap left.     *)
(***************************************************************************)
ff_mem_init == [mem |-> [p \in FFWords |-> 0], brk |-> FF_LO,
                heap_listp |-> FFNull, fault |-> "none"]

ff_reset_brk(h) == [h EXCEPT !.brk = FF_LO]

ff_sbrk(h, incr) ==
    IF h.brk + incr > FF_LO + FF_HEAP THEN [heap |-> h, bp |-> -1]
    ELSE [heap |-> [h EXCEPT !.brk = @ + incr], bp |-> h.brk]

ff_heapsize(h) == h.brk - FF_LO

-----------------------------------------------------------------------------
(***************************************************************************)
(* The helpers.                                                            *)
(***************************************************************************)
(* Variant: a merged block gets a new header and keeps its old footer. *)
coalesce_NoFooter(h, bp) ==
    LET prev == PREV_BLKP(h, bp)
        next == NEXT_BLKP(h, bp)
        lo == IF GET_ALLOC(h, FTRP(h, prev)) THEN bp ELSE prev
        hi == IF GET_ALLOC(h, HDRP(next)) THEN bp ELSE next
    IN  [heap |-> PUT(h, HDRP(lo), PACK(hi + GET_SIZE(h, HDRP(hi)) - lo, 0)),
         bp |-> lo]

(* The block from the first to the last of the free neighbours. *)
coalesce(h, bp) ==
    LET prev == PREV_BLKP(h, bp)
        next == NEXT_BLKP(h, bp)
        lo == IF GET_ALLOC(h, FTRP(h, prev)) THEN bp ELSE prev
        hi == IF GET_ALLOC(h, HDRP(next)) THEN bp ELSE next
        size == GET_SIZE(h, HDRP(bp))
                + (IF lo = bp THEN 0 ELSE GET_SIZE(h, HDRP(prev)))
                + (IF hi = bp THEN 0 ELSE GET_SIZE(h, HDRP(next)))
    IN  [heap |-> PutTags(h, lo, size, 0), bp |-> lo]

(* A free block over the old epilogue, and a new epilogue. *)
extend_heap(h, words) ==
    LET size == WSIZE * (words + (words % 2))
        more == ff_sbrk(h, size)
        g == PutTags(more.heap, more.bp, size, 0)
    IN  IF more.bp = -1 THEN [heap |-> h, bp |-> FFNull]
        ELSE coalesce(PUT(g, HDRP(NEXT_BLKP(g, more.bp)), PACK(0, 1)), more.bp)

place(h, bp, asize) ==
    LET csize == GET_SIZE(h, HDRP(bp))
        g == PutTags(h, bp, asize, 1)
    IN  IF csize - asize >= 2 * DSIZE
        THEN PutTags(g, NEXT_BLKP(g, bp), csize - asize, 0)
        ELSE PutTags(h, bp, csize, 1)

find_fit(h, asize) ==
    LET Seek[bp \in FFBlocks] ==
          IF GET_SIZE(h, HDRP(bp)) = 0 THEN FFNull
          ELSE IF ~ GET_ALLOC(h, HDRP(bp)) /\ asize <= GET_SIZE(h, HDRP(bp))
          THEN bp ELSE Seek[NEXT_BLKP(h, bp)]
    IN  Seek[h.heap_listp]

-----------------------------------------------------------------------------
(***************************************************************************)
(* The interface of mm.c.                                                  *)
(***************************************************************************)
ff_init(h) ==
    LET base == ff_sbrk(h, 4 * WSIZE)
        p == base.bp
        padded == PUT(base.heap, p, 0)
        prologue == PUT(PUT(padded, p + WSIZE, PACK(DSIZE, 1)),
                        p + 2 * WSIZE, PACK(DSIZE, 1))
        epilogue == PUT(prologue, p + 3 * WSIZE, PACK(0, 1))
        grown == extend_heap([epilogue EXCEPT !.heap_listp = p + 2 * WSIZE],
                             FF_CHUNK \div WSIZE)
    IN  IF base.bp = -1 THEN [heap |-> h, bp |-> -1]
        ELSE [heap |-> grown.heap, bp |-> IF grown.bp = FFNull THEN -1 ELSE 0]

AdjustedSize(size) ==
    IF size <= DSIZE THEN 2 * DSIZE
    ELSE DSIZE * ((size + DSIZE + (DSIZE - 1)) \div DSIZE)

Allocate(g, size) ==
    LET asize == AdjustedSize(size)
        bp == find_fit(g, asize)
        more == extend_heap(g, (IF asize > FF_CHUNK THEN asize ELSE FF_CHUNK)
                               \div WSIZE)
    IN  CASE size = 0 -> [heap |-> g, bp |-> FFNull]
          [] bp # FFNull -> [heap |-> place(g, bp, asize), bp |-> bp]
          [] more.bp = FFNull -> [heap |-> g, bp |-> FFNull]
          [] OTHER -> [heap |-> place(more.heap, more.bp, asize), bp |-> more.bp]

ff_malloc(h, size) ==
    Allocate(IF h.heap_listp = FFNull THEN ff_init(h).heap ELSE h, size)

ff_free(h, bp) ==
    IF bp = FFNull THEN h
    ELSE coalesce(PutTags(h, bp, GET_SIZE(h, HDRP(bp)), 0), bp).heap

ff_memset(h, p, size, byte) ==
    [h EXCEPT !.mem = [a \in FFWords |->
        IF a \in p .. p + size - 1 THEN 16843009 * byte ELSE @[a]]]

ff_peek(h, a) == (GET(h, a - (a % WSIZE)) \div 256 ^ (a % WSIZE)) % 256

(* What is at ptr goes to the new block.  oldsize is read from the tag, so *)
(* up to eight bytes more than the old payload are copied when the new one *)
(* is larger.                                                              *)
Moved(new, ptr, size) ==
    LET tag == GET_SIZE(new.heap, HDRP(ptr))
        oldsize == IF size < tag THEN size ELSE tag
        copied == [new.heap EXCEPT !.mem = [a \in FFWords |->
            IF a \in new.bp .. new.bp + oldsize - 1
            THEN GET(new.heap, ptr + (a - new.bp)) ELSE @[a]]]
    IN  IF ptr = FFNull \/ new.bp = FFNull THEN new
        ELSE [heap |-> ff_free(copied, ptr), bp |-> new.bp]

ff_realloc(h, ptr, size) ==
    IF size = 0 THEN [heap |-> ff_free(h, ptr), bp |-> FFNull]
    ELSE Moved(ff_malloc(h, size), ptr, size)

-----------------------------------------------------------------------------
(***************************************************************************)
(* checkheap(): whether it would find nothing to print.                    *)
(***************************************************************************)
checkblock(h, bp) ==
    /\ (bp - FF_LO) % 8 = 0
    /\ GET(h, HDRP(bp)) = GET(h, FTRP(h, bp))

checkheap(h) ==
    LET Walk[bp \in FFBlocks] ==
          IF GET_SIZE(h, HDRP(bp)) = 0
          THEN bp = h.brk /\ GET_ALLOC(h, HDRP(bp))
          ELSE /\ checkblock(h, bp)
               /\ NEXT_BLKP(h, bp) \in FFBlocks
               /\ Walk[NEXT_BLKP(h, bp)]
    IN  /\ GET_SIZE(h, HDRP(h.heap_listp)) = DSIZE
        /\ GET_ALLOC(h, HDRP(h.heap_listp))
        /\ Walk[h.heap_listp]

(* No two neighbours are both free. *)
Coalesced(h) ==
    LET Walk[bp \in FFBlocks] ==
          IF GET_SIZE(h, HDRP(bp)) = 0 THEN TRUE
          ELSE /\ GET_ALLOC(h, HDRP(bp)) \/ GET_ALLOC(h, HDRP(NEXT_BLKP(h, bp)))
               /\ Walk[NEXT_BLKP(h, bp)]
    IN  Walk[h.heap_listp]

=============================================================================
