---------------------------- MODULE MCAllocators ----------------------------
(* The driver with the buddy allocator and with the first-fit allocator:   *)
(* the memory that Init picks tells which one it is.                       *)
EXTENDS Driver, Buddy, FirstFit

IsBuddy(h) == "bitmap" \in DOMAIN h
MCInit(h) == IF IsBuddy(h) THEN buddy_init(h) ELSE ff_init(h)
MCMalloc(h, n) == IF IsBuddy(h) THEN buddy_malloc(h, n) ELSE ff_malloc(h, n)
MCFree(h, p) == IF IsBuddy(h) THEN buddy_free(h, p) ELSE ff_free(h, p)
MCRealloc(h, p, n) == IF IsBuddy(h) THEN buddy_realloc(h, p, n) ELSE ff_realloc(h, p, n)
MCReset(h) == IF IsBuddy(h) THEN buddy_reset_brk(h) ELSE ff_reset_brk(h)
MCHeapLo(h) == IF IsBuddy(h) THEN 0 ELSE FF_LO
MCHeapSize(h) == IF IsBuddy(h) THEN buddy_heapsize(h) ELSE ff_heapsize(h)
MCMemset(h, p, n, byte) ==
    IF IsBuddy(h) THEN buddy_memset(h, p, n, byte) ELSE ff_memset(h, p, n, byte)
MCPeek(h, a) == IF IsBuddy(h) THEN buddy_peek(h, a) ELSE ff_peek(h, a)
MCNoHeap == {BuddyNoHeap, ff_mem_init}

(***************************************************************************)
(* The single file of -f begins with eight blocks of a page and the frees  *)
(* of three of them, in different pairs.                                   *)
(***************************************************************************)
MCEmpty == {<<>>}
MCPages == [k \in 1 .. 8 |-> [type |-> "a", index |-> k - 1, size |-> 8]]
MCFrees(is) == [k \in 1 .. Len(is) |-> [type |-> "f", index |-> is[k], size |-> 0]]
MCLong == {MCPages \o MCFrees(<<0, 2, 4>>)}
MCWrong == {Missing, [num_ids |-> 1, num_ops |-> 2, ops |-> <<>>],
            [num_ids |-> 1, num_ops |-> 1,
             ops |-> <<[type |-> "bogus", index |-> 0, size |-> 0]>>]}
MCContents(path) ==
    CASE path = <<"default", 1>> -> Traces(MCEmpty, 1, {"a"}, {8, 400})
      [] path = <<"default", 2>> -> Traces(MCEmpty, 4, {"a", "f", "r"}, {8, 20})
      [] path = <<"./", 0>> -> Traces(MCLong, 2, {"a", "f"}, {8, 12, 64})
      [] OTHER -> Traces(MCEmpty, 1, {"a"}, {8, 0}) \cup MCWrong

-----------------------------------------------------------------------------
PagesInUse == {(blocks[i].lo - physical_memory_area) \div PAGE_SIZE : i \in InUse}

BuddyChecked == phase = "valid" /\ IsBuddy(heap) /\ heap.fault = "none"
                /\ TopUntouched(heap)

(***************************************************************************)
(* Between two calls every free list is linked both ways, although free()  *)
(* takes the buddy off its list through a copy of its page struct; every   *)
(* page is in exactly one block, free or in use, so that splitting, merging *)
(* and moving lose none and hand none out twice; and the bit that free()   *)
(* merges by tells whether exactly one buddy is free, as long as no two    *)
(* pairs share a bit.                                                      *)
(***************************************************************************)
FreeAreasSound ==
    BuddyChecked => /\ ListsLinked(heap)
                    /\ PagesPartitioned(heap, PagesInUse)
                    /\ BitsExact(heap)

(***************************************************************************)
(* checkheap() of the first-fit allocator never finds anything to report,  *)
(* whatever was split, merged, moved and filled by the user before, and    *)
(* no two neighbours are both free.                                        *)
(***************************************************************************)
CheckheapSilent ==
    phase = "valid" /\ ~ IsBuddy(heap) => checkheap(heap) /\ Coalesced(heap)

=============================================================================
