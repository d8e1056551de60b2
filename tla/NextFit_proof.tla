--------------------------- MODULE NextFit_proof ---------------------------
(***************************************************************************)
(* Proofs about the next-fit allocator under the driver.  A heap is        *)
(* described by the set S of its block pointers, the block nx[b] after     *)
(* each b and the set F of the free ones.  Every function of mm.c gets a   *)
(* lemma that says what it does to such a description; loops and the chain *)
(* of the headers are functions defined by recursion, reasoned about       *)
(* through a least counterexample.                                         *)
(***************************************************************************)
EXTENDS NextFit, WellFoundedInduction, TLAPS

(* Every set of natural numbers has a least element. *)
LEMMA Least ==
    ASSUME NEW T \in SUBSET Nat, T # {} PROVE \E x \in T : \A y \in T : x <= y
<1> DEFINE R == {ss \in Nat \X Nat : ss[1] < ss[2]}
<1>1. IsWellFoundedOn(R, Nat)
  BY NatLessThanWellFounded, Zenon DEF OpToRel
<1>2. \A y, x \in Nat : y < x => <<y, x>> \in R
  OBVIOUS
<1> HIDE DEF R
<1>3. PICK x \in T : \A y \in T : ~ (<<y, x>> \in R)
  BY <1>1, WFMin
<1>4. \A y \in T : y \in Nat /\ x \in Nat /\ ~ (y < x)
  BY <1>2, <1>3
<1>5. \A y \in T : x <= y
  BY <1>4
<1> QED BY <1>5

-----------------------------------------------------------------------------
LEMMA WordsAre ==
    ASSUME NEW p \in Nat, p % 4 = 0, p < MAX_HEAP PROVE p \in Words
<1>1. MAX_HEAP \in Nat /\ MAX_HEAP % 8 = 0
  BY NextFitAssumption
<1>2. p = WSIZE * (p \div 4) /\ p \div 4 \in 0 .. (MAX_HEAP \div WSIZE) - 1
  BY <1>1 DEF WSIZE
<1> QED BY <1>2 DEF Words

LEMMA WordsIn == \A p \in Words : p \in Nat /\ p % 4 = 0 /\ p < MAX_HEAP
<1>1. MAX_HEAP \in Nat /\ MAX_HEAP % 8 = 0
  BY NextFitAssumption
<1> SUFFICES ASSUME NEW k \in 0 .. (MAX_HEAP \div WSIZE) - 1
             PROVE WSIZE * k \in Nat /\ (WSIZE * k) % 4 = 0 /\ WSIZE * k < MAX_HEAP
  BY DEF Words
<1>2. k \in Int /\ 0 <= k /\ k <= (MAX_HEAP \div 4) - 1
  BY <1>1 DEF WSIZE
<1> QED BY <1>1, <1>2 DEF WSIZE

LEMMA BpsAre ==
    ASSUME NEW b \in Nat, b % 8 = 0, 8 <= b, b <= MAX_HEAP PROVE b \in Bps
<1>1. MAX_HEAP \in Nat /\ MAX_HEAP % 8 = 0
  BY NextFitAssumption
<1>2. b = DSIZE * (b \div 8) /\ b \div 8 \in 1 .. MAX_HEAP \div DSIZE
  BY <1>1 DEF DSIZE
<1> QED BY <1>2 DEF Bps

LEMMA BpsIn == \A b \in Bps : b \in Nat /\ b % 8 = 0 /\ 8 <= b /\ b <= MAX_HEAP
<1>1. MAX_HEAP \in Nat /\ MAX_HEAP % 8 = 0
  BY NextFitAssumption
<1> SUFFICES ASSUME NEW k \in 1 .. MAX_HEAP \div DSIZE
             PROVE DSIZE * k \in Nat /\ (DSIZE * k) % 8 = 0 /\ 8 <= DSIZE * k
                   /\ DSIZE * k <= MAX_HEAP
  BY DEF Bps
<1>2. k \in Int /\ 1 <= k /\ k <= MAX_HEAP \div 8
  BY <1>1 DEF DSIZE
<1> QED BY <1>1, <1>2 DEF DSIZE

(* The footer of a block that ends at e. *)
FootBelow(e) == e - DSIZE

(* The words that tags occupy. *)
LEMMA TagWords ==
    /\ \A b \in Bps : HEADER_P(b) \in Words /\ FootBelow(b) \in Words
    /\ \A b, c \in Bps : HEADER_P(b) # FootBelow(c)
    /\ \A b, c \in Bps : b # c => HEADER_P(b) # HEADER_P(c) /\ FootBelow(b) # FootBelow(c)
<1>1. SUFFICES ASSUME NEW b \in Bps, NEW c \in Bps
      PROVE /\ b - 4 \in Words /\ b - 8 \in Words /\ b - 4 # c - 8
            /\ b # c => b - 4 # c - 4 /\ b - 8 # c - 8
  BY DEF HEADER_P, FootBelow, WSIZE, DSIZE
<1>2. /\ b \in Nat /\ b % 8 = 0 /\ 8 <= b /\ b <= MAX_HEAP /\ MAX_HEAP \in Nat
      /\ c \in Nat /\ c % 8 = 0
  BY BpsIn, NextFitAssumption
<1>3. /\ b - 4 \in Nat /\ b - 8 \in Nat /\ (b - 4) % 4 = 0 /\ (b - 8) % 4 = 0
      /\ b - 4 < MAX_HEAP /\ b - 8 < MAX_HEAP
  BY <1>2
<1>4. b - 4 # c - 8 /\ (b # c => b - 4 # c - 4 /\ b - 8 # c - 8)
  BY <1>2
<1>5. b - 4 \in Words /\ b - 8 \in Words
  BY <1>3, WordsAre
<1> QED BY <1>4, <1>5

(* What the macros read from a tag. *)
Reads(val, s, a) ==
    /\ val \in Nat
    /\ val - (val % 8) = s
    /\ (val % 2 = 1) <=> (a = 1)

LEMMA Unpacked ==
    ASSUME NEW s \in Nat, s % 8 = 0, NEW a \in {0, 1} PROVE Reads(s + a, s, a)
<1>1. CASE a = 0
  BY <1>1 DEF Reads
<1>2. CASE a = 1
  BY <1>2 DEF Reads
<1> QED BY <1>1, <1>2

(* The distance of two block pointers. *)
LEMMA Distance ==
    ASSUME NEW b \in Bps, NEW c \in Bps, b < c
    PROVE c - b \in Nat /\ (c - b) % 8 = 0 /\ c - b >= 8 /\ b + (c - b) = c
<1>1. b \in Nat /\ b % 8 = 0 /\ c \in Nat /\ c % 8 = 0
  BY BpsIn
<1> QED BY <1>1

-----------------------------------------------------------------------------
Heaps == [mem : [Words -> Nat], brk : Nat, last_bp : Nat]

(* g is h with val in the header of bp and in the footer of a block that ends at e. *)
Tagged(h, g, bp, e, val) ==
    /\ g \in Heaps
    /\ g.brk = h.brk
    /\ g.mem[HEADER_P(bp)] = val
    /\ g.mem[FootBelow(e)] = val
    /\ \A p \in Words \ {HEADER_P(bp), FootBelow(e)} : g.mem[p] = h.mem[p]

LEMMA PutType ==
    ASSUME NEW h \in Heaps, NEW p \in Words, NEW val \in Nat
    PROVE /\ PUT(h, p, val) \in Heaps
          /\ PUT(h, p, val).brk = h.brk
          /\ PUT(h, p, val).last_bp = h.last_bp
          /\ PUT(h, p, val).mem[p] = val
          /\ \A q \in Words \ {p} : PUT(h, p, val).mem[q] = h.mem[q]
BY DEF PUT, Heaps

(* What the header of bp says, when it says that the block ends at e. *)
LEMMA HeaderSays ==
    ASSUME NEW h \in Heaps, NEW bp \in Bps, NEW e \in Bps, bp < e, NEW a \in {0, 1},
           h.mem[HEADER_P(bp)] = e - bp + a
    PROVE /\ SizeOf(h, bp) = e - bp
          /\ IsFree(h, bp) <=> (a = 0)
          /\ NEXT_BLOCK_BP(h, bp) = e
          /\ FOOTER_P(h, bp) = FootBelow(e)
<1>1. PICK s \in Nat : s = e - bp
  BY Distance
<1>2. s % 8 = 0 /\ bp + s = e /\ e \in Nat /\ bp \in Nat
  BY <1>1, Distance, BpsIn
<1>3. PICK val : val = e - bp + a
  OBVIOUS
<1>4. Reads(val, s, a)
  BY <1>1, <1>2, <1>3, Unpacked
<1>5. GET(h, HEADER_P(bp)) = val
  BY <1>3, TagWords DEF GET
<1>6. SizeOf(h, bp) = s
  BY <1>4, <1>5 DEF SizeOf, GET_SIZE, Reads
<1>7. IsFree(h, bp) <=> (a = 0)
  BY <1>4, <1>5 DEF IsFree, IS_IT_ALLOC, Reads
<1>8. NEXT_BLOCK_BP(h, bp) = e
  BY <1>2, <1>6 DEF NEXT_BLOCK_BP
<1>9. FOOTER_P(h, bp) = e - DSIZE
  BY <1>2, <1>6 DEF FOOTER_P, DSIZE
<1> QED BY <1>1, <1>6, <1>7, <1>8, <1>9 DEF FootBelow

LEMMA TagEffect ==
    ASSUME NEW h \in Heaps, NEW bp \in Bps, NEW e \in Bps, bp < e, NEW a \in {0, 1}
    PROVE /\ Tagged(h, Tag(h, bp, e - bp, a), bp, e, e - bp + a)
          /\ Tag(h, bp, e - bp, a).last_bp = h.last_bp
<1> DEFINE val == e - bp + a
           g == PUT(h, HEADER_P(bp), val)
           k == PUT(g, FootBelow(e), val)
<1>1. val \in Nat
  BY Distance
<1>2. /\ HEADER_P(bp) \in Words /\ FootBelow(e) \in Words /\ HEADER_P(bp) # FootBelow(e)
  BY TagWords
<1> HIDE DEF val
<1>4. /\ g \in Heaps /\ g.brk = h.brk /\ g.last_bp = h.last_bp
      /\ g.mem[HEADER_P(bp)] = val
      /\ \A q \in Words \ {HEADER_P(bp)} : g.mem[q] = h.mem[q]
  BY <1>1, <1>2, PutType
<1> HIDE DEF g
<1>5. /\ k \in Heaps /\ k.brk = g.brk /\ k.last_bp = g.last_bp
      /\ k.mem[FootBelow(e)] = val
      /\ \A q \in Words \ {FootBelow(e)} : k.mem[q] = g.mem[q]
  BY <1>1, <1>2, <1>4, PutType
<1>6. FOOTER_P(g, bp) = FootBelow(e)
  BY <1>4, HeaderSays DEF val
<1>7. Tag(h, bp, e - bp, a) = k
  BY <1>6 DEF Tag, PACK, g, val
<1> HIDE DEF k
<1>8. Tagged(h, k, bp, e, val)
  BY <1>2, <1>4, <1>5 DEF Tagged
<1> QED BY <1>4, <1>5, <1>7, <1>8 DEF val

-----------------------------------------------------------------------------
(***************************************************************************)
(* The layout of a heap: S is the set of its block pointers, nx the block  *)
(* after each of them, F the free ones.                                    *)
(***************************************************************************)
Ordered(brk, S, nx) ==
    \A b \in S \ {brk} :
        /\ b < nx[b]
        /\ b # start_bp => b + 16 <= nx[b]
        /\ \A c \in S : b < c => nx[b] <= c

Shape(brk, S, nx, F) ==
    /\ S \in SUBSET Bps
    /\ start_bp \in S /\ brk \in S /\ start_bp < brk
    /\ \A b \in S : b <= brk
    /\ F \in SUBSET (S \ {start_bp, brk})
    /\ nx \in [S \ {brk} -> S]
    /\ Ordered(brk, S, nx)

(* What stands in both tags of the block. *)
TagOf(nx, F, b) == nx[b] - b + (IF b \in F THEN 0 ELSE 1)

Tags(h, S, nx, F) ==
    /\ h.mem[HEADER_P(h.brk)] = 1
    /\ \A b \in S \ {h.brk} : /\ h.mem[HEADER_P(b)] = TagOf(nx, F, b)
                              /\ h.mem[FootBelow(nx[b])] = TagOf(nx, F, b)

Layout(h, S, nx, F) ==
    /\ h \in Heaps
    /\ Shape(h.brk, S, nx, F)
    /\ Tags(h, S, nx, F)

LEMMA StartBp == start_bp = 8 /\ start_bp \in Bps
BY BpsAre, NextFitAssumption DEF start_bp, WSIZE

(* What the macros say of the blocks. *)
LEMMA BlockReads ==
    ASSUME NEW h, NEW S, NEW nx, NEW F, Layout(h, S, nx, F), NEW b \in S \ {h.brk}
    PROVE /\ SizeOf(h, b) = nx[b] - b
          /\ IsFree(h, b) <=> (b \in F)
          /\ NEXT_BLOCK_BP(h, b) = nx[b]
          /\ FOOTER_P(h, b) = FootBelow(nx[b])
          /\ After(h, b) = nx[b]
<1>1. h \in Heaps /\ b \in Bps /\ nx[b] \in Bps /\ b < nx[b]
  BY DEF Layout, Shape, Ordered
<1>2. PICK a \in {0, 1} : a = IF b \in F THEN 0 ELSE 1
  OBVIOUS
<1>3. h.mem[HEADER_P(b)] = nx[b] - b + a
  BY <1>2 DEF Layout, Tags, TagOf
<1>4. /\ SizeOf(h, b) = nx[b] - b
      /\ IsFree(h, b) <=> (a = 0)
      /\ NEXT_BLOCK_BP(h, b) = nx[b]
      /\ FOOTER_P(h, b) = FootBelow(nx[b])
  BY <1>1, <1>3, HeaderSays
<1>5. IsFree(h, b) <=> (b \in F)
  BY <1>2, <1>4
<1>6. After(h, b) = nx[b]
  BY <1>1, <1>4 DEF After
<1> QED BY <1>4, <1>5, <1>6

LEMMA EpilogueReads ==
    ASSUME NEW h, NEW S, NEW nx, NEW F, Layout(h, S, nx, F)
    PROVE SizeOf(h, h.brk) = 0 /\ ~ IsFree(h, h.brk)
<1>1. GET(h, HEADER_P(h.brk)) = 1
  BY TagWords DEF GET, Layout, Tags, Shape
<1> QED BY <1>1 DEF SizeOf, IsFree, GET_SIZE, IS_IT_ALLOC

(* Every block but the prologue comes after one. *)
LEMMA Predecessor ==
    ASSUME NEW brk, NEW S, NEW nx, NEW F, Shape(brk, S, nx, F), NEW c \in S \ {start_bp}
    PROVE \E b \in S \ {brk} : nx[b] = c
<1>1. \A b \in S : b \in Nat /\ 8 <= b /\ b <= brk /\ brk \in Nat
  BY BpsIn DEF Shape
<1> DEFINE T == {c - b : b \in {x \in S : x < c}}
<1>2. T \in SUBSET Nat
  BY <1>1
<1>3. start_bp < c
  BY <1>1, StartBp
<1>4. T # {}
  BY <1>3 DEF Shape
<1>5. PICK d \in T : \A e \in T : d <= e
  BY <1>2, <1>4, Least
<1>6. PICK b \in S : b < c /\ d = c - b
  OBVIOUS
<1>7. b \in S \ {brk} /\ nx[b] \in S /\ b < nx[b] /\ nx[b] <= c
  BY <1>1, <1>6 DEF Shape, Ordered
<1>8. ASSUME nx[b] < c PROVE FALSE
  <2>1. c - nx[b] \in T
    BY <1>7, <1>8
  <2>2. d <= c - nx[b]
    BY <2>1, <1>5
  <2> QED BY <2>2, <1>6, <1>7, <1>1
<1>9. nx[b] = c
  BY <1>7, <1>8, <1>1
<1> QED BY <1>7, <1>9

(* g has what h has between the tags of a block. *)
Keeps(h, g, b, e) ==
    \A p \in Words : b <= p /\ p < FootBelow(e) => g.mem[p] = h.mem[p]

(***************************************************************************)
(* One block from lo to e, tagged with a, in the place of those between.   *)
(***************************************************************************)
JoinS(S, lo, e) == {s \in S : s <= lo \/ e <= s}

JoinNx(brk, S, nx, lo, e) ==
    [s \in JoinS(S, lo, e) \ {brk} |-> IF s = lo THEN e ELSE nx[s]]

JoinF(S, F, lo, e, a) ==
    {s \in JoinS(S, lo, e) : IF s = lo THEN a = 0 ELSE s \in F}

LEMMA JoinShape ==
    ASSUME NEW brk, NEW S, NEW nx, NEW F, Shape(brk, S, nx, F),
           NEW lo \in S \ {start_bp, brk}, NEW e \in S, nx[lo] <= e, NEW a \in {0, 1}
    PROVE Shape(brk, JoinS(S, lo, e), JoinNx(brk, S, nx, lo, e), JoinF(S, F, lo, e, a))
<1> DEFINE S2 == JoinS(S, lo, e)
           N2 == JoinNx(brk, S, nx, lo, e)
<1>1. \A b \in S : b \in Nat /\ 8 <= b /\ b <= brk /\ brk \in Nat /\ b % 8 = 0
  BY BpsIn DEF Shape
<1>2. lo < nx[lo] /\ nx[lo] \in S /\ lo < e
  BY <1>1 DEF Shape, Ordered
<1>3. \A b \in S2 : b \in S /\ (b <= lo \/ e <= b)
  BY DEF JoinS
<1>4. S2 \in SUBSET Bps /\ start_bp \in S2 /\ brk \in S2 /\ lo \in S2 /\ e \in S2
  <2>1. start_bp <= lo /\ e <= brk /\ lo <= lo /\ e <= e
    BY <1>1, StartBp
  <2> QED BY <2>1 DEF JoinS, Shape
<1>5. \A b \in S2 \ {brk} : N2[b] = IF b = lo THEN e ELSE nx[b]
  BY DEF JoinNx
<1>6. \A b \in S2 \ {brk} : nx[b] \in S /\ b < nx[b] /\ (b < lo => nx[b] <= lo)
                            /\ (b # start_bp => b + 16 <= nx[b])
                            /\ \A c \in S : b < c => nx[b] <= c
  BY <1>3 DEF Shape, Ordered
<1>7. \A b \in S2 \ {brk} : N2[b] \in S2
  <2> SUFFICES ASSUME NEW b \in S2 \ {brk}, b # lo PROVE nx[b] \in S2
    BY <1>4, <1>5
  <2>1. nx[b] <= lo \/ e <= nx[b]
    BY <1>1, <1>2, <1>3, <1>6
  <2> QED BY <2>1, <1>6 DEF JoinS
<1>8. N2 \in [S2 \ {brk} -> S2]
  BY <1>7 DEF JoinNx
<1>9. Ordered(brk, S2, N2)
  <2> SUFFICES ASSUME NEW b \in S2 \ {brk}
               PROVE /\ b < N2[b]
                     /\ b # start_bp => b + 16 <= N2[b]
                     /\ \A c \in S2 : b < c => N2[b] <= c
    BY DEF Ordered
  <2>1. CASE b = lo
    <3>1. lo + 16 <= nx[lo]
      BY <1>4, <1>6
    <3>2. lo + 16 <= e
      BY <3>1, <1>1, <1>2
    <3>3. \A c \in S2 : lo < c => e <= c
      BY <1>1, <1>3
    <3> QED BY <2>1, <1>2, <1>5, <3>2, <3>3
  <2>2. CASE b # lo
    BY <2>2, <1>3, <1>5, <1>6
  <2> QED BY <2>1, <2>2
<1>10. JoinF(S, F, lo, e, a) \in SUBSET (S2 \ {start_bp, brk})
  BY DEF JoinF, Shape
<1>11. \A b \in S2 : b <= brk
  BY <1>1, <1>3
<1> HIDE DEF S2, N2
<1>12. Shape(brk, S2, N2, JoinF(S, F, lo, e, a))
  BY <1>4, <1>8, <1>9, <1>10, <1>11 DEF Shape
<1> QED BY <1>12 DEF S2, N2

LEMMA JoinTags ==
    ASSUME NEW h, NEW g, NEW S, NEW nx, NEW F, Layout(h, S, nx, F),
           NEW lo \in S \ {start_bp, h.brk}, NEW e \in S, nx[lo] <= e, NEW a \in {0, 1},
           Tagged(h, g, lo, e, e - lo + a)
    PROVE /\ Layout(g, JoinS(S, lo, e), JoinNx(h.brk, S, nx, lo, e), JoinF(S, F, lo, e, a))
          /\ \A b \in JoinS(S, lo, e) \ {h.brk} : Keeps(h, g, b, nx[b])
<1> DEFINE S2 == JoinS(S, lo, e)
           N2 == JoinNx(h.brk, S, nx, lo, e)
           F2 == JoinF(S, F, lo, e, a)
<1>0. Shape(h.brk, S, nx, F) /\ Tags(h, S, nx, F) /\ h \in Heaps
  BY DEF Layout
<1>1. \A b \in S : b \in Nat /\ 8 <= b /\ b <= h.brk /\ h.brk \in Nat /\ b % 8 = 0 /\ b \in Bps
  BY <1>0, BpsIn DEF Shape
<1>2. \A b \in S \ {h.brk} : nx[b] \in S /\ b < nx[b] /\ \A c \in S : b < c => nx[b] <= c
  BY <1>0 DEF Shape, Ordered
<1>3. \A b \in S2 : b \in S /\ (b <= lo \/ e <= b)
  BY DEF JoinS
<1>4. \A b \in S2 \ {h.brk, lo} : /\ nx[b] # e
                                  /\ nx[b] <= lo \/ e <= b
                                  /\ TagOf(N2, F2, b) = TagOf(nx, F, b)
                                  /\ N2[b] = nx[b]
  <2> SUFFICES ASSUME NEW b \in S2 \ {h.brk, lo}
               PROVE /\ nx[b] # e
                     /\ nx[b] <= lo \/ e <= b
                     /\ TagOf(N2, F2, b) = TagOf(nx, F, b)
                     /\ N2[b] = nx[b]
    OBVIOUS
  <2>1. nx[b] <= lo \/ e <= b
    BY <1>1, <1>2, <1>3
  <2>2. nx[b] # e
    <3>1. lo < e
      BY <1>1, <1>2
    <3> QED BY <3>1, <2>1, <1>1, <1>2, <1>3
  <2>3. N2[b] = nx[b] /\ (b \in F2 <=> b \in F)
    BY DEF JoinNx, JoinF
  <2> QED BY <2>1, <2>2, <2>3 DEF TagOf
<1>5. lo \in S2 /\ N2[lo] = e /\ TagOf(N2, F2, lo) = e - lo + a
  <2>1. lo \in S2
    BY <1>1 DEF JoinS
  <2>2. N2[lo] = e /\ (lo \in F2 <=> a = 0)
    BY <2>1 DEF JoinNx, JoinF
  <2> QED BY <2>1, <2>2 DEF TagOf
<1>6. g \in Heaps /\ g.brk = h.brk
  BY DEF Tagged
<1> HIDE DEF S2, N2, F2
<1>7. g.mem[HEADER_P(g.brk)] = 1
  BY <1>0, <1>1, <1>6, TagWords DEF Tagged, Tags, Shape
<1>8. ASSUME NEW b \in S2 \ {h.brk}
      PROVE /\ g.mem[HEADER_P(b)] = TagOf(N2, F2, b)
            /\ g.mem[FootBelow(N2[b])] = TagOf(N2, F2, b)
  <2>1. CASE b = lo
    BY <2>1, <1>5 DEF Tagged
  <2>2. CASE b # lo
    <3>1. b \in Bps /\ nx[b] \in Bps /\ lo \in Bps /\ e \in Bps
      BY <1>1, <1>2, <1>3
    <3>2. /\ HEADER_P(b) \in Words \ {HEADER_P(lo), FootBelow(e)}
          /\ FootBelow(nx[b]) \in Words \ {HEADER_P(lo), FootBelow(e)}
      BY <3>1, <2>2, <1>4, TagWords
    <3>3. g.mem[HEADER_P(b)] = h.mem[HEADER_P(b)]
          /\ g.mem[FootBelow(nx[b])] = h.mem[FootBelow(nx[b])]
      BY <3>2 DEF Tagged
    <3> QED BY <3>3, <2>2, <1>0, <1>3, <1>4 DEF Tags
  <2> QED BY <2>1, <2>2
<1>9. Layout(g, S2, N2, F2)
  BY <1>0, <1>6, <1>7, <1>8, JoinShape DEF Layout, Tags, S2, N2, F2
<1>10. ASSUME NEW b \in S2 \ {h.brk} PROVE Keeps(h, g, b, nx[b])
  <2> SUFFICES ASSUME NEW p \in Words, b <= p, p < FootBelow(nx[b])
               PROVE p # HEADER_P(lo) /\ p # FootBelow(e)
    BY DEF Keeps, Tagged
  <2>1. p \in Nat /\ b \in Nat /\ nx[b] \in Nat /\ lo \in Nat /\ e \in Nat /\ lo < e
    BY WordsIn, <1>1, <1>2, <1>3
  <2>2. p < nx[b] - 8
    BY DEF FootBelow, DSIZE
  <2>3. b = lo => nx[b] <= e
    BY <1>2, <2>1
  <2>4. p # lo - 4 /\ p # e - 8
    <3>1. CASE b = lo
      BY <3>1, <2>1, <2>2, <2>3
    <3>2. CASE b # lo
      <4>1. nx[b] <= lo \/ e <= b
        BY <3>2, <1>4
      <4> QED BY <4>1, <2>1, <2>2
    <3> QED BY <3>1, <3>2
  <2> QED BY <2>4 DEF HEADER_P, FootBelow, WSIZE, DSIZE
<1> QED BY <1>9, <1>10 DEF S2, N2, F2

(***************************************************************************)
(* An allocated block from bp to m, and a free one from m on, in the place *)
(* of bp.                                                                  *)
(***************************************************************************)
SplitNx(brk, S, nx, bp, m) ==
    [s \in (S \cup {m}) \ {brk} |-> IF s = bp THEN m ELSE IF s = m THEN nx[bp] ELSE nx[s]]

SplitF(F, bp, m) == (F \ {bp}) \cup {m}

LEMMA SplitShape ==
    ASSUME NEW brk, NEW S, NEW nx, NEW F, Shape(brk, S, nx, F),
           NEW bp \in S \ {start_bp, brk}, NEW m \in Bps, bp + 16 <= m, m + 16 <= nx[bp]
    PROVE /\ Shape(brk, S \cup {m}, SplitNx(brk, S, nx, bp, m), SplitF(F, bp, m))
          /\ m \notin S
<1> DEFINE S2 == S \cup {m}
           N2 == SplitNx(brk, S, nx, bp, m)
<1>1. \A b \in S2 : b \in Nat /\ 8 <= b /\ b % 8 = 0
  BY BpsIn DEF Shape
<1>2. /\ \A b \in S : b <= brk
      /\ brk \in S /\ start_bp \in S /\ start_bp < brk
      /\ \A b \in S \ {brk} : nx[b] \in S /\ b < nx[b] /\ (b # start_bp => b + 16 <= nx[b])
                              /\ \A c \in S : b < c => nx[b] <= c
  BY DEF Shape, Ordered
<1>3. bp < m /\ m < nx[bp] /\ nx[bp] \in S /\ nx[bp] <= brk /\ m < brk /\ 16 <= m
  BY <1>1, <1>2
<1>4. m \notin S
  BY <1>1, <1>2, <1>3
<1>5. \A b \in S2 \ {brk} : N2[b] = IF b = bp THEN m ELSE IF b = m THEN nx[bp] ELSE nx[b]
  BY DEF SplitNx
<1>6. N2 \in [S2 \ {brk} -> S2]
  <2>1. \A b \in S2 \ {brk} : N2[b] \in S2
    BY <1>2, <1>3, <1>5
  <2> QED BY <2>1 DEF SplitNx
<1>7. Ordered(brk, S2, N2)
  <2> SUFFICES ASSUME NEW b \in S2 \ {brk}
               PROVE /\ b < N2[b]
                     /\ b # start_bp => b + 16 <= N2[b]
                     /\ \A c \in S2 : b < c => N2[b] <= c
    BY DEF Ordered
  <2>1. CASE b = bp
    <3>1. \A c \in S2 : bp < c => m <= c
      BY <1>1, <1>2, <1>3
    <3> QED BY <2>1, <3>1, <1>3, <1>5
  <2>2. CASE b = m
    <3>1. \A c \in S2 : m < c => nx[bp] <= c
      BY <1>1, <1>2, <1>3
    <3> QED BY <2>2, <3>1, <1>3, <1>4, <1>5
  <2>3. CASE b # bp /\ b # m
    <3>1. b \in S \ {brk} /\ N2[b] = nx[b]
      BY <2>3, <1>5
    <3>2. b < m => nx[b] <= m
      BY <3>1, <2>3, <1>1, <1>2, <1>3
    <3> QED BY <3>1, <3>2, <1>2
  <2> QED BY <2>1, <2>2, <2>3
<1>8. SplitF(F, bp, m) \in SUBSET (S2 \ {start_bp, brk})
  BY <1>3, <1>4, <1>2 DEF SplitF, Shape
<1>9. S2 \in SUBSET Bps /\ \A b \in S2 : b <= brk
  BY <1>1, <1>2, <1>3 DEF Shape
<1> HIDE DEF N2
<1>10. Shape(brk, S2, N2, SplitF(F, bp, m))
  BY <1>2, <1>6, <1>7, <1>8, <1>9 DEF Shape
<1> QED BY <1>4, <1>10 DEF N2

LEMMA SplitTags ==
    ASSUME NEW h, NEW g, NEW k, NEW S, NEW nx, NEW F, Layout(h, S, nx, F),
           NEW bp \in S \ {start_bp, h.brk}, NEW m \in Bps, bp + 16 <= m, m + 16 <= nx[bp],
           Tagged(h, g, bp, m, m - bp + 1), Tagged(g, k, m, nx[bp], nx[bp] - m + 0)
    PROVE /\ Layout(k, S \cup {m}, SplitNx(h.brk, S, nx, bp, m), SplitF(F, bp, m))
          /\ \A b \in S \ {h.brk, bp} : Keeps(h, k, b, nx[b])
<1> DEFINE S2 == S \cup {m}
           N2 == SplitNx(h.brk, S, nx, bp, m)
           F2 == SplitF(F, bp, m)
<1>0. Shape(h.brk, S, nx, F) /\ Tags(h, S, nx, F) /\ h \in Heaps
  BY DEF Layout
<1>1. \A b \in S : b \in Nat /\ 8 <= b /\ b <= h.brk /\ h.brk \in Nat /\ b \in Bps
  BY <1>0, BpsIn DEF Shape
<1>2. \A b \in S \ {h.brk} : nx[b] \in S /\ b < nx[b] /\ \A c \in S : b < c => nx[b] <= c
  BY <1>0 DEF Shape, Ordered
<1>3. m \in Nat /\ bp < m /\ m < nx[bp] /\ nx[bp] <= h.brk /\ m # h.brk
  BY <1>1, <1>2, BpsIn
<1>4. m \notin S /\ Shape(h.brk, S2, N2, F2)
  BY <1>0, SplitShape
<1>5. /\ bp \in S2 /\ N2[bp] = m /\ TagOf(N2, F2, bp) = m - bp + 1
      /\ m \in S2 /\ N2[m] = nx[bp] /\ TagOf(N2, F2, m) = nx[bp] - m + 0
  <2>1. N2[bp] = m /\ N2[m] = nx[bp] /\ bp \notin F2 /\ m \in F2
    BY <1>3, <1>4 DEF SplitNx, SplitF
  <2> QED BY <2>1 DEF TagOf
<1>6. \A b \in S \ {h.brk, bp} : /\ nx[b] # nx[bp]
                                 /\ nx[b] <= bp \/ nx[bp] <= b
                                 /\ TagOf(N2, F2, b) = TagOf(nx, F, b)
                                 /\ N2[b] = nx[b]
  <2> SUFFICES ASSUME NEW b \in S \ {h.brk, bp}
               PROVE /\ nx[b] # nx[bp]
                     /\ nx[b] <= bp \/ nx[bp] <= b
                     /\ TagOf(N2, F2, b) = TagOf(nx, F, b)
                     /\ N2[b] = nx[b]
    OBVIOUS
  <2>1. nx[b] <= bp \/ nx[bp] <= b
    BY <1>1, <1>2
  <2>2. nx[b] # nx[bp]
    BY <2>1, <1>1, <1>2
  <2>3. N2[b] = nx[b] /\ (b \in F2 <=> b \in F)
    BY <1>4 DEF SplitNx, SplitF
  <2> QED BY <2>1, <2>2, <2>3 DEF TagOf
<1>7. k \in Heaps /\ k.brk = h.brk
  BY DEF Tagged
<1> HIDE DEF N2, F2
<1> DEFINE e == nx[bp]
           Touched == {HEADER_P(bp), FootBelow(m), HEADER_P(m), FootBelow(e)}
<1>8. \A p \in Words \ Touched : k.mem[p] = h.mem[p]
  BY DEF Tagged
<1>9. k.mem[HEADER_P(k.brk)] = 1
  <2>1. HEADER_P(h.brk) \in Words \ Touched
    BY <1>0, <1>1, <1>2, <1>3, TagWords DEF Shape
  <2> QED BY <2>1, <1>0, <1>7, <1>8 DEF Tags
<1>10. ASSUME NEW b \in S2 \ {h.brk}
      PROVE /\ k.mem[HEADER_P(b)] = TagOf(N2, F2, b)
            /\ k.mem[FootBelow(N2[b])] = TagOf(N2, F2, b)
  <2>1. CASE b = m
    BY <2>1, <1>5 DEF Tagged
  <2>2. CASE b = bp
    <3>1. /\ HEADER_P(bp) \in Words \ {HEADER_P(m), FootBelow(e)}
          /\ FootBelow(m) \in Words \ {HEADER_P(m), FootBelow(e)}
      BY <1>1, <1>2, <1>3, TagWords
    <3> QED BY <2>2, <3>1, <1>5 DEF Tagged
  <2>3. CASE b # bp /\ b # m
    <3>1. b \in S \ {h.brk, bp} /\ b \in Bps /\ nx[b] \in S /\ nx[b] \in Bps /\ bp \in Bps
          /\ e \in Bps
      BY <2>3, <1>1, <1>2
    <3>2. HEADER_P(b) \in Words \ Touched /\ FootBelow(nx[b]) \in Words \ Touched
      BY <3>1, <2>3, <1>4, <1>6, TagWords
    <3>3. k.mem[HEADER_P(b)] = h.mem[HEADER_P(b)]
          /\ k.mem[FootBelow(nx[b])] = h.mem[FootBelow(nx[b])]
      BY <3>2, <1>8
    <3> QED BY <3>1, <3>3, <1>0, <1>6 DEF Tags
  <2> QED BY <2>1, <2>2, <2>3
<1>11. Layout(k, S2, N2, F2)
  BY <1>4, <1>7, <1>9, <1>10 DEF Layout, Tags
<1>12. ASSUME NEW b \in S \ {h.brk, bp} PROVE Keeps(h, k, b, nx[b])
  <2> SUFFICES ASSUME NEW p \in Words, b <= p, p < FootBelow(nx[b])
               PROVE p \notin Touched
    BY <1>8 DEF Keeps
  <2>1. p \in Nat /\ b \in Nat /\ nx[b] \in Nat /\ bp \in Nat /\ e \in Nat
    BY WordsIn, <1>1, <1>2
  <2>2. p < nx[b] - 8
    BY DEF FootBelow, DSIZE
  <2>3. nx[b] <= bp \/ e <= b
    BY <1>6
  <2>4. p # bp - 4 /\ p # m - 8 /\ p # m - 4 /\ p # e - 8
    BY <2>1, <2>2, <2>3, <1>3
  <2> QED BY <2>4 DEF HEADER_P, FootBelow, WSIZE, DSIZE
<1> QED BY <1>11, <1>12 DEF N2, F2

-----------------------------------------------------------------------------
(* The blocks that the user has. *)
User(h, S, F) == S \ (F \cup {start_bp, h.brk})

(* No two neighbours are free. *)
Coal(nx, F) == \A b \in F : nx[b] \notin F

(* The blocks of A are in g where they are in h, with the same data. *)
Carried(h, nx, g, nx2, A) == \A b \in A : nx2[b] = nx[b] /\ Keeps(h, g, b, nx[b])

(* g is h with an allocated block from bp to m at least. *)
Marked(h, g, S, nx, F, bp, m) ==
    \E S2, nx2, F2 :
        /\ Layout(g, S2, nx2, F2) /\ Coal(nx2, F2)
        /\ g.brk = h.brk /\ g.last_bp = h.last_bp
        /\ User(g, S2, F2) = User(h, S, F) \cup {bp}
        /\ m <= nx2[bp] /\ (nx2[bp] \in F2 => nx2[bp] = m \/ nx[bp] \in F)
        /\ Carried(h, nx, g, nx2, User(h, S, F) \ {bp})

LEMMA MarkEffect ==
    ASSUME NEW h, NEW S, NEW nx, NEW F, Layout(h, S, nx, F), Coal(nx, F),
           NEW bp \in S \ {start_bp, h.brk}, NEW m \in Bps, bp + 16 <= m, m <= nx[bp],
           nx[bp] \in F => nx[bp] < m + 16
    PROVE Marked(h, mark(h, bp, m - bp), S, nx, F, bp, m)
<1> DEFINE e == nx[bp]
           g == Tag(h, bp, m - bp, 1)
           k == Tag(g, m, e - m, 0)
           r == Tag(h, bp, e - bp, 1)
<1>0. Shape(h.brk, S, nx, F) /\ h \in Heaps
  BY DEF Layout
<1>1. \A b \in S : b \in Nat /\ 8 <= b /\ b <= h.brk /\ h.brk \in Nat /\ b \in Bps
  BY <1>0, BpsIn DEF Shape
<1>2. \A b \in S \ {h.brk} : nx[b] \in S /\ b < nx[b] /\ \A c \in S : b < c => nx[b] <= c
  BY <1>0 DEF Shape, Ordered
<1>3. e \in S /\ e \in Bps /\ bp \in Bps /\ bp < e /\ bp < m /\ m \in Nat /\ e \in Nat
      /\ bp \in Nat
  BY <1>1, <1>2, BpsIn
<1>4. SizeOf(h, bp) = e - bp
  BY BlockReads
<1>5. /\ Tagged(h, g, bp, m, m - bp + 1) /\ g.last_bp = h.last_bp
      /\ g \in Heaps /\ g.mem[HEADER_P(bp)] = m - bp + 1
  <2>1. Tagged(h, g, bp, m, m - bp + 1) /\ g.last_bp = h.last_bp
    BY <1>0, <1>3, TagEffect
  <2> QED BY <2>1 DEF Tagged
<1> HIDE DEF g
<1>6. NEXT_BLOCK_BP(g, bp) = m
  BY <1>3, <1>5, HeaderSays
<1>7. SizeOf(h, bp) - (m - bp) = e - m
  BY <1>3, <1>4
<1>8. mark(h, bp, m - bp) = IF e - m >= 16 THEN k ELSE r
  BY <1>4, <1>6, <1>7 DEF mark, DSIZE, g
<1>9. CASE e - m >= 16
  <2>1. e \notin F
    BY <1>9, <1>3
  <2>2. m < e /\ m + 16 <= e
    BY <1>9, <1>3
  <2>3. Tagged(g, k, m, e, e - m + 0) /\ k.last_bp = h.last_bp
    BY <1>3, <1>5, <2>2, TagEffect
  <2> HIDE DEF k
  <2> DEFINE S2 == S \cup {m}
             N2 == SplitNx(h.brk, S, nx, bp, m)
             F2 == SplitF(F, bp, m)
  <2>4. Layout(k, S2, N2, F2) /\ \A b \in S \ {h.brk, bp} : Keeps(h, k, b, nx[b])
    BY <1>5, <2>2, <2>3, SplitTags
  <2>5. m \notin S /\ m # h.brk
    <3>1. m \notin S
      BY <1>0, <2>2, SplitShape
    <3> QED BY <3>1, <1>0 DEF Shape
  <2>6. N2[bp] = m /\ N2[m] = e /\ \A b \in S \ {h.brk, bp} : N2[b] = nx[b]
    BY <2>5 DEF SplitNx
  <2>7. F \subseteq S \ {h.brk}
    BY <1>0 DEF Shape
  <2>8. Coal(N2, F2)
    BY <2>1, <2>5, <2>6, <2>7, <1>2, <1>3 DEF Coal, SplitF
  <2>9. k.brk = h.brk
    BY <2>3, <1>5 DEF Tagged
  <2>10. User(k, S2, F2) = User(h, S, F) \cup {bp}
    BY <2>5, <2>9, <1>0 DEF User, SplitF, Shape
  <2>11. Carried(h, nx, k, N2, User(h, S, F) \ {bp})
    BY <2>4, <2>6 DEF Carried, User
  <2>12. m <= N2[bp] /\ N2[bp] = m
    BY <2>6, <1>3
  <2> HIDE DEF S2, N2, F2
  <2> QED BY <1>8, <1>9, <2>3, <2>4, <2>6, <2>8, <2>9, <2>10, <2>11, <2>12 DEF Marked
<1>10. CASE ~ (e - m >= 16)
  <2>1. Tagged(h, r, bp, e, e - bp + 1) /\ r.last_bp = h.last_bp
    BY <1>0, <1>3, TagEffect
  <2> HIDE DEF r
  <2> DEFINE S2 == JoinS(S, bp, e)
             N2 == JoinNx(h.brk, S, nx, bp, e)
             F2 == JoinF(S, F, bp, e, 1)
  <2>2. e <= e /\ 1 \in {0, 1}
    BY <1>3
  <2>3. Layout(r, S2, N2, F2) /\ \A b \in S2 \ {h.brk} : Keeps(h, r, b, nx[b])
    BY <1>3, <2>1, <2>2, JoinTags
  <2>4. S2 = S
    <3>1. \A b \in S : b <= bp \/ e <= b
      BY <1>1, <1>2, <1>3
    <3> QED BY <3>1 DEF JoinS
  <2>5. \A b \in S \ {h.brk} : N2[b] = nx[b]
    BY <2>4 DEF JoinNx
  <2>6. F2 = F \ {bp} /\ F \subseteq S \ {h.brk}
    BY <2>4, <1>0 DEF JoinF, Shape
  <2>7. Coal(N2, F2)
    BY <2>5, <2>6 DEF Coal
  <2>8. r.brk = h.brk
    BY <2>1 DEF Tagged
  <2>9. User(r, S2, F2) = User(h, S, F) \cup {bp}
    BY <2>4, <2>6, <2>8 DEF User
  <2>10. Carried(h, nx, r, N2, User(h, S, F) \ {bp})
    BY <2>3, <2>4, <2>5 DEF Carried, User
  <2>11. m <= N2[bp] /\ (N2[bp] \in F2 => nx[bp] \in F)
    BY <2>5, <2>6
  <2> HIDE DEF S2, N2, F2
  <2> QED BY <1>8, <1>10, <2>1, <2>3, <2>7, <2>8, <2>9, <2>10, <2>11 DEF Marked
<1> QED BY <1>9, <1>10

-----------------------------------------------------------------------------
(* The word below a block is the footer of the one before it. *)
LEMMA PreviousReads ==
    ASSUME NEW h, NEW S, NEW nx, NEW F, Layout(h, S, nx, F), NEW c \in S \ {h.brk}
    PROVE /\ PREV_BLOCK_BP(h, nx[c]) = c
          /\ IS_IT_ALLOC(h, FootBelow(nx[c])) <=> (c \notin F)
<1>1. PICK e \in Bps : e = nx[c]
  BY DEF Layout, Shape
<1>2. h \in Heaps /\ c \in Bps /\ c < e /\ c \in Nat /\ e \in Nat
  BY <1>1, BpsIn DEF Layout, Shape, Ordered
<1>3. PICK a \in {0, 1} : a = IF c \in F THEN 0 ELSE 1
  OBVIOUS
<1>4. PICK s \in Nat : s = e - c
  BY <1>2, Distance
<1>5. s % 8 = 0 /\ e - s = c
  BY <1>2, <1>4, Distance
<1>6. PICK val : val = s + a
  OBVIOUS
<1>7. Reads(val, s, a)
  BY <1>5, <1>6, Unpacked
<1>8. GET(h, FootBelow(e)) = val
  BY <1>1, <1>3, <1>4, <1>6, TagWords DEF GET, Layout, Tags, TagOf
<1>9. GET_SIZE(h, FootBelow(e)) = s
  BY <1>7, <1>8 DEF GET_SIZE, Reads
<1>10. IS_IT_ALLOC(h, FootBelow(e)) <=> (a = 1)
  BY <1>7, <1>8 DEF IS_IT_ALLOC, Reads
<1>11. PREV_BLOCK_BP(h, e) = c
  BY <1>5, <1>9 DEF PREV_BLOCK_BP, FootBelow
<1> QED BY <1>1, <1>3, <1>10, <1>11

(* r is what coalesce() makes of the free block bp of h. *)
Merged(h, r, S, nx, F, bp) ==
    \E S2, nx2, F2 :
        /\ Layout(r.heap, S2, nx2, F2) /\ Coal(nx2, F2)
        /\ r.heap.brk = h.brk /\ r.heap.last_bp = r.bp
        /\ r.bp \in F2 /\ r.bp <= bp /\ nx[bp] <= nx2[r.bp]
        /\ User(r.heap, S2, F2) = User(h, S, F)
        /\ Carried(h, nx, r.heap, nx2, User(h, S, F))

(* Only bp may have a free neighbour. *)
NearlyCoal(nx, F, bp) == \A b \in F : nx[b] \in F => b = bp \/ nx[b] = bp

LEMMA CoalesceEffect ==
    ASSUME NEW h, NEW S, NEW nx, NEW F, Layout(h, S, nx, F), NEW bp \in F,
           NearlyCoal(nx, F, bp)
    PROVE Merged(h, coalesce(h, bp), S, nx, F, bp)
<1>0. Shape(h.brk, S, nx, F) /\ h \in Heaps
  BY DEF Layout
<1>1. \A b \in S : b \in Nat /\ 8 <= b /\ b <= h.brk /\ h.brk \in Nat /\ b \in Bps
  BY <1>0, BpsIn DEF Shape
<1>2. \A b \in S \ {h.brk} : nx[b] \in S /\ b < nx[b] /\ \A c \in S : b < c => nx[b] <= c
  BY <1>0 DEF Shape, Ordered
<1>3. F \subseteq S \ {start_bp, h.brk}
  BY <1>0 DEF Shape
<1>4. PICK c \in S \ {h.brk} : nx[c] = bp
  BY <1>0, <1>3, Predecessor
<1>5. PICK n \in S : n = nx[bp]
  BY <1>2, <1>3
<1>6. c < bp /\ bp < n
  BY <1>2, <1>3, <1>4, <1>5
<1>7. /\ PREV_BLOCK_BP(h, bp) = c /\ NEXT_BLOCK_BP(h, bp) = n
      /\ IS_IT_ALLOC(h, FOOTER_P(h, c)) <=> (c \notin F)
  <2>1. NEXT_BLOCK_BP(h, bp) = n /\ FOOTER_P(h, c) = FootBelow(bp)
    BY <1>3, <1>4, <1>5, BlockReads
  <2> QED BY <2>1, <1>4, PreviousReads
<1>8. IsFree(h, n) <=> n \in F
  BY <1>3, BlockReads, EpilogueReads
<1>9. PICK lo \in S : lo = IF c \in F THEN c ELSE bp
  BY <1>3
<1>10. PICK hi \in S : hi = IF n \in F THEN n ELSE bp
  BY <1>3
<1>11. hi \in S \ {h.brk} /\ lo \in S \ {start_bp, h.brk}
  BY <1>3, <1>9, <1>10
<1>12. PICK e \in S : e = nx[hi]
  BY <1>2, <1>11
<1>13. lo <= bp /\ bp <= hi /\ hi < e /\ lo < e /\ nx[lo] <= e /\ n <= e
  <2>1. lo <= bp /\ bp <= hi /\ hi < e
    BY <1>1, <1>2, <1>3, <1>6, <1>9, <1>10, <1>11, <1>12
  <2>2. n <= e /\ lo < e
    BY <2>1, <1>1, <1>2, <1>3, <1>5, <1>12
  <2>3. nx[lo] <= e
    BY <2>2, <1>2, <1>11
  <2> QED BY <2>1, <2>2, <2>3
<1>14. FOOTER_P(h, hi) = FootBelow(e)
  BY <1>11, <1>12, BlockReads
<1> DEFINE size == SizeOf(h, bp) + (IF lo = bp THEN 0 ELSE SizeOf(h, c))
                                 + (IF hi = bp THEN 0 ELSE SizeOf(h, n))
<1>15. size = e - lo
  <2>1. SizeOf(h, bp) = n - bp /\ SizeOf(h, c) = bp - c
    BY <1>3, <1>4, <1>5, BlockReads
  <2>2. n \in F => SizeOf(h, n) = nx[n] - n
    BY <1>3, BlockReads
  <2>3. /\ c \in Nat /\ bp \in Nat /\ n \in Nat /\ e \in Nat /\ c # bp /\ n # bp
    BY <1>1, <1>3, <1>6
  <2>4. SizeOf(h, bp) + (IF lo = bp THEN 0 ELSE SizeOf(h, c)) = n - lo
    BY <1>9, <2>1, <2>3
  <2>5. (IF hi = bp THEN 0 ELSE SizeOf(h, n)) = e - n
    BY <1>5, <1>10, <1>12, <2>2, <2>3
  <2>6. size = (n - lo) + (e - n)
    BY <2>4, <2>5
  <2> QED BY <2>6, <2>3, <1>1
<1> HIDE DEF size
<1> DEFINE g == PUT(h, HEADER_P(lo), size + 0)
           k == PUT(g, FootBelow(e), size + 0)
           u == [k EXCEPT !.last_bp = lo]
<1>16. lo \in Bps /\ e \in Bps /\ lo \in Nat /\ size \in Nat /\ size + 0 \in Nat
  BY <1>1, <1>13, <1>15
<1>17. HEADER_P(lo) \in Words /\ FootBelow(e) \in Words /\ HEADER_P(lo) # FootBelow(e)
  BY <1>16, TagWords
<1>18. /\ g \in Heaps /\ g.brk = h.brk
       /\ g.mem[HEADER_P(lo)] = size + 0
       /\ \A q \in Words \ {HEADER_P(lo)} : g.mem[q] = h.mem[q]
  BY <1>0, <1>16, <1>17, PutType
<1>19. /\ k \in Heaps /\ k.brk = g.brk
       /\ k.mem[FootBelow(e)] = size + 0
       /\ \A q \in Words \ {FootBelow(e)} : k.mem[q] = g.mem[q]
  <2> HIDE DEF g
  <2> QED BY <1>16, <1>17, <1>18, PutType
<1>20. coalesce(h, bp) = [heap |-> u, bp |-> lo]
  <2>1. HEADER_P(PREV_BLOCK_BP(h, bp)) = HEADER_P(c)
    BY <1>7
  <2> QED BY <1>7, <1>8, <1>9, <1>10, <1>14 DEF coalesce, size, PACK
<1> HIDE DEF g
<1>21. u \in Heaps /\ u.brk = k.brk /\ u.mem = k.mem /\ u.last_bp = lo
  <2> HIDE DEF k
  <2> QED BY <1>16, <1>19 DEF Heaps
<1> HIDE DEF k, u
<1>22. Tagged(h, u, lo, e, e - lo + 0)
  BY <1>15, <1>17, <1>18, <1>19, <1>21 DEF Tagged
<1> DEFINE S2 == JoinS(S, lo, e)
           N2 == JoinNx(h.brk, S, nx, lo, e)
           F2 == JoinF(S, F, lo, e, 0)
<1>23. Layout(u, S2, N2, F2) /\ \A b \in S2 \ {h.brk} : Keeps(h, u, b, nx[b])
  BY <1>11, <1>13, <1>22, JoinTags
<1>24. lo \in S2 /\ N2[lo] = e /\ lo \in F2
  BY <1>1, <1>11 DEF JoinS, JoinNx, JoinF
<1>25. \A b \in S2 \ {h.brk, lo} : N2[b] = nx[b] /\ (b \in F2 <=> b \in F)
  BY DEF JoinNx, JoinF
<1>26. \A b \in S : b \in S2 <=> (b <= lo \/ e <= b)
  BY DEF JoinS
<1>27. S2 \subseteq S /\ F2 \subseteq S2 \ {h.brk} /\ h.brk \in S2
  BY <1>3, <1>11, <1>23 DEF JoinF, JoinS, Layout, Shape
<1>28. \A b \in S : b \notin S2 => b \in F
  <2> SUFFICES ASSUME NEW b \in S, lo < b, b < e PROVE b \in F
    BY <1>1, <1>26
  <2>1. b = bp \/ b = n
    <3>1. b < bp => bp <= b
      BY <1>1, <1>2, <1>3, <1>4, <1>9
    <3>2. n < b => e <= b
      BY <1>1, <1>2, <1>3, <1>5, <1>10, <1>12
    <3>3. bp < b => n <= b
      BY <1>2, <1>3, <1>5
    <3> QED BY <3>1, <3>2, <3>3, <1>1, <1>3
  <2>2. b = n => n \in F
    BY <1>1, <1>5, <1>10, <1>12
  <2> QED BY <2>1, <2>2
<1>29. e \notin F
  <2>1. CASE n \in F
    BY <2>1, <1>1, <1>6, <1>10, <1>12, <1>13, <1>3 DEF NearlyCoal
  <2>2. CASE n \notin F
    BY <2>2, <1>5, <1>10, <1>12
  <2> QED BY <2>1, <2>2
<1>30. ASSUME NEW b \in F2, b # lo PROVE nx[b] # lo /\ nx[b] \notin F
  <2>1. b \in F /\ b \in S \ {h.brk} /\ (b <= lo \/ e <= b) /\ b < nx[b] /\ nx[b] \in S
    BY <1>30, <1>2, <1>25, <1>26, <1>27
  <2>2. b # bp
    BY <2>1, <1>1, <1>3, <1>9, <1>13, <1>30
  <2>3. nx[b] = bp => b = c
    <3>1. nx[b] = bp => ~ (b < c) /\ ~ (c < b)
      BY <2>1, <1>1, <1>2, <1>3, <1>4
    <3> QED BY <3>1, <2>1, <1>1
  <2>4. nx[b] # bp
    BY <2>1, <2>3, <1>9, <1>30
  <2>5. nx[b] \notin F
    BY <2>1, <2>2, <2>4 DEF NearlyCoal
  <2>6. lo \in F
    BY <1>9
  <2> QED BY <2>5, <2>6
<1>31. Coal(N2, F2)
  <2> SUFFICES ASSUME NEW b \in F2, N2[b] \in F2 PROVE FALSE
    BY DEF Coal
  <2>1. CASE b = lo
    BY <2>1, <1>13, <1>24, <1>25, <1>27, <1>29, <1>1
  <2>2. CASE b # lo
    BY <2>2, <1>25, <1>27, <1>30
  <2> QED BY <2>1, <2>2
<1>32. u.brk = h.brk
  BY <1>18, <1>19, <1>21
<1>33. User(u, S2, F2) = User(h, S, F)
  <2>1. lo \in F /\ lo \in F2
    BY <1>9, <1>24
  <2>2. \A b \in S : b \in User(u, S2, F2) <=> b \in User(h, S, F)
    BY <2>1, <1>25, <1>28, <1>32 DEF User
  <2> QED BY <2>2, <1>27 DEF User
<1>34. Carried(h, nx, u, N2, User(h, S, F))
  <2>1. \A b \in User(h, S, F) : b \in S2 \ {h.brk, lo}
    BY <1>9, <1>28 DEF User
  <2> QED BY <2>1, <1>23, <1>25 DEF Carried
<1>35. nx[bp] <= N2[lo]
  BY <1>5, <1>13, <1>24
<1> HIDE DEF S2, N2, F2
<1>36. coalesce(h, bp).heap = u /\ coalesce(h, bp).bp = lo
  BY <1>20
<1> QED BY <1>13, <1>21, <1>23, <1>24, <1>31, <1>32, <1>33, <1>34, <1>35, <1>36 DEF Merged

-----------------------------------------------------------------------------
(* Between two heaps the user's blocks stay where they are. *)
LEMMA CarriedOn ==
    ASSUME NEW h, NEW g, NEW k, NEW nx, NEW nx2, NEW nx3, NEW A,
           Carried(h, nx, g, nx2, A), Carried(g, nx2, k, nx3, A)
    PROVE Carried(h, nx, k, nx3, A)
BY DEF Carried, Keeps

(* r is h with at least size more bytes in a free block at its end. *)
Extended(h, r, S, nx, F, e) ==
    \E S2, nx2, F2 :
        /\ Layout(r.heap, S2, nx2, F2) /\ Coal(nx2, F2)
        /\ r.heap.brk = e /\ r.heap.last_bp = r.bp
        /\ r.bp \in F2 /\ r.bp <= h.brk /\ e <= nx2[r.bp]
        /\ User(r.heap, S2, F2) = User(h, S, F)
        /\ Carried(h, nx, r.heap, nx2, User(h, S, F))

LEMMA ExtendEffect ==
    ASSUME NEW h, NEW S, NEW nx, NEW F, Layout(h, S, nx, F), Coal(nx, F),
           NEW size \in Nat, size % 8 = 0, size >= 16
    PROVE \/ extend_heap(h, size \div WSIZE) = [heap |-> h, bp |-> NULL]
          \/ /\ h.brk + size <= MAX_HEAP
             /\ Extended(h, extend_heap(h, size \div WSIZE), S, nx, F, h.brk + size)
<1>0. Shape(h.brk, S, nx, F) /\ h \in Heaps /\ Tags(h, S, nx, F)
  BY DEF Layout
<1>1. \A b \in S : b \in Nat /\ 8 <= b /\ b <= h.brk /\ h.brk \in Nat /\ b \in Bps /\ b % 8 = 0
  BY <1>0, BpsIn DEF Shape
<1>2. \A b \in S \ {h.brk} : /\ nx[b] \in S /\ b < nx[b]
                             /\ b # start_bp => b + 16 <= nx[b]
                             /\ \A c \in S : b < c => nx[b] <= c
  BY <1>0 DEF Shape, Ordered
<1>3. PICK z \in Nat : z = h.brk
  BY <1>0, <1>1 DEF Shape
<1>4. z \in S /\ z \in Bps /\ z % 8 = 0 /\ z # start_bp /\ start_bp \in S /\ start_bp < z
  BY <1>0, <1>1, <1>3, StartBp DEF Shape
<1>5. PICK e \in Nat : e = z + size
  OBVIOUS
<1>6. WSIZE * (size \div WSIZE + ((size \div WSIZE) % 2)) = size
  BY DEF WSIZE
<1>7. MAX_HEAP \in Nat
  BY NextFitAssumption
<1> DEFINE more == mem_sbrk(h, size)
           g == Tag(more.heap, more.bp, size, 0)
           k == PUT(g, HEADER_P(NEXT_BLOCK_BP(g, more.bp)), PACK(0, 1))
           x == extend_heap(h, size \div WSIZE)
<1>8. x = IF more.bp = NULL THEN more ELSE coalesce(k, more.bp)
  BY <1>6 DEF extend_heap
<1>9. CASE e > MAX_HEAP
  <2>1. more = [heap |-> h, bp |-> NULL]
    BY <1>9, <1>3, <1>5 DEF mem_sbrk
  <2> QED BY <2>1, <1>8
<1>10. CASE ~ (e > MAX_HEAP)
  <2> DEFINE h1 == [h EXCEPT !.brk = e]
  <2>1. more = [heap |-> h1, bp |-> z]
    BY <1>10, <1>3, <1>5 DEF mem_sbrk
  <2>2. z # NULL
    BY <1>1, <1>4 DEF NULL
  <2>3. e \in Bps /\ z < e /\ z + 16 <= e /\ size = e - z /\ e <= MAX_HEAP
    <3>1. e % 8 = 0 /\ 8 <= e /\ e <= MAX_HEAP
      BY <1>4, <1>5, <1>7, <1>10
    <3> QED BY <3>1, <1>5, <1>7, BpsAre
  <2>4. h1 \in Heaps /\ h1.brk = e /\ h1.mem = h.mem
    BY <1>0 DEF Heaps
  <2>5. g = Tag(h1, z, e - z, 0)
    BY <2>1, <2>3
  <2> HIDE DEF h1
  <2>6. Tagged(h1, g, z, e, e - z + 0)
    BY <1>4, <2>3, <2>4, <2>5, TagEffect
  <2>7. NEXT_BLOCK_BP(g, z) = e
    BY <1>4, <2>3, <2>6, HeaderSays DEF Tagged
  <2> HIDE DEF g
  <2>8. k = PUT(g, HEADER_P(e), 1)
    BY <2>1, <2>7 DEF PACK
  <2>9. x = coalesce(k, z)
    BY <1>8, <2>1, <2>2
  <2>10. /\ k \in Heaps /\ k.brk = e /\ k.mem[HEADER_P(e)] = 1
         /\ k.mem[HEADER_P(z)] = e - z + 0 /\ k.mem[FootBelow(e)] = e - z + 0
         /\ \A p \in Words \ {HEADER_P(e), HEADER_P(z), FootBelow(e)} : k.mem[p] = h.mem[p]
    <3>1. /\ HEADER_P(e) \in Words /\ HEADER_P(z) \in Words /\ FootBelow(e) \in Words
          /\ HEADER_P(e) # HEADER_P(z) /\ HEADER_P(e) # FootBelow(e)
      BY <1>4, <2>3, TagWords
    <3>2. /\ PUT(g, HEADER_P(e), 1) \in Heaps
          /\ PUT(g, HEADER_P(e), 1).brk = g.brk
          /\ PUT(g, HEADER_P(e), 1).mem[HEADER_P(e)] = 1
          /\ \A q \in Words \ {HEADER_P(e)} : PUT(g, HEADER_P(e), 1).mem[q] = g.mem[q]
      <4>1. g \in Heaps /\ 1 \in Nat
        BY <2>6 DEF Tagged
      <4>2. HEADER_P(e) \in Words
        BY <3>1
      <4> QED BY <4>1, <4>2, PutType, SMTT(30)
    <3>3. /\ k \in Heaps /\ k.brk = g.brk /\ k.mem[HEADER_P(e)] = 1
          /\ \A q \in Words \ {HEADER_P(e)} : k.mem[q] = g.mem[q]
      BY <2>8, <3>2
    <3> HIDE DEF k
    <3> QED BY <3>1, <3>3, <2>4, <2>6 DEF Tagged
  <2> HIDE DEF k, x, more
  <2> DEFINE S2 == S \cup {e}
             N2 == [s \in S |-> IF s = z THEN e ELSE nx[s]]
             F2 == F \cup {z}
  <2>11. e \notin S
    BY <1>1, <1>3, <2>3
  <2>12. Shape(e, S2, N2, F2)
    <3>1. N2 \in [S2 \ {e} -> S2]
      BY <1>2, <1>3, <2>11
    <3>2. Ordered(e, S2, N2)
      <4> SUFFICES ASSUME NEW b \in S2 \ {e}
                   PROVE /\ b < N2[b]
                         /\ b # start_bp => b + 16 <= N2[b]
                         /\ \A c \in S2 : b < c => N2[b] <= c
        BY DEF Ordered
      <4>1. CASE b = z
        <5>1. \A c \in S2 : z < c => e <= c
          BY <1>1, <1>3, <2>3
        <5> QED BY <4>1, <5>1, <1>4, <2>3
      <4>2. CASE b # z
        <5>1. b \in S \ {h.brk} /\ N2[b] = nx[b] /\ nx[b] <= z
          BY <4>2, <1>1, <1>2, <1>3
        <5>2. nx[b] <= e
          BY <5>1, <1>1, <1>2, <2>3
        <5> QED BY <5>1, <5>2, <1>2
      <4> QED BY <4>1, <4>2
    <3>3. S2 \in SUBSET Bps /\ F2 \in SUBSET (S2 \ {start_bp, e})
      BY <1>0, <1>3, <1>4, <2>3, <2>11 DEF Shape
    <3>4. start_bp < e /\ \A b \in S2 : b <= e
      BY <1>1, <1>3, <1>4, <2>3
    <3> HIDE DEF N2
    <3> QED BY <3>1, <3>2, <3>3, <3>4, <1>4 DEF Shape
  <2>13. Tags(k, S2, N2, F2)
    <3> SUFFICES ASSUME NEW b \in S
                 PROVE /\ k.mem[HEADER_P(b)] = TagOf(N2, F2, b)
                       /\ k.mem[FootBelow(N2[b])] = TagOf(N2, F2, b)
      BY <2>10, <2>11 DEF Tags
    <3>1. CASE b = z
      <4>1. N2[z] = e /\ TagOf(N2, F2, z) = e - z + 0
        BY <1>4 DEF TagOf
      <4> QED BY <4>1, <3>1, <2>10
    <3>2. CASE b # z
      <4>1. N2[b] = nx[b] /\ TagOf(N2, F2, b) = TagOf(nx, F, b)
        BY <3>2 DEF TagOf
      <4>2. b \in Bps /\ nx[b] \in Bps /\ nx[b] # e
        BY <3>2, <1>1, <1>2, <1>3, <2>11
      <4>3. /\ HEADER_P(b) \in Words \ {HEADER_P(e), HEADER_P(z), FootBelow(e)}
            /\ FootBelow(nx[b]) \in Words \ {HEADER_P(e), HEADER_P(z), FootBelow(e)}
        BY <3>2, <4>2, <1>4, <2>3, <2>11, TagWords
      <4> QED BY <3>2, <4>1, <4>3, <1>0, <1>3, <2>10 DEF Tags
    <3> QED BY <3>1, <3>2
  <2>14. Layout(k, S2, N2, F2)
    BY <2>10, <2>12, <2>13 DEF Layout
  <2>15. NearlyCoal(N2, F2, z)
    BY <1>0, <1>3 DEF NearlyCoal, Coal, Shape
  <2>16. User(k, S2, F2) = User(h, S, F)
    BY <1>3, <2>10, <2>11 DEF User
  <2>17. Carried(h, nx, k, N2, User(h, S, F))
    <3> SUFFICES ASSUME NEW b \in User(h, S, F), NEW p \in Words, b <= p, p < FootBelow(nx[b])
                 PROVE N2[b] = nx[b]
                       /\ p # HEADER_P(e) /\ p # HEADER_P(z) /\ p # FootBelow(e)
      <4>1. \A b \in User(h, S, F) : N2[b] = nx[b]
        BY <1>3 DEF User
      <4> QED BY <4>1, <2>10 DEF Carried, Keeps
    <3>1. b \in S \ {h.brk} /\ N2[b] = nx[b] /\ p \in Nat
      BY <1>3, WordsIn DEF User
    <3>2. nx[b] \in Nat /\ nx[b] <= z /\ p < nx[b] - 8
      BY <3>1, <1>1, <1>2, <1>3 DEF FootBelow, DSIZE
    <3>3. p # e - 4 /\ p # z - 4 /\ p # e - 8
      BY <3>1, <3>2, <2>3
    <3> QED BY <3>1, <3>3 DEF HEADER_P, FootBelow, WSIZE, DSIZE
  <2> HIDE DEF S2, N2
  <2>18. Merged(k, x, S2, N2, F2, z)
    BY <2>9, <2>14, <2>15, CoalesceEffect
  <2>19. N2[z] = e
    BY <1>4 DEF N2
  <2> HIDE DEF F2
  <2>20. PICK S3, N3, F3 :
            /\ Layout(x.heap, S3, N3, F3) /\ Coal(N3, F3)
            /\ x.heap.brk = k.brk /\ x.heap.last_bp = x.bp
            /\ x.bp \in F3 /\ x.bp <= z /\ N2[z] <= N3[x.bp]
            /\ User(x.heap, S3, F3) = User(k, S2, F2)
            /\ Carried(k, N2, x.heap, N3, User(k, S2, F2))
    BY <2>18 DEF Merged
  <2>21. Carried(h, nx, x.heap, N3, User(h, S, F))
    BY <2>16, <2>17, <2>20, CarriedOn
  <2>22. Extended(h, x, S, nx, F, e)
    BY <1>3, <2>10, <2>16, <2>19, <2>20, <2>21 DEF Extended
  <2> QED BY <1>3, <1>5, <2>3, <2>22 DEF x
<1> QED BY <1>9, <1>10, <1>5, <1>7

-----------------------------------------------------------------------------
(***************************************************************************)
(* The loops.  A function that follows nxt up to an element of Stop and    *)
(* returns what val says there exists, since nxt goes up or leads to Wild. *)
(***************************************************************************)
Places == Bps \cup {Wild}

Follows(f, Stop, val, nxt) ==
    f = [b \in Places |-> IF b \in Stop THEN val[b] ELSE f[nxt[b]]]

(* f is right for the places above MAX_HEAP - n. *)
FollowsAbove(f, Stop, val, nxt, n) ==
    /\ DOMAIN f = Places /\ f = [b \in Places |-> f[b]]
    /\ \A b \in Places : b = Wild \/ MAX_HEAP - n < b
                         => f[b] = IF b \in Stop THEN val[b] ELSE f[nxt[b]]

LEMMA FollowsExists ==
    ASSUME NEW Stop, NEW val, NEW nxt, Wild \in Stop,
           \A b \in Bps \ Stop : nxt[b] \in Places /\ (nxt[b] = Wild \/ b < nxt[b])
    PROVE \E f : Follows(f, Stop, val, nxt)
<1>1. MAX_HEAP \in Nat /\ Wild = -1
  BY NextFitAssumption DEF Wild
<1>2. \A b \in Bps : b \in Nat /\ 8 <= b /\ b <= MAX_HEAP /\ b # Wild
  BY <1>1, BpsIn
<1> DEFINE T == {n \in Nat : ~ \E f : FollowsAbove(f, Stop, val, nxt, n)}
<1>3. ASSUME T # {} PROVE FALSE
  <2>1. PICK n \in T : \A k \in T : n <= k
    BY <1>3, Least
  <2>2. n \in Nat /\ ~ \E f : FollowsAbove(f, Stop, val, nxt, n)
    BY <2>1
  <2>3. CASE n = 0
    <3> DEFINE f == [b \in Places |-> val[b]]
    <3>1. FollowsAbove(f, Stop, val, nxt, 0)
      <4>1. \A b \in Places : b = Wild \/ MAX_HEAP - 0 < b => b \in Stop
        BY <1>1, <1>2 DEF Places
      <4> QED BY <4>1 DEF FollowsAbove
    <3> QED BY <3>1, <2>2, <2>3
  <2>4. CASE n # 0
    <3>1. PICK m \in Nat : m = n - 1
      BY <2>2, <2>4
    <3>2. m \notin T
      BY <2>1, <2>2, <3>1
    <3>3. PICK f : FollowsAbove(f, Stop, val, nxt, m)
      BY <3>2
    <3> DEFINE c == MAX_HEAP - m
               v == IF c \in Stop THEN val[c] ELSE f[nxt[c]]
               g == [b \in Places |-> IF b = c THEN v ELSE f[b]]
    <3>4. \A b \in Bps : MAX_HEAP - n < b => b = c \/ MAX_HEAP - m < b
      BY <1>1, <1>2, <2>2, <3>1
    <3>5. CASE c \notin Bps
      <4>1. FollowsAbove(f, Stop, val, nxt, n)
        BY <3>3, <3>4, <3>5 DEF FollowsAbove, Places
      <4> QED BY <4>1, <2>2
    <3>6. CASE c \in Bps
      <4>1. \A b \in Bps \ Stop : c <= b => nxt[b] # c /\ nxt[b] \in Places
        BY <3>6, <1>2
      <4>2. \A b \in Places : b = Wild \/ MAX_HEAP - n < b
                                => b = c \/ (b # c /\ (b = Wild \/ MAX_HEAP - m < b))
        BY <3>4 DEF Places
      <4>3. c # Wild /\ c \in Places
        BY <3>6, <1>2 DEF Places
      <4>4. \A b \in Places : b # c => g[b] = f[b]
        OBVIOUS
      <4>5. g[c] = v
        BY <4>3
      <4>6. \A b \in Places \ Stop : b \in Bps
        BY DEF Places
      <4>7. ASSUME NEW b \in Places, b = Wild \/ MAX_HEAP - n < b
            PROVE g[b] = IF b \in Stop THEN val[b] ELSE g[nxt[b]]
        <5>1. CASE b = c
          <6>1. b \notin Stop => c <= b /\ g[nxt[b]] = f[nxt[b]]
            BY <4>1, <4>4, <4>6, <5>1, <3>6, <1>2
          <6> QED BY <6>1, <4>5, <5>1
        <5>2. CASE b # c
          <6>1. b = Wild \/ MAX_HEAP - m < b
            BY <4>2, <4>7, <5>2
          <6>2. g[b] = f[b] /\ f[b] = IF b \in Stop THEN val[b] ELSE f[nxt[b]]
            BY <6>1, <4>4, <5>2, <3>3 DEF FollowsAbove
          <6>3. b \notin Stop => b \in Bps /\ c <= b
            BY <6>1, <4>6, <1>1, <1>2, <3>1
          <6>4. b \notin Stop => g[nxt[b]] = f[nxt[b]]
            BY <6>3, <4>1, <4>4
          <6> QED BY <6>2, <6>4
        <5> QED BY <5>1, <5>2
      <4>8. FollowsAbove(g, Stop, val, nxt, n)
        BY <4>7 DEF FollowsAbove
      <4> QED BY <4>8, <2>2
    <3> QED BY <3>5, <3>6
  <2> QED BY <2>3, <2>4
<1>4. PICK f : FollowsAbove(f, Stop, val, nxt, MAX_HEAP)
  BY <1>1, <1>3
<1>5. \A b \in Places : b = Wild \/ MAX_HEAP - MAX_HEAP < b
  BY <1>1, <1>2 DEF Places
<1> QED BY <1>4, <1>5 DEF FollowsAbove, Follows

(* What After() may return. *)
LEMMA AfterUp ==
    ASSUME NEW h \in Heaps, NEW b \in Bps
    PROVE /\ SizeOf(h, b) \in Nat /\ SizeOf(h, b) % 8 = 0
          /\ NEXT_BLOCK_BP(h, b) \in Nat /\ NEXT_BLOCK_BP(h, b) % 8 = 0
          /\ b <= NEXT_BLOCK_BP(h, b)
          /\ SizeOf(h, b) # 0 => b < NEXT_BLOCK_BP(h, b)
          /\ After(h, b) \in Places
          /\ After(h, b) = Wild \/ After(h, b) = NEXT_BLOCK_BP(h, b)
<1>1. PICK w \in Nat : w = GET(h, HEADER_P(b))
  BY DEF GET, Heaps
<1>2. w - (w % 8) \in Nat /\ (w - (w % 8)) % 8 = 0
  BY <1>1
<1>3. SizeOf(h, b) = w - (w % 8)
  BY <1>1 DEF SizeOf, GET_SIZE
<1>4. SizeOf(h, b) \in Nat /\ SizeOf(h, b) % 8 = 0
  BY <1>2, <1>3
<1>5. b \in Nat /\ b % 8 = 0
  BY BpsIn
<1>6. /\ NEXT_BLOCK_BP(h, b) \in Nat /\ NEXT_BLOCK_BP(h, b) % 8 = 0
      /\ b <= NEXT_BLOCK_BP(h, b)
      /\ SizeOf(h, b) # 0 => b < NEXT_BLOCK_BP(h, b)
  BY <1>4, <1>5 DEF NEXT_BLOCK_BP
<1> QED BY <1>4, <1>6 DEF After, Places

(* The first loop. *)
EndLoop(f, h, adj) ==
    f = [bp \in Bps \cup {Wild} |->
            IF bp = Wild THEN Wild
            ELSE IF IsFree(h, bp) /\ SizeOf(h, bp) > adj THEN bp
            ELSE IF SizeOf(h, bp) = 0 THEN NULL
            ELSE f[After(h, bp)]]

LEMMA EndLoopExists ==
    ASSUME NEW h \in Heaps, NEW adj PROVE \E f : EndLoop(f, h, adj)
<1> DEFINE Found(b) == IsFree(h, b) /\ SizeOf(h, b) > adj
           Stop == {b \in Places : b = Wild \/ Found(b) \/ SizeOf(h, b) = 0}
           val == [b \in Places |-> IF b = Wild THEN Wild ELSE IF Found(b) THEN b ELSE NULL]
           nxt == [b \in Places |-> After(h, b)]
<1>1. Wild \in Stop
  BY DEF Places
<1>2. \A b \in Bps \ Stop : nxt[b] \in Places /\ (nxt[b] = Wild \/ b < nxt[b])
  <2> SUFFICES ASSUME NEW b \in Bps \ Stop
               PROVE After(h, b) \in Places /\ (After(h, b) = Wild \/ b < After(h, b))
    BY DEF Places
  <2>1. SizeOf(h, b) # 0
    BY DEF Places
  <2> QED BY <2>1, AfterUp
<1>3. PICK f : Follows(f, Stop, val, nxt)
  <2> HIDE DEF Stop, val, nxt
  <2> QED BY <1>1, <1>2, FollowsExists
<1>4. \A b \in Places : /\ b \in Stop <=> b = Wild \/ Found(b) \/ SizeOf(h, b) = 0
                        /\ val[b] = IF b = Wild THEN Wild ELSE IF Found(b) THEN b ELSE NULL
                        /\ nxt[b] = After(h, b)
  OBVIOUS
<1> HIDE DEF Stop, val, nxt
<1>5. f = [b \in Places |-> IF b \in Stop THEN val[b] ELSE f[nxt[b]]]
  BY <1>3 DEF Follows
<1>6. f = [b \in Places |-> IF b = Wild THEN Wild ELSE IF Found(b) THEN b
                            ELSE IF SizeOf(h, b) = 0 THEN NULL ELSE f[After(h, b)]]
  BY <1>4, <1>5
<1> QED BY <1>6 DEF EndLoop, Places

LEMMA EndLoopIs ==
    ASSUME NEW h \in Heaps, NEW adj, NEW from
    PROVE \E f : EndLoop(f, h, adj) /\ ToEnd(h, adj, from) = f[from]
<1>1. PICK g : EndLoop(g, h, adj)
  BY EndLoopExists
<1> DEFINE Seek[bp \in Bps \cup {Wild}] ==
              IF bp = Wild THEN Wild
              ELSE IF IsFree(h, bp) /\ SizeOf(h, bp) > adj THEN bp
              ELSE IF SizeOf(h, bp) = 0 THEN NULL
              ELSE Seek[After(h, bp)]
<1>2. EndLoop(Seek, h, adj)
  BY <1>1 DEF EndLoop
<1>3. ToEnd(h, adj, from) = Seek[from]
  BY DEF ToEnd
<1> HIDE DEF Seek
<1> QED BY <1>2, <1>3

(* The free block x has at least size bytes. *)
Fit(nx, F, x, size) == x \in F /\ size <= nx[x] - x

(* The first loop, from the block b: a free block that is larger, or none above. *)
EndFinds(r, nx, F, b, adj) ==
    \/ Fit(nx, F, r, adj)
    \/ r = NULL /\ \A x \in F : b <= x => nx[x] - x <= adj

LEMMA EndLoopFinds ==
    ASSUME NEW h, NEW S, NEW nx, NEW F, Layout(h, S, nx, F), NEW adj \in Nat,
           NEW f, EndLoop(f, h, adj), NEW b \in S
    PROVE EndFinds(f[b], nx, F, b, adj)
<1>0. Shape(h.brk, S, nx, F) /\ h \in Heaps
  BY DEF Layout
<1>1. \A c \in S : c \in Nat /\ c <= h.brk /\ h.brk \in Nat /\ c \in Bps /\ c # Wild
  BY <1>0, BpsIn DEF Shape, Wild
<1>2. \A c \in S \ {h.brk} : nx[c] \in S /\ c < nx[c] /\ \A x \in S : c < x => nx[c] <= x
  BY <1>0 DEF Shape, Ordered
<1>3. F \subseteq S \ {h.brk} /\ h.brk \in S
  BY <1>0 DEF Shape
<1> DEFINE T == {h.brk - c : c \in {x \in S : ~ EndFinds(f[x], nx, F, x, adj)}}
<1>4. T \in SUBSET Nat
  BY <1>1
<1>5. ASSUME T # {} PROVE FALSE
  <2>1. PICK d \in T : \A k \in T : d <= k
    BY <1>4, <1>5, Least
  <2>2. PICK c \in S : d = h.brk - c /\ ~ EndFinds(f[c], nx, F, c, adj)
    OBVIOUS
  <2>3. \A x \in S : c < x => EndFinds(f[x], nx, F, x, adj)
    <3> SUFFICES ASSUME NEW x \in S, c < x, ~ EndFinds(f[x], nx, F, x, adj) PROVE FALSE
      OBVIOUS
    <3>1. h.brk - x \in T
      OBVIOUS
    <3>2. d <= h.brk - x
      BY <2>1, <3>1
    <3> QED BY <3>2, <2>2, <1>1
  <2>4. f[c] = IF IsFree(h, c) /\ SizeOf(h, c) > adj THEN c
               ELSE IF SizeOf(h, c) = 0 THEN NULL ELSE f[After(h, c)]
    BY <1>1 DEF EndLoop
  <2>5. CASE c = h.brk
    <3>1. f[c] = NULL
      BY <2>4, <2>5, EpilogueReads
    <3>2. \A x \in F : ~ (c <= x)
      BY <2>5, <1>1, <1>3
    <3> QED BY <3>1, <3>2, <2>2 DEF EndFinds
  <2>6. CASE c # h.brk
    <3>1. SizeOf(h, c) = nx[c] - c /\ (IsFree(h, c) <=> c \in F) /\ After(h, c) = nx[c]
      BY <2>6, BlockReads
    <3>2. nx[c] \in S /\ c < nx[c] /\ nx[c] \in Nat /\ c \in Nat /\ nx[c] - c # 0
      BY <2>6, <1>1, <1>2
    <3>3. CASE c \in F /\ nx[c] - c > adj
      <4>1. f[c] = c
        BY <2>4, <3>1, <3>3
      <4>2. adj <= nx[c] - c
        BY <3>2, <3>3
      <4> QED BY <4>1, <4>2, <3>3, <2>2 DEF EndFinds, Fit
    <3>4. CASE ~ (c \in F /\ nx[c] - c > adj)
      <4>1. f[c] = f[nx[c]]
        BY <2>4, <3>1, <3>2, <3>4
      <4>2. EndFinds(f[nx[c]], nx, F, nx[c], adj)
        BY <2>3, <3>2
      <4>3. \A x \in F : c <= x => x = c \/ nx[c] <= x
        BY <1>1, <1>2, <1>3, <2>6
      <4>4. c \in F => nx[c] - c <= adj
        BY <3>2, <3>4
      <4> QED BY <4>1, <4>2, <4>3, <4>4, <2>2 DEF EndFinds
    <3> QED BY <3>3, <3>4
  <2> QED BY <2>5, <2>6
<1> QED BY <1>5

(* The second loop. *)
LastFits(h, bp, adj) == bp # Wild /\ IsFree(h, bp) /\ SizeOf(h, bp) >= adj

LastLoop(f, h, adj) ==
    f = [bp \in Bps \cup {Wild} |->
            IF bp = Wild THEN Wild
            ELSE IF bp >= h.last_bp THEN NULL
            ELSE IF After(h, bp) = bp THEN Wild
            ELSE IF LastFits(h, After(h, bp), adj) THEN After(h, bp)
            ELSE f[After(h, bp)]]

LEMMA LastLoopExists ==
    ASSUME NEW h \in Heaps, NEW adj PROVE \E f : LastLoop(f, h, adj)
<1> DEFINE Found(b) == LastFits(h, After(h, b), adj)
           Stop == {b \in Places : b = Wild \/ b >= h.last_bp \/ After(h, b) = b \/ Found(b)}
           val == [b \in Places |-> IF b = Wild THEN Wild
                                    ELSE IF b >= h.last_bp THEN NULL
                                    ELSE IF After(h, b) = b THEN Wild ELSE After(h, b)]
           nxt == [b \in Places |-> After(h, b)]
<1>1. Wild \in Stop
  BY DEF Places
<1>2. \A b \in Bps \ Stop : nxt[b] \in Places /\ (nxt[b] = Wild \/ b < nxt[b])
  <2> SUFFICES ASSUME NEW b \in Bps \ Stop
               PROVE After(h, b) \in Places /\ (After(h, b) = Wild \/ b < After(h, b))
    BY DEF Places
  <2>1. After(h, b) # b /\ b \in Nat
    BY BpsIn DEF Places
  <2>2. /\ After(h, b) \in Places
        /\ After(h, b) = Wild \/ After(h, b) = NEXT_BLOCK_BP(h, b)
        /\ NEXT_BLOCK_BP(h, b) \in Nat /\ b <= NEXT_BLOCK_BP(h, b)
    BY AfterUp
  <2> QED BY <2>1, <2>2
<1>3. PICK f : Follows(f, Stop, val, nxt)
  <2> HIDE DEF Stop, val, nxt
  <2> QED BY <1>1, <1>2, FollowsExists
<1>4. \A b \in Places :
        /\ b \in Stop <=> b = Wild \/ b >= h.last_bp \/ After(h, b) = b \/ Found(b)
        /\ val[b] = IF b = Wild THEN Wild ELSE IF b >= h.last_bp THEN NULL
                    ELSE IF After(h, b) = b THEN Wild ELSE After(h, b)
        /\ nxt[b] = After(h, b)
  OBVIOUS
<1> HIDE DEF Stop, val, nxt
<1>5. f = [b \in Places |-> IF b \in Stop THEN val[b] ELSE f[nxt[b]]]
  BY <1>3 DEF Follows
<1>6. f = [b \in Places |-> IF b = Wild THEN Wild
                            ELSE IF b >= h.last_bp THEN NULL
                            ELSE IF After(h, b) = b THEN Wild
                            ELSE IF Found(b) THEN After(h, b)
                            ELSE f[After(h, b)]]
  BY <1>4, <1>5
<1> QED BY <1>6 DEF LastLoop, Places

LEMMA LastLoopIs ==
    ASSUME NEW h \in Heaps, NEW adj, NEW from
    PROVE \E f : LastLoop(f, h, adj) /\ ToLast(h, adj, from) = f[from]
<1>1. PICK g : LastLoop(g, h, adj)
  BY LastLoopExists
<1> DEFINE Seek[bp \in Bps \cup {Wild}] ==
              IF bp = Wild THEN Wild
              ELSE IF bp >= h.last_bp THEN NULL
              ELSE IF After(h, bp) = bp THEN Wild
              ELSE IF LastFits(h, After(h, bp), adj) THEN After(h, bp)
              ELSE Seek[After(h, bp)]
<1>2. LastLoop(Seek, h, adj)
  BY <1>1 DEF LastLoop
<1>3. ToLast(h, adj, from) = Seek[from]
  BY DEF ToLast, LastFits
<1> HIDE DEF Seek
<1> QED BY <1>2, <1>3

(* The second loop, from the block b: a free block that is large enough, or *)
(* none after b and up to last_bp.                                          *)
LastFinds(r, nx, F, b, last, adj) ==
    \/ Fit(nx, F, r, adj)
    \/ r = NULL /\ \A x \in F : b < x /\ x <= last => nx[x] - x <= adj

LEMMA LastLoopFinds ==
    ASSUME NEW h, NEW S, NEW nx, NEW F, Layout(h, S, nx, F), NEW adj \in Nat,
           h.last_bp <= h.brk, NEW f, LastLoop(f, h, adj), NEW b \in S
    PROVE LastFinds(f[b], nx, F, b, h.last_bp, adj)
<1>0. Shape(h.brk, S, nx, F) /\ h \in Heaps /\ h.last_bp \in Nat
  BY DEF Layout, Heaps
<1>1. \A c \in S : c \in Nat /\ c <= h.brk /\ h.brk \in Nat /\ c \in Bps /\ c # Wild
  BY <1>0, BpsIn DEF Shape, Wild
<1>2. \A c \in S \ {h.brk} : nx[c] \in S /\ c < nx[c] /\ \A x \in S : c < x => nx[c] <= x
  BY <1>0 DEF Shape, Ordered
<1>3. F \subseteq S \ {h.brk} /\ h.brk \in S
  BY <1>0 DEF Shape
<1> DEFINE P(x) == LastFinds(f[x], nx, F, x, h.last_bp, adj)
           T == {h.brk - c : c \in {x \in S : ~ P(x)}}
<1>4. T \in SUBSET Nat
  BY <1>1
<1>5. ASSUME T # {} PROVE FALSE
  <2>1. PICK d \in T : \A k \in T : d <= k
    BY <1>4, <1>5, Least
  <2>2. PICK c \in S : d = h.brk - c /\ ~ P(c)
    OBVIOUS
  <2>3. \A x \in S : c < x => P(x)
    <3> SUFFICES ASSUME NEW x \in S, c < x, ~ P(x) PROVE FALSE
      OBVIOUS
    <3>1. h.brk - x \in T
      OBVIOUS
    <3>2. d <= h.brk - x
      BY <2>1, <3>1
    <3> QED BY <3>2, <2>2, <1>1
  <2>4. f[c] = IF c >= h.last_bp THEN NULL
               ELSE IF After(h, c) = c THEN Wild
               ELSE IF LastFits(h, After(h, c), adj) THEN After(h, c)
               ELSE f[After(h, c)]
    BY <1>1 DEF LastLoop
  <2>5. CASE c >= h.last_bp
    <3>1. f[c] = NULL
      BY <2>4, <2>5
    <3>2. \A x \in F : ~ (c < x /\ x <= h.last_bp)
      BY <2>5, <1>0, <1>1, <1>3
    <3> QED BY <3>1, <3>2, <2>2 DEF LastFinds
  <2>6. CASE ~ (c >= h.last_bp)
    <3>1. c # h.brk
      BY <2>6, <1>0, <1>1, <1>3
    <3>2. After(h, c) = nx[c]
      BY <3>1, BlockReads
    <3>3. PICK n \in S : n = nx[c]
      BY <3>1, <1>2
    <3>4. c < n /\ n \in Nat /\ c \in Nat /\ n # c /\ n # Wild
      BY <3>1, <3>3, <1>1, <1>2
    <3>5. LastFits(h, n, adj) <=> Fit(nx, F, n, adj)
      <4>1. CASE n = h.brk
        BY <4>1, <1>3, EpilogueReads DEF LastFits, Fit
      <4>2. CASE n # h.brk
        <5>1. SizeOf(h, n) = nx[n] - n /\ (IsFree(h, n) <=> n \in F)
          BY <4>2, BlockReads
        <5>2. nx[n] \in Nat /\ n \in Nat
          BY <4>2, <1>1, <1>2
        <5> QED BY <5>1, <5>2, <3>4 DEF LastFits, Fit
      <4> QED BY <4>1, <4>2
    <3>6. CASE Fit(nx, F, n, adj)
      <4>1. f[c] = n
        BY <2>4, <2>6, <3>2, <3>3, <3>4, <3>5, <3>6
      <4> QED BY <4>1, <3>6, <2>2 DEF LastFinds
    <3>7. CASE ~ Fit(nx, F, n, adj)
      <4>1. f[c] = f[n]
        BY <2>4, <2>6, <3>2, <3>3, <3>4, <3>5, <3>7
      <4>2. P(n)
        BY <2>3, <3>4
      <4>3. \A x \in F : c < x => x = n \/ n < x
        BY <1>1, <1>2, <1>3, <3>1, <3>3
      <4>4. n \in F => nx[n] - n <= adj
        <5>1. n \in F => nx[n] \in Nat
          BY <1>1, <1>2, <1>3
        <5> QED BY <3>4, <3>7, <5>1 DEF Fit
      <4> QED BY <4>1, <4>2, <4>3, <4>4, <2>2 DEF LastFinds
    <3> QED BY <3>6, <3>7
  <2> QED BY <2>5, <2>6
<1> QED BY <1>5

-----------------------------------------------------------------------------
(* last_bp is no block: what stands where its header would be is a pattern *)
(* that ends the first loop, or leads it out of the memory.                *)
Stray(h) ==
    /\ h.last_bp \in Bps
    /\ h.last_bp <= h.brk
    /\ GET(h, HEADER_P(h.last_bp)) = 0 \/ MAX_HEAP <= GET(h, HEADER_P(h.last_bp))

NextFinds(r, h, S, nx, F, adj) ==
    \/ r = Wild
    \/ Fit(nx, F, r, adj)
    \/ r = NULL /\ (h.last_bp \in S \ {h.brk} => \A x \in F : nx[x] - x <= adj)

LEMMA NextFitFinds ==
    ASSUME NEW h, NEW S, NEW nx, NEW F, Layout(h, S, nx, F), NEW adj \in Nat,
           h.last_bp \in S \ {h.brk} \/ Stray(h)
    PROVE NextFinds(next_fit(h, adj), h, S, nx, F, adj)
<1>0. Shape(h.brk, S, nx, F) /\ h \in Heaps /\ h.last_bp \in Nat
  BY DEF Layout, Heaps
<1>1. \A c \in S : c \in Nat /\ c <= h.brk /\ h.brk \in Nat /\ c \in Bps
  BY <1>0, BpsIn DEF Shape
<1>2. \A c \in S \ {h.brk} : nx[c] \in S /\ c < nx[c] /\ \A x \in S : c < x => nx[c] <= x
  BY <1>0 DEF Shape, Ordered
<1>3. F \subseteq S \ {start_bp, h.brk} /\ start_bp \in S /\ \A x \in S : start_bp <= x
  BY <1>0, BpsIn, StartBp DEF Shape
<1>4. h.last_bp <= h.brk
  BY <1>1 DEF Stray
<1>5. PICK t : t = ToLast(h, adj, start_bp)
  OBVIOUS
<1>6. LastFinds(t, nx, F, start_bp, h.last_bp, adj)
  <2>1. PICK f : LastLoop(f, h, adj) /\ ToLast(h, adj, start_bp) = f[start_bp]
    BY <1>0, LastLoopIs
  <2> QED BY <2>1, <1>3, <1>4, <1>5, LastLoopFinds
<1>7. PICK y : y = ToEnd(h, adj, After(h, h.last_bp))
  OBVIOUS
<1>8. next_fit(h, adj) = IF y # NULL THEN y ELSE t
  BY <1>5, <1>7 DEF next_fit
<1>9. PICK f : EndLoop(f, h, adj) /\ y = f[After(h, h.last_bp)]
  BY <1>0, <1>7, EndLoopIs
<1>10. CASE h.last_bp \in S \ {h.brk}
  <2>1. PICK n \in S : n = nx[h.last_bp]
    BY <1>2, <1>10
  <2>2. After(h, h.last_bp) = n
    BY <1>10, <2>1, BlockReads
  <2>3. EndFinds(y, nx, F, n, adj)
    BY <1>9, <2>2, EndLoopFinds
  <2>4. \A x \in F : n <= x \/ (start_bp < x /\ x <= h.last_bp)
    <3>1. \A x \in F : x \in Nat /\ x \in S /\ start_bp # x /\ start_bp <= x /\ start_bp \in Nat
      BY <1>1, <1>3
    <3>2. \A x \in S : h.last_bp < x => n <= x
      BY <1>2, <1>10, <2>1
    <3> QED BY <3>1, <3>2, <1>0
  <2>5. CASE y # NULL
    BY <2>5, <2>3, <1>8 DEF EndFinds, NextFinds
  <2>6. CASE y = NULL
    BY <2>6, <2>3, <2>4, <1>6, <1>8 DEF EndFinds, LastFinds, NextFinds, Fit
  <2> QED BY <2>5, <2>6
<1>11. CASE h.last_bp \notin S \ {h.brk}
  <2> DEFINE p == h.last_bp
  <2>1. p \in Bps /\ p \in Nat /\ 8 <= p /\ p # Wild /\ Stray(h)
    BY <1>11, BpsIn DEF Stray, Wild
  <2>2. PICK w \in Nat : w = GET(h, HEADER_P(p))
    BY <1>0 DEF GET, Heaps
  <2>3. SizeOf(h, p) = w - (w % 8)
    BY <2>2 DEF SizeOf, GET_SIZE
  <2>4. CASE w = 0
    <3>1. SizeOf(h, p) = 0
      BY <2>3, <2>4
    <3>2. NEXT_BLOCK_BP(h, p) = p
      BY <2>1, <3>1 DEF NEXT_BLOCK_BP
    <3>3. After(h, p) = p
      BY <2>1, <3>2 DEF After
    <3>4. f[p] = NULL
      BY <1>9, <2>1, <3>1 DEF EndLoop
    <3>5. next_fit(h, adj) = t
      BY <1>8, <1>9, <3>3, <3>4
    <3> QED BY <3>5, <1>6, <1>11 DEF LastFinds, NextFinds
  <2>5. CASE w # 0
    <3>1. MAX_HEAP <= w /\ MAX_HEAP \in Nat
      BY <2>1, <2>2, <2>5, NextFitAssumption DEF Stray
    <3>2. p + (w - (w % 8)) > MAX_HEAP
      BY <3>1, <2>1, <2>2
    <3>3. NEXT_BLOCK_BP(h, p) \notin Bps
      BY <2>3, <3>1, <3>2, BpsIn DEF NEXT_BLOCK_BP
    <3>4. After(h, p) = Wild
      BY <3>3 DEF After
    <3>5. f[Wild] = Wild
      BY <1>9 DEF EndLoop
    <3>6. y = Wild /\ y # NULL
      BY <1>9, <3>4, <3>5 DEF Wild, NULL
    <3> QED BY <3>6, <1>8 DEF NextFinds
  <2> QED BY <2>4, <2>5
<1> QED BY <1>10, <1>11

-----------------------------------------------------------------------------
LEMMA Adjusted ==
    ASSUME NEW size \in Nat \ {0}
    PROVE /\ adjusted_size(size) \in Nat /\ adjusted_size(size) % 8 = 0
          /\ adjusted_size(size) >= 16 /\ adjusted_size(size) >= size + 8
          /\ size >= 16 /\ size % 8 = 0 => adjusted_size(size) = size + 8
<1>1. CASE size <= 8
  BY <1>1 DEF adjusted_size, DSIZE
<1>2. CASE size > 8
  <2>1. adjusted_size(size) = 8 * ((size + 15) \div 8)
    BY <1>2 DEF adjusted_size, DSIZE
  <2> QED BY <1>2, <2>1
<1> QED BY <1>1, <1>2

WithLast(u, g, x) == u = [g EXCEPT !.last_bp = x]

(* The layout does not depend on last_bp. *)
LEMMA LastMoves ==
    ASSUME NEW g, NEW S, NEW nx, NEW F, Layout(g, S, nx, F), NEW x \in Nat,
           NEW u, WithLast(u, g, x)
    PROVE Layout(u, S, nx, F) /\ u.brk = g.brk /\ u.mem = g.mem /\ u.last_bp = x
<1>1. g \in Heaps
  BY DEF Layout
<1>2. u \in Heaps /\ u.brk = g.brk /\ u.mem = g.mem /\ u.last_bp = x
  BY <1>1 DEF Heaps, WithLast
<1>3. Layout(u, S, nx, F)
  BY <1>2 DEF Layout, Tags
<1> QED BY <1>2, <1>3

(* What mm_malloc() does to h when it returns a block of adj bytes. *)
Mallocs(h, a, S, nx, F, adj) ==
    /\ \E S2, nx2, F2 :
        /\ Layout(a.heap, S2, nx2, F2) /\ Coal(nx2, F2)
        /\ User(a.heap, S2, F2) = User(h, S, F) \cup {a.bp}
        /\ a.bp \notin User(h, S, F)
        /\ a.bp + adj <= nx2[a.bp]
        /\ nx2[a.bp] \in F2 => nx2[a.bp] = a.bp + adj
        /\ Carried(h, nx, a.heap, nx2, User(h, S, F))
        /\ a.heap.last_bp = a.bp
    /\ a.bp # NULL /\ a.bp # Wild
    /\ a.heap.brk # h.brk /\ h.last_bp \in S \ {h.brk} => \A x \in F : nx[x] - x <= adj

Returns(h, g, S, nx, F, bp, adj) ==
    \E S2, nx2, F2 :
        /\ Layout(g, S2, nx2, F2) /\ Coal(nx2, F2)
        /\ User(g, S2, F2) = User(h, S, F) \cup {bp}
        /\ bp \notin User(h, S, F)
        /\ bp + adj <= nx2[bp]
        /\ nx2[bp] \in F2 => nx2[bp] = bp + adj
        /\ Carried(h, nx, g, nx2, User(h, S, F))
        /\ g.last_bp = bp /\ g.brk = h.brk

(* mark() and the new last_bp turn the free block bp into what is returned. *)
LEMMA MarkReturns ==
    ASSUME NEW h, NEW S, NEW nx, NEW F, Layout(h, S, nx, F), Coal(nx, F),
           NEW adj \in Nat, adj % 8 = 0, adj >= 16, NEW bp \in F, bp + adj <= nx[bp],
           NEW g, WithLast(g, mark(h, bp, adj), bp)
    PROVE Returns(h, g, S, nx, F, bp, adj)
<1>1. /\ bp \in S \ {start_bp, h.brk} /\ bp \in Bps /\ bp \in Nat /\ bp % 8 = 0
      /\ nx[bp] \in Bps /\ nx[bp] \in Nat /\ nx[bp] <= MAX_HEAP /\ MAX_HEAP \in Nat
  BY BpsIn, NextFitAssumption DEF Layout, Shape
<1>2. PICK m \in Nat : m = bp + adj
  BY <1>1
<1>3. m \in Bps /\ bp + 16 <= m /\ m <= nx[bp] /\ m - bp = adj
  <2>1. m % 8 = 0 /\ 8 <= m /\ m <= MAX_HEAP /\ bp + 16 <= m /\ m - bp = adj
    BY <1>1, <1>2
  <2> QED BY <2>1, <1>2, BpsAre
<1>4. nx[bp] \notin F /\ bp \notin User(h, S, F)
  BY DEF Coal, User
<1>5. PICK k : k = mark(h, bp, adj)
  OBVIOUS
<1>6. Marked(h, k, S, nx, F, bp, m)
  BY <1>1, <1>3, <1>4, <1>5, MarkEffect
<1>7. PICK S2, nx2, F2 :
        /\ Layout(k, S2, nx2, F2) /\ Coal(nx2, F2)
        /\ k.brk = h.brk /\ k.last_bp = h.last_bp
        /\ User(k, S2, F2) = User(h, S, F) \cup {bp}
        /\ m <= nx2[bp] /\ (nx2[bp] \in F2 => nx2[bp] = m \/ nx[bp] \in F)
        /\ Carried(h, nx, k, nx2, User(h, S, F) \ {bp})
  BY <1>6 DEF Marked
<1>8. WithLast(g, k, bp)
  BY <1>5
<1>9. Layout(g, S2, nx2, F2) /\ g.brk = k.brk /\ g.mem = k.mem /\ g.last_bp = bp
  <2>1. Layout(k, S2, nx2, F2) /\ bp \in Nat
    BY <1>1, <1>7
  <2> QED BY <1>8, <2>1, LastMoves
<1>10. User(g, S2, F2) = User(k, S2, F2)
  BY <1>9 DEF User
<1>11. User(h, S, F) \ {bp} = User(h, S, F)
  BY <1>4
<1>12. Carried(h, nx, g, nx2, User(h, S, F))
  BY <1>7, <1>9, <1>11 DEF Carried, Keeps
<1> QED BY <1>2, <1>4, <1>7, <1>9, <1>10, <1>12 DEF Returns

LEMMA MallocEffect ==
    ASSUME NEW h, NEW S, NEW nx, NEW F, Layout(h, S, nx, F), Coal(nx, F),
           h.last_bp \in S \ {h.brk} \/ Stray(h), NEW size \in Nat \ {0}
    PROVE \/ mm_malloc(h, size).bp \in {NULL, Wild}
          \/ Mallocs(h, mm_malloc(h, size), S, nx, F, adjusted_size(size))
<1>1. PICK adj \in Nat : adj = adjusted_size(size)
  BY Adjusted
<1>2. adj % 8 = 0 /\ adj >= 16
  BY <1>1, Adjusted
<1>3. PICK fit : fit = next_fit(h, adj)
  OBVIOUS
<1>4. NextFinds(fit, h, S, nx, F, adj)
  BY <1>3, NextFitFinds
<1>5. PICK more : more = IF fit = NULL
                         THEN extend_heap(h, (IF adj > CHUNCKSIZE THEN adj ELSE CHUNCKSIZE)
                                             \div WSIZE)
                         ELSE [heap |-> h, bp |-> fit]
  OBVIOUS
<1>6. PICK a : a = mm_malloc(h, size)
  OBVIOUS
<1>7. a = IF more.bp \in {NULL, Wild} THEN more
          ELSE [heap |-> [mark(more.heap, more.bp, adj) EXCEPT !.last_bp = more.bp],
                bp |-> more.bp]
  BY <1>1, <1>3, <1>5, <1>6 DEF mm_malloc
<1>8. SUFFICES ASSUME more.bp \notin {NULL, Wild} PROVE Mallocs(h, a, S, nx, F, adj)
  BY <1>1, <1>6, <1>7
<1>9. PICK bp : bp = more.bp
  OBVIOUS
<1>10. PICK g : WithLast(g, mark(more.heap, bp, adj), bp)
  BY DEF WithLast
<1>11. a.heap = g /\ a.bp = bp /\ bp # NULL /\ bp # Wild
  BY <1>7, <1>8, <1>9, <1>10 DEF WithLast
<1>12. CASE fit # NULL
  <2>1. more.heap = h /\ bp = fit
    BY <1>5, <1>9, <1>12
  <2>2. Fit(nx, F, bp, adj)
    BY <1>4, <1>11, <1>12, <2>1 DEF NextFinds
  <2>3. bp \in F /\ bp \in Nat /\ nx[bp] \in Nat
    BY <2>2, BpsIn DEF Fit, Layout, Shape
  <2>4. bp + adj <= nx[bp]
    BY <2>2, <2>3 DEF Fit
  <2>5. Returns(h, g, S, nx, F, bp, adj)
    BY <1>2, <1>10, <2>1, <2>3, <2>4, MarkReturns
  <2> QED BY <2>5, <1>11 DEF Mallocs, Returns
<1>13. CASE fit = NULL
  <2>1. PICK z \in Nat : z = IF adj > CHUNCKSIZE THEN adj ELSE CHUNCKSIZE
    BY NextFitAssumption
  <2>2. z % 8 = 0 /\ z >= 16 /\ adj <= z
    BY <1>2, <2>1, NextFitAssumption
  <2>3. more = extend_heap(h, z \div WSIZE)
    BY <1>5, <1>13, <2>1
  <2>4. more # [heap |-> h, bp |-> NULL]
    BY <1>8
  <2>5. Extended(h, more, S, nx, F, h.brk + z)
    BY <2>2, <2>3, <2>4, ExtendEffect
  <2>6. PICK S1, nx1, F1 :
            /\ Layout(more.heap, S1, nx1, F1) /\ Coal(nx1, F1)
            /\ more.heap.brk = h.brk + z /\ more.heap.last_bp = more.bp
            /\ more.bp \in F1 /\ more.bp <= h.brk /\ h.brk + z <= nx1[more.bp]
            /\ User(more.heap, S1, F1) = User(h, S, F)
            /\ Carried(h, nx, more.heap, nx1, User(h, S, F))
    BY <2>5 DEF Extended
  <2>7. bp \in F1 /\ bp \in Nat /\ nx1[bp] \in Nat /\ h.brk \in Nat
    BY <1>9, <2>6, BpsIn DEF Layout, Shape, Heaps
  <2>8. bp + adj <= nx1[bp]
    BY <1>9, <2>2, <2>6, <2>7
  <2>9. Returns(more.heap, g, S1, nx1, F1, bp, adj)
    BY <1>2, <1>10, <2>6, <2>7, <2>8, MarkReturns
  <2>12. PICK S2, nx2, F2 :
            /\ Layout(g, S2, nx2, F2) /\ Coal(nx2, F2)
            /\ User(g, S2, F2) = User(more.heap, S1, F1) \cup {bp}
            /\ bp \notin User(more.heap, S1, F1)
            /\ bp + adj <= nx2[bp]
            /\ nx2[bp] \in F2 => nx2[bp] = bp + adj
            /\ Carried(more.heap, nx1, g, nx2, User(more.heap, S1, F1))
            /\ g.last_bp = bp /\ g.brk = more.heap.brk
    BY <2>9 DEF Returns
  <2>10. Carried(h, nx, g, nx2, User(h, S, F))
    BY <2>6, <2>12, CarriedOn
  <2>11. h.last_bp \in S \ {h.brk} => \A x \in F : nx[x] - x <= adj
    BY <1>4, <1>13 DEF NextFinds, Fit, Layout, Shape, NULL, Wild, Bps, DSIZE
  <2> QED BY <1>11, <2>6, <2>12, <2>10, <2>11 DEF Mallocs
<1> QED BY <1>12, <1>13

-----------------------------------------------------------------------------
(* g is h with other data between the tags of the block b. *)
Filled(h, g, nx, b) ==
    /\ g \in Heaps /\ g.brk = h.brk
    /\ \A p \in Words : ~ (b <= p /\ p < FootBelow(nx[b])) => g.mem[p] = h.mem[p]

(* The data of a block is nowhere a tag or the data of another block. *)
LEMMA FilledSound ==
    ASSUME NEW h, NEW S, NEW nx, NEW F, Layout(h, S, nx, F), NEW b \in S \ {h.brk},
           NEW g, Filled(h, g, nx, b)
    PROVE /\ Layout(g, S, nx, F)
          /\ User(g, S, F) = User(h, S, F)
          /\ \A c \in S \ {h.brk, b} : Keeps(h, g, c, nx[c])
<1>0. Shape(h.brk, S, nx, F) /\ h \in Heaps /\ Tags(h, S, nx, F) /\ g \in Heaps
      /\ g.brk = h.brk
  BY DEF Layout, Filled
<1>1. \A c \in S : c \in Nat /\ c <= h.brk /\ h.brk \in Nat /\ c \in Bps
  BY <1>0, BpsIn DEF Shape
<1>2. \A c \in S \ {h.brk} : nx[c] \in S /\ c < nx[c] /\ \A x \in S : c < x => nx[c] <= x
  BY <1>0 DEF Shape, Ordered
<1>3. \A c \in S : c <= b \/ nx[b] <= c
  BY <1>1, <1>2
<1>4. \A c \in S : /\ ~ (b <= HEADER_P(c) /\ HEADER_P(c) < FootBelow(nx[b]))
                   /\ ~ (b <= FootBelow(c) /\ FootBelow(c) < FootBelow(nx[b]))
  <2> SUFFICES ASSUME NEW c \in S
               PROVE ~ (b <= c - 4 /\ c - 4 < nx[b] - 8) /\ ~ (b <= c - 8 /\ c - 8 < nx[b] - 8)
    BY DEF HEADER_P, FootBelow, WSIZE, DSIZE
  <2>1. c \in Nat /\ b \in Nat /\ nx[b] \in Nat
    BY <1>1, <1>2
  <2> QED BY <2>1, <1>3
<1>5. \A c \in S : g.mem[HEADER_P(c)] = h.mem[HEADER_P(c)]
                   /\ g.mem[FootBelow(c)] = h.mem[FootBelow(c)]
  BY <1>1, <1>4, TagWords DEF Filled
<1>6. Tags(g, S, nx, F)
  BY <1>0, <1>2, <1>5 DEF Tags, Shape
<1>7. ASSUME NEW c \in S \ {h.brk, b} PROVE Keeps(h, g, c, nx[c])
  <2> SUFFICES ASSUME NEW p \in Words, c <= p, p < FootBelow(nx[c])
               PROVE ~ (b <= p /\ p < FootBelow(nx[b]))
    BY DEF Keeps, Filled
  <2>1. c \in Nat /\ b \in Nat /\ nx[b] \in Nat /\ nx[c] \in Nat /\ p \in Nat
    BY <1>1, <1>2, WordsIn
  <2>2. nx[b] <= c \/ nx[c] <= b
    BY <1>2, <2>1
  <2>3. p < nx[c] - 8
    BY DEF FootBelow, DSIZE
  <2>4. ~ (b <= p /\ p < nx[b] - 8)
    BY <2>1, <2>2, <2>3
  <2> QED BY <2>4 DEF FootBelow, DSIZE
<1> QED BY <1>0, <1>6, <1>7 DEF Layout, User

(* What mm_free() does to h. *)
Frees(h, g, S, nx, F, ptr) ==
    \E S2, nx2, F2 :
        /\ Layout(g, S2, nx2, F2) /\ Coal(nx2, F2)
        /\ User(g, S2, F2) = User(h, S, F) \ {ptr}
        /\ Carried(h, nx, g, nx2, User(h, S, F) \ {ptr})
        /\ g.last_bp \in F2

LEMMA FreeEffect ==
    ASSUME NEW h, NEW S, NEW nx, NEW F, Layout(h, S, nx, F), Coal(nx, F),
           NEW ptr \in User(h, S, F)
    PROVE Frees(h, mm_free(h, ptr), S, nx, F, ptr)
<1>0. Shape(h.brk, S, nx, F) /\ h \in Heaps /\ ptr \in S \ {start_bp, h.brk} /\ ptr \notin F
  BY DEF Layout, User
<1>1. \A b \in S : b \in Nat /\ 8 <= b /\ b <= h.brk /\ h.brk \in Nat /\ b \in Bps
  BY <1>0, BpsIn DEF Shape
<1>2. \A b \in S \ {h.brk} : nx[b] \in S /\ b < nx[b] /\ \A c \in S : b < c => nx[b] <= c
  BY <1>0 DEF Shape, Ordered
<1>3. PICK e \in S : e = nx[ptr]
  BY <1>0, <1>2
<1>4. ptr < e /\ e \in Bps /\ ptr \in Bps /\ e <= e
  BY <1>0, <1>1, <1>2, <1>3
<1>5. SizeOf(h, ptr) = e - ptr
  BY <1>0, <1>3, BlockReads
<1>6. PICK k : k = Tag(h, ptr, e - ptr, 0)
  OBVIOUS
<1>7. Tagged(h, k, ptr, e, e - ptr + 0)
  BY <1>0, <1>4, <1>6, TagEffect
<1> DEFINE S2 == JoinS(S, ptr, e)
           N2 == JoinNx(h.brk, S, nx, ptr, e)
           F2 == JoinF(S, F, ptr, e, 0)
<1>8. Layout(k, S2, N2, F2) /\ \A b \in S2 \ {h.brk} : Keeps(h, k, b, nx[b])
  <2>1. nx[ptr] <= e
    BY <1>3, <1>4
  <2> QED BY <1>0, <1>7, <2>1, JoinTags
<1>9. S2 = S
  <2>1. \A b \in S : b <= ptr \/ e <= b
    BY <1>0, <1>1, <1>2, <1>3
  <2> QED BY <2>1 DEF JoinS
<1>10. \A b \in S \ {h.brk} : N2[b] = nx[b]
  BY <1>3, <1>9 DEF JoinNx
<1>11. F2 = F \cup {ptr} /\ F \subseteq S \ {h.brk}
  BY <1>0, <1>9 DEF JoinF, Shape
<1>12. k.brk = h.brk
  BY <1>7 DEF Tagged
<1>13. NearlyCoal(N2, F2, ptr)
  BY <1>10, <1>11 DEF NearlyCoal, Coal
<1>14. User(k, S2, F2) = User(h, S, F) \ {ptr}
  BY <1>9, <1>11, <1>12 DEF User
<1>15. Carried(h, nx, k, N2, User(h, S, F) \ {ptr})
  BY <1>8, <1>9, <1>10 DEF Carried, User
<1>16. ptr \in F2
  BY <1>11
<1> HIDE DEF S2, N2, F2
<1>17. PICK x : x = coalesce(k, ptr)
  OBVIOUS
<1>18. Merged(k, x, S2, N2, F2, ptr)
  BY <1>8, <1>13, <1>16, <1>17, CoalesceEffect
<1>19. PICK S3, N3, F3 :
        /\ Layout(x.heap, S3, N3, F3) /\ Coal(N3, F3)
        /\ x.heap.brk = k.brk /\ x.heap.last_bp = x.bp
        /\ x.bp \in F3 /\ x.bp <= ptr /\ N2[ptr] <= N3[x.bp]
        /\ User(x.heap, S3, F3) = User(k, S2, F2)
        /\ Carried(k, N2, x.heap, N3, User(k, S2, F2))
  BY <1>18 DEF Merged
<1>20. Carried(h, nx, x.heap, N3, User(h, S, F) \ {ptr})
  BY <1>14, <1>15, <1>19, CarriedOn
<1>21. mm_free(h, ptr) = x.heap
  BY <1>5, <1>6, <1>17 DEF mm_free
<1>22. Frees(h, x.heap, S, nx, F, ptr)
  BY <1>14, <1>19, <1>20 DEF Frees
<1> QED BY <1>21, <1>22

-----------------------------------------------------------------------------
(***************************************************************************)
(* The inductive invariant: a layout of the heap in which the user's       *)
(* blocks are those of the driver's ranges, one each, with their data.     *)
(***************************************************************************)
InUse(rg) == {i \in Indices : rg[i] # None}

HasData(h, lo, size, i) ==
    \A p \in Words : lo <= p /\ p < lo + size => h.mem[p] = Pattern(i)

Owns(h, S, nx, F, rg, J) ==
    \A j \in J : /\ rg[j].lo \in User(h, S, F)
                 /\ rg[j].lo + rg[j].size <= FootBelow(nx[rg[j].lo])
                 /\ HasData(h, rg[j].lo, rg[j].size, j)

(* last_bp points into the block b, that mm_realloc() has grown over it. *)
StrayIn(h, nx, b, i) ==
    /\ h.last_bp \in Bps
    /\ b < h.last_bp /\ h.last_bp < nx[b]
    /\ h.mem[HEADER_P(h.last_bp)] = Pattern(i)

HeapInv(h, S, nx, F, rg) ==
    /\ Layout(h, S, nx, F)
    /\ Coal(nx, F)
    /\ Owns(h, S, nx, F, rg, InUse(rg))
    /\ User(h, S, F) = {rg[i].lo : i \in InUse(rg)}
    /\ \A i, j \in InUse(rg) : rg[i].lo = rg[j].lo => i = j
    /\ h.last_bp \in S \ {h.brk} \/ \E i \in InUse(rg) : StrayIn(h, nx, rg[i].lo, i)

IInv ==
    /\ ranges \in [Indices -> [lo : Nat, size : {0} \cup Sizes]]
    /\ opnum \in 0 .. num_ops
    /\ verdict \in {"valid", "failed", "wild"}
    /\ \E S, nx, F : HeapInv(heap, S, nx, F, ranges)

(* What the driver gets for index i, before it fills the payload. *)
Smaller(size, old) == IF size < old THEN size ELSE old

CallOK(a, rg, i, size, S, nx, F, J) ==
    /\ Layout(a.heap, S, nx, F) /\ Coal(nx, F)
    /\ Owns(a.heap, S, nx, F, rg, J)
    /\ User(a.heap, S, F) = {rg[j].lo : j \in J} \cup {a.bp}
    /\ a.bp \notin {rg[j].lo : j \in J}
    /\ a.bp + size <= FootBelow(nx[a.bp])
    /\ HasData(a.heap, a.bp, Smaller(size, rg[i].size), i)
    /\ \/ a.heap.last_bp \in S \ {a.heap.brk}
       \/ \E j \in J : StrayIn(a.heap, nx, rg[j].lo, j)
       \/ StrayIn(a.heap, nx, a.bp, i)
       \/ /\ a.heap.last_bp \in Bps
          /\ a.bp < a.heap.last_bp /\ a.heap.last_bp < nx[a.bp]
          /\ HEADER_P(a.heap.last_bp) < a.bp + size

LEMMA SizesAre == \A s \in Sizes : s \in Nat /\ s # 0
BY NextFitAssumption

LEMMA PatternNat == \A i \in Indices : Pattern(i) \in Nat /\ i \in Nat
<1> SUFFICES ASSUME NEW i \in Indices PROVE Pattern(i) \in Nat /\ i \in Nat
  OBVIOUS
<1>1. i \in Nat
  BY NextFitAssumption
<1> QED BY <1>1 DEF Pattern

(* What stands before last_bp in a block is no tag. *)
LEMMA StrayInside ==
    ASSUME NEW b \in Bps, NEW e \in Bps, NEW p \in Bps, b < p, p < e
    PROVE b <= HEADER_P(p) /\ HEADER_P(p) < FootBelow(e) /\ HEADER_P(p) \in Words
<1>1. /\ b \in Nat /\ e \in Nat /\ p \in Nat /\ b % 8 = 0 /\ e % 8 = 0 /\ p % 8 = 0
  BY BpsIn
<1>2. b <= p - 4 /\ p - 4 < e - 8
  BY <1>1
<1> QED BY <1>2, TagWords DEF HEADER_P, FootBelow, WSIZE, DSIZE

LEMMA StrayKept ==
    ASSUME NEW h, NEW g, NEW nx, NEW nx2, NEW b \in Bps, nx[b] \in Bps, NEW i,
           StrayIn(h, nx, b, i), Keeps(h, g, b, nx[b]), g.last_bp = h.last_bp, nx2[b] = nx[b]
    PROVE StrayIn(g, nx2, b, i)
<1>1. PICK p \in Bps : p = h.last_bp
  BY DEF StrayIn
<1>2. b <= HEADER_P(p) /\ HEADER_P(p) < FootBelow(nx[b]) /\ HEADER_P(p) \in Words
  BY <1>1, StrayInside DEF StrayIn
<1> QED BY <1>1, <1>2 DEF StrayIn, Keeps

(* A stray last_bp is harmless when no pattern leads to another place. *)
OutOfReach == \A i \in Indices \ {0} : MAX_HEAP <= Pattern(i)

LEMMA StrayIsHarmless ==
    ASSUME OutOfReach, NEW h, NEW S, NEW nx, NEW F, NEW rg, HeapInv(h, S, nx, F, rg)
    PROVE h.last_bp \in S \ {h.brk} \/ Stray(h)
<1>1. CASE h.last_bp \in S \ {h.brk}
  BY <1>1
<1>2. CASE h.last_bp \notin S \ {h.brk}
  <2>1. PICK i \in InUse(rg) : StrayIn(h, nx, rg[i].lo, i)
    BY <1>2 DEF HeapInv
  <2>2. i \in Indices /\ rg[i].lo \in User(h, S, F)
    BY DEF InUse, HeapInv, Owns
  <2>3. PICK b \in S \ {h.brk} : b = rg[i].lo
    BY <2>2 DEF User
  <2>4. PICK p \in Bps : p = h.last_bp
    BY <2>1 DEF StrayIn
  <2>5. Shape(h.brk, S, nx, F)
    BY DEF HeapInv, Layout
  <2>6. nx[b] \in S /\ nx[b] <= h.brk /\ nx[b] \in Nat /\ h.brk \in Nat /\ p \in Nat
    BY <2>3, <2>5, BpsIn DEF Shape
  <2>7. p < nx[b]
    BY <2>1, <2>3, <2>4 DEF StrayIn
  <2>8. p <= h.brk
    BY <2>6, <2>7
  <2>9. GET(h, HEADER_P(p)) = Pattern(i)
    BY <2>1, <2>4, TagWords DEF StrayIn, GET
  <2>10. Pattern(i) = 0 \/ MAX_HEAP <= Pattern(i)
    BY <2>2 DEF OutOfReach, Pattern
  <2> QED BY <2>4, <2>8, <2>9, <2>10 DEF Stray
<1> QED BY <1>1, <1>2

(* What is carried stays the user's. *)
LEMMA OwnsCarried ==
    ASSUME NEW h, NEW S, NEW nx, NEW F, NEW rg, NEW J, Owns(h, S, nx, F, rg, J),
           NEW g, NEW S2, NEW nx2, NEW F2, NEW A, {rg[j].lo : j \in J} \subseteq A,
           Carried(h, nx, g, nx2, A), A \subseteq User(g, S2, F2),
           \A j \in J : rg[j].lo \in Nat /\ rg[j].size \in Nat,
           \A b \in A : nx[b] \in Nat
    PROVE Owns(g, S2, nx2, F2, rg, J)
<1> SUFFICES ASSUME NEW j \in J
             PROVE /\ rg[j].lo \in User(g, S2, F2)
                   /\ rg[j].lo + rg[j].size <= FootBelow(nx2[rg[j].lo])
                   /\ HasData(g, rg[j].lo, rg[j].size, j)
  BY DEF Owns
<1>1. PICK b \in A : b = rg[j].lo
  OBVIOUS
<1>2. nx2[b] = nx[b] /\ Keeps(h, g, b, nx[b]) /\ b \in User(g, S2, F2)
  BY DEF Carried
<1>3. b + rg[j].size <= FootBelow(nx[b]) /\ HasData(h, b, rg[j].size, j)
  BY <1>1 DEF Owns
<1>4. FootBelow(nx[b]) \in Int /\ b + rg[j].size \in Int
  BY <1>1 DEF FootBelow, DSIZE
<1>5. HasData(g, b, rg[j].size, j)
  <2> SUFFICES ASSUME NEW p \in Words, b <= p, p < b + rg[j].size
               PROVE g.mem[p] = Pattern(j)
    BY DEF HasData
  <2>1. h.mem[p] = Pattern(j)
    BY <1>3 DEF HasData
  <2>2. p < FootBelow(nx[b])
    BY <1>3, <1>4, WordsIn
  <2> QED BY <2>1, <2>2, <1>2 DEF Keeps
<1> QED BY <1>1, <1>2, <1>3, <1>5

(* memset() changes the payload and nothing else. *)
LEMMA MemsetFills ==
    ASSUME NEW h \in Heaps, NEW lo \in Nat, NEW size \in Nat, NEW i \in Indices,
           NEW nx, nx[lo] \in Nat, lo + size <= FootBelow(nx[lo]),
           NEW g, g = memset(h, [lo |-> lo, size |-> size], i)
    PROVE Filled(h, g, nx, lo) /\ HasData(g, lo, size, i) /\ g.last_bp = h.last_bp
<1> DEFINE m == [p \in Words |-> IF p \in lo .. lo + size - 1 THEN Pattern(i) ELSE h.mem[p]]
<1>1. m \in [Words -> Nat]
  BY PatternNat DEF Heaps
<1>2. g = [h EXCEPT !.mem = m]
  BY DEF memset, Payload
<1> HIDE DEF m
<1>3. g \in Heaps /\ g.mem = m /\ g.brk = h.brk /\ g.last_bp = h.last_bp
  BY <1>1, <1>2 DEF Heaps
<1>4. FootBelow(nx[lo]) \in Int
  BY DEF FootBelow, DSIZE
<1>5. \A p \in Words : p \in Nat /\ (p \in lo .. lo + size - 1 <=> lo <= p /\ p < lo + size)
  BY WordsIn
<1>6. \A p \in Words : m[p] = IF lo <= p /\ p < lo + size THEN Pattern(i) ELSE h.mem[p]
  BY <1>5 DEF m
<1>7. \A p \in Words : p < lo + size => p < FootBelow(nx[lo])
  BY <1>4, <1>5
<1> QED BY <1>3, <1>6, <1>7 DEF Filled, HasData

(* The range of a block that lies in the heap is accepted. *)
LEMMA RangeAccepted ==
    ASSUME ranges \in [Indices -> [lo : Nat, size : {0} \cup Sizes]],
           NEW i \in Indices, NEW size \in Sizes, NEW a, NEW S, NEW nx, NEW F,
           CallOK(a, ranges, i, size, S, nx, F, InUse(ranges) \ {i})
    PROVE RangeOK(a.heap, [lo |-> a.bp, size |-> size], {ranges[j] : j \in Indices \ {i}})
<1>0. Shape(a.heap.brk, S, nx, F)
  BY DEF CallOK, Layout
<1>1. \A b \in S : b \in Nat /\ 8 <= b /\ b <= a.heap.brk /\ a.heap.brk \in Nat /\ b % 8 = 0
  BY <1>0, BpsIn DEF Shape
<1>2. \A b \in S \ {a.heap.brk} : nx[b] \in S /\ \A c \in S : b < c => nx[b] <= c
  BY <1>0 DEF Shape, Ordered
<1>3. PICK bp \in S \ {a.heap.brk} : bp = a.bp
  BY DEF CallOK, User
<1>4. bp + size <= nx[bp] - 8 /\ nx[bp] \in Nat /\ bp \in Nat /\ size \in Nat /\ size # 0
  BY <1>1, <1>2, <1>3, SizesAre DEF CallOK, FootBelow, DSIZE
<1>5. bp .. bp + size - 1 \subseteq 0 .. a.heap.brk - 1
  <2>1. nx[bp] <= a.heap.brk /\ a.heap.brk \in Nat
    BY <1>1, <1>2
  <2> QED BY <1>4, <2>1
<1>6. ASSUME NEW j \in Indices \ {i}
      PROVE Payload(ranges[j]) \cap {bp, bp + size - 1} = {}
  <2>1. PICK lo \in Nat : lo = ranges[j].lo
    OBVIOUS
  <2>2. PICK sz \in Nat : sz = ranges[j].size
    BY SizesAre
  <2>3. Payload(ranges[j]) = lo .. lo + sz - 1
    BY <2>1, <2>2 DEF Payload
  <2>4. CASE ranges[j] = None
    <3>1. lo = 0 /\ sz = 0
      BY <2>1, <2>2, <2>4 DEF None, NULL
    <3> QED BY <2>3, <3>1
  <2>5. CASE ranges[j] # None
    <3>1. j \in InUse(ranges) \ {i}
      BY <2>5 DEF InUse
    <3>2. lo \in S \ {a.heap.brk} /\ lo # bp /\ lo + sz <= FootBelow(nx[lo])
      BY <3>1, <2>1, <2>2, <1>3 DEF CallOK, Owns, User
    <3>3. lo + sz <= nx[lo] - 8 /\ nx[lo] \in Nat
      BY <3>2, <1>1, <1>2 DEF FootBelow, DSIZE
    <3>4. nx[lo] <= bp \/ nx[bp] <= lo
      BY <3>2, <1>1, <1>2, <1>3
    <3>5. bp \notin lo .. lo + sz - 1 /\ bp + size - 1 \notin lo .. lo + sz - 1
      BY <3>3, <3>4, <1>4
    <3> QED BY <3>5, <2>3
  <2> QED BY <2>4, <2>5
<1> DEFINE r == [lo |-> a.bp, size |-> size]
<1>7. r.lo = bp /\ r.size = size /\ Payload(r) = bp .. bp + size - 1
  BY <1>3 DEF Payload
<1>8. r.lo % DSIZE = 0
  BY <1>1, <1>7 DEF DSIZE
<1> HIDE DEF r
<1>9. \A o \in {ranges[j] : j \in Indices \ {i}} :
        Payload(o) \cap {r.lo, r.lo + r.size - 1} = {}
  BY <1>6, <1>7
<1>10. RangeOK(a.heap, r, {ranges[j] : j \in Indices \ {i}})
  BY <1>5, <1>7, <1>8, <1>9 DEF RangeOK
<1> QED BY <1>10 DEF r

(* The invariant after the driver has filled the block it got. *)
LEMMA FilledInv ==
    ASSUME NEW rg \in [Indices -> [lo : Nat, size : {0} \cup Sizes]],
           \A j, k \in InUse(rg) : rg[j].lo = rg[k].lo => j = k,
           NEW i \in Indices, NEW size \in Sizes, NEW a, NEW S, NEW nx, NEW F,
           CallOK(a, rg, i, size, S, nx, F, InUse(rg) \ {i}),
           NEW g, g = memset(a.heap, [lo |-> a.bp, size |-> size], i)
    PROVE HeapInv(g, S, nx, F, [rg EXCEPT ![i] = [lo |-> a.bp, size |-> size]])
<1> DEFINE J == InUse(rg) \ {i}
           r == [lo |-> a.bp, size |-> size]
           q == [rg EXCEPT ![i] = r]
           h == a.heap
<1>0. Shape(h.brk, S, nx, F) /\ h \in Heaps /\ Layout(h, S, nx, F)
  BY DEF CallOK, Layout
<1>1. \A b \in S : b \in Nat /\ 8 <= b /\ b <= h.brk /\ h.brk \in Nat /\ b \in Bps
  BY <1>0, BpsIn DEF Shape
<1>2. \A b \in S \ {h.brk} : nx[b] \in S
  BY <1>0 DEF Shape
<1>3. PICK bp \in S \ {h.brk} : bp = a.bp
  BY DEF CallOK, User
<1>4. bp \in Nat /\ bp \in Bps /\ nx[bp] \in Nat /\ nx[bp] \in Bps /\ size \in Nat /\ bp # 0
      /\ bp + size <= FootBelow(nx[bp])
  BY <1>1, <1>2, <1>3, SizesAre DEF CallOK
<1>5. Filled(h, g, nx, bp) /\ HasData(g, bp, size, i) /\ g.last_bp = h.last_bp
  BY <1>0, <1>3, <1>4, MemsetFills
<1>6. Layout(g, S, nx, F) /\ User(g, S, F) = User(h, S, F)
      /\ \A c \in S \ {h.brk, bp} : Keeps(h, g, c, nx[c])
  BY <1>0, <1>5, FilledSound
<1>7. q[i] = r /\ (\A j \in J : q[j] = rg[j]) /\ r # None /\ InUse(q) = J \cup {i}
  <2>1. r # None
    BY <1>3, <1>4 DEF None, NULL
  <2>2. q[i] = r /\ \A j \in Indices \ {i} : q[j] = rg[j]
    OBVIOUS
  <2> HIDE DEF q, r
  <2> QED BY <2>1, <2>2 DEF InUse
<1>8. r.lo = bp /\ r.size = size
  BY <1>3
<1>9. User(h, S, F) = {rg[j].lo : j \in J} \cup {bp} /\ \A j \in J : rg[j].lo # bp
  BY <1>3 DEF CallOK
<1>10. \A j \in J : rg[j].lo \in User(h, S, F) /\ rg[j].lo \in S \ {h.brk, bp}
  BY <1>9 DEF User
<1> HIDE DEF q, r
<1>11. ASSUME NEW j \in J
       PROVE /\ q[j].lo \in User(g, S, F)
             /\ q[j].lo + q[j].size <= FootBelow(nx[q[j].lo])
             /\ HasData(g, q[j].lo, q[j].size, j)
  <2>1. PICK b \in S \ {h.brk, bp} : b = rg[j].lo
    BY <1>10
  <2>2. b + rg[j].size <= FootBelow(nx[b]) /\ HasData(h, b, rg[j].size, j)
    BY <2>1 DEF CallOK, Owns
  <2>3. FootBelow(nx[b]) \in Int /\ b + rg[j].size \in Int
    BY <1>1, <1>2, SizesAre DEF FootBelow, DSIZE, InUse
  <2>4. HasData(g, b, rg[j].size, j)
    <3> SUFFICES ASSUME NEW p \in Words, b <= p, p < b + rg[j].size
                 PROVE g.mem[p] = Pattern(j)
      BY DEF HasData
    <3>1. h.mem[p] = Pattern(j)
      BY <2>2 DEF HasData
    <3>2. p < FootBelow(nx[b])
      BY <2>2, <2>3, WordsIn
    <3> QED BY <3>1, <3>2, <1>6 DEF Keeps
  <2> QED BY <2>1, <2>2, <2>4, <1>6, <1>7, <1>10
<1>12. Owns(g, S, nx, F, q, InUse(q))
  <2>1. bp \in User(g, S, F)
    BY <1>6, <1>9
  <2> QED BY <2>1, <1>4, <1>5, <1>7, <1>8, <1>11 DEF Owns
<1>13. User(g, S, F) = {q[j].lo : j \in InUse(q)}
  BY <1>6, <1>7, <1>8, <1>9
<1>14. \A j, k \in InUse(q) : q[j].lo = q[k].lo => j = k
  BY <1>7, <1>8, <1>9
<1>15. g.brk = h.brk
  BY <1>5 DEF Filled
<1>16. g.last_bp \in S \ {g.brk} \/ \E j \in InUse(q) : StrayIn(g, nx, q[j].lo, j)
  <2>1. CASE h.last_bp \in S \ {h.brk}
    BY <2>1, <1>5, <1>15
  <2>2. ASSUME NEW j \in J, StrayIn(h, nx, rg[j].lo, j)
        PROVE StrayIn(g, nx, q[j].lo, j) /\ j \in InUse(q)
    <3>1. PICK b \in S \ {h.brk, bp} : b = rg[j].lo
      BY <1>10
    <3>2. b \in Bps /\ nx[b] \in Bps /\ Keeps(h, g, b, nx[b])
      BY <1>1, <1>2, <1>6
    <3>3. StrayIn(h, nx, b, j)
      BY <2>2, <3>1
    <3>4. StrayIn(g, nx, b, j)
      BY <3>2, <3>3, <1>5, StrayKept
    <3> QED BY <3>1, <3>4, <1>7
  <2>3. ASSUME h.last_bp \in Bps, bp < h.last_bp, h.last_bp < nx[bp],
               \/ h.mem[HEADER_P(h.last_bp)] = Pattern(i)
               \/ HEADER_P(h.last_bp) < bp + size
        PROVE StrayIn(g, nx, bp, i)
    <3>1. PICK p \in Words : p = HEADER_P(h.last_bp)
      BY <2>3, TagWords
    <3>2. bp <= p /\ p \in Nat
      BY <2>3, <3>1, <1>4, StrayInside, WordsIn
    <3>3. CASE p < bp + size
      BY <3>1, <3>2, <3>3, <2>3, <1>5 DEF HasData, StrayIn
    <3>4. CASE ~ (p < bp + size)
      <4>1. g = [h EXCEPT !.mem = [x \in Words |-> IF x \in bp .. bp + size - 1
                                                   THEN Pattern(i) ELSE h.mem[x]]]
        BY <1>3 DEF memset, Payload
      <4>2. p \notin bp .. bp + size - 1
        BY <3>2, <3>4, <1>4
      <4>3. g.mem[p] = h.mem[p]
        BY <4>1, <4>2, <1>0 DEF Heaps
      <4> QED BY <4>3, <3>1, <3>4, <2>3, <1>5 DEF StrayIn
    <3> QED BY <3>3, <3>4
  <2>4. StrayIn(h, nx, bp, i) => StrayIn(g, nx, bp, i)
    BY <2>3 DEF StrayIn
  <2>5. q[i].lo = bp /\ i \in InUse(q)
    BY <1>7, <1>8
  <2>6. \/ h.last_bp \in S \ {h.brk}
        \/ \E j \in J : StrayIn(h, nx, rg[j].lo, j)
        \/ StrayIn(h, nx, bp, i)
        \/ /\ h.last_bp \in Bps
           /\ bp < h.last_bp /\ h.last_bp < nx[bp]
           /\ HEADER_P(h.last_bp) < bp + size
    BY <1>3 DEF CallOK
  <2> QED BY <2>1, <2>2, <2>3, <2>4, <2>5, <2>6
<1>17. Coal(nx, F)
  BY DEF CallOK
<1>18. HeapInv(g, S, nx, F, q)
  BY <1>6, <1>12, <1>13, <1>14, <1>16, <1>17 DEF HeapInv
<1> QED BY <1>18 DEF q, r

(* What a call has returned is accepted, or the driver stops without blame. *)
LEMMA AdoptSound ==
    ASSUME IInv, NEW i \in Indices, NEW size \in Sizes, NEW a,
           \/ a.bp \in {NULL, Wild}
           \/ \E S, nx, F : CallOK(a, ranges, i, size, S, nx, F, InUse(ranges) \ {i}),
           Adopt(i, a, size), opnum' \in 0 .. num_ops
    PROVE IInv'
<1>1. CASE UNCHANGED <<heap, ranges>> /\ verdict' \in {"failed", "wild"}
  BY <1>1 DEF IInv
<1>2. CASE a.bp \in {NULL, Wild}
  BY <1>1, <1>2 DEF Adopt
<1>3. CASE a.bp \notin {NULL, Wild}
  <2>1. PICK S, nx, F : CallOK(a, ranges, i, size, S, nx, F, InUse(ranges) \ {i})
    BY <1>3
  <2>2. ranges \in [Indices -> [lo : Nat, size : {0} \cup Sizes]]
    BY DEF IInv
  <2>3. RangeOK(a.heap, [lo |-> a.bp, size |-> size], {ranges[j] : j \in Indices \ {i}})
    BY <2>1, <2>2, RangeAccepted
  <2>4. a.bp \in Nat /\ a.heap \in Heaps
    BY <2>1, BpsIn DEF CallOK, User, Layout, Shape
  <2>5. PICK sz \in Nat : sz = IF size < ranges[i].size THEN size ELSE ranges[i].size
    BY <2>2, SizesAre
  <2>6. HasData(a.heap, a.bp, sz, i)
    BY <2>1, <2>5 DEF CallOK, Smaller
  <2>7. \A p \in Words : p \in a.bp .. a.bp + (IF size < ranges[i].size
                                               THEN size ELSE ranges[i].size) - 1
                         => GET(a.heap, p) = Pattern(i)
    <3>1. \A p \in Words : p \in a.bp .. a.bp + sz - 1 => a.bp <= p /\ p < a.bp + sz
      BY <2>4, WordsIn
    <3> QED BY <3>1, <2>5, <2>6 DEF HasData, GET
  <2>8. /\ heap' = memset(a.heap, [lo |-> a.bp, size |-> size], i)
        /\ ranges' = [ranges EXCEPT ![i] = [lo |-> a.bp, size |-> size]]
        /\ verdict' = verdict
    BY <1>3, <2>3, <2>7 DEF Adopt
  <2>9. \A j, k \in InUse(ranges) : ranges[j].lo = ranges[k].lo => j = k
    BY DEF IInv, HeapInv
  <2>10. HeapInv(heap', S, nx, F, ranges')
    BY <2>1, <2>2, <2>8, <2>9, FilledInv
  <2>11. ranges' \in [Indices -> [lo : Nat, size : {0} \cup Sizes]]
    BY <2>2, <2>4, <2>8
  <2>12. verdict' \in {"valid", "failed", "wild"}
    BY <2>8 DEF IInv
  <2> QED BY <2>10, <2>11, <2>12 DEF IInv
<1> QED BY <1>2, <1>3

-----------------------------------------------------------------------------
(* The memory that mm_init() starts with has no block but the prologue. *)
LEMMA FirstLayout ==
    ASSUME NEW h,
           h = [mem |-> [p \in Words |->
                    CASE p \in {WSIZE, 2 * WSIZE} -> PACK(DSIZE, 1)
                      [] p = 3 * WSIZE -> PACK(0, 1)
                      [] OTHER -> 0],
                brk |-> 4 * WSIZE, last_bp |-> start_bp]
    PROVE Layout(h, {8, 16}, [b \in {8} |-> 16], {})
<1> DEFINE m == [p \in Words |-> IF p = 4 \/ p = 8 THEN 9 ELSE IF p = 12 THEN 1 ELSE 0]
<1>1. h.mem = m /\ h.brk = 16 /\ h.last_bp = 8
  BY DEF WSIZE, DSIZE, PACK, start_bp
<1>2. m \in [Words -> Nat]
  OBVIOUS
<1>3. h \in Heaps
  <2>1. h = [mem |-> m, brk |-> 16, last_bp |-> 8]
    BY DEF WSIZE, DSIZE, PACK, start_bp
  <2> HIDE DEF m
  <2> QED BY <2>1, <1>2 DEF Heaps
<1>4. 8 \in Bps /\ 16 \in Bps
  BY BpsAre, NextFitAssumption
<1>5. Shape(16, {8, 16}, [b \in {8} |-> 16], {})
  <2>1. Ordered(16, {8, 16}, [b \in {8} |-> 16])
    BY StartBp DEF Ordered
  <2>2. [b \in {8} |-> 16] \in [{8, 16} \ {16} -> {8, 16}]
    OBVIOUS
  <2> QED BY <1>4, <2>1, <2>2, StartBp DEF Shape
<1>6. 4 \in Words /\ 8 \in Words /\ 12 \in Words
  BY WordsAre, NextFitAssumption
<1>7. h.mem[4] = 9 /\ h.mem[8] = 9 /\ h.mem[12] = 1
  BY <1>1, <1>6
<1>8. HEADER_P(8) = 4 /\ HEADER_P(16) = 12 /\ FootBelow(16) = 8
  BY DEF HEADER_P, FootBelow, WSIZE, DSIZE
<1>9. TagOf([b \in {8} |-> 16], {}, 8) = 9
  BY DEF TagOf
<1>10. Tags(h, {8, 16}, [b \in {8} |-> 16], {})
  BY <1>1, <1>7, <1>8, <1>9 DEF Tags
<1> QED BY <1>1, <1>3, <1>5, <1>10 DEF Layout

LEMMA InitInv == Init => IInv
<1> SUFFICES ASSUME Init PROVE IInv
  OBVIOUS
<1>1. PICK h : h = [mem |-> [p \in Words |->
                        CASE p \in {WSIZE, 2 * WSIZE} -> PACK(DSIZE, 1)
                          [] p = 3 * WSIZE -> PACK(0, 1)
                          [] OTHER -> 0],
                    brk |-> 4 * WSIZE, last_bp |-> start_bp]
  OBVIOUS
<1>2. PICK nx : nx = [b \in {8} |-> 16]
  OBVIOUS
<1>3. Layout(h, {8, 16}, nx, {}) /\ h.brk = 16
  <2>1. Layout(h, {8, 16}, nx, {})
    BY <1>1, <1>2, FirstLayout
  <2>2. h.brk = 16
    BY <1>1 DEF WSIZE
  <2> QED BY <2>1, <2>2
<1>4. Coal(nx, {}) /\ User(h, {8, 16}, {}) = {}
  BY <1>3, StartBp DEF Coal, User
<1>5. PICK x : x = extend_heap(h, CHUNCKSIZE \div WSIZE)
  OBVIOUS
<1>6. WithLast(heap, x.heap, start_bp)
  BY <1>1, <1>5 DEF Init, mm_init, WithLast
<1>7. \E S, N, F : Layout(x.heap, S, N, F) /\ Coal(N, F) /\ User(x.heap, S, F) = {}
  <2>1. CHUNCKSIZE \in Nat /\ CHUNCKSIZE % 8 = 0 /\ CHUNCKSIZE >= 16
    BY NextFitAssumption
  <2>2. \/ x = [heap |-> h, bp |-> NULL]
        \/ Extended(h, x, {8, 16}, nx, {}, h.brk + CHUNCKSIZE)
    BY <2>1, <1>3, <1>4, <1>5, ExtendEffect
  <2>3. CASE x = [heap |-> h, bp |-> NULL]
    <3>1. x.heap = h
      BY <2>3
    <3> QED BY <3>1, <1>3, <1>4
  <2>4. CASE Extended(h, x, {8, 16}, nx, {}, h.brk + CHUNCKSIZE)
    BY <2>4, <1>4 DEF Extended
  <2> QED BY <2>2, <2>3, <2>4
<1>8. PICK S, N, F : Layout(x.heap, S, N, F) /\ Coal(N, F) /\ User(x.heap, S, F) = {}
  BY <1>7
<1>9. Layout(heap, S, N, F) /\ heap.brk = x.heap.brk /\ heap.last_bp = start_bp
  BY <1>6, <1>8, StartBp, LastMoves
<1>10. User(heap, S, F) = {} /\ start_bp \in S \ {heap.brk}
  BY <1>8, <1>9, StartBp DEF User, Layout, Shape
<1>11. ranges = [i \in Indices |-> None] /\ InUse(ranges) = {}
  BY DEF Init, InUse
<1>12. HeapInv(heap, S, N, F, ranges)
  BY <1>8, <1>9, <1>10, <1>11 DEF HeapInv, Owns
<1>13. None \in [lo : Nat, size : {0} \cup Sizes]
  BY DEF None, NULL
<1>14. ranges \in [Indices -> [lo : Nat, size : {0} \cup Sizes]]
  BY <1>11, <1>13
<1>15. opnum \in 0 .. num_ops /\ verdict \in {"valid", "failed", "wild"}
  BY NextFitAssumption DEF Init
<1> QED BY <1>12, <1>14, <1>15 DEF IInv

-----------------------------------------------------------------------------
(* mm_malloc() for the driver. *)
LEMMA MallocOK ==
    ASSUME NEW rg \in [Indices -> [lo : Nat, size : {0} \cup Sizes]],
           NEW h, NEW S, NEW nx, NEW F, HeapInv(h, S, nx, F, rg),
           NEW i \in Indices, rg[i] = None, NEW size \in Sizes, NEW a,
           Mallocs(h, a, S, nx, F, adjusted_size(size))
    PROVE \E S2, nx2, F2 : CallOK(a, rg, i, size, S2, nx2, F2, InUse(rg) \ {i})
<1>1. InUse(rg) \ {i} = InUse(rg)
  BY DEF InUse
<1>2. PICK S2, nx2, F2 :
        /\ Layout(a.heap, S2, nx2, F2) /\ Coal(nx2, F2)
        /\ User(a.heap, S2, F2) = User(h, S, F) \cup {a.bp}
        /\ a.bp \notin User(h, S, F)
        /\ a.bp + adjusted_size(size) <= nx2[a.bp]
        /\ nx2[a.bp] \in F2 => nx2[a.bp] = a.bp + adjusted_size(size)
        /\ Carried(h, nx, a.heap, nx2, User(h, S, F))
        /\ a.heap.last_bp = a.bp
  BY DEF Mallocs
<1>3. User(h, S, F) = {rg[j].lo : j \in InUse(rg)}
  BY DEF HeapInv
<1>4. \A b \in User(h, S, F) : nx[b] \in Nat
  BY BpsIn DEF HeapInv, Layout, Shape, User
<1>5. \A j \in InUse(rg) : rg[j].lo \in Nat /\ rg[j].size \in Nat
  BY SizesAre DEF InUse
<1>6. Owns(h, S, nx, F, rg, InUse(rg))
  BY DEF HeapInv
<1>7. Owns(a.heap, S2, nx2, F2, rg, InUse(rg))
  <2>1. User(h, S, F) \subseteq User(a.heap, S2, F2)
    BY <1>2
  <2>2. {rg[j].lo : j \in InUse(rg)} \subseteq User(h, S, F)
    BY <1>3
  <2>3. Carried(h, nx, a.heap, nx2, User(h, S, F))
    BY <1>2
  <2> QED BY <1>4, <1>5, <1>6, <2>1, <2>2, <2>3, OwnsCarried
<1>8. a.bp \in S2 \ {a.heap.brk}
  BY <1>2 DEF User
<1>9. a.bp \in Nat /\ nx2[a.bp] \in Nat
  BY <1>2, <1>8, BpsIn DEF Layout, Shape
<1>10. a.bp + size <= FootBelow(nx2[a.bp])
  <2>1. /\ size \in Nat /\ adjusted_size(size) \in Nat /\ adjusted_size(size) >= size + 8
    BY SizesAre, Adjusted
  <2>2. a.bp + size <= nx2[a.bp] - 8
    BY <2>1, <1>2, <1>9
  <2> QED BY <2>2 DEF FootBelow, DSIZE
<1>11. HasData(a.heap, a.bp, Smaller(size, rg[i].size), i)
  <2>1. rg[i].size = 0 /\ size \in Nat
    BY SizesAre DEF None
  <2>2. Smaller(size, rg[i].size) = 0
    BY <2>1 DEF Smaller
  <2>3. \A p \in Words : ~ (a.bp <= p /\ p < a.bp + 0)
    BY <1>9, WordsIn
  <2> QED BY <2>2, <2>3 DEF HasData
<1>12. CallOK(a, rg, i, size, S2, nx2, F2, InUse(rg))
  BY <1>2, <1>3, <1>7, <1>8, <1>10, <1>11 DEF CallOK
<1> QED BY <1>1, <1>12

-----------------------------------------------------------------------------
(* What the invariant says of one range. *)
LEMMA InUseFacts ==
    ASSUME NEW rg \in [Indices -> [lo : Nat, size : {0} \cup Sizes]],
           NEW h, NEW S, NEW nx, NEW F, HeapInv(h, S, nx, F, rg), NEW i \in InUse(rg)
    PROVE /\ rg[i].lo \in User(h, S, F) /\ rg[i].lo \in S \ {start_bp, h.brk}
          /\ rg[i].lo \in Bps /\ rg[i].lo \in Nat /\ rg[i].lo % 8 = 0 /\ rg[i].lo # 0
          /\ nx[rg[i].lo] \in S /\ nx[rg[i].lo] \in Bps /\ nx[rg[i].lo] \in Nat
          /\ nx[rg[i].lo] % 8 = 0 /\ rg[i].lo + 16 <= nx[rg[i].lo]
          /\ rg[i].size \in Nat /\ rg[i].lo + rg[i].size <= nx[rg[i].lo] - 8
          /\ HasData(h, rg[i].lo, rg[i].size, i)
          /\ SizeOf(h, rg[i].lo) = nx[rg[i].lo] - rg[i].lo
          /\ NEXT_BLOCK_BP(h, rg[i].lo) = nx[rg[i].lo]
<1>1. PICK b : b = rg[i].lo
  OBVIOUS
<1>2. b \in User(h, S, F) /\ b + rg[i].size <= FootBelow(nx[b])
      /\ HasData(h, b, rg[i].size, i)
  BY <1>1 DEF HeapInv, Owns
<1>3. b \in S \ {start_bp, h.brk} /\ Layout(h, S, nx, F) /\ Shape(h.brk, S, nx, F)
  BY <1>2 DEF User, HeapInv, Layout
<1>4. nx[b] \in S /\ b \in Bps /\ nx[b] \in Bps /\ b + 16 <= nx[b]
  BY <1>3 DEF Shape, Ordered
<1>5. b \in Nat /\ b % 8 = 0 /\ b # 0 /\ nx[b] \in Nat /\ nx[b] % 8 = 0
  BY <1>4, BpsIn
<1>6. SizeOf(h, b) = nx[b] - b /\ NEXT_BLOCK_BP(h, b) = nx[b]
  BY <1>3, BlockReads
<1>7. rg[i].size \in Nat
  BY SizesAre DEF InUse
<1> QED BY <1>1, <1>2, <1>3, <1>4, <1>5, <1>6, <1>7 DEF FootBelow, DSIZE

(* The ranges of the other indices. *)
LEMMA OthersFacts ==
    ASSUME NEW rg \in [Indices -> [lo : Nat, size : {0} \cup Sizes]],
           NEW h, NEW S, NEW nx, NEW F, HeapInv(h, S, nx, F, rg), NEW i \in InUse(rg)
    PROVE /\ {rg[j].lo : j \in InUse(rg) \ {i}} = User(h, S, F) \ {rg[i].lo}
          /\ Owns(h, S, nx, F, rg, InUse(rg) \ {i})
          /\ \A j \in InUse(rg) \ {i} : rg[j].lo \in Nat /\ rg[j].size \in Nat
          /\ \A b \in User(h, S, F) : nx[b] \in Nat /\ nx[b] \in Bps /\ b \in Bps
<1>1. User(h, S, F) = {rg[j].lo : j \in InUse(rg)}
      /\ \A j \in InUse(rg) : rg[j].lo = rg[i].lo => i = j
      /\ Owns(h, S, nx, F, rg, InUse(rg))
  BY DEF HeapInv
<1>2. \A j \in InUse(rg) : rg[j].lo \in Nat /\ rg[j].size \in Nat
  BY SizesAre DEF InUse
<1>3. \A b \in User(h, S, F) : nx[b] \in Nat /\ nx[b] \in Bps /\ b \in Bps
  BY BpsIn DEF HeapInv, Layout, Shape, User
<1>4. {rg[j].lo : j \in InUse(rg) \ {i}} = User(h, S, F) \ {rg[i].lo}
  BY <1>1
<1> QED BY <1>1, <1>2, <1>3, <1>4 DEF Owns

(* mm_realloc() keeps the block. *)
LEMMA StayOK ==
    ASSUME NEW rg \in [Indices -> [lo : Nat, size : {0} \cup Sizes]],
           NEW h, NEW S, NEW nx, NEW F, HeapInv(h, S, nx, F, rg), NEW i \in InUse(rg),
           NEW size \in Sizes, size + 8 <= SizeOf(h, rg[i].lo),
           NEW a, a.heap = h, a.bp = rg[i].lo
    PROVE CallOK(a, rg, i, size, S, nx, F, InUse(rg) \ {i})
<1>1. PICK b \in Nat : b = rg[i].lo
  BY InUseFacts
<1>2. /\ b \in User(h, S, F) /\ nx[b] \in Nat /\ b + rg[i].size <= nx[b] - 8
      /\ HasData(h, b, rg[i].size, i) /\ SizeOf(h, b) = nx[b] - b
      /\ rg[i].size \in Nat /\ size \in Nat
  BY <1>1, InUseFacts, SizesAre
<1>3. /\ {rg[j].lo : j \in InUse(rg) \ {i}} = User(h, S, F) \ {b}
      /\ Owns(h, S, nx, F, rg, InUse(rg) \ {i})
  BY <1>1, OthersFacts
<1>4. b + size <= FootBelow(nx[b])
  <2>1. b + size <= nx[b] - 8
    BY <1>1, <1>2
  <2> QED BY <2>1 DEF FootBelow, DSIZE
<1>5. HasData(h, b, Smaller(size, rg[i].size), i)
  <2>1. \A p \in Words : p < b + Smaller(size, rg[i].size) => p < b + rg[i].size
    BY <1>2, WordsIn DEF Smaller
  <2> QED BY <2>1, <1>2 DEF HasData
<1>6. \/ h.last_bp \in S \ {h.brk}
      \/ \E j \in InUse(rg) \ {i} : StrayIn(h, nx, rg[j].lo, j)
      \/ StrayIn(h, nx, b, i)
  BY <1>1 DEF HeapInv
<1>7. Layout(h, S, nx, F) /\ Coal(nx, F)
  BY DEF HeapInv
<1>8. a.heap = h /\ a.bp = b
  BY <1>1
<1> QED BY <1>2, <1>3, <1>4, <1>5, <1>6, <1>7, <1>8 DEF CallOK

(* mm_realloc() takes all of the free block behind. *)
LEMMA GrowOK ==
    ASSUME NEW rg \in [Indices -> [lo : Nat, size : {0} \cup Sizes]],
           NEW h, NEW S, NEW nx, NEW F, HeapInv(h, S, nx, F, rg), NEW i \in InUse(rg),
           NEW size \in Sizes, size % 8 = 0,
           NEW b, b = rg[i].lo, NEW n, n = nx[b], n \in F, NEW e, e = nx[n],
           n - b < size + 8, size + 8 <= e - b,
           NEW a, a.bp = b, a.heap = Tag(h, b, e - b, 1)
    PROVE \E S2, nx2, F2 : CallOK(a, rg, i, size, S2, nx2, F2, InUse(rg) \ {i})
<1>0. Layout(h, S, nx, F) /\ Shape(h.brk, S, nx, F) /\ Coal(nx, F) /\ h \in Heaps
  BY DEF HeapInv, Layout
<1>1. \A c \in S : c \in Nat /\ 8 <= c /\ c <= h.brk /\ h.brk \in Nat /\ c \in Bps /\ c % 8 = 0
  BY <1>0, BpsIn DEF Shape
<1>2. \A c \in S \ {h.brk} : nx[c] \in S /\ c < nx[c] /\ \A x \in S : c < x => nx[c] <= x
  BY <1>0 DEF Shape, Ordered
<1>3. /\ b \in User(h, S, F) /\ b \in S \ {start_bp, h.brk} /\ n \in S \ {start_bp, h.brk}
      /\ e \in S /\ b < n /\ n < e /\ b < e /\ n <= e /\ b \notin F
  BY <1>0, <1>1, <1>2, InUseFacts DEF Shape, User
<1>4. /\ b + rg[i].size <= n - 8 /\ HasData(h, b, rg[i].size, i)
      /\ rg[i].size \in Nat /\ size \in Nat /\ b \in Nat /\ n \in Nat /\ e \in Nat
  BY <1>1, <1>3, InUseFacts, SizesAre
<1>5. n <= b + size
  <2>1. b % 8 = 0 /\ n % 8 = 0
    BY <1>1, <1>3
  <2> QED BY <2>1, <1>3, <1>4
<1>6. PICK g : g = a.heap
  OBVIOUS
<1>7. Tagged(h, g, b, e, e - b + 1) /\ g.last_bp = h.last_bp
  BY <1>0, <1>1, <1>3, <1>6, TagEffect
<1> DEFINE S2 == JoinS(S, b, e)
           N2 == JoinNx(h.brk, S, nx, b, e)
           F2 == JoinF(S, F, b, e, 1)
           J == InUse(rg) \ {i}
<1>8. Layout(g, S2, N2, F2) /\ \A c \in S2 \ {h.brk} : Keeps(h, g, c, nx[c])
  BY <1>0, <1>3, <1>7, JoinTags
<1>9. S2 = S \ {n}
  <2>1. \A c \in S : (c <= b \/ e <= c) <=> c # n
    BY <1>1, <1>2, <1>3
  <2> QED BY <2>1 DEF JoinS
<1>10. /\ N2[b] = e /\ b \in S2 \ {h.brk}
       /\ \A c \in S2 \ {h.brk, b} : N2[c] = nx[c]
       /\ F2 = F \ {n}
  <2>1. b \in S2 \ {h.brk}
    BY <1>3, <1>9
  <2>2. F2 = F \ {n}
    BY <1>0, <1>3, <1>9 DEF JoinF, Shape
  <2> QED BY <2>1, <2>2 DEF JoinNx
<1>11. g.brk = h.brk
  BY <1>7 DEF Tagged
<1>12. Coal(N2, F2)
  BY <1>0, <1>3, <1>9, <1>10 DEF Coal, Shape
<1>13. User(g, S2, F2) = User(h, S, F)
  BY <1>3, <1>9, <1>10, <1>11 DEF User
<1> HIDE DEF S2, N2, F2
<1>14. User(h, S, F) \ {b} \subseteq S2 \ {h.brk, b}
  BY <1>3, <1>9 DEF User
<1>15. Carried(h, nx, g, N2, User(h, S, F) \ {b})
  BY <1>8, <1>10, <1>14 DEF Carried
<1>16. /\ {rg[j].lo : j \in J} = User(h, S, F) \ {b}
       /\ Owns(h, S, nx, F, rg, J)
       /\ \A j \in J : rg[j].lo \in Nat /\ rg[j].size \in Nat
       /\ \A c \in User(h, S, F) : nx[c] \in Nat /\ nx[c] \in Bps /\ c \in Bps
  <2>1. /\ {rg[j].lo : j \in J} = User(h, S, F) \ {rg[i].lo}
        /\ Owns(h, S, nx, F, rg, J)
        /\ \A j \in J : rg[j].lo \in Nat /\ rg[j].size \in Nat
        /\ \A c \in User(h, S, F) : nx[c] \in Nat /\ nx[c] \in Bps /\ c \in Bps
    BY OthersFacts
  <2> HIDE DEF J
  <2> QED BY <2>1
<1>17. Owns(g, S2, N2, F2, rg, J)
  <2>1. \A c \in User(h, S, F) \ {b} : nx[c] \in Nat
    BY <1>16
  <2>2. User(h, S, F) \ {b} \subseteq User(g, S2, F2)
    BY <1>13
  <2>3. {rg[j].lo : j \in J} \subseteq User(h, S, F) \ {b}
    BY <1>16
  <2> HIDE DEF J
  <2> QED BY <2>1, <2>2, <2>3, <1>15, <1>16, OwnsCarried
<1>18. b + size <= FootBelow(N2[b])
  <2>1. b + size <= e - 8
    BY <1>4
  <2> QED BY <2>1, <1>10 DEF FootBelow, DSIZE
<1>19. Keeps(h, g, b, n)
  BY <1>8, <1>10
<1>20. HasData(g, b, Smaller(size, rg[i].size), i)
  <2>1. \A p \in Words : b <= p /\ p < b + Smaller(size, rg[i].size)
                         => p < b + rg[i].size /\ p < n - 8
    BY <1>4, WordsIn DEF Smaller
  <2> QED BY <2>1, <1>4, <1>19 DEF HasData, Keeps, FootBelow, DSIZE
<1>21. \/ g.last_bp \in S2 \ {g.brk}
       \/ \E j \in J : StrayIn(g, N2, rg[j].lo, j)
       \/ StrayIn(g, N2, b, i)
       \/ /\ g.last_bp \in Bps
          /\ b < g.last_bp /\ g.last_bp < N2[b]
          /\ HEADER_P(g.last_bp) < b + size
  <2>1. CASE h.last_bp \in S \ {h.brk}
    <3>1. CASE h.last_bp = n
      <4>1. n - 4 < b + size
        BY <1>4, <1>5
      <4>2. HEADER_P(n) < b + size
        BY <4>1 DEF HEADER_P, WSIZE
      <4> QED BY <4>2, <3>1, <1>1, <1>3, <1>7, <1>10
    <3>2. CASE h.last_bp # n
      BY <3>2, <2>1, <1>7, <1>9, <1>11
    <3> QED BY <3>1, <3>2
  <2>2. ASSUME NEW j \in J, StrayIn(h, nx, rg[j].lo, j)
        PROVE StrayIn(g, N2, rg[j].lo, j)
    <3>1. PICK c : c = rg[j].lo
      OBVIOUS
    <3>2. c \in User(h, S, F) \ {b} /\ c \in Bps /\ nx[c] \in Bps
      BY <3>1, <1>16
    <3>3. N2[c] = nx[c] /\ Keeps(h, g, c, nx[c])
      BY <3>2, <1>15 DEF Carried
    <3>4. StrayIn(h, nx, c, j)
      BY <2>2, <3>1
    <3>5. StrayIn(g, N2, c, j)
      BY <3>2, <3>3, <3>4, <1>7, StrayKept
    <3> QED BY <3>1, <3>5
  <2>3. ASSUME StrayIn(h, nx, b, i) PROVE StrayIn(g, N2, b, i)
    <3>1. PICK p \in Bps : p = h.last_bp
      BY <2>3 DEF StrayIn
    <3>2. b < p /\ p < n /\ p \in Nat
      BY <2>3, <3>1, BpsIn DEF StrayIn
    <3>3. b <= HEADER_P(p) /\ HEADER_P(p) < FootBelow(n) /\ HEADER_P(p) \in Words
      BY <3>2, <1>1, <1>3, StrayInside
    <3>4. g.mem[HEADER_P(p)] = h.mem[HEADER_P(p)]
      BY <3>3, <1>19 DEF Keeps
    <3>5. p < e
      BY <3>2, <1>3, <1>4
    <3> QED BY <3>1, <3>2, <3>4, <3>5, <2>3, <1>7, <1>10 DEF StrayIn
  <2>4. \/ h.last_bp \in S \ {h.brk}
        \/ \E j \in InUse(rg) : StrayIn(h, nx, rg[j].lo, j)
    BY DEF HeapInv
  <2> QED BY <2>1, <2>2, <2>3, <2>4
<1>22. User(g, S2, F2) = {rg[j].lo : j \in J} \cup {b} /\ b \notin {rg[j].lo : j \in J}
  BY <1>3, <1>13, <1>16
<1>23. a.heap = g /\ a.bp = b
  BY <1>6
<1> HIDE DEF J
<1>24. CallOK(a, rg, i, size, S2, N2, F2, J)
  BY <1>8, <1>12, <1>17, <1>18, <1>20, <1>21, <1>22, <1>23 DEF CallOK
<1> QED BY <1>24 DEF J

(* memcpy() from the block src to the block dst carries the data. *)
LEMMA CopyCarries ==
    ASSUME NEW h \in Heaps, NEW dst \in Nat, NEW src \in Nat, NEW n \in Nat,
           dst % 4 = 0, src % 4 = 0, NEW e \in Nat, src + n <= MAX_HEAP,
           NEW nx, nx[dst] = e, dst + n <= e - 8,
           NEW len \in Nat, len <= n, NEW i, HasData(h, src, len, i),
           NEW g, g = memcpy(h, dst, src, n)
    PROVE Filled(h, g, nx, dst) /\ HasData(g, dst, len, i)
<1> DEFINE m == [p \in Words |-> IF p \in dst .. dst + n - 1
                                 THEN GET(h, p - dst + src) ELSE h.mem[p]]
<1>1. m \in [Words -> Nat]
  BY DEF Heaps, GET
<1>2. g = [h EXCEPT !.mem = m]
  BY DEF memcpy
<1>3. \A p \in Words : p \in Nat /\ p % 4 = 0
                       /\ (p \in dst .. dst + n - 1 <=> dst <= p /\ p < dst + n)
  BY WordsIn
<1>4. \A p \in Words : m[p] = IF dst <= p /\ p < dst + n THEN GET(h, p - dst + src)
                              ELSE h.mem[p]
  BY <1>3
<1> HIDE DEF m
<1>5. g \in Heaps /\ g.mem = m /\ g.brk = h.brk
  BY <1>1, <1>2 DEF Heaps
<1>6. \A p \in Words : dst <= p /\ p < dst + n => p < FootBelow(nx[dst])
  BY <1>3 DEF FootBelow, DSIZE
<1>7. Filled(h, g, nx, dst)
  BY <1>4, <1>5, <1>6 DEF Filled
<1>8. HasData(g, dst, len, i)
  <2> SUFFICES ASSUME NEW p \in Words, dst <= p, p < dst + len PROVE g.mem[p] = Pattern(i)
    BY DEF HasData
  <2>1. p \in Nat /\ p % 4 = 0 /\ MAX_HEAP \in Nat
    BY <1>3, NextFitAssumption
  <2>2. p < dst + n
    BY <2>1
  <2>3. PICK y \in Nat : y = p - dst + src
    BY <2>1
  <2>4. y % 4 = 0 /\ y < MAX_HEAP /\ src <= y /\ y < src + len
    <3>1. (p - dst) % 4 = 0 /\ p - dst \in Nat
      BY <2>1
    <3>2. y % 4 = 0
      BY <3>1, <2>3
    <3> QED BY <3>2, <2>1, <2>2, <2>3
  <2>5. y \in Words
    BY <2>4, WordsAre
  <2>6. h.mem[y] = Pattern(i)
    BY <2>4, <2>5 DEF HasData
  <2>7. m[p] = h.mem[y]
    BY <1>4, <2>2, <2>3, <2>5 DEF GET
  <2> QED BY <1>5, <2>6, <2>7
<1> QED BY <1>7, <1>8

(* mm_realloc() moves the block. *)
LEMMA MoveOK ==
    ASSUME NEW rg \in [Indices -> [lo : Nat, size : {0} \cup Sizes]],
           NEW h, NEW S, NEW nx, NEW F, HeapInv(h, S, nx, F, rg), NEW i \in InUse(rg),
           NEW size \in Sizes, size % 8 = 0, SizeOf(h, rg[i].lo) < size + 8,
           NEW c, Mallocs(h, c, S, nx, F, adjusted_size(size + 8)),
           NEW a, a.bp = c.bp,
           a.heap = mm_free(memcpy(mark(c.heap, c.bp, size + 8), c.bp, rg[i].lo,
                                   SizeOf(h, rg[i].lo)), rg[i].lo)
    PROVE \E S2, nx2, F2 : CallOK(a, rg, i, size, S2, nx2, F2, InUse(rg) \ {i})
<1>0. Layout(h, S, nx, F) /\ h \in Heaps
  BY DEF HeapInv, Layout
<1>1. PICK b \in Nat : b = rg[i].lo
  BY InUseFacts
<1>2. PICK cur \in Nat : cur = SizeOf(h, rg[i].lo)
  <2>1. /\ rg[i].lo \in Nat /\ nx[rg[i].lo] \in Nat /\ rg[i].lo + 16 <= nx[rg[i].lo]
        /\ SizeOf(h, rg[i].lo) = nx[rg[i].lo] - rg[i].lo
    BY InUseFacts
  <2>2. SizeOf(h, rg[i].lo) \in Nat
    BY <2>1
  <2> QED BY <2>2
<1>3. /\ b \in User(h, S, F) /\ b \in Bps /\ b % 8 = 0 /\ nx[b] \in Nat /\ nx[b] \in Bps
      /\ cur = nx[b] - b /\ nx[b] % 8 = 0
      /\ rg[i].size \in Nat /\ b + rg[i].size <= nx[b] - 8
      /\ HasData(h, b, rg[i].size, i)
  BY <1>1, <1>2, InUseFacts
<1>4. size \in Nat /\ size >= 8 /\ cur <= size /\ rg[i].size <= cur - 8
  <2>1. size \in Nat /\ size # 0
    BY SizesAre
  <2>2. cur < size + 8
    BY <1>1, <1>2
  <2>3. cur % 8 = 0
    BY <1>1, <1>3
  <2>4. size >= 8 /\ cur <= size
    BY <2>1, <2>2, <2>3
  <2>5. rg[i].size <= cur - 8
    BY <1>1, <1>3
  <2> QED BY <2>1, <2>4, <2>5
<1>5. adjusted_size(size + 8) = size + 16
  <2>1. PICK z \in Nat \ {0} : z = size + 8
    BY <1>4
  <2>2. z >= 16 /\ z % 8 = 0
    BY <2>1, <1>4
  <2>3. adjusted_size(z) = z + 8
    BY <2>2, Adjusted
  <2> QED BY <2>1, <2>3, <1>4
<1>6. PICK S1, n1, F1 :
        /\ Layout(c.heap, S1, n1, F1) /\ Coal(n1, F1)
        /\ User(c.heap, S1, F1) = User(h, S, F) \cup {c.bp}
        /\ c.bp \notin User(h, S, F)
        /\ c.bp + (size + 16) <= n1[c.bp]
        /\ n1[c.bp] \in F1 => n1[c.bp] = c.bp + (size + 16)
        /\ Carried(h, nx, c.heap, n1, User(h, S, F))
        /\ c.heap.last_bp = c.bp
  BY <1>5 DEF Mallocs
<1>7. PICK x : x = c.bp
  OBVIOUS
<1>8. x \in S1 \ {start_bp, c.heap.brk} /\ x \in Bps /\ x \in Nat /\ x % 8 = 0
      /\ n1[x] \in Bps /\ n1[x] \in Nat /\ n1[x] <= MAX_HEAP /\ MAX_HEAP \in Nat
  <2>1. x \in S1 \ {start_bp, c.heap.brk}
    BY <1>6, <1>7 DEF User
  <2>2. x \in Bps /\ n1[x] \in Bps
    BY <2>1, <1>6 DEF Layout, Shape
  <2> QED BY <2>1, <2>2, BpsIn, NextFitAssumption
<1>9. PICK m \in Nat : m = x + (size + 8)
  BY <1>4, <1>8
<1>10. /\ m \in Bps /\ x + 16 <= m /\ m <= n1[x] /\ m - x = size + 8
       /\ n1[x] \in F1 => n1[x] < m + 16
  <2>1. /\ m % 8 = 0 /\ 8 <= m /\ m <= MAX_HEAP /\ x + 16 <= m /\ m <= n1[x]
        /\ m - x = size + 8
        /\ n1[x] \in F1 => n1[x] < m + 16
    BY <1>4, <1>6, <1>7, <1>8, <1>9
  <2> QED BY <2>1, BpsAre
<1>11. PICK k : k = mark(c.heap, x, size + 8)
  OBVIOUS
<1>12. Marked(c.heap, k, S1, n1, F1, x, m)
  BY <1>6, <1>8, <1>10, <1>11, MarkEffect
<1>13. PICK S2, n2, F2 :
        /\ Layout(k, S2, n2, F2) /\ Coal(n2, F2)
        /\ k.brk = c.heap.brk /\ k.last_bp = c.heap.last_bp
        /\ User(k, S2, F2) = User(c.heap, S1, F1) \cup {x}
        /\ m <= n2[x] /\ (n2[x] \in F2 => n2[x] = m \/ n1[x] \in F1)
        /\ Carried(c.heap, n1, k, n2, User(c.heap, S1, F1) \ {x})
  BY <1>12 DEF Marked
<1>14. User(k, S2, F2) = User(h, S, F) \cup {x} /\ x \notin User(h, S, F)
       /\ User(c.heap, S1, F1) \ {x} = User(h, S, F)
  BY <1>6, <1>7, <1>13
<1>15. Carried(h, nx, k, n2, User(h, S, F))
  <2>1. Carried(c.heap, n1, k, n2, User(h, S, F))
    BY <1>13, <1>14
  <2>2. Carried(h, nx, c.heap, n1, User(h, S, F))
    BY <1>6
  <2> QED BY <2>1, <2>2, CarriedOn
<1>16. PICK q : q = memcpy(k, x, b, cur)
  OBVIOUS
<1>17. x \in S2 \ {k.brk} /\ n2[x] \in Nat /\ k \in Heaps
  BY <1>13, <1>14, BpsIn DEF User, Layout, Shape
<1>18. HasData(k, b, rg[i].size, i)
  <2>1. Keeps(h, k, b, nx[b])
    BY <1>3, <1>15 DEF Carried
  <2>2. \A p \in Words : p < b + rg[i].size => p < nx[b] - 8
    BY <1>3, WordsIn
  <2> QED BY <2>1, <2>2, <1>3 DEF HasData, Keeps, FootBelow, DSIZE
<1>19. Filled(k, q, n2, x) /\ HasData(q, x, rg[i].size, i)
  <2>1. b % 4 = 0 /\ x % 4 = 0
    <3>1. \A z \in Nat : z % 8 = 0 => z % 4 = 0
      OBVIOUS
    <3> QED BY <3>1, <1>3, <1>8
  <2>2. x + cur <= n2[x] - 8
    BY <1>4, <1>8, <1>9, <1>13, <1>17
  <2>3. b + cur <= MAX_HEAP
    <3>1. nx[b] <= MAX_HEAP
      BY <1>3, BpsIn
    <3>2. b + cur = nx[b]
      BY <1>3
    <3> QED BY <3>1, <3>2
  <2>4. rg[i].size <= cur
    BY <1>3, <1>4
  <2>5. n2[x] = n2[x]
    OBVIOUS
  <2> QED BY <1>3, <1>8, <1>16, <1>17, <1>18, <2>1, <2>2, <2>3, <2>4, <2>5, CopyCarries
<1>20. /\ Layout(q, S2, n2, F2) /\ User(q, S2, F2) = User(k, S2, F2)
       /\ \A d \in S2 \ {k.brk, x} : Keeps(k, q, d, n2[d])
  BY <1>13, <1>17, <1>19, FilledSound
<1>21. Carried(k, n2, q, n2, User(h, S, F))
  <2>1. User(h, S, F) \subseteq S2 \ {k.brk, x}
    BY <1>14 DEF User
  <2> QED BY <2>1, <1>20 DEF Carried
<1>22. Carried(h, nx, q, n2, User(h, S, F))
  BY <1>15, <1>21, CarriedOn
<1>23. PICK g : g = mm_free(q, b)
  OBVIOUS
<1>24. Frees(q, g, S2, n2, F2, b)
  <2>1. b \in User(q, S2, F2)
    BY <1>3, <1>14, <1>20
  <2> QED BY <2>1, <1>13, <1>20, <1>23, FreeEffect
<1>25. PICK S3, n3, F3 :
        /\ Layout(g, S3, n3, F3) /\ Coal(n3, F3)
        /\ User(g, S3, F3) = User(q, S2, F2) \ {b}
        /\ Carried(q, n2, g, n3, User(q, S2, F2) \ {b})
        /\ g.last_bp \in F3
  BY <1>24 DEF Frees
<1>26. x # b /\ User(g, S3, F3) = (User(h, S, F) \ {b}) \cup {x}
       /\ User(q, S2, F2) \ {b} = (User(h, S, F) \ {b}) \cup {x}
  BY <1>3, <1>14, <1>20, <1>25
<1>27. n3[x] = n2[x] /\ Keeps(q, g, x, n2[x])
  BY <1>25, <1>26 DEF Carried
<1>28. Carried(h, nx, g, n3, User(h, S, F) \ {b})
  BY <1>22, <1>25, <1>26 DEF Carried, Keeps
<1>29. /\ {rg[j].lo : j \in InUse(rg) \ {i}} = User(h, S, F) \ {b}
       /\ Owns(h, S, nx, F, rg, InUse(rg) \ {i})
       /\ \A j \in InUse(rg) \ {i} : rg[j].lo \in Nat /\ rg[j].size \in Nat
       /\ \A d \in User(h, S, F) : nx[d] \in Nat /\ nx[d] \in Bps /\ d \in Bps
  <2>1. /\ {rg[j].lo : j \in InUse(rg) \ {i}} = User(h, S, F) \ {rg[i].lo}
        /\ Owns(h, S, nx, F, rg, InUse(rg) \ {i})
        /\ \A j \in InUse(rg) \ {i} : rg[j].lo \in Nat /\ rg[j].size \in Nat
        /\ \A d \in User(h, S, F) : nx[d] \in Nat /\ nx[d] \in Bps /\ d \in Bps
    BY OthersFacts
  <2> QED BY <2>1, <1>1
<1>30. Owns(g, S3, n3, F3, rg, InUse(rg) \ {i})
  <2> DEFINE A == User(h, S, F) \ {b}
             J == InUse(rg) \ {i}
  <2>1. Owns(h, S, nx, F, rg, J) /\ {rg[j].lo : j \in J} \subseteq A
        /\ \A j \in J : rg[j].lo \in Nat /\ rg[j].size \in Nat
    BY <1>29
  <2>2. Carried(h, nx, g, n3, A) /\ A \subseteq User(g, S3, F3)
        /\ \A d \in A : nx[d] \in Nat
    BY <1>26, <1>28, <1>29
  <2> HIDE DEF A, J
  <2>3. Owns(g, S3, n3, F3, rg, J)
    BY <2>1, <2>2, OwnsCarried
  <2> QED BY <2>3 DEF J
<1>31. x + size <= FootBelow(n3[x])
  <2>1. x + size <= n2[x] - 8
    BY <1>4, <1>8, <1>9, <1>13, <1>17
  <2> QED BY <2>1, <1>27 DEF FootBelow, DSIZE
<1>32. HasData(g, x, Smaller(size, rg[i].size), i)
  <2>1. \A p \in Words : p < x + Smaller(size, rg[i].size)
                         => p < x + rg[i].size /\ p < n2[x] - 8
    <3>1. Smaller(size, rg[i].size) <= rg[i].size /\ Smaller(size, rg[i].size) <= size
          /\ Smaller(size, rg[i].size) \in Nat
      BY <1>3, <1>4 DEF Smaller
    <3>2. x + size <= n2[x] - 8
      BY <1>4, <1>8, <1>9, <1>13, <1>17
    <3> QED BY <3>1, <3>2, <1>3, <1>4, <1>8, <1>17, WordsIn
  <2> QED BY <2>1, <1>19, <1>27 DEF HasData, Keeps, FootBelow, DSIZE
<1>33. g.last_bp \in S3 \ {g.brk}
  BY <1>25 DEF Layout, Shape
<1>34. a.heap = g /\ a.bp = x
  BY <1>1, <1>2, <1>7, <1>11, <1>16, <1>23
<1>35. x \notin {rg[j].lo : j \in InUse(rg) \ {i}}
       /\ User(g, S3, F3) = {rg[j].lo : j \in InUse(rg) \ {i}} \cup {x}
  BY <1>14, <1>26, <1>29
<1>36. CallOK(a, rg, i, size, S3, n3, F3, InUse(rg) \ {i})
  BY <1>25, <1>30, <1>31, <1>32, <1>33, <1>34, <1>35 DEF CallOK
<1> QED BY <1>36

(***************************************************************************)
(* mm_realloc() marks the new block with size + 8, which leaves a block of *)
(* odd length for a size that is no multiple of 8: the sizes of the driver *)
(* must be multiples.                                                      *)
(***************************************************************************)
SizesAligned == \A s \in Sizes : s % DSIZE = 0

LEMMA ReallocOK ==
    ASSUME SizesAligned, OutOfReach,
           NEW rg \in [Indices -> [lo : Nat, size : {0} \cup Sizes]],
           NEW h, NEW S, NEW nx, NEW F, HeapInv(h, S, nx, F, rg), NEW i \in InUse(rg),
           NEW size \in Sizes, NEW a, a = mm_realloc(h, rg[i].lo, size)
    PROVE \/ a.bp \in {NULL, Wild}
          \/ \E S2, nx2, F2 : CallOK(a, rg, i, size, S2, nx2, F2, InUse(rg) \ {i})
<1>0. Layout(h, S, nx, F) /\ Shape(h.brk, S, nx, F) /\ Coal(nx, F)
  BY DEF HeapInv, Layout
<1>1. PICK b \in Nat : b = rg[i].lo
  BY InUseFacts
<1>2. PICK n \in Nat : n = nx[b]
  BY <1>1, InUseFacts
<1>3. /\ b \in S \ {start_bp, h.brk} /\ n \in S /\ b < n
      /\ SizeOf(h, b) = n - b /\ NEXT_BLOCK_BP(h, b) = n
  BY <1>1, <1>2, InUseFacts
<1>4. size \in Nat /\ size # 0 /\ size % 8 = 0
  BY SizesAre DEF SizesAligned, DSIZE
<1>5. IsFree(h, n) <=> n \in F
  <2>1. CASE n = h.brk
    BY <2>1, <1>0, EpilogueReads DEF Shape
  <2>2. CASE n # h.brk
    BY <2>2, <1>0, <1>3, BlockReads
  <2> QED BY <2>1, <2>2
<1>6. PICK c : c = mm_malloc(h, size + 2 * WSIZE)
  OBVIOUS
<1>7. PICK e : e = n + SizeOf(h, n)
  OBVIOUS
<1>8. n \in F => e \in S /\ e = nx[n] /\ e \in Nat
  <2> SUFFICES ASSUME n \in F PROVE e \in S /\ e = nx[n] /\ e \in Nat
    OBVIOUS
  <2>1. n \in S \ {h.brk}
    BY <1>0 DEF Shape
  <2>2. nx[n] \in S
    BY <2>1, <1>0 DEF Shape
  <2>3. nx[n] \in Nat
    BY <2>2, <1>0, BpsIn DEF Shape
  <2>4. SizeOf(h, n) = nx[n] - n
    BY <2>1, <1>0, BlockReads
  <2> QED BY <2>2, <2>3, <2>4, <1>2, <1>7
<1>9. SizeOf(h, b) + SizeOf(h, n) = e - b \/ n \notin F
  <2>1. n \in F => SizeOf(h, n) = nx[n] - n
    BY <1>0, BlockReads DEF Shape
  <2> QED BY <2>1, <1>1, <1>2, <1>3, <1>8
<1>10. mm_realloc(h, b, size) =
         IF size + 2 * WSIZE <= n - b THEN [heap |-> h, bp |-> b]
         ELSE IF n \in F /\ e - b >= size + 2 * WSIZE
         THEN [heap |-> Tag(h, b, e - b, 1), bp |-> b]
         ELSE IF c.bp \in {NULL, Wild} THEN [heap |-> h, bp |-> Wild]
         ELSE [heap |-> mm_free(memcpy(mark(c.heap, c.bp, size + 2 * WSIZE), c.bp, b,
                                       n - b), b),
               bp |-> c.bp]
  BY <1>3, <1>5, <1>6, <1>9 DEF mm_realloc
<1>11. 2 * WSIZE = 8
  BY DEF WSIZE
<1>12. a = IF size + 8 <= n - b THEN [heap |-> h, bp |-> b]
           ELSE IF n \in F /\ e - b >= size + 8
           THEN [heap |-> Tag(h, b, e - b, 1), bp |-> b]
           ELSE IF c.bp \in {NULL, Wild} THEN [heap |-> h, bp |-> Wild]
           ELSE [heap |-> mm_free(memcpy(mark(c.heap, c.bp, size + 8), c.bp, b, n - b), b),
                 bp |-> c.bp]
  BY <1>1, <1>10, <1>11
<1>13. CASE size + 8 <= n - b
  <2>1. a.heap = h /\ a.bp = rg[i].lo /\ size + 8 <= SizeOf(h, rg[i].lo)
    BY <1>1, <1>3, <1>12, <1>13
  <2> QED BY <2>1, StayOK
<1>14. CASE ~ (size + 8 <= n - b) /\ n \in F /\ e - b >= size + 8
  <2>1. a.heap = Tag(h, b, e - b, 1) /\ a.bp = b
    BY <1>12, <1>14
  <2>2. n - b < size + 8 /\ size + 8 <= e - b
    BY <1>4, <1>8, <1>14
  <2> QED BY <2>1, <2>2, <1>1, <1>2, <1>4, <1>8, <1>14, GrowOK
<1>15. CASE ~ (size + 8 <= n - b) /\ ~ (n \in F /\ e - b >= size + 8)
  <2>1. CASE c.bp \in {NULL, Wild}
    BY <2>1, <1>12, <1>15
  <2>2. CASE c.bp \notin {NULL, Wild}
    <3>1. /\ a.bp = c.bp
          /\ a.heap = mm_free(memcpy(mark(c.heap, c.bp, size + 8), c.bp, rg[i].lo,
                                     SizeOf(h, rg[i].lo)), rg[i].lo)
      BY <2>2, <1>1, <1>3, <1>12, <1>15
    <3>2. SizeOf(h, rg[i].lo) < size + 8
      BY <1>1, <1>3, <1>4, <1>15
    <3>3. PICK z \in Nat \ {0} : z = size + 8
      BY <1>4
    <3>4. c = mm_malloc(h, z)
      BY <3>3, <1>6, <1>11
    <3>5. h.last_bp \in S \ {h.brk} \/ Stray(h)
      BY StrayIsHarmless
    <3>6. Mallocs(h, c, S, nx, F, adjusted_size(z))
      BY <2>2, <3>4, <3>5, <1>0, MallocEffect
    <3>7. Mallocs(h, c, S, nx, F, adjusted_size(size + 8))
      BY <3>3, <3>6
    <3> QED BY <3>1, <3>2, <3>7, <1>4, MoveOK
  <2> QED BY <2>1, <2>2
<1> QED BY <1>13, <1>14, <1>15

-----------------------------------------------------------------------------
LEMMA FreeInv ==
    ASSUME IInv, NEW i \in Indices, Free(i) PROVE IInv'
<1>1. PICK S, nx, F : HeapInv(heap, S, nx, F, ranges)
  BY DEF IInv
<1>2. ranges \in [Indices -> [lo : Nat, size : {0} \cup Sizes]]
  BY DEF IInv
<1>3. i \in InUse(ranges)
  BY DEF Free, InUse
<1>4. PICK b : b = ranges[i].lo
  OBVIOUS
<1>5. b \in User(heap, S, F)
  BY <1>1, <1>2, <1>3, <1>4, InUseFacts
<1>6. PICK g : g = mm_free(heap, b)
  OBVIOUS
<1>7. Frees(heap, g, S, nx, F, b)
  BY <1>1, <1>5, <1>6, FreeEffect DEF HeapInv
<1>8. PICK S2, nx2, F2 :
        /\ Layout(g, S2, nx2, F2) /\ Coal(nx2, F2)
        /\ User(g, S2, F2) = User(heap, S, F) \ {b}
        /\ Carried(heap, nx, g, nx2, User(heap, S, F) \ {b})
        /\ g.last_bp \in F2
  BY <1>7 DEF Frees
<1>9. PICK q : q = [ranges EXCEPT ![i] = None]
  OBVIOUS
<1>10. InUse(q) = InUse(ranges) \ {i} /\ \A j \in InUse(q) : q[j] = ranges[j]
  <2>1. q[i] = None /\ \A j \in Indices \ {i} : q[j] = ranges[j]
    BY <1>2, <1>9
  <2> QED BY <2>1 DEF InUse
<1>11. /\ {ranges[j].lo : j \in InUse(q)} = User(heap, S, F) \ {b}
       /\ Owns(heap, S, nx, F, ranges, InUse(q))
       /\ \A j \in InUse(q) : ranges[j].lo \in Nat /\ ranges[j].size \in Nat
       /\ \A c \in User(heap, S, F) : nx[c] \in Nat
  <2>1. /\ {ranges[j].lo : j \in InUse(ranges) \ {i}} = User(heap, S, F) \ {ranges[i].lo}
        /\ Owns(heap, S, nx, F, ranges, InUse(ranges) \ {i})
        /\ \A j \in InUse(ranges) \ {i} : ranges[j].lo \in Nat /\ ranges[j].size \in Nat
        /\ \A c \in User(heap, S, F) : nx[c] \in Nat /\ nx[c] \in Bps /\ c \in Bps
    BY <1>1, <1>2, <1>3, OthersFacts
  <2> QED BY <2>1, <1>4, <1>10
<1>12. Owns(g, S2, nx2, F2, ranges, InUse(q))
  <2> DEFINE A == User(heap, S, F) \ {b}
             J == InUse(q)
  <2>1. Owns(heap, S, nx, F, ranges, J) /\ {ranges[j].lo : j \in J} \subseteq A
        /\ \A j \in J : ranges[j].lo \in Nat /\ ranges[j].size \in Nat
    BY <1>11
  <2>2. Carried(heap, nx, g, nx2, A) /\ A \subseteq User(g, S2, F2)
        /\ \A d \in A : nx[d] \in Nat
    BY <1>8, <1>11
  <2> HIDE DEF A, J
  <2>3. Owns(g, S2, nx2, F2, ranges, J)
    BY <2>1, <2>2, OwnsCarried
  <2> QED BY <2>3 DEF J
<1>13. Owns(g, S2, nx2, F2, q, InUse(q)) /\ User(g, S2, F2) = {q[j].lo : j \in InUse(q)}
  BY <1>8, <1>10, <1>11, <1>12 DEF Owns
<1>14. \A j, k \in InUse(q) : q[j].lo = q[k].lo => j = k
  BY <1>1, <1>10 DEF HeapInv
<1>15. g.last_bp \in S2 \ {g.brk}
  BY <1>8 DEF Layout, Shape
<1>16. HeapInv(g, S2, nx2, F2, q)
  BY <1>8, <1>13, <1>14, <1>15 DEF HeapInv
<1>17. heap' = g /\ ranges' = q /\ verdict' = verdict /\ opnum' = opnum + 1 /\ opnum < num_ops
  BY <1>4, <1>6, <1>9 DEF Free, Request
<1>18. q \in [Indices -> [lo : Nat, size : {0} \cup Sizes]]
  <2>1. None \in [lo : Nat, size : {0} \cup Sizes]
    BY DEF None, NULL
  <2> QED BY <2>1, <1>2, <1>9
<1>19. opnum' \in 0 .. num_ops /\ verdict' \in {"valid", "failed", "wild"}
  BY <1>17, NextFitAssumption DEF IInv
<1> QED BY <1>16, <1>17, <1>18, <1>19 DEF IInv

LEMMA AllocInv ==
    ASSUME OutOfReach, IInv, NEW i \in Indices, NEW size \in Sizes, Alloc(i, size)
    PROVE IInv'
<1>1. PICK S, nx, F : HeapInv(heap, S, nx, F, ranges)
  BY DEF IInv
<1>2. PICK a : a = mm_malloc(heap, size)
  OBVIOUS
<1>3. heap.last_bp \in S \ {heap.brk} \/ Stray(heap)
  BY <1>1, StrayIsHarmless
<1>4. \/ a.bp \in {NULL, Wild}
      \/ Mallocs(heap, a, S, nx, F, adjusted_size(size))
  BY <1>1, <1>2, <1>3, SizesAre, MallocEffect DEF HeapInv
<1>5. ranges \in [Indices -> [lo : Nat, size : {0} \cup Sizes]] /\ ranges[i] = None
  BY DEF IInv, Alloc
<1>6. \/ a.bp \in {NULL, Wild}
      \/ \E S2, nx2, F2 : CallOK(a, ranges, i, size, S2, nx2, F2, InUse(ranges) \ {i})
  BY <1>1, <1>4, <1>5, MallocOK
<1>7. Adopt(i, a, size)
  BY <1>2 DEF Alloc
<1>8. opnum' \in 0 .. num_ops
  BY NextFitAssumption DEF Alloc, Request, IInv
<1> QED BY <1>6, <1>7, <1>8, AdoptSound

LEMMA ReallocInv ==
    ASSUME SizesAligned, OutOfReach, IInv, NEW i \in Indices, NEW size \in Sizes,
           Realloc(i, size)
    PROVE IInv'
<1>1. PICK S, nx, F : HeapInv(heap, S, nx, F, ranges)
  BY DEF IInv
<1>2. PICK a : a = mm_realloc(heap, ranges[i].lo, size)
  OBVIOUS
<1>3. ranges \in [Indices -> [lo : Nat, size : {0} \cup Sizes]] /\ i \in InUse(ranges)
  BY DEF IInv, Realloc, InUse
<1>4. \/ a.bp \in {NULL, Wild}
      \/ \E S2, nx2, F2 : CallOK(a, ranges, i, size, S2, nx2, F2, InUse(ranges) \ {i})
  BY <1>1, <1>2, <1>3, ReallocOK
<1>5. Adopt(i, a, size)
  BY <1>2 DEF Realloc
<1>6. opnum' \in 0 .. num_ops
  BY NextFitAssumption DEF Realloc, Request, IInv
<1> QED BY <1>4, <1>5, <1>6, AdoptSound

LEMMA NextInv ==
    ASSUME SizesAligned, OutOfReach PROVE IInv /\ [Next]_vars => IInv'
<1> SUFFICES ASSUME IInv, [Next]_vars PROVE IInv'
  OBVIOUS
<1>1. CASE UNCHANGED vars
  BY <1>1 DEF IInv, vars
<1>2. ASSUME NEW i \in Indices, NEW size \in Sizes, Alloc(i, size) PROVE IInv'
  BY <1>2, AllocInv
<1>3. ASSUME NEW i \in Indices, NEW size \in Sizes, Realloc(i, size) PROVE IInv'
  BY <1>3, ReallocInv
<1>4. ASSUME NEW i \in Indices, Free(i) PROVE IInv'
  BY <1>4, FreeInv
<1>5. CASE Return
  BY <1>1, <1>5 DEF Return
<1> QED BY <1>1, <1>2, <1>3, <1>4, <1>5 DEF Next

LEMMA IInvAlways == ASSUME SizesAligned, OutOfReach PROVE Spec => []IInv
BY InitInv, NextInv, PTL DEF Spec

-----------------------------------------------------------------------------
(***************************************************************************)
(* The chain of the headers is the set of the layout.                      *)
(***************************************************************************)
Continues(h, b) == ~ (SizeOf(h, b) = 0 \/ NEXT_BLOCK_BP(h, b) > h.brk)

IsChain(f, h) ==
    f = [bp \in Bps |->
            {bp} \cup IF SizeOf(h, bp) = 0 \/ NEXT_BLOCK_BP(h, bp) > h.brk THEN {}
                      ELSE f[NEXT_BLOCK_BP(h, bp)]]

LEMMA ChainExists ==
    ASSUME NEW h \in Heaps, h.brk <= MAX_HEAP PROVE \E f : IsChain(f, h)
<1> DEFINE Closed(T) == \A x \in T : Continues(h, x) => NEXT_BLOCK_BP(h, x) \in T
           g == [b \in Bps |-> {c \in Bps : \A T \in SUBSET Bps : b \in T /\ Closed(T) => c \in T}]
<1>1. \A b \in Bps : Continues(h, b) => NEXT_BLOCK_BP(h, b) \in Bps
  <2> SUFFICES ASSUME NEW b \in Bps, Continues(h, b) PROVE NEXT_BLOCK_BP(h, b) \in Bps
    OBVIOUS
  <2>1. PICK n \in Nat : n = NEXT_BLOCK_BP(h, b)
    BY AfterUp
  <2>2. n % 8 = 0 /\ b <= n /\ 8 <= b /\ b \in Nat
    BY <2>1, AfterUp, BpsIn
  <2>3. n <= h.brk /\ h.brk \in Nat /\ MAX_HEAP \in Nat
    BY <2>1, NextFitAssumption DEF Continues, Heaps
  <2> QED BY <2>1, <2>2, <2>3, BpsAre
<1>2. ASSUME NEW b \in Bps, NEW c \in Bps
      PROVE c \in g[b] <=> \A T \in SUBSET Bps : b \in T /\ Closed(T) => c \in T
  OBVIOUS
<1>3. \A b \in Bps : g[b] \in SUBSET Bps
  OBVIOUS
<1> HIDE DEF g
<1>4. \A b \in Bps : b \in g[b]
  BY <1>2
<1>5. \A b \in Bps : Closed(g[b])
  <2> SUFFICES ASSUME NEW b \in Bps, NEW x \in g[b], Continues(h, x)
               PROVE NEXT_BLOCK_BP(h, x) \in g[b]
    OBVIOUS
  <2>1. x \in Bps /\ NEXT_BLOCK_BP(h, x) \in Bps
    BY <1>1, <1>3
  <2>2. \A T \in SUBSET Bps : b \in T /\ Closed(T) => NEXT_BLOCK_BP(h, x) \in T
    BY <2>1, <1>2
  <2> QED BY <2>1, <2>2, <1>2
<1>6. ASSUME NEW b \in Bps, ~ Continues(h, b) PROVE g[b] = {b}
  <2>1. Closed({b})
    BY <1>6
  <2>2. \A c \in g[b] : c \in {b}
    BY <2>1, <1>2, <1>3
  <2> QED BY <2>2, <1>4
<1>7. ASSUME NEW b \in Bps, Continues(h, b)
      PROVE g[b] = {b} \cup g[NEXT_BLOCK_BP(h, b)]
  <2>1. PICK n \in Bps : n = NEXT_BLOCK_BP(h, b)
    BY <1>1, <1>7
  <2>2. Closed({b} \cup g[n]) /\ {b} \cup g[n] \in SUBSET Bps
    <3>1. Closed(g[n]) /\ n \in g[n] /\ g[n] \in SUBSET Bps
      BY <1>3, <1>4, <1>5
    <3>2. NEXT_BLOCK_BP(h, b) \in {b} \cup g[n]
      BY <2>1, <3>1
    <3> QED BY <3>1, <3>2
  <2>3. \A c \in g[b] : c \in {b} \cup g[n]
    BY <2>2, <1>2, <1>3
  <2>4. \A T \in SUBSET Bps : b \in T /\ Closed(T) => n \in T
    BY <2>1, <1>7
  <2>5. \A c \in g[n] : c \in g[b]
    <3> SUFFICES ASSUME NEW c \in g[n] PROVE c \in g[b]
      OBVIOUS
    <3>1. c \in Bps
      BY <1>3
    <3>2. \A T \in SUBSET Bps : n \in T /\ Closed(T) => c \in T
      BY <3>1, <1>2
    <3>3. \A T \in SUBSET Bps : b \in T /\ Closed(T) => c \in T
      BY <3>2, <2>4
    <3> QED BY <3>1, <3>3, <1>2
  <2> QED BY <2>1, <2>3, <2>5, <1>4
<1>8. ASSUME NEW b \in Bps
      PROVE g[b] = {b} \cup IF SizeOf(h, b) = 0 \/ NEXT_BLOCK_BP(h, b) > h.brk THEN {}
                            ELSE g[NEXT_BLOCK_BP(h, b)]
  BY <1>6, <1>7 DEF Continues
<1>9. DOMAIN g = Bps /\ g = [b \in Bps |-> g[b]]
  BY DEF g
<1>10. IsChain(g, h)
  BY <1>8, <1>9 DEF IsChain
<1> QED BY <1>10

LEMMA ChainIs ==
    ASSUME NEW h \in Heaps, h.brk <= MAX_HEAP
    PROVE \E f : IsChain(f, h) /\ Chain(h) = f[start_bp]
<1>1. PICK g : IsChain(g, h)
  BY ChainExists
<1> DEFINE From[bp \in Bps] ==
              {bp} \cup IF SizeOf(h, bp) = 0 \/ NEXT_BLOCK_BP(h, bp) > h.brk THEN {}
                        ELSE From[NEXT_BLOCK_BP(h, bp)]
<1>2. IsChain(From, h)
  BY <1>1 DEF IsChain
<1>3. Chain(h) = From[start_bp]
  BY DEF Chain
<1> HIDE DEF From
<1> QED BY <1>2, <1>3

LEMMA ChainReads ==
    ASSUME NEW h, NEW S, NEW nx, NEW F, Layout(h, S, nx, F)
    PROVE Chain(h) = S /\ FreeBlocks(h) = F
<1>0. Shape(h.brk, S, nx, F) /\ h \in Heaps
  BY DEF Layout
<1>1. \A c \in S : c \in Nat /\ c <= h.brk /\ h.brk \in Nat /\ c \in Bps /\ h.brk <= MAX_HEAP
  BY <1>0, BpsIn DEF Shape
<1>2. \A c \in S \ {h.brk} : nx[c] \in S /\ c < nx[c] /\ \A x \in S : c < x => nx[c] <= x
  BY <1>0 DEF Shape, Ordered
<1>3. F \subseteq S \ {h.brk} /\ h.brk \in S /\ start_bp \in S
  BY <1>0 DEF Shape
<1>4. PICK f : IsChain(f, h) /\ Chain(h) = f[start_bp]
  BY <1>0, <1>1, <1>3, ChainIs
<1> DEFINE T == {h.brk - c : c \in {x \in S : f[x] # {y \in S : x <= y}}}
<1>5. T \in SUBSET Nat
  BY <1>1
<1>6. ASSUME T # {} PROVE FALSE
  <2>1. PICK d \in T : \A k \in T : d <= k
    BY <1>5, <1>6, Least
  <2>2. PICK c \in S : d = h.brk - c /\ f[c] # {y \in S : c <= y}
    OBVIOUS
  <2>3. \A x \in S : c < x => f[x] = {y \in S : x <= y}
    <3> SUFFICES ASSUME NEW x \in S, c < x, f[x] # {y \in S : x <= y} PROVE FALSE
      OBVIOUS
    <3>1. h.brk - x \in T
      OBVIOUS
    <3>2. d <= h.brk - x
      BY <2>1, <3>1
    <3> QED BY <3>2, <2>2, <1>1
  <2>4. f[c] = {c} \cup IF SizeOf(h, c) = 0 \/ NEXT_BLOCK_BP(h, c) > h.brk THEN {}
                        ELSE f[NEXT_BLOCK_BP(h, c)]
    BY <1>1, <1>4 DEF IsChain
  <2>5. CASE c = h.brk
    <3>1. f[c] = {c}
      BY <2>4, <2>5, EpilogueReads
    <3>2. \A y \in S : c <= y <=> y = c
      BY <2>5, <1>1
    <3> QED BY <3>1, <3>2, <2>2
  <2>6. CASE c # h.brk
    <3>1. SizeOf(h, c) = nx[c] - c /\ NEXT_BLOCK_BP(h, c) = nx[c]
      BY <2>6, BlockReads
    <3>2. /\ nx[c] \in S /\ c < nx[c] /\ nx[c] \in Nat /\ c \in Nat /\ nx[c] - c # 0
          /\ ~ (nx[c] > h.brk)
      BY <2>6, <1>1, <1>2
    <3>3. f[c] = {c} \cup f[nx[c]]
      BY <2>4, <3>1, <3>2
    <3>4. f[nx[c]] = {y \in S : nx[c] <= y}
      BY <2>3, <3>2
    <3>5. \A y \in S : c <= y <=> y = c \/ nx[c] <= y
      BY <1>1, <1>2, <3>2, <2>6
    <3> QED BY <3>3, <3>4, <3>5, <2>2
  <2> QED BY <2>5, <2>6
<1>7. f[start_bp] = {y \in S : start_bp <= y}
  BY <1>3, <1>6
<1>8. \A y \in S : start_bp <= y
  BY <1>1, BpsIn, StartBp
<1>9. Chain(h) = S
  BY <1>4, <1>7, <1>8
<1>10. \A b \in S : IsFree(h, b) <=> b \in F
  <2> SUFFICES ASSUME NEW b \in S PROVE IsFree(h, b) <=> b \in F
    OBVIOUS
  <2>1. CASE b = h.brk
    BY <2>1, <1>3, EpilogueReads
  <2>2. CASE b # h.brk
    BY <2>2, BlockReads
  <2> QED BY <2>1, <2>2
<1> QED BY <1>3, <1>9, <1>10 DEF FreeBlocks

-----------------------------------------------------------------------------
LEMMA SoundFromInv == IInv => HeapSound /\ DriverContent
<1> SUFFICES ASSUME IInv PROVE HeapSound /\ DriverContent
  OBVIOUS
<1>1. PICK S, nx, F : HeapInv(heap, S, nx, F, ranges)
  BY DEF IInv
<1>2. Layout(heap, S, nx, F) /\ Shape(heap.brk, S, nx, F) /\ heap \in Heaps
  BY <1>1 DEF HeapInv, Layout
<1>3. Chain(heap) = S /\ FreeBlocks(heap) = F
  BY <1>2, ChainReads
<1>4. \A c \in S : c \in Nat /\ c <= heap.brk /\ heap.brk \in Nat /\ c \in Bps
                   /\ heap.brk <= MAX_HEAP
  BY <1>2, BpsIn DEF Shape
<1>5. heap.brk \in S /\ start_bp \in S /\ F \in SUBSET (S \ {start_bp, heap.brk})
  BY <1>2 DEF Shape
<1>6. \A b \in S \ {heap.brk} : /\ nx[b] \in S /\ b < nx[b]
                                /\ b # start_bp => b + 16 <= nx[b]
  BY <1>2 DEF Shape, Ordered
<1>7. TypeOK
  <2>1. heap.mem \in [Words -> Nat] /\ heap.brk \in 0 .. MAX_HEAP /\ heap.last_bp \in Nat
    BY <1>2, <1>4, <1>5, NextFitAssumption DEF Heaps
  <2>2. heap.last_bp <= heap.brk
    <3>1. CASE heap.last_bp \in S
      BY <3>1, <1>4
    <3>2. CASE heap.last_bp \notin S
      <4>1. PICK i \in InUse(ranges) : StrayIn(heap, nx, ranges[i].lo, i)
        BY <3>2, <1>1 DEF HeapInv
      <4>2. ranges[i].lo \in S \ {heap.brk}
        BY <1>1, <4>1 DEF HeapInv, Owns, User
      <4>3. nx[ranges[i].lo] <= heap.brk /\ nx[ranges[i].lo] \in Nat /\ heap.brk \in Nat
        BY <4>2, <1>4, <1>6
      <4>4. heap.last_bp < nx[ranges[i].lo]
        BY <4>1 DEF StrayIn
      <4> QED BY <4>3, <4>4, <2>1
    <3> QED BY <3>1, <3>2
  <2>3. heap.last_bp \in 0 .. heap.brk
    BY <2>1, <2>2, <1>4, <1>5
  <2> QED BY <2>1, <2>3 DEF TypeOK, IInv
<1>8. Tiled
  <2>1. GET(heap, HEADER_P(heap.brk)) = PACK(0, 1)
    BY <1>2, <1>4, <1>5, TagWords DEF GET, PACK, Layout, Tags
  <2>2. ASSUME NEW b \in S \ {heap.brk}
        PROVE /\ GET(heap, HEADER_P(b)) = GET(heap, FOOTER_P(heap, b))
              /\ b # start_bp => SizeOf(heap, b) >= 2 * DSIZE
    <3>1. FOOTER_P(heap, b) = FootBelow(nx[b]) /\ SizeOf(heap, b) = nx[b] - b
      BY <1>2, BlockReads
    <3>2. b \in Bps /\ nx[b] \in Bps
      BY <1>4, <1>6
    <3>3. GET(heap, HEADER_P(b)) = GET(heap, FootBelow(nx[b]))
      BY <1>2, <3>2, TagWords DEF GET, Layout, Tags
    <3>4. b # start_bp => nx[b] - b >= 16
      BY <1>4, <1>6
    <3> QED BY <3>1, <3>3, <3>4 DEF DSIZE
  <2> QED BY <2>1, <2>2, <1>3, <1>5 DEF Tiled
<1>9. AllocatedAreInUse
  <2>1. InUse(ranges) = {i \in Indices : ranges[i] # None}
    BY DEF InUse
  <2>2. S \ (F \cup {start_bp, heap.brk}) = {ranges[i].lo : i \in InUse(ranges)}
    BY <1>1 DEF HeapInv, User
  <2>3. ASSUME NEW i \in InUse(ranges)
        PROVE ranges[i].size <= SizeOf(heap, ranges[i].lo) - DSIZE
    <3>1. ranges[i].lo \in S \ {heap.brk}
      BY <1>1 DEF HeapInv, Owns, User
    <3>2. ranges[i].lo + ranges[i].size <= FootBelow(nx[ranges[i].lo])
      BY <1>1 DEF HeapInv, Owns
    <3>3. SizeOf(heap, ranges[i].lo) = nx[ranges[i].lo] - ranges[i].lo
      BY <1>2, <3>1, BlockReads
    <3>4. PICK b \in Nat : b = ranges[i].lo
      BY <1>4, <3>1
    <3>5. PICK n \in Nat : n = nx[ranges[i].lo]
      BY <1>4, <1>6, <3>1
    <3>6. PICK s \in Nat : s = ranges[i].size
      BY SizesAre DEF IInv, InUse
    <3> QED BY <3>2, <3>3, <3>4, <3>5, <3>6 DEF FootBelow, DSIZE
  <2> QED BY <2>1, <2>2, <2>3, <1>3 DEF AllocatedAreInUse
<1>10. Coalesced
  <2>1. \A b \in F : NEXT_BLOCK_BP(heap, b) = nx[b] /\ nx[b] \notin F
    BY <1>1, <1>2, <1>5, BlockReads DEF HeapInv, Coal
  <2> QED BY <2>1, <1>3 DEF Coalesced
<1>11. DriverContent
  BY DEF IInv, DriverContent
<1> QED BY <1>7, <1>8, <1>9, <1>10, <1>11 DEF HeapSound

(***************************************************************************)
(* After every request of a trace (mm_malloc, mm_realloc, mm_free, and the *)
(* driver's memset of the payload) the blocks tile the heap with agreeing  *)
(* tags, the allocated ones are exactly those in use and large enough, and *)
(* no two free blocks are neighbours.                                      *)
(***************************************************************************)
THEOREM HeapAlwaysSound == ASSUME SizesAligned, OutOfReach PROVE Spec => []HeapSound
BY IInvAlways, SoundFromInv, PTL

(***************************************************************************)
(* eval_mm_valid() never reports a payload that is misaligned, outside the *)
(* heap or over another one, nor data that mm_realloc() did not preserve.  *)
(***************************************************************************)
THEOREM DriverAlwaysContent == ASSUME SizesAligned, OutOfReach PROVE Spec => []DriverContent
BY IInvAlways, SoundFromInv, PTL

GrowthJustified(i) ==
    ranges[i] = None /\ ranges'[i] # None /\ heap'.brk # heap.brk /\ LastIsBlock =>
        \A bp \in FreeBlocks(heap) : SizeOf(heap, bp) <= adjusted_size(ranges'[i].size)

LEMMA AllocGrows ==
    ASSUME OutOfReach, IInv, NEW i \in Indices, NEW size \in Sizes, Alloc(i, size),
           NEW k \in Indices
    PROVE GrowthJustified(k)
<1> SUFFICES ASSUME ranges[k] = None, ranges'[k] # None, heap'.brk # heap.brk, LastIsBlock
             PROVE \A bp \in FreeBlocks(heap) :
                      SizeOf(heap, bp) <= adjusted_size(ranges'[k].size)
  BY DEF GrowthJustified
<1>1. PICK S, nx, F : HeapInv(heap, S, nx, F, ranges)
  BY DEF IInv
<1>2. Layout(heap, S, nx, F) /\ Shape(heap.brk, S, nx, F) /\ heap \in Heaps
  BY <1>1 DEF HeapInv, Layout
<1>3. Chain(heap) = S /\ FreeBlocks(heap) = F
  BY <1>2, ChainReads
<1>4. PICK a : a = mm_malloc(heap, size)
  OBVIOUS
<1>5. heap.last_bp \in S \ {heap.brk} \/ Stray(heap)
  BY <1>1, StrayIsHarmless
<1>6. \/ a.bp \in {NULL, Wild}
      \/ Mallocs(heap, a, S, nx, F, adjusted_size(size))
  BY <1>1, <1>4, <1>5, SizesAre, MallocEffect DEF HeapInv
<1>7. Adopt(i, a, size)
  BY <1>4 DEF Alloc
<1>8. PICK r : r = [lo |-> a.bp, size |-> size]
  OBVIOUS
<1>9. a.bp \notin {NULL, Wild} /\ heap' = memset(a.heap, r, i)
      /\ ranges' = [ranges EXCEPT ![i] = r]
  BY <1>7, <1>8 DEF Adopt
<1>10. heap'.brk = a.heap.brk
  <2>1. a.heap \in Heaps
    BY <1>6, <1>9 DEF Mallocs, Layout
  <2> QED BY <2>1, <1>9 DEF memset, Heaps
<1>11. k = i /\ ranges'[k].size = size
  BY <1>8, <1>9 DEF IInv
<1>12. heap.last_bp \in S \ {heap.brk}
  <2>1. heap.last_bp \in S
    BY <1>3 DEF LastIsBlock
  <2>2. ASSUME heap.last_bp = heap.brk PROVE FALSE
    <3>1. PICK j \in InUse(ranges) : StrayIn(heap, nx, ranges[j].lo, j)
      BY <2>2, <1>1 DEF HeapInv
    <3>2. ranges[j].lo \in S \ {heap.brk}
      BY <1>1, <3>1 DEF HeapInv, Owns, User
    <3>3. nx[ranges[j].lo] \in S
      BY <3>2, <1>2 DEF Shape
    <3>4. nx[ranges[j].lo] \in Nat /\ nx[ranges[j].lo] <= heap.brk /\ heap.brk \in Nat
      BY <3>3, <1>2, BpsIn DEF Shape
    <3> QED BY <3>1, <3>4, <2>2 DEF StrayIn
  <2> QED BY <2>1, <2>2
<1>13. \A x \in F : nx[x] - x <= adjusted_size(size)
  BY <1>6, <1>9, <1>10, <1>12 DEF Mallocs
<1>14. \A x \in F : SizeOf(heap, x) = nx[x] - x
  BY <1>2, BlockReads DEF Shape
<1> QED BY <1>3, <1>11, <1>13, <1>14

LEMMA NextGrows ==
    ASSUME OutOfReach, IInv, [Next]_vars, NEW k \in Indices PROVE GrowthJustified(k)
<1>1. CASE UNCHANGED vars
  BY <1>1 DEF vars, GrowthJustified
<1>2. ASSUME NEW i \in Indices, NEW size \in Sizes, Alloc(i, size) PROVE GrowthJustified(k)
  BY <1>2, AllocGrows
<1>3. ASSUME NEW i \in Indices, NEW size \in Sizes, Realloc(i, size)
      PROVE GrowthJustified(k)
  <2>1. ranges[k] = None => ranges'[k] = None
    BY <1>3 DEF Realloc, Adopt, IInv
  <2> QED BY <2>1 DEF GrowthJustified
<1>4. ASSUME NEW i \in Indices, Free(i) PROVE GrowthJustified(k)
  <2>1. ranges[k] = None => ranges'[k] = None
    BY <1>4 DEF Free, IInv
  <2> QED BY <2>1 DEF GrowthJustified
<1>5. CASE Return
  BY <1>1, <1>5 DEF Return
<1> QED BY <1>1, <1>2, <1>3, <1>4, <1>5 DEF Next

(***************************************************************************)
(* mm_malloc() extends the heap only if next_fit() could not have found a  *)
(* block: as long as last_bp is a block, no free one is larger than the    *)
(* adjusted size that was asked for.                                       *)
(***************************************************************************)
THEOREM HeapGrowsOnlyWhenFull ==
    ASSUME SizesAligned, OutOfReach PROVE Spec => GrowsOnlyWhenFull
<1>1. IInv /\ [Next]_vars => [\A i \in Indices : GrowthJustified(i)]_vars
  BY NextGrows
<1>2. Spec => [][\A i \in Indices : GrowthJustified(i)]_vars
  BY <1>1, IInvAlways, PTL DEF Spec
<1>3. GrowsOnlyWhenFull <=> [][\A i \in Indices : GrowthJustified(i)]_vars
  BY DEF GrowsOnlyWhenFull, GrowthJustified
<1> QED BY <1>2, <1>3

=============================================================================
