---------------------------- MODULE Driver_proof ----------------------------
(***************************************************************************)
(* Proofs about how the malloc driver measures, for every allocator, every *)
(* package of config.h and everything the clocks may show: the sampler of  *)
(* fcyc() keeps the K least samples, and no reading loses time to a carry. *)
(*                                                                         *)
(* The allocator plays no part in it, and the order in which the driver    *)
(* calls it little: the invariant is about the timer, and every action     *)
(* begins a measurement, makes a round of one, ends one or leaves the      *)
(* timer alone.                                                            *)
(***************************************************************************)
EXTENDS Driver, WellFoundedInduction, TLAPS

-----------------------------------------------------------------------------
(* Division by the number of values of a word. *)
LEMMA TimesOne ==
    ASSUME NEW B \in Nat \ {0}, NEW k \in Int, k >= 1 PROVE k * B >= B
<1>1. PICK j \in Nat : j = k - 1
  OBVIOUS
<1>2. k * B = j * B + B
  BY <1>1
<1>3. j * B >= 0
  OBVIOUS
<1> QED BY <1>2, <1>3

LEMMA DivModIs ==
    ASSUME NEW B \in Nat \ {0}, NEW n \in Int
    PROVE n \div B \in Int /\ n % B \in 0 .. B - 1 /\ n = (n \div B) * B + (n % B)
OBVIOUS

LEMMA DivUnique ==
    ASSUME NEW B \in Nat \ {0}, NEW m \in Int, NEW r \in 0 .. B - 1
    PROVE (m * B + r) \div B = m /\ (m * B + r) % B = r
<1>1. PICK n \in Int : n = m * B + r
  OBVIOUS
<1>2. PICK q \in Int, s \in 0 .. B - 1 : q = n \div B /\ s = n % B /\ n = q * B + s
  BY DivModIs
<1>3. (m - q) * B = s - r
  BY <1>1, <1>2
<1>4. ~ (m - q >= 1)
  <2> SUFFICES ASSUME m - q >= 1 PROVE FALSE
    OBVIOUS
  <2>1. PICK k \in Int : k = m - q
    OBVIOUS
  <2>2. k * B >= B
    BY <2>1, TimesOne
  <2> QED BY <1>3, <2>1, <2>2
<1>5. ~ (q - m >= 1)
  <2> SUFFICES ASSUME q - m >= 1 PROVE FALSE
    OBVIOUS
  <2>1. PICK k \in Int : k = q - m
    OBVIOUS
  <2>2. k * B >= B
    BY <2>1, TimesOne
  <2>3. k * B = r - s
    BY <1>1, <1>2, <2>1
  <2> QED BY <2>2, <2>3
<1>6. m = q /\ r = s
  BY <1>3, <1>4, <1>5
<1> QED BY <1>1, <1>2, <1>6

(* A multiple of B does not change the remainder. *)
LEMMA ModShift ==
    ASSUME NEW B \in Nat \ {0}, NEW z \in 0 .. B - 1, NEW w \in Int, NEW n \in Int, n = w * B + z
    PROVE n % B = z
BY DivUnique

(***************************************************************************)
(* The difference of two readings, of the words of c and of c + d, as      *)
(* get_counter() makes it.                                                 *)
(***************************************************************************)
CounterDiff(B, a, b) ==
    LET lo == ((b % B) - (a % B)) % B
        borrow == IF lo > b % B THEN 1 ELSE 0
        hi == (((b \div B) % B) - ((a \div B) % B) - borrow) % B
    IN  hi * B + lo

LEMMA CounterDifference ==
    ASSUME NEW B \in Nat \ {0}, NEW c \in Nat, NEW d \in 0 .. B * B - 1
    PROVE CounterDiff(B, c, c + d) = d
<1>l. PICK lo : lo = (((c + d) % B) - (c % B)) % B
  OBVIOUS
<1>b. PICK borrow : borrow = IF lo > (c + d) % B THEN 1 ELSE 0
  OBVIOUS
<1>h. PICK hi : hi = ((((c + d) \div B) % B) - ((c \div B) % B) - borrow) % B
  OBVIOUS
<1>1. PICK q \in Int, a \in 0 .. B - 1 : q = c \div B /\ a = c % B /\ c = q * B + a
  BY DivModIs
<1>2. PICK d1 \in Int, d0 \in 0 .. B - 1 : d = d1 * B + d0
  <2>1. d \in Int
    OBVIOUS
  <2>2. d \div B \in Int /\ d % B \in 0 .. B - 1 /\ d = (d \div B) * B + (d % B)
    BY <2>1, DivModIs
  <2> QED BY <2>2
<1>3. d1 \in 0 .. B - 1
  <2>1. ~ (d1 >= B)
    <3> SUFFICES ASSUME d1 >= B PROVE FALSE
      OBVIOUS
    <3>1. PICK k \in Nat : d1 = B + k
      OBVIOUS
    <3>2. d1 * B = B * B + k * B /\ k * B >= 0
      BY <3>1
    <3>3. PICK x \in Nat : x = B * B
      OBVIOUS
    <3>4. PICK y \in Int : y = d1 * B
      OBVIOUS
    <3>5. y >= x /\ d = y + d0 /\ d <= x - 1
      BY <1>2, <3>2, <3>3, <3>4
    <3> QED BY <3>5
  <2>2. ~ (d1 < 0)
    <3> SUFFICES ASSUME d1 < 0 PROVE FALSE
      OBVIOUS
    <3>1. PICK k \in Int : k = -d1 /\ k >= 1
      OBVIOUS
    <3>2. k * B >= B
      BY <3>1, TimesOne
    <3>3. d1 * B = -(k * B)
      BY <3>1
    <3> QED BY <1>2, <3>2, <3>3
  <2> QED BY <2>1, <2>2
<1>4. PICK u \in Int, y \in 0 .. B - 1 : y = q % B /\ q = u * B + y
  BY DivModIs
<1>5. ASSUME a + d0 < B PROVE hi * B + lo = d
  <2>1. PICK m \in Int, r \in 0 .. B - 1 : m = q + d1 /\ r = a + d0
    BY <1>5
  <2>b. m * B = q * B + d1 * B
    BY <2>1
  <2>c. c + d = m * B + r
    <3>1. PICK X \in Int, Y \in Int : X = q * B /\ Y = d1 * B
      OBVIOUS
    <3> QED BY <1>1, <1>2, <2>1, <2>b, <3>1
  <2>d. (m * B + r) \div B = m /\ (m * B + r) % B = r
    BY DivUnique
  <2>2. (c + d) \div B = m /\ (c + d) % B = r
    BY <2>c, <2>d
  <2>3. lo = d0
    <3>1. r - a = 0 * B + d0
      BY <2>1
    <3>2. (r - a) % B = d0
      BY <3>1, ModShift
    <3> QED BY <1>1, <1>l, <2>2, <3>2
  <2>4. borrow = 0
    BY <1>b, <2>1, <2>2, <2>3
  <2>5. PICK v \in Int, x \in 0 .. B - 1 : x = m % B /\ m = v * B + x
    BY DivModIs
  <2>6. hi = (x - y - 0) % B
    BY <1>1, <1>h, <1>4, <2>2, <2>4, <2>5
  <2>e. (u - v) * B = u * B - v * B
    OBVIOUS
  <2>f. PICK P \in Int, Q \in Int : P = u * B /\ Q = v * B
    OBVIOUS
  <2>g. q = P + y /\ m = Q + x /\ (u - v) * B = P - Q
    BY <1>4, <2>5, <2>e, <2>f
  <2>7. x - y - 0 = (u - v) * B + d1
    BY <2>1, <2>g
  <2>8. hi = d1
    BY <1>3, <2>6, <2>7, ModShift
  <2> QED BY <1>2, <2>3, <2>8
<1>6. ASSUME a + d0 >= B PROVE hi * B + lo = d
  <2>1. PICK m \in Int, r \in 0 .. B - 1 : m = q + d1 + 1 /\ r = a + d0 - B
    BY <1>6
  <2>b. m * B = q * B + d1 * B + B
    BY <2>1
  <2>c. c + d = m * B + r
    <3>1. PICK X \in Int, Y \in Int : X = q * B /\ Y = d1 * B
      OBVIOUS
    <3> QED BY <1>1, <1>2, <2>1, <2>b, <3>1
  <2>d. (m * B + r) \div B = m /\ (m * B + r) % B = r
    BY DivUnique
  <2>2. (c + d) \div B = m /\ (c + d) % B = r
    BY <2>c, <2>d
  <2>3. lo = d0
    <3>1. r - a = (-1) * B + d0
      BY <2>1
    <3>2. (r - a) % B = d0
      BY <3>1, ModShift
    <3> QED BY <1>1, <1>l, <2>2, <3>2
  <2>4. borrow = 1
    BY <1>b, <2>1, <2>2, <2>3
  <2>5. PICK v \in Int, x \in 0 .. B - 1 : x = m % B /\ m = v * B + x
    BY DivModIs
  <2>6. hi = (x - y - 1) % B
    BY <1>1, <1>h, <1>4, <2>2, <2>4, <2>5
  <2>e. (u - v) * B = u * B - v * B
    OBVIOUS
  <2>f. PICK P \in Int, Q \in Int : P = u * B /\ Q = v * B
    OBVIOUS
  <2>g. q = P + y /\ m = Q + x /\ (u - v) * B = P - Q
    BY <1>4, <2>5, <2>e, <2>f
  <2>7. x - y - 1 = (u - v) * B + d1
    BY <2>1, <2>g
  <2>8. hi = d1
    BY <1>3, <2>6, <2>7, ModShift
  <2> QED BY <1>2, <2>3, <2>8
<1>7. hi * B + lo = d
  BY <1>5, <1>6
<1> QED BY <1>l, <1>b, <1>h, <1>7 DEF CounterDiff

(* Seconds and microseconds. *)
LEMMA TimevalDifference ==
    ASSUME NEW a \in Int, NEW b \in Int
    PROVE timediff(timeval(a), timeval(b)) = a - b
<1>0. PICK U \in Nat \ {0} : U = USEC
  BY TimingAssumption
<1>1. PICK q \in Int, r \in 0 .. U - 1 : q = a \div U /\ r = a % U /\ a = q * U + r
  BY DivModIs
<1>2. PICK p \in Int, s \in 0 .. U - 1 : p = b \div U /\ s = b % U /\ b = p * U + s
  BY DivModIs
<1>3. timeval(a).sec = q /\ timeval(a).usec = r /\ timeval(b).sec = p /\ timeval(b).usec = s
  BY <1>0, <1>1, <1>2 DEF timeval
<1>4. timediff(timeval(a), timeval(b)) = U * (q - p) + (r - s)
  BY <1>0, <1>3 DEF timediff
<1>5. U * (q - p) = q * U - p * U
  OBVIOUS
<1> QED BY <1>1, <1>2, <1>4, <1>5

-----------------------------------------------------------------------------
(* Every set of natural numbers has a least element. *)
LEMMA LeastElement ==
    ASSUME NEW T \in SUBSET Nat, T # {} PROVE \E x \in T : \A y \in T : x <= y
<1> DEFINE R == {xy \in Nat \X Nat : xy[1] < xy[2]}
<1>1. IsWellFoundedOn(R, Nat)
  BY NatLessThanWellFounded, Zenon DEF OpToRel
<1>2. \A y, x \in Nat : y < x => <<y, x>> \in R
  OBVIOUS
<1> HIDE DEF R
<1>3. PICK x \in T : \A y \in T : ~ (<<y, x>> \in R)
  BY <1>1, WFMin
<1>4. \A y \in T : y \in Nat /\ x \in Nat /\ ~ (y < x)
  BY <1>2, <1>3
<1>5. \A y \in T : x <= y
  BY <1>4
<1> QED BY <1>5

LEMMA MinIs ==
    ASSUME NEW T \in SUBSET Nat, T # {}
    PROVE Min(T) \in T /\ \A y \in T : Min(T) <= y
<1>1. PICK x \in T : \A y \in T : x <= y
  BY LeastElement
<1> QED BY <1>1 DEF Min

(* Whatever value sinks, the values up to pos are in order afterwards. *)
Sunk(v, pos, at, r) ==
    /\ \A i \in 1 .. at - 1 : v[i] <= v[pos]
    /\ at < pos => v[at] > v[pos]
    /\ r = [i \in 1 .. K |-> IF i = at THEN v[pos]
                             ELSE IF at < i /\ i <= pos THEN v[i - 1] ELSE v[i]]

LEMMA Sinks ==
    ASSUME NEW v \in [1 .. K -> Int], NEW pos \in 1 .. K
    PROVE \E at \in 1 .. pos : Sunk(v, pos, at, InsertionSort(v, pos))
<1>0. K \in Nat
  BY TimingAssumption
<1> DEFINE T == {i \in 1 .. pos : i = pos \/ v[i] > v[pos]}
           at == Min(T)
<1>1. at \in T /\ \A y \in T : at <= y
  <2>1. T \in SUBSET Nat /\ pos \in T
    OBVIOUS
  <2> HIDE DEF T
  <2> QED BY <2>1, MinIs
<1>2. InsertionSort(v, pos) =
        [i \in DOMAIN v |-> CASE i = at -> v[pos]
                              [] at < i /\ i <= pos -> v[i - 1]
                              [] OTHER -> v[i]]
  BY DEF InsertionSort
<1> HIDE DEF at
<1>3. at \in 1 .. pos /\ (at < pos => v[at] > v[pos])
  BY <1>1
<1>4. ASSUME NEW i \in 1 .. at - 1 PROVE v[i] <= v[pos]
  <2>1. i \notin T /\ i \in 1 .. pos
    BY <1>1, <1>3
  <2>2. ~ (v[i] > v[pos])
    BY <2>1
  <2>3. v[i] \in Int /\ v[pos] \in Int
    BY <2>1, <1>0
  <2> QED BY <2>2, <2>3
<1>5. InsertionSort(v, pos) =
        [i \in 1 .. K |-> IF i = at THEN v[pos]
                          ELSE IF at < i /\ i <= pos THEN v[i - 1] ELSE v[i]]
  BY <1>2, <1>3
<1> QED BY <1>3, <1>4, <1>5 DEF Sunk

-----------------------------------------------------------------------------
(***************************************************************************)
(* The values of the sampler are the K best: v are the values, s the       *)
(* samples, and pick tells which sample a value is.                        *)
(***************************************************************************)
Best(v, s, n, pick) ==
    /\ pick \in [1 .. n -> 1 .. Len(s)]
    /\ \A i \in 1 .. n : v[i] = s[pick[i]]
    /\ \A i, j \in 1 .. n : i < j => pick[i] # pick[j] /\ v[i] <= v[j]
    /\ \A k \in 1 .. Len(s) : (\A i \in 1 .. n : pick[i] # k) => Len(s) > K /\ v[n] <= s[k]

Kept(s) == IF Len(s) < K THEN Len(s) ELSE K

Sampler(v, s) == /\ v \in [1 .. K -> Int] /\ s \in Seq(Int)
                 /\ \E pick : Best(v, s, Kept(s), pick)

(* What add_sample() does to the values. *)
Added(v, s, val) ==
    LET pos == IF Len(s) < K THEN Len(s) + 1 ELSE K
    IN  IF Len(s) < K \/ val < v[K] THEN InsertionSort([v EXCEPT ![pos] = val], pos) ELSE v

(* A value that takes its place among the first pos, in front of them all. *)
LEMMA AddedSorted ==
    ASSUME NEW v, NEW s, Sampler(v, s), NEW val \in Int, NEW pos \in 1 .. K,
           pos = IF Len(s) < K THEN Len(s) + 1 ELSE K,
           Len(s) < K \/ val < v[K]
    PROVE Sampler(InsertionSort([v EXCEPT ![pos] = val], pos), Append(s, val))
<1>0. K \in Nat \ {0}
  BY TimingAssumption
<1>1. v \in [1 .. K -> Int] /\ s \in Seq(Int)
  BY DEF Sampler
<1>2. PICK m \in Nat : m = Len(s)
  BY <1>1
<1>3. PICK n \in Nat : n = Kept(s) /\ n <= K /\ n <= m
  BY <1>0, <1>2 DEF Kept
<1>4. PICK pick : Best(v, s, n, pick)
  BY <1>3 DEF Sampler
<1>5. /\ pick \in [1 .. n -> 1 .. m]
      /\ \A i \in 1 .. n : v[i] = s[pick[i]]
      /\ \A i, j \in 1 .. n : i < j => pick[i] # pick[j] /\ v[i] <= v[j]
      /\ \A k \in 1 .. m : (\A i \in 1 .. n : pick[i] # k) => m > K /\ v[n] <= s[k]
  BY <1>2, <1>4 DEF Best
<1>6. \/ n < K /\ n = m /\ pos = n + 1
      \/ n = K /\ m >= K /\ pos = n /\ val < v[n]
  BY <1>0, <1>2, <1>3 DEF Kept
<1> DEFINE w == [v EXCEPT ![pos] = val]
<1>7. w \in [1 .. K -> Int] /\ w[pos] = val /\ \A i \in 1 .. K : i # pos => w[i] = v[i]
  BY <1>1
<1> HIDE DEF w
<1>z. PICK at \in 1 .. pos : Sunk(w, pos, at, InsertionSort(w, pos))
  BY <1>7, Sinks
<1>8. /\ \A i \in 1 .. at - 1 : w[i] <= w[pos]
      /\ at < pos => w[at] > w[pos]
      /\ InsertionSort(w, pos) =
            [i \in 1 .. K |-> IF i = at THEN w[pos]
                              ELSE IF at < i /\ i <= pos THEN w[i - 1] ELSE w[i]]
  BY <1>z DEF Sunk
<1> DEFINE x == InsertionSort(w, pos)
           t == Append(s, val)
           p == [i \in 1 .. pos |-> IF i = at THEN m + 1
                                    ELSE IF at < i THEN pick[i - 1] ELSE pick[i]]
<1>n. /\ K \in Nat /\ pos \in Nat /\ at \in Nat /\ val \in Int
      /\ 1 <= at /\ at <= pos /\ pos <= K
  BY <1>0
<1>9. x \in [1 .. K -> Int] /\ \A i \in 1 .. K :
         x[i] = IF i = at THEN val ELSE IF at < i /\ i <= pos THEN v[i - 1] ELSE w[i]
  <2>1. ASSUME NEW i \in 1 .. K, at < i, i <= pos
        PROVE i - 1 \in 1 .. K /\ i - 1 # pos /\ w[i - 1] = v[i - 1]
    <3>1. i - 1 \in 1 .. K /\ i - 1 # pos
      BY <2>1, <1>n
    <3> QED BY <3>1, <1>7
  <2>2. ASSUME NEW i \in 1 .. K
        PROVE /\ x[i] = IF i = at THEN val ELSE IF at < i /\ i <= pos THEN v[i - 1] ELSE w[i]
              /\ x[i] \in Int
    <3>1. x[i] = IF i = at THEN w[pos] ELSE IF at < i /\ i <= pos THEN w[i - 1] ELSE w[i]
      BY <1>8
    <3>2. w[i] \in Int
      BY <1>7
    <3>3. CASE at < i /\ i <= pos
      <4>1. i - 1 \in 1 .. K /\ w[i - 1] = v[i - 1]
        BY <2>1, <3>3
      <4>2. w[i - 1] \in Int
        BY <4>1, <1>7
      <4> QED BY <3>1, <3>3, <4>1, <4>2, <1>n, <1>7
    <3>4. CASE ~ (at < i /\ i <= pos)
      BY <3>1, <3>2, <3>4, <1>n, <1>7
    <3> QED BY <3>3, <3>4
  <2>3. x = [i \in 1 .. K |-> x[i]]
    BY <1>8
  <2> QED BY <2>2, <2>3
<1>10. /\ t \in Seq(Int) /\ Len(t) = m + 1 /\ t[m + 1] = val
       /\ \A k \in 1 .. m : t[k] = s[k]
  BY <1>1, <1>2
<1>11. \A i \in 1 .. pos : p[i] = IF i = at THEN m + 1
                                  ELSE IF at < i THEN pick[i - 1] ELSE pick[i]
  OBVIOUS
<1>a. p = [i \in 1 .. pos |-> p[i]]
  OBVIOUS
<1> HIDE DEF x, t, p
<1>12. \A i \in 1 .. pos : i # at => IF at < i THEN i - 1 \in 1 .. n ELSE i \in 1 .. n
  BY <1>6, <1>n, <1>3
<1>13. \A i \in 1 .. pos : i < at => i \in 1 .. n /\ i # pos /\ v[i] <= val
  <2> SUFFICES ASSUME NEW i \in 1 .. pos, i < at
               PROVE i \in 1 .. n /\ i # pos /\ v[i] <= val
    OBVIOUS
  <2>1. i \in 1 .. at - 1 /\ i \in 1 .. K /\ i # pos
    BY <1>n
  <2>2. w[i] <= w[pos]
    BY <2>1, <1>8
  <2> QED BY <2>1, <2>2, <1>7, <1>12
<1>14. at < pos => v[at] > val /\ at \in 1 .. n
  <2>1. at \in 1 .. K
    BY <1>n
  <2> QED BY <2>1, <1>6, <1>7, <1>8, <1>n, <1>3
<1>b. \A i \in 1 .. pos : i < at => x[i] = v[i] /\ p[i] = pick[i]
  <2> SUFFICES ASSUME NEW i \in 1 .. pos, i < at
               PROVE x[i] = v[i] /\ p[i] = pick[i]
    OBVIOUS
  <2>1. i \in 1 .. K /\ i # pos /\ i # at /\ ~ (at < i)
    BY <1>n
  <2> QED BY <2>1, <1>7, <1>9, <1>11
<1>c. \A i \in 1 .. pos : at < i => x[i] = v[i - 1] /\ p[i] = pick[i - 1]
  <2> SUFFICES ASSUME NEW i \in 1 .. pos, at < i
               PROVE x[i] = v[i - 1] /\ p[i] = pick[i - 1]
    OBVIOUS
  <2>1. i \in 1 .. K /\ i # at /\ i <= pos
    BY <1>n
  <2> QED BY <2>1, <1>9, <1>11
<1>d. x[at] = val /\ p[at] = m + 1
  <2>1. at \in 1 .. K /\ at \in 1 .. pos
    BY <1>n
  <2> QED BY <2>1, <1>9, <1>11
<1>e. \A i \in 1 .. n : v[i] \in Int /\ pick[i] \in 1 .. m
  <2>1. \A i \in 1 .. n : i \in 1 .. K
    BY <1>n, <1>3
  <2> QED BY <2>1, <1>1, <1>5
<1>f. \A i \in 1 .. n : at <= i => v[i] > val
  <2>1. \A i \in 1 .. n : at < i /\ at < pos => v[i] > val
    <3> SUFFICES ASSUME NEW i \in 1 .. n, at < i, at < pos PROVE v[i] > val
      OBVIOUS
    <3>1. at \in 1 .. n /\ v[at] > val
      BY <1>14
    <3>2. v[at] <= v[i]
      BY <3>1, <1>5
    <3> QED BY <3>1, <3>2, <1>e, <1>n
  <2>2. \A i \in 1 .. n : at = pos /\ at <= i => v[i] > val
    BY <1>6, <1>n, <1>3
  <2> QED BY <2>1, <2>2, <1>14, <1>n, <1>3
<1>15. ASSUME NEW i \in 1 .. pos PROVE p[i] \in 1 .. m + 1 /\ x[i] = t[p[i]]
  <2>1. CASE i = at
    BY <2>1, <1>d, <1>10, <1>2
  <2>2. CASE i < at
    <3>1. i \in 1 .. n
      BY <2>2, <1>13
    <3>2. x[i] = v[i] /\ p[i] = pick[i]
      BY <2>2, <1>b
    <3>3. v[i] = s[pick[i]] /\ pick[i] \in 1 .. m
      BY <3>1, <1>5, <1>e
    <3> QED BY <3>2, <3>3, <1>10, <1>2
  <2>3. CASE at < i
    <3>1. i - 1 \in 1 .. n
      BY <2>3, <1>12
    <3>2. x[i] = v[i - 1] /\ p[i] = pick[i - 1]
      BY <2>3, <1>c
    <3>3. v[i - 1] = s[pick[i - 1]] /\ pick[i - 1] \in 1 .. m
      BY <3>1, <1>5, <1>e
    <3> QED BY <3>2, <3>3, <1>10, <1>2
  <2> QED BY <2>1, <2>2, <2>3, <1>n
<1>16. ASSUME NEW i \in 1 .. pos, NEW j \in 1 .. pos, i < j
       PROVE p[i] # p[j] /\ x[i] <= x[j]
  <2>1. CASE j < at
    BY <2>1, <1>16, <1>b, <1>13, <1>5
  <2>2. CASE j = at
    BY <2>2, <1>16, <1>b, <1>d, <1>13, <1>e
  <2>3. CASE i < at /\ at < j
    <3>1. j - 1 \in 1 .. n /\ i \in 1 .. n /\ i < j - 1
      BY <2>3, <1>12, <1>13, <1>n
    <3>2. pick[i] # pick[j - 1] /\ v[i] <= v[j - 1]
      BY <3>1, <1>5
    <3> QED BY <2>3, <3>2, <1>b, <1>c
  <2>4. CASE i = at
    <3>1. j - 1 \in 1 .. n /\ at <= j - 1
      BY <2>4, <1>12, <1>16, <1>n
    <3>2. v[j - 1] > val /\ v[j - 1] \in Int /\ pick[j - 1] \in 1 .. m
      BY <3>1, <1>e, <1>f
    <3>3. x[j] = v[j - 1] /\ p[j] = pick[j - 1]
      BY <2>4, <1>16, <1>c
    <3> QED BY <2>4, <3>2, <3>3, <1>d
  <2>5. CASE at < i
    <3>1. i - 1 \in 1 .. n /\ j - 1 \in 1 .. n /\ i - 1 < j - 1 /\ at < j
      BY <2>5, <1>12, <1>16, <1>n
    <3> QED BY <2>5, <3>1, <1>c, <1>5
  <2> QED BY <2>1, <2>2, <2>3, <2>4, <2>5, <1>16
<1>17. x[pos] <= val \/ \E i \in 1 .. n : x[pos] = v[i] /\ i < pos
  BY <1>c, <1>d, <1>12
<1>18. ASSUME NEW k \in 1 .. m + 1, \A i \in 1 .. pos : p[i] # k
       PROVE m + 1 > K /\ x[pos] <= t[k]
  <2>1. k \in 1 .. m /\ t[k] = s[k]
    BY <1>18, <1>d, <1>10
  <2>2. \A i \in 1 .. n : i < pos => pick[i] # k
    <3> SUFFICES ASSUME NEW i \in 1 .. n, i < pos PROVE pick[i] # k
      OBVIOUS
    <3>1. CASE i < at
      BY <3>1, <1>b, <1>18
    <3>2. CASE at <= i
      <4>1. i + 1 \in 1 .. pos /\ at < i + 1 /\ i + 1 - 1 = i
        BY <3>2
      <4>2. p[i + 1] = pick[i]
        BY <4>1, <1>c
      <4> QED BY <4>1, <4>2, <1>18
    <3> QED BY <3>1, <3>2
  <2>3. CASE n < K
    <3>1. \A i \in 1 .. n : pick[i] # k
      BY <2>2, <2>3, <1>6
    <3>2. n = m /\ ~ (m > K)
      BY <2>3, <1>6, <1>0, <1>3
    <3> QED BY <2>1, <3>1, <3>2, <1>5
  <2>4. CASE n = K
    <3>0. pos = n /\ m >= K /\ val < v[n] /\ n \in 1 .. n
      BY <2>4, <1>0, <1>6
    <3>1. v[n] <= s[k]
      <4>1. CASE pick[n] = k
        BY <4>1, <3>0, <1>5, <1>e
      <4>2. CASE pick[n] # k
        <5>1. \A i \in 1 .. n : pick[i] # k
          BY <4>2, <2>2, <3>0
        <5> QED BY <5>1, <2>1, <1>5
      <4> QED BY <4>1, <4>2
    <3>2. s[k] \in Int /\ v[n] \in Int /\ x[pos] \in Int
      BY <2>1, <3>0, <1>1, <1>2, <1>9, <1>e
    <3>3. x[pos] <= v[n]
      <4>1. \A i \in 1 .. n : i < n => v[i] <= v[n]
        BY <3>0, <1>5
      <4> QED BY <4>1, <1>17, <3>0, <3>2, <1>e
    <3> QED BY <2>1, <3>0, <3>1, <3>2, <3>3, <2>4
  <2> QED BY <2>3, <2>4, <1>3, <1>0
<1>19. Kept(t) = pos
  BY <1>0, <1>6, <1>10 DEF Kept
<1>20. Best(x, t, pos, p)
  <2>1. p \in [1 .. pos -> 1 .. Len(t)]
    BY <1>a, <1>10, <1>15
  <2> QED BY <2>1, <1>10, <1>15, <1>16, <1>18 DEF Best
<1>21. Sampler(x, t)
  BY <1>9, <1>10, <1>19, <1>20 DEF Sampler
<1> QED BY <1>21 DEF x, t, w

LEMMA SamplerAdds ==
    ASSUME NEW v, NEW s, Sampler(v, s), NEW val \in Int
    PROVE Sampler(Added(v, s, val), Append(s, val))
<1>0. K \in Nat \ {0} /\ Len(s) \in Nat /\ s \in Seq(Int) /\ v \in [1 .. K -> Int]
  BY TimingAssumption DEF Sampler
<1>1. PICK pos \in 1 .. K : pos = IF Len(s) < K THEN Len(s) + 1 ELSE K
  BY <1>0
<1>2. CASE Len(s) < K \/ val < v[K]
  BY <1>1, <1>2, AddedSorted DEF Added
<1>3. CASE ~ (Len(s) < K \/ val < v[K])
  <2>1. PICK m \in Nat : m = Len(s) /\ m >= K
    BY <1>0, <1>3
  <2>2. PICK pick : Best(v, s, K, pick)
    BY <2>1, <1>0 DEF Sampler, Kept
  <2>3. v[K] \in Int /\ v[K] <= val
    BY <1>0, <1>3
  <2> DEFINE t == Append(s, val)
  <2>4. t \in Seq(Int) /\ Len(t) = m + 1 /\ t[m + 1] = val /\ \A k \in 1 .. m : t[k] = s[k]
    BY <1>0, <2>1
  <2> HIDE DEF t
  <2>5. Kept(t) = K
    BY <1>0, <2>1, <2>4 DEF Kept
  <2>6. pick \in [1 .. K -> 1 .. m]
    BY <2>1, <2>2 DEF Best
  <2>7. pick \in [1 .. K -> 1 .. Len(t)]
    BY <2>4, <2>6
  <2>8. \A i \in 1 .. K : v[i] = t[pick[i]]
    BY <2>1, <2>2, <2>4, <2>6 DEF Best
  <2>9. ASSUME NEW k \in 1 .. Len(t), \A i \in 1 .. K : pick[i] # k
        PROVE Len(t) > K /\ v[K] <= t[k]
    <3>1. CASE k = m + 1
      BY <3>1, <2>1, <2>3, <2>4, <1>0
    <3>2. CASE k # m + 1
      <4>1. k \in 1 .. Len(s) /\ t[k] = s[k]
        BY <3>2, <2>1, <2>4
      <4>2. v[K] <= s[k]
        BY <4>1, <2>2, <2>9 DEF Best
      <4> QED BY <4>1, <4>2, <2>1, <2>4, <1>0
    <3> QED BY <3>1, <3>2
  <2>10. Best(v, t, K, pick)
    BY <2>2, <2>7, <2>8, <2>9 DEF Best
  <2>11. Sampler(v, t)
    BY <1>0, <2>4, <2>5, <2>10 DEF Sampler
  <2>12. Added(v, s, val) = v
    BY <1>3 DEF Added
  <2> QED BY <2>11, <2>12 DEF t
<1> QED BY <1>2, <1>3

-----------------------------------------------------------------------------
(***************************************************************************)
(* The timer is a record of ten fields.                                    *)
(***************************************************************************)
Fields == {"kind", "Mhz", "clock", "began", "cyc", "cyc_per_tick", "cache_buf",
           "values", "samplecount", "samples"}

IsTimer(t) == /\ t = [f \in Fields |-> t[f]]
              /\ t.kind \in Timers /\ t.clock \in Nat /\ t.began \in Int
              /\ t.cyc_per_tick \in Int

(* What the sampler of fcyc() holds between two rounds. *)
Sampled(t) == t.kind = "FCYC" => /\ Sampler(t.values, t.samples)
                                 /\ t.samplecount = Len(t.samples)

LEMMA NewTimerIs ==
    ASSUME NEW kind \in Timers PROVE IsTimer(NewTimer(kind))
<1> DEFINE t == NewTimer(kind)
<1>1. t = [f \in Fields |-> t[f]]
  BY DEF NewTimer, Fields
<1>2. t.kind = kind /\ t.clock = 0 /\ t.began = 0 /\ t.cyc_per_tick = 0
  BY DEF NewTimer
<1> QED BY <1>1, <1>2 DEF IsTimer

LEMMA InitFsecs ==
    ASSUME NEW t, IsTimer(t), NEW clock \in Starts, NEW sleep
    PROVE IsTimer(init_fsecs(t, clock, sleep))
<1>0. clock \in Nat
  BY ClocksAssumption
<1> DEFINE now == [t EXCEPT !.clock = clock]
<1>1. PICK cyc, m : cyc = access_counter(clock) /\ m = mhz(now, sleep)
  OBVIOUS
<1>2. CASE t.kind = "FCYC"
  <2> DEFINE u == [now EXCEPT !.cyc = cyc, !.Mhz = m]
  <2>1. u = [f \in Fields |-> u[f]] /\ u.kind = t.kind /\ u.clock = clock
        /\ u.began = t.began /\ u.cyc_per_tick = t.cyc_per_tick
    BY DEF IsTimer, Fields
  <2>2. init_fsecs(t, clock, sleep) = u
    BY <1>1, <1>2 DEF init_fsecs
  <2> QED BY <1>0, <2>1, <2>2 DEF IsTimer
<1>3. CASE t.kind # "FCYC"
  BY <1>3 DEF init_fsecs
<1> QED BY <1>2, <1>3

LEMMA EmptySampler ==
    Sampler([i \in 1 .. K |-> 0], <<>>)
<1>0. K \in Nat \ {0}
  BY TimingAssumption
<1>1. Kept(<<>>) = 0 /\ Len(<<>>) = 0 /\ <<>> \in Seq(Int)
  BY <1>0 DEF Kept
<1>2. PICK pick : pick = [i \in 1 .. 0 |-> 1]
  OBVIOUS
<1>3. pick \in [1 .. 0 -> 1 .. 0]
  BY <1>2
<1>4. Best([i \in 1 .. K |-> 0], <<>>, 0, pick)
  BY <1>1, <1>3 DEF Best
<1>5. [i \in 1 .. K |-> 0] \in [1 .. K -> Int]
  OBVIOUS
<1> QED BY <1>1, <1>4, <1>5 DEF Sampler

LEMMA BeginIs ==
    ASSUME NEW t, IsTimer(t), NEW clock \in Starts
    PROVE IsTimer(FsecsBegin(t, clock)) /\ Sampled(FsecsBegin(t, clock))
<1>0. clock \in Nat
  BY ClocksAssumption
<1>1. PICK zeros : zeros = [i \in 1 .. K |-> 0]
  OBVIOUS
<1> DEFINE u == [t EXCEPT !.clock = clock, !.began = clock]
           x == [u EXCEPT !.values = zeros, !.samplecount = 0, !.samples = <<>>]
<1>2. x = FsecsBegin(t, clock)
  BY <1>1 DEF FsecsBegin, init_sampler
<1>3. /\ x = [f \in Fields |-> x[f]] /\ x.kind = t.kind /\ x.clock = clock
      /\ x.began = clock /\ x.cyc_per_tick = t.cyc_per_tick
      /\ x.values = zeros /\ x.samplecount = 0 /\ x.samples = <<>>
  BY DEF IsTimer, Fields
<1> HIDE DEF x
<1>4. IsTimer(x)
  BY <1>0, <1>3 DEF IsTimer
<1>5. Sampled(x)
  BY <1>1, <1>3, EmptySampler DEF Sampled
<1> QED BY <1>2, <1>4, <1>5

LEMMA EndIs ==
    ASSUME NEW t, IsTimer(t) PROVE IsTimer(FsecsEnd(t)) /\ FsecsEnd(t).clock = 0
<1> DEFINE x == FsecsEnd(t)
<1>1. /\ x = [f \in Fields |-> x[f]] /\ x.kind = t.kind /\ x.clock = 0
      /\ x.began = 0 /\ x.cyc_per_tick = t.cyc_per_tick
  BY DEF IsTimer, Fields, FsecsEnd
<1> QED BY <1>1 DEF IsTimer

-----------------------------------------------------------------------------
(* The counter is started at the time the round begins. *)
LEMMA CounterStarts ==
    ASSUME NEW t, IsTimer(t)
    PROVE \E u : /\ u = start_comp_counter(clear(t), Cpts)
                 /\ IsTimer(u) /\ u.kind = t.kind /\ u.clock = t.clock
                 /\ u.cyc = access_counter(t.clock)
                 /\ u.values = t.values /\ u.samplecount = t.samplecount
                 /\ u.samples = t.samples
<1> DEFINE c == clear(t)
<1>1. /\ c = [f \in Fields |-> c[f]] /\ c.kind = t.kind /\ c.clock = t.clock
      /\ c.began = t.began /\ c.cyc_per_tick = t.cyc_per_tick
      /\ c.values = t.values /\ c.samplecount = t.samplecount /\ c.samples = t.samples
  BY DEF IsTimer, Fields, clear
<1> HIDE DEF c
<1> DEFINE seen == {x \in Cpts : x > RECORDTHRESH}
<1>2. PICK tick \in Int : tick = IF seen = {} THEN c.cyc_per_tick ELSE Min(seen)
  <2>1. seen \in SUBSET Nat
    BY ClocksAssumption
  <2>2. seen # {} => Min(seen) \in Nat
    <3> HIDE DEF seen
    <3> QED BY <2>1, MinIs
  <2>3. c.cyc_per_tick \in Int
    BY <1>1 DEF IsTimer
  <2> QED BY <2>2, <2>3
<1> DEFINE b == [c EXCEPT !.cyc_per_tick = tick]
           g == IF c.cyc_per_tick = 0 THEN b ELSE c
<1>3. callibrate(c, Cpts) = b
  BY <1>1, <1>2 DEF callibrate
<1> HIDE DEF seen
<1>4. /\ b = [f \in Fields |-> b[f]] /\ b.kind = t.kind /\ b.clock = t.clock
      /\ b.began = t.began /\ b.cyc_per_tick = tick
      /\ b.values = t.values /\ b.samplecount = t.samplecount /\ b.samples = t.samples
  BY <1>1 DEF Fields
<1> HIDE DEF b
<1>5. /\ g = [f \in Fields |-> g[f]] /\ g.kind = t.kind /\ g.clock = t.clock
      /\ g.began = t.began /\ g.cyc_per_tick \in Int
      /\ g.values = t.values /\ g.samplecount = t.samplecount /\ g.samples = t.samples
  BY <1>1, <1>4 DEF IsTimer
<1>6. start_comp_counter(clear(t), Cpts) = start_counter(g)
  BY <1>3 DEF start_comp_counter, c
<1> HIDE DEF g
<1>7. PICK now : now = access_counter(t.clock)
  OBVIOUS
<1> DEFINE u == [g EXCEPT !.cyc = now]
<1>8. start_counter(g) = u
  BY <1>5, <1>7 DEF start_counter
<1>9. /\ u = [f \in Fields |-> u[f]] /\ u.kind = t.kind /\ u.clock = t.clock
      /\ u.began = t.began /\ u.cyc_per_tick \in Int /\ u.cyc = now
      /\ u.values = t.values /\ u.samplecount = t.samplecount /\ u.samples = t.samples
  BY <1>5 DEF Fields
<1> HIDE DEF u
<1>10. IsTimer(u)
  BY <1>9 DEF IsTimer
<1> QED BY <1>6, <1>7, <1>8, <1>9, <1>10

(* The counter tells the cycles since it was started. *)
LEMMA CounterTells ==
    ASSUME NEW c \in Nat, NEW d \in Durations, NEW u,
           u.cyc = access_counter(c), u.clock = c + d
    PROVE get_counter(u) = d /\ d \in Int
<1>1. PICK B \in Nat \ {0} : B = 2 ^ WIDTH
  BY TimingAssumption
<1>2. d \in 0 .. B * B - 1
  BY <1>1, ClocksAssumption
<1>2a. c + d \in Int /\ c \in Int
  BY <1>2
<1> DEFINE n == access_counter(u.clock)
<1>3. /\ n.lo = (c + d) % B /\ n.hi = ((c + d) \div B) % B
      /\ u.cyc.lo = c % B /\ u.cyc.hi = (c \div B) % B
  BY <1>1 DEF access_counter
<1> HIDE DEF n
<1>7. get_counter(u) = CounterDiff(B, c, c + d)
  BY <1>1, <1>3 DEF get_counter, CounterDiff, n
<1>8. CounterDiff(B, c, c + d) = d
  BY <1>2, CounterDifference
<1> QED BY <1>2, <1>7, <1>8

LEMMA FcycRoundIs ==
    ASSUME NEW t, IsTimer(t), t.kind = "FCYC", Sampled(t),
           NEW d \in Durations, NEW ticks \in Ticks
    PROVE \E x : /\ x = FcycRound(t, d, ticks, Cpts)
                 /\ IsTimer(x) /\ Sampled(x) /\ x.kind = "FCYC"
                 /\ x.clock = t.clock + d /\ get_counter(x) = d
<1>1. PICK u : /\ u = start_comp_counter(clear(t), Cpts)
               /\ IsTimer(u) /\ u.kind = t.kind /\ u.clock = t.clock
               /\ u.cyc = access_counter(t.clock)
               /\ u.values = t.values /\ u.samplecount = t.samplecount
               /\ u.samples = t.samples
  BY CounterStarts
<1>2. t.clock \in Nat /\ d \in Nat
  BY ClocksAssumption, TimingAssumption DEF IsTimer
<1>3. PICK c \in Nat : c = t.clock + d
  BY <1>2
<1> DEFINE ran == [u EXCEPT !.clock = c]
<1>4. /\ ran = [f \in Fields |-> ran[f]] /\ ran.kind = t.kind /\ ran.clock = c
      /\ ran.began = u.began /\ ran.cyc_per_tick = u.cyc_per_tick
      /\ ran.cyc = u.cyc
      /\ ran.values = t.values /\ ran.samplecount = t.samplecount
      /\ ran.samples = t.samples
  BY <1>1 DEF IsTimer, Fields
<1>5. ran = [start_comp_counter(clear(t), Cpts) EXCEPT !.clock = @ + d]
  BY <1>1, <1>3
<1> HIDE DEF ran
<1>6. get_counter(ran) = d /\ d \in Int
  BY <1>1, <1>2, <1>3, <1>4, CounterTells
<1>7. PICK val \in Int : val = get_comp_counter(ran, ticks)
  <2>1. ran.cyc_per_tick \in Int /\ ticks \in Int
    BY <1>1, <1>4, ClocksAssumption DEF IsTimer
  <2>2. get_comp_counter(ran, ticks) = d - ticks * ran.cyc_per_tick
    BY <1>6 DEF get_comp_counter
  <2> QED BY <2>1, <2>2, <1>6
<1>8. PICK kept, more, count :
         /\ kept = Added(t.values, t.samples, val)
         /\ more = Append(t.samples, val) /\ count = t.samplecount + 1
  OBVIOUS
<1>9. Sampler(t.values, t.samples) /\ t.samplecount = Len(t.samples)
  BY DEF Sampled
<1>10. Sampler(kept, more) /\ count = Len(more)
  <2>1. t.samples \in Seq(Int)
    BY <1>9 DEF Sampler
  <2> QED BY <1>8, <1>9, <2>1, SamplerAdds
<1> DEFINE x == [ran EXCEPT !.values = kept, !.samplecount = count, !.samples = more]
<1>11. add_sample(ran, val) = x
  <2>1. PICK pos : pos = IF t.samplecount < K THEN t.samplecount + 1 ELSE K
    OBVIOUS
  <2>2. kept = IF t.samplecount < K \/ val < t.values[K]
               THEN InsertionSort([t.values EXCEPT ![pos] = val], pos)
               ELSE t.values
    BY <1>8, <1>9, <2>1 DEF Added
  <2>3. ran.values = t.values /\ ran.samplecount = t.samplecount
        /\ ran.samples = t.samples
    BY <1>4
  <2>4. add_sample(ran, val) =
          [ran EXCEPT !.values = kept, !.samplecount = @ + 1,
                      !.samples = Append(@, val)]
    BY <2>1, <2>2, <2>3, Zenon DEF add_sample
  <2>5. "samplecount" \in DOMAIN ran /\ "samples" \in DOMAIN ran
    BY <1>4 DEF Fields
  <2> HIDE DEF x
  <2>6. [ran EXCEPT !.values = kept, !.samplecount = @ + 1,
                    !.samples = Append(@, val)] = x
    BY <1>8, <2>3 DEF x
  <2> QED BY <2>4, <2>6
<1>12. /\ x = [f \in Fields |-> x[f]] /\ x.kind = t.kind /\ x.clock = c
       /\ x.began = u.began /\ x.cyc_per_tick = u.cyc_per_tick
       /\ x.cyc = ran.cyc /\ x.clock = ran.clock
       /\ x.values = kept /\ x.samplecount = count /\ x.samples = more
  BY <1>4 DEF Fields
<1> HIDE DEF x
<1>13. x = FcycRound(t, d, ticks, Cpts)
  BY <1>5, <1>7, <1>11 DEF FcycRound
<1>14. IsTimer(x)
  BY <1>1, <1>12 DEF IsTimer
<1>15. Sampled(x)
  BY <1>10, <1>12 DEF Sampled
<1>16. get_counter(x) = d
  BY <1>1, <1>2, <1>3, <1>4, <1>12, CounterTells
<1> QED BY <1>3, <1>12, <1>13, <1>14, <1>15, <1>16

LEMMA FtimerRoundIs ==
    ASSUME NEW t, IsTimer(t), t.kind # "FCYC", NEW d \in Durations
    PROVE \E x : /\ x = FtimerRound(t, d)
                 /\ IsTimer(x) /\ Sampled(x) /\ x.kind = t.kind
                 /\ x.clock = t.clock + d
                 /\ FtimerResult(x) = x.clock - x.began
<1>2. t.clock \in Nat /\ d \in Nat /\ t.began \in Int
  BY ClocksAssumption, TimingAssumption DEF IsTimer
<1>3. PICK c \in Nat : c = t.clock + d
  BY <1>2
<1>3a. PICK count : count = t.samplecount + 1
  OBVIOUS
<1> DEFINE x == [t EXCEPT !.clock = c, !.samplecount = count]
<1>4. x = FtimerRound(t, d)
  BY <1>3, <1>3a DEF FtimerRound
<1>5. /\ x = [f \in Fields |-> x[f]] /\ x.kind = t.kind /\ x.clock = c
      /\ x.began = t.began /\ x.cyc_per_tick = t.cyc_per_tick
  BY DEF IsTimer, Fields
<1> HIDE DEF x
<1>6. IsTimer(x) /\ Sampled(x)
  BY <1>5 DEF IsTimer, Sampled
<1>7. timediff(timeval(x.clock), timeval(x.began)) = x.clock - x.began
  BY <1>2, <1>5, TimevalDifference
<1>8. get_etime(x) = x.clock - x.began
  <2>1. PICK e \in Int : e = x.clock - x.began
    BY <1>2, <1>5
  <2>2. PICK s \in Int : s = MAX_ETIME * USEC
    BY TimingAssumption
  <2>3. PICK r \in Int : r = s - e
    OBVIOUS
  <2>4. get_etime(x) = timediff(timeval(s), timeval(r))
    BY <2>1, <2>2, <2>3 DEF get_etime
  <2>5. timediff(timeval(s), timeval(r)) = s - r
    BY TimevalDifference
  <2> QED BY <2>1, <2>3, <2>4, <2>5
<1> QED BY <1>3, <1>4, <1>5, <1>6, <1>7, <1>8 DEF FtimerResult

LEMMA RoundIs ==
    ASSUME NEW t, IsTimer(t), Sampled(t), NEW d \in Durations, NEW ticks \in Ticks
    PROVE \E x : /\ x = FsecsRound(t, d, ticks, Cpts)
                 /\ IsTimer(x) /\ Sampled(x)
                 /\ x.clock = t.clock + d /\ ResultIsElapsed(x, d)
<1>1. CASE t.kind = "FCYC"
  <2>1. PICK x : /\ x = FcycRound(t, d, ticks, Cpts)
                 /\ IsTimer(x) /\ Sampled(x) /\ x.kind = "FCYC"
                 /\ x.clock = t.clock + d /\ get_counter(x) = d
    BY <1>1, FcycRoundIs
  <2>2. x = FsecsRound(t, d, ticks, Cpts)
    BY <1>1, <2>1 DEF FsecsRound
  <2> QED BY <2>1, <2>2 DEF ResultIsElapsed
<1>2. CASE t.kind # "FCYC"
  <2>1. PICK x : /\ x = FtimerRound(t, d)
                 /\ IsTimer(x) /\ Sampled(x) /\ x.kind = t.kind
                 /\ x.clock = t.clock + d
                 /\ FtimerResult(x) = x.clock - x.began
    BY <1>2, FtimerRoundIs
  <2>2. x = FsecsRound(t, d, ticks, Cpts)
    BY <1>2, <2>1 DEF FsecsRound
  <2> QED BY <1>2, <2>1, <2>2 DEF ResultIsElapsed
<1> QED BY <1>1, <1>2

(* The sampler holds what KBest says. *)
LEMMA SampledIsKBest ==
    ASSUME NEW t, Sampled(t) PROVE KBest(t)
<1> SUFFICES ASSUME t.kind = "FCYC"
             PROVE LET n == IF t.samplecount < K THEN t.samplecount ELSE K
                   IN  \E pick \in [1 .. n -> DOMAIN t.samples] : IsKBest(t, n, pick)
  BY DEF KBest
<1>1. Sampler(t.values, t.samples) /\ t.samplecount = Len(t.samples)
  BY DEF Sampled
<1>2. PICK m \in Nat : m = Len(t.samples) /\ DOMAIN t.samples = 1 .. m
  BY <1>1 DEF Sampler
<1>3. PICK n : n = Kept(t.samples)
  OBVIOUS
<1>4. n = IF t.samplecount < K THEN t.samplecount ELSE K
  BY <1>1, <1>3 DEF Kept
<1>5. PICK pick : Best(t.values, t.samples, n, pick)
  BY <1>1, <1>3 DEF Sampler
<1>6. pick \in [1 .. n -> DOMAIN t.samples]
  BY <1>2, <1>5 DEF Best
<1>7. ASSUME NEW k \in DOMAIN t.samples \ {pick[i] : i \in 1 .. n}
      PROVE t.samplecount > K /\ t.values[n] <= t.samples[k]
  BY <1>1, <1>2, <1>5 DEF Best
<1>8. IsKBest(t, n, pick)
  BY <1>5, <1>7 DEF IsKBest, Best
<1> QED BY <1>4, <1>6, <1>8

-----------------------------------------------------------------------------
Measuring(p) == p \in {"speed", "libc speed"}

TimerInv == /\ IsTimer(timer)
            /\ Measuring(phase) => Sampled(timer)

(* Nothing is being measured before or after the step, or nothing changes. *)
Idle == timer' = timer /\ (phase' = phase \/ ~ Measuring(phase'))

LEMMA IdleKeeps ==
    ASSUME TimerInv, Idle
    PROVE TimerInv' /\ ~ (timer'.clock > timer.clock)
<1>1. timer.clock \in Nat
  BY DEF TimerInv, IsTimer
<1> QED BY <1>1 DEF TimerInv, Idle

(* A measurement begins, one of its rounds, and its end. *)
LEMMA BeginKeeps ==
    ASSUME TimerInv, NEW clock \in Starts, timer' = FsecsBegin(timer, clock)
    PROVE TimerInv'
<1> QED BY BeginIs DEF TimerInv

LEMMA RoundKeeps ==
    ASSUME TimerInv, Measuring(phase), Round
    PROVE TimerInv' /\ ResultIsElapsed(timer', timer'.clock - timer.clock)
<1>1. PICK d \in Durations, ticks \in Ticks : timer' = FsecsRound(timer, d, ticks, Cpts)
  BY DEF Round
<1>2. PICK x : /\ x = FsecsRound(timer, d, ticks, Cpts)
               /\ IsTimer(x) /\ Sampled(x)
               /\ x.clock = timer.clock + d /\ ResultIsElapsed(x, d)
  BY RoundIs DEF TimerInv
<1>3. timer.clock \in Nat /\ d \in Nat
  BY ClocksAssumption, TimingAssumption DEF TimerInv, IsTimer
<1>4. d = timer'.clock - timer.clock
  BY <1>1, <1>2, <1>3
<1> QED BY <1>1, <1>2, <1>4 DEF TimerInv

LEMMA EndKeeps ==
    ASSUME TimerInv, timer' = FsecsEnd(timer), ~ Measuring(phase')
    PROVE TimerInv' /\ ~ (timer'.clock > timer.clock)
<1>1. timer.clock \in Nat /\ timer'.clock = 0
  BY EndIs DEF TimerInv, IsTimer
<1> QED BY <1>1, EndIs DEF TimerInv

-----------------------------------------------------------------------------
(* Where the actions go. *)
LEMMA ReadGoes ==
    ASSUME NEW next, read_trace(next) PROVE phase' \in {next, "exit"}
<1>1. PICK c : CASE c = Missing -> Exit("failed") /\ UNCHANGED <<trace, blocks>>
                 [] c # Missing /\ \E i \in DOMAIN c.ops : c.ops[i].type = "bogus" ->
                      Exit("failed") /\ UNCHANGED <<trace, blocks>>
                 [] c # Missing /\ (\A i \in DOMAIN c.ops : c.ops[i].type # "bogus")
                      /\ ~ WellCounted(c) ->
                      Exit("assert") /\ UNCHANGED <<trace, blocks>>
                 [] OTHER -> /\ trace' = c /\ phase' = next
                             /\ blocks' = [i \in 0 .. c.num_ids - 1 |-> NoBlock]
                             /\ UNCHANGED status
  BY DEF read_trace
<1> QED BY <1>1 DEF Exit

LEMMA NextTraceGoes ==
    ASSUME NEW again, NEW done, NextTrace(again, done) PROVE phase' \in {again, done}
BY DEF NextTrace

LEMMA AdoptGoes ==
    ASSUME NEW a, NEW list, NEW kept, phase = "valid", Adopt(a, list, kept)
    PROVE phase' \in {"exit", "read", "results", "valid"}
<1>1. PICK size : size = Op.size
  OBVIOUS
<1>2. CASE a.heap.fault # "none"
  BY <1>2 DEF Adopt, Crash, Exit
<1>3. CASE a.heap.fault = "none" /\ a.bp = NULL
  BY <1>3, NextTraceGoes DEF Adopt, Invalid
<1>4. CASE a.heap.fault = "none" /\ a.bp # NULL /\ Op.size = 0
  BY <1>4 DEF Adopt, Exit
<1>5. CASE a.heap.fault = "none" /\ a.bp # NULL /\ Op.size # 0 
           /\ ~ RangeOK(a.heap, list, a.bp, Op.size)
  BY <1>5, NextTraceGoes DEF Adopt, Invalid
<1>6. CASE a.heap.fault = "none" /\ a.bp # NULL /\ Op.size # 0 
           /\ RangeOK(a.heap, list, a.bp, Op.size)
  <2>1. \/ phase' = phase
        \/ Invalid
    BY <1>6 DEF Adopt
  <2> QED BY <2>1, NextTraceGoes DEF Invalid
<1> QED BY <1>2, <1>3, <1>4, <1>5, <1>6

LEMMA TimerStep ==
    ASSUME TimerInv, [Next]_vars
    PROVE /\ TimerInv'
          /\ Measuring(phase) /\ timer'.clock > timer.clock
                => ResultIsElapsed(timer', timer'.clock - timer.clock)
<1>1. ASSUME Idle PROVE TimerInv' /\ ~ (timer'.clock > timer.clock)
  BY <1>1, IdleKeeps
<1>2. ASSUME NEW c, GetOption(c) PROVE Idle
  <2>1. phase = "options" /\ timer' = timer /\ (phase' = phase \/ phase' = "exit")
    BY <1>2 DEF GetOption, Exit
  <2> QED BY <2>1 DEF Idle, Measuring
<1>3. ASSUME EndOfOptions PROVE TimerInv' /\ ~ Measuring(phase)
  <2>1. PICK clock \in Starts : timer' = init_fsecs(timer, clock, Sleep)
    BY <1>3 DEF EndOfOptions
  <2>2. phase = "options" /\ phase' \in {"libc read", "mem_init"}
    BY <1>3 DEF EndOfOptions
  <2>3. IsTimer(timer')
    BY <2>1, InitFsecs DEF TimerInv
  <2> QED BY <2>2, <2>3 DEF TimerInv, Measuring
<1>4. ASSUME LibcRead PROVE Idle
  <2>1. timer' = timer /\ phase' \in {"libc valid", "exit"}
    BY <1>4, ReadGoes DEF LibcRead
  <2> QED BY <2>1 DEF Idle, Measuring
<1>5. ASSUME eval_libc_valid PROVE TimerInv' /\ ~ Measuring(phase)
  <2>1. phase = "libc valid"
    BY <1>5 DEF eval_libc_valid
  <2>2. \/ \E clock \in Starts : timer' = FsecsBegin(timer, clock)
        \/ timer' = timer /\ phase' = "exit"
    BY <1>5 DEF eval_libc_valid, Exit
  <2>3. TimerInv'
    <3>1. ASSUME timer' = timer, phase' = "exit" PROVE Idle
      BY <3>1 DEF Idle, Measuring
    <3> QED BY <2>2, <3>1, <1>1, BeginKeeps
  <2> QED BY <2>1, <2>3 DEF Measuring
<1>6. ASSUME eval_libc_speed PROVE (Measuring(phase) /\ Round) \/ Idle
  <2>1. phase = "libc speed" /\ (Round \/ (timer' = timer /\ phase' = "exit"))
    BY <1>6 DEF eval_libc_speed, Exit
  <2> QED BY <2>1 DEF Idle, Measuring
<1>7. ASSUME LibcDone PROVE timer' = FsecsEnd(timer) /\ ~ Measuring(phase')
  <2>1. timer' = FsecsEnd(timer) /\ phase' \in {"libc read", "mem_init"}
    BY <1>7, NextTraceGoes DEF LibcDone
  <2> QED BY <2>1 DEF Measuring
<1>8. ASSUME ClearFails PROVE Idle
  BY <1>8 DEF ClearFails, Exit, Idle, Measuring
<1>9. ASSUME mem_init PROVE Idle
  BY <1>9 DEF mem_init, Idle, Measuring
<1>10. ASSUME ReadTrace PROVE Idle
  <2>1. timer' = timer /\ phase' \in {"init", "exit"}
    BY <1>10, ReadGoes DEF ReadTrace
  <2> QED BY <2>1 DEF Idle, Measuring
<1>11. ASSUME InitValid PROVE Idle
  <2>1. PICK i \in {MMInit(MemReset(heap))} :
           CASE i.heap.fault # "none" -> Crash(i.heap)
             [] i.heap.fault = "none" /\ i.bp < 0 -> Invalid /\ UNCHANGED status
             [] OTHER -> phase' = "valid"
                         /\ UNCHANGED <<status, errors, stats, trace, blocks, tracenum>>
    BY <1>11 DEF InitValid
  <2>2. Crash(i.heap) \/ Invalid \/ phase' = "valid"
    BY <2>1
  <2>3. timer' = timer
    BY <1>11 DEF InitValid
  <2>4. phase' \in {"exit", "read", "results", "valid"}
    BY <2>2, NextTraceGoes DEF Crash, Exit, Invalid
  <2> QED BY <2>3, <2>4 DEF Idle, Measuring
<1>12. ASSUME ValidAlloc \/ ValidRealloc PROVE Idle
  <2>1. phase = "valid" /\ timer' = timer
    BY <1>12 DEF ValidAlloc, ValidRealloc, Request
  <2>2. \E a, list, kept : Adopt(a, list, kept)
    BY <1>12 DEF ValidAlloc, ValidRealloc
  <2> QED BY <2>1, <2>2, AdoptGoes DEF Idle, Measuring
<1>13. ASSUME ValidFree PROVE Idle
  <2>1. phase = "valid" /\ timer' = timer
    BY <1>13 DEF ValidFree, Request
  <2>2. phase' \in {"exit", "valid"}
    BY <1>13, <2>1 DEF ValidFree, Crash, Exit
  <2> QED BY <2>1, <2>2 DEF Idle, Measuring
<1>14. ASSUME ValidDone PROVE Idle
  BY <1>14 DEF ValidDone, Idle, Measuring
<1>15. ASSUME eval_mm_util PROVE TimerInv' /\ ~ Measuring(phase)
  <2>1. phase = "util"
    BY <1>15 DEF eval_mm_util
  <2>2. \/ \E clock \in Starts : timer' = FsecsBegin(timer, clock)
        \/ timer' = timer /\ phase' = "exit"
    BY <1>15 DEF eval_mm_util, Exit
  <2>3. TimerInv'
    <3>1. ASSUME timer' = timer, phase' = "exit" PROVE Idle
      BY <3>1 DEF Idle, Measuring
    <3> QED BY <2>2, <3>1, <1>1, BeginKeeps
  <2> QED BY <2>1, <2>3 DEF Measuring
<1>16. ASSUME eval_mm_speed PROVE (Measuring(phase) /\ Round) \/ Idle
  <2>1. phase = "speed" /\ (Round \/ (timer' = timer /\ phase' = "exit"))
    BY <1>16 DEF eval_mm_speed, Exit
  <2> QED BY <2>1 DEF Idle, Measuring
<1>17. ASSUME SpeedDone PROVE timer' = FsecsEnd(timer) /\ ~ Measuring(phase')
  <2>1. timer' = FsecsEnd(timer) /\ phase' \in {"read", "results"}
    BY <1>17, NextTraceGoes DEF SpeedDone
  <2> QED BY <2>1 DEF Measuring
<1>18. ASSUME Results PROVE Idle
  BY <1>18 DEF Results, Exit, Idle, Measuring
<1>19. ASSUME UNCHANGED vars PROVE Idle
  BY <1>19 DEF vars, Idle
<1>20. \/ Idle
       \/ TimerInv' /\ ~ Measuring(phase)
       \/ Measuring(phase) /\ Round
       \/ timer' = FsecsEnd(timer) /\ ~ Measuring(phase')
  BY <1>2, <1>3, <1>4, <1>5, <1>6, <1>7, <1>8, <1>9, <1>10, <1>11, <1>12, <1>13,
     <1>14, <1>15, <1>16, <1>17, <1>18, <1>19 DEF Next, Exited
<1> QED BY <1>20, <1>1, RoundKeeps, EndKeeps

-----------------------------------------------------------------------------
LEMMA TimerInvariant == Spec => []TimerInv
<1>1. Init => TimerInv
  <2> SUFFICES ASSUME Init PROVE TimerInv
    OBVIOUS
  <2>1. PICK kind \in Timers : timer = NewTimer(kind)
    BY DEF Init
  <2>2. phase = "options"
    BY DEF Init
  <2> QED BY <2>1, <2>2, NewTimerIs DEF TimerInv, Measuring
<1>2. TimerInv /\ [Next]_vars => TimerInv'
  BY TimerStep
<1> QED BY <1>1, <1>2, PTL DEF Spec

(***************************************************************************)
(* While fcyc() measures, values[] holds the K least of all the samples    *)
(* that add_sample() has been given, in order: whatever the durations, the *)
(* ticks, the packages and the trace are.                                  *)
(***************************************************************************)
THEOREM SamplerKeepsTheBest == Spec => []SamplesKBest
<1>1. TimerInv => SamplesKBest
  BY SampledIsKBest DEF TimerInv, SamplesKBest, Measuring
<1> QED BY <1>1, TimerInvariant, PTL

(***************************************************************************)
(* get_counter(), over two words, and the subtraction of two timevals of   *)
(* ftimer.c return the time that has passed, for every start and every     *)
(* duration that two words hold.                                           *)
(***************************************************************************)
THEOREM MeasuresWhatPassed == Spec => MeasuresElapsed
<1>1. TimerInv /\ [Next]_vars =>
        [(phase \in {"speed", "libc speed"} /\ timer'.clock > timer.clock)
            => ResultIsElapsed(timer', timer'.clock - timer.clock)]_vars
  BY TimerStep DEF Measuring
<1> QED BY <1>1, TimerInvariant, PTL DEF Spec, MeasuresElapsed

=============================================================================
