------------------------------- MODULE Timing ------------------------------
(***************************************************************************)
(* How the malloc driver measures a function: the three packages that      *)
(* config.h chooses from (fsecs.c), the K-best cycle count (fcyc.c over    *)
(* clock.c) and the averages of n runs by the interval timer or by         *)
(* gettimeofday() (ftimer.c), as operators on a timer.  Driver runs them.  *)
(*                                                                         *)
(* Time is an integer: cycles for FCYC, microseconds for the others.  The  *)
(* field clock is the true time, which the code only sees through the      *)
(* counters; began is the time when the measurement began.                 *)
(***************************************************************************)
EXTENDS Integers, Sequences, SequencesExt, FiniteSetsExt

CONSTANTS
    K,             \* kbest, 3 in init_fsecs()
    MAXSAMPLES,    \* maxsamples, 20
    EPSILON,       \* epsilon in percent, 1
    NRUNS,         \* n of the ftimer functions, 10
    WIDTH,         \* bits of an unsigned, 32
    USEC,          \* microseconds of a second
    MAX_ETIME,     \* seconds the interval timers start with
    RECORDTHRESH   \* smallest overhead of a tick that is believed

ASSUME TimingAssumption ==
    /\ K \in Nat \ {0} /\ MAXSAMPLES \in Nat \ {0} /\ NRUNS \in Nat \ {0}
    /\ EPSILON \in Nat /\ RECORDTHRESH \in Nat
    /\ WIDTH \in Nat \ {0} /\ USEC \in Nat \ {0} /\ MAX_ETIME \in Nat \ {0}
    /\ 2 ^ WIDTH \in Nat \ {0}

-----------------------------------------------------------------------------
(***************************************************************************)
(* clock.c: a counter of two words.                                        *)
(***************************************************************************)
access_counter(clock) ==
    [hi |-> (clock \div 2 ^ WIDTH) % 2 ^ WIDTH, lo |-> clock % 2 ^ WIDTH]

start_counter(t) == [t EXCEPT !.cyc = access_counter(t.clock)]

(* Variant: the borrow of the low words is forgotten. *)
get_counter_NoBorrow(t) ==
    LET n == access_counter(t.clock)
    IN  ((n.hi - t.cyc.hi) % 2 ^ WIDTH) * 2 ^ WIDTH
        + ((n.lo - t.cyc.lo) % 2 ^ WIDTH)

get_counter(t) ==
    LET n == access_counter(t.clock)
        lo == (n.lo - t.cyc.lo) % 2 ^ WIDTH
        borrow == IF lo > n.lo THEN 1 ELSE 0
        hi == (n.hi - t.cyc.hi - borrow) % 2 ^ WIDTH
    IN  hi * 2 ^ WIDTH + lo

(* cyc_per_tick: the least overhead above the threshold, 0 if there was none. *)
callibrate(t, cpts) ==
    LET seen == {c \in cpts : c > RECORDTHRESH}
    IN  [t EXCEPT !.cyc_per_tick = IF seen = {} THEN @ ELSE Min(seen)]

start_comp_counter(t, cpts) ==
    start_counter(IF t.cyc_per_tick = 0 THEN callibrate(t, cpts) ELSE t)

get_comp_counter(t, ticks) == get_counter(t) - ticks * t.cyc_per_tick

(* mhz(): the counter before and after a sleep. *)
mhz(t, sleep) ==
    get_counter([start_counter(t) EXCEPT !.clock = @ + sleep])

-----------------------------------------------------------------------------
(***************************************************************************)
(* fcyc.c: the K smallest samples, in order.                               *)
(***************************************************************************)
init_sampler(t) == [t EXCEPT !.values = [i \in 1 .. K |-> 0],
                             !.samplecount = 0, !.samples = <<>>]

(* The last element sinks to its place. *)
InsertionSort(values, pos) ==
    LET val == values[pos]
        at == Min({i \in 1 .. pos : i = pos \/ values[i] > val})
    IN  [i \in DOMAIN values |->
            CASE i = at -> val
              [] at < i /\ i <= pos -> values[i - 1]
              [] OTHER -> values[i]]

(* Variant: a sample replaces the largest value even if it is larger. *)
add_sample_Always(t, val) ==
    LET pos == IF t.samplecount < K THEN t.samplecount + 1 ELSE K
    IN  [t EXCEPT !.values = InsertionSort([@ EXCEPT ![pos] = val], pos),
                  !.samplecount = @ + 1, !.samples = Append(@, val)]

(* samples is the array of KEEP_SAMPLES. *)
add_sample(t, val) ==
    LET pos == IF t.samplecount < K THEN t.samplecount + 1 ELSE K
        kept == IF t.samplecount < K \/ val < t.values[K]
                THEN InsertionSort([t.values EXCEPT ![pos] = val], pos)
                ELSE t.values
    IN  [t EXCEPT !.values = kept, !.samplecount = @ + 1,
                  !.samples = Append(@, val)]

has_converged(t) ==
    /\ t.samplecount >= K
    /\ (100 + EPSILON) * t.values[1] >= 100 * t.values[K]

(* The buffer that is read to clear the cache is allocated once. *)
clear(t) == [t EXCEPT !.cache_buf = TRUE]

(* One round: the function under test takes d, in which ticks ticks fall. *)
FcycRound(t, d, ticks, cpts) ==
    LET ran == [start_comp_counter(clear(t), cpts) EXCEPT !.clock = @ + d]
    IN  add_sample(ran, get_comp_counter(ran, ticks))

FcycDone(t) == has_converged(t) \/ t.samplecount >= MAXSAMPLES

-----------------------------------------------------------------------------
(***************************************************************************)
(* ftimer.c: seconds and microseconds.                                     *)
(***************************************************************************)
timeval(usecs) == [sec |-> usecs \div USEC, usec |-> usecs % USEC]

timediff(a, b) == USEC * (a.sec - b.sec) + (a.usec - b.usec)

(* The real timer counts down; first_p, of the other timer, is the minuend. *)
get_etime(t) ==
    timediff(timeval(MAX_ETIME * USEC),
             timeval(MAX_ETIME * USEC - (t.clock - t.began)))

FtimerRound(t, d) == [t EXCEPT !.clock = @ + d, !.samplecount = @ + 1]

FtimerDone(t) == t.samplecount = NRUNS

(* The time of all runs, which the code divides by their number. *)
FtimerResult(t) ==
    IF t.kind = "ITIMER" THEN get_etime(t)
    ELSE timediff(timeval(t.clock), timeval(t.began))

-----------------------------------------------------------------------------
(***************************************************************************)
(* fsecs.c                                                                 *)
(***************************************************************************)
NewTimer(kind) ==
    [kind |-> kind, Mhz |-> 0, clock |-> 0, began |-> 0,
     cyc |-> [hi |-> 0, lo |-> 0], cyc_per_tick |-> 0, cache_buf |-> FALSE,
     values |-> <<>>, samplecount |-> 0, samples |-> <<>>]

init_fsecs(t, clock, sleep) ==
    IF t.kind = "FCYC"
    THEN LET now == [t EXCEPT !.clock = clock]
         IN  [now EXCEPT !.cyc = access_counter(clock), !.Mhz = mhz(now, sleep)]
    ELSE t

(* The three parts of fsecs(f): before, one call of f, and the result. *)
FsecsBegin(t, clock) ==
    init_sampler([t EXCEPT !.clock = clock, !.began = clock])

FsecsRound(t, d, ticks, cpts) ==
    IF t.kind = "FCYC" THEN FcycRound(t, d, ticks, cpts) ELSE FtimerRound(t, d)

FsecsDone(t) == IF t.kind = "FCYC" THEN FcycDone(t) ELSE FtimerDone(t)

(* The values are freed; the true time is not looked at until the next one. *)
FsecsEnd(t) == [t EXCEPT !.values = <<>>, !.samples = <<>>, !.samplecount = 0,
                         !.clock = 0, !.began = 0]

fsecs(t) == IF t.kind = "FCYC" THEN t.values[1] ELSE FtimerResult(t)

-----------------------------------------------------------------------------
(***************************************************************************)
(* The values are the K smallest samples in order, so that the result is   *)
(* the least of all samples: they are different samples, and no other one  *)
(* is smaller.                                                             *)
(***************************************************************************)
IsKBest(t, n, pick) ==
    /\ \A i \in 1 .. n : t.values[i] = t.samples[pick[i]]
    /\ \A i, j \in 1 .. n : i < j => pick[i] # pick[j] /\ t.values[i] <= t.values[j]
    /\ \A k \in DOMAIN t.samples \ {pick[i] : i \in 1 .. n} :
          t.samplecount > K /\ t.values[n] <= t.samples[k]

KBest(t) ==
    t.kind = "FCYC" =>
        LET n == IF t.samplecount < K THEN t.samplecount ELSE K
        IN  \E pick \in [1 .. n -> DOMAIN t.samples] : IsKBest(t, n, pick)

(* No measurement loses time to a carry between words or seconds.          *)
ResultIsElapsed(t, d) ==
    IF t.kind = "FCYC" THEN get_counter(t) = d
    ELSE FsecsDone(t) => FtimerResult(t) = t.clock - t.began

=============================================================================
