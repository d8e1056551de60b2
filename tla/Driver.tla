------------------------------- MODULE Driver ------------------------------
(***************************************************************************)
(* The malloc driver (mdriver.c): options, trace files, the check of an    *)
(* allocator on every trace, its space utilisation, its speed, and the     *)
(* summary.  The allocator is a parameter: operators from a heap to a      *)
(* record of the heap afterwards and the value returned.  A heap has a     *)
(* field fault, which tells that the call ended the process.               *)
(***************************************************************************)
EXTENDS Timing, FiniteSets

CONSTANTS
    MMInit(_), MMMalloc(_, _), MMFree(_, _), MMRealloc(_, _, _),
    MemReset(_), HeapLo(_), HeapSize(_), Memset(_, _, _, _), Peek(_, _),
    NoHeap,          \* the simulated memory after mem_init(), of every allocator
    ALIGNMENT,
    NumDefault,      \* number of the default trace files
    Contents(_),     \* what the file of a path may hold
    Timers,          \* the packages config.h may choose
    MaxOptions,      \* bound on the number of command line options
    Starts, Durations, Ticks, Cpts, Sleep,   \* what the clocks may show
    AVG_LIBC_THRUPUT, UTIL_WEIGHT            \* the weight in percent

(* Between two readings the counter of two words does not wrap as a whole.  *)
ASSUME ClocksAssumption ==
    /\ Timers \subseteq {"FCYC", "ITIMER", "GETTOD"}
    /\ Starts \subseteq Nat /\ Ticks \subseteq Int /\ Cpts \subseteq Nat
    /\ Durations \subseteq 0 .. 2 ^ WIDTH * 2 ^ WIDTH - 1

VARIABLES
    phase,     \* where main() is
    status,    \* "running", or how the process ended
    opts,      \* what the command line has set
    noptions,  \* options read so far
    file,      \* the contents of the files that have been read
    tracenum, trace, opnum,
    blocks,    \* blocks and block_sizes of the trace
    ranges,    \* the range list
    heap,
    errors,
    stats,     \* mm_stats
    timer,
    index      \* perfindex, in percent

vars == <<phase, status, opts, noptions, file, tracenum, trace, opnum, blocks,
          ranges, heap, errors, stats, timer, index>>

NULL == 0
NoBlock == [lo |-> NULL, size |-> 0]
NoTrace == [num_ids |-> 0, num_ops |-> 0, ops |-> <<>>]
Missing == [NoTrace EXCEPT !.num_ids = -1]   \* a file that cannot be opened
Unread == [NoTrace EXCEPT !.num_ids = -2]
NoStats == [ops |-> 0, valid |-> FALSE, secs |-> 0, hwm |-> 0, size |-> 1]
Untouched == -1          \* perfindex before it is computed

-----------------------------------------------------------------------------
(***************************************************************************)
(* The command line and the trace files.                                   *)
(***************************************************************************)
num_tracefiles == IF opts.single THEN 1 ELSE NumDefault

Path(n) == IF opts.single THEN <<"./", 0>> ELSE <<opts.tracedir, n>>

Paths == {"default", "given"} \X (1 .. NumDefault) \cup {<<"./", 0>>}

(* exit(), abort() and a fault of the allocator end the process. *)
Exit(how) == status' = how /\ phase' = "exit"

(* -v, -V and -g only change what is printed, and so does -a: the team of  *)
(* mm.c is filled in, and the check of it passes.                          *)
GetOption(c) ==
    /\ phase = "options"
    /\ noptions < MaxOptions
    /\ noptions' = noptions + 1
    /\ IF c \in {"h", "?"}
       THEN Exit(IF c = "h" THEN "ok" ELSE "failed") /\ UNCHANGED opts
       ELSE /\ opts' = CASE c = "f" -> [opts EXCEPT !.single = TRUE]
                         [] c = "t" -> IF opts.single THEN opts
                                       ELSE [opts EXCEPT !.tracedir = "given"]
                         [] c = "l" -> [opts EXCEPT !.run_libc = TRUE]
                         [] OTHER -> opts
            /\ UNCHANGED <<phase, status>>
    /\ UNCHANGED <<file, tracenum, trace, opnum, blocks, ranges, heap, errors,
                   stats, timer, index>>

EndOfOptions ==
    /\ phase = "options"
    /\ \E clock \in Starts : timer' = init_fsecs(timer, clock, Sleep)
    /\ phase' = IF opts.run_libc THEN "libc read" ELSE "mem_init"
    /\ noptions' = 0
    /\ UNCHANGED <<status, opts, file, tracenum, trace, opnum, blocks,
                   ranges, heap, errors, stats, index>>

(* read_trace(): a content that fails the assertions aborts. *)
WellCounted(c) ==
    LET indices == {c.ops[i].index : i \in {j \in DOMAIN c.ops : c.ops[j].type # "f"}}
    IN  /\ Max({0} \cup indices) = c.num_ids - 1
        /\ Len(c.ops) = c.num_ops

read_trace(next) ==
    \E c \in IF file[Path(tracenum)] = Unread THEN Contents(Path(tracenum))
             ELSE {file[Path(tracenum)]} :
        /\ file' = [file EXCEPT ![Path(tracenum)] = c]
        /\ CASE c = Missing -> Exit("failed") /\ UNCHANGED <<trace, blocks>>
             [] c # Missing /\ \E i \in DOMAIN c.ops : c.ops[i].type = "bogus" ->
                  Exit("failed") /\ UNCHANGED <<trace, blocks>>
             [] c # Missing /\ (\A i \in DOMAIN c.ops : c.ops[i].type # "bogus")
                  /\ ~ WellCounted(c) ->
                  Exit("assert") /\ UNCHANGED <<trace, blocks>>
             [] OTHER -> /\ trace' = c /\ phase' = next
                         /\ blocks' = [i \in 0 .. c.num_ids - 1 |-> NoBlock]
                         /\ UNCHANGED status

-----------------------------------------------------------------------------
(***************************************************************************)
(* The C library's malloc, external: a call may fail.                      *)
(***************************************************************************)
LibcRead ==
    /\ phase = "libc read"
    /\ read_trace("libc valid")
    /\ UNCHANGED <<opts, noptions, tracenum, opnum, ranges, heap, errors, stats,
                   timer, index>>

eval_libc_valid ==
    /\ phase = "libc valid"
    /\ \/ /\ phase' = "libc speed"
          /\ \E clock \in Starts : timer' = FsecsBegin(timer, clock)
          /\ UNCHANGED <<status, errors>>
       \/ /\ Exit("failed") /\ errors' = errors + 1
          /\ UNCHANGED timer
    /\ UNCHANGED <<opts, noptions, file, tracenum, trace, opnum, blocks, ranges,
                   heap, stats, index>>

(* free_trace() and the next trace, or the phase after the last one. *)
NextTrace(again, done) ==
    /\ trace' = NoTrace /\ blocks' = <<>>
    /\ tracenum' = IF tracenum < num_tracefiles THEN tracenum + 1 ELSE 1
    /\ phase' = IF tracenum < num_tracefiles THEN again ELSE done

(* One call of the function that fsecs() measures. *)
Round == \E d \in Durations, ticks \in Ticks :
             timer' = FsecsRound(timer, d, ticks, Cpts)

(* The buffer of clear() cannot be allocated. *)
ClearFails ==
    /\ phase \in {"speed", "libc speed"} /\ ~ FsecsDone(timer)
    /\ timer.kind = "FCYC" /\ ~ timer.cache_buf
    /\ Exit("failed")
    /\ UNCHANGED <<opts, noptions, file, tracenum, trace, opnum, blocks, ranges,
                   heap, errors, stats, timer, index>>

eval_libc_speed ==
    /\ phase = "libc speed" /\ ~ FsecsDone(timer)
    /\ \/ Round /\ UNCHANGED <<phase, status>>
       \/ Exit("failed") /\ UNCHANGED timer
    /\ UNCHANGED <<opts, noptions, file, tracenum, trace, opnum, blocks, ranges,
                   heap, errors, stats, index>>

LibcDone ==
    /\ phase = "libc speed" /\ FsecsDone(timer)
    /\ timer' = FsecsEnd(timer)
    /\ NextTrace("libc read", "mem_init")
    /\ UNCHANGED <<status, opts, noptions, file, opnum, ranges, heap, errors,
                   stats, index>>

-----------------------------------------------------------------------------
(***************************************************************************)
(* The range list, newest first.                                           *)
(***************************************************************************)
(* An old payload that lies inside the new one is not noticed. *)
RangeOK(h, list, lo, size) ==
    LET hi == lo + size - 1
    IN  /\ lo % ALIGNMENT = 0
        /\ lo >= HeapLo(h) /\ hi <= HeapLo(h) + HeapSize(h) - 1
        /\ \A k \in DOMAIN list :
            /\ ~ (lo >= list[k].lo /\ lo <= list[k].hi)
            /\ ~ (hi >= list[k].lo /\ hi <= list[k].hi)

add_range(list, lo, size) == <<[lo |-> lo, hi |-> lo + size - 1]>> \o list

remove_range(list, lo) ==
    LET at == {k \in DOMAIN list : list[k].lo = lo}
    IN  IF at = {} THEN list ELSE RemoveAt(list, Min(at))

clear_ranges == <<>>

-----------------------------------------------------------------------------
(***************************************************************************)
(* eval_mm_valid(): one action for every request.                          *)
(***************************************************************************)
(* The memory is new from Init on; mem_init() is not called before. *)
mem_init ==
    /\ phase = "mem_init"
    /\ phase' = "read"
    /\ UNCHANGED <<status, opts, noptions, file, tracenum, trace, opnum, blocks,
                   ranges, heap, errors, stats, timer, index>>

ReadTrace ==
    /\ phase = "read"
    /\ read_trace("init")
    /\ stats' = [stats EXCEPT ![tracenum].ops = trace'.num_ops]
    /\ UNCHANGED <<opts, noptions, tracenum, opnum, ranges, heap, errors, timer,
                   index>>

(* malloc_error() and return 0: the trace is not valid. *)
Invalid ==
    /\ errors' = errors + 1
    /\ stats' = [stats EXCEPT ![tracenum].valid = FALSE]
    /\ NextTrace("read", "results")

Crash(h) == /\ Exit(h.fault)
            /\ UNCHANGED <<errors, stats, trace, blocks, tracenum>>

InitValid ==
    /\ phase = "init"
    /\ \E i \in {MMInit(MemReset(heap))} :
           /\ heap' = i.heap
           /\ ranges' = clear_ranges
           /\ opnum' = 1
           /\ CASE i.heap.fault # "none" -> Crash(i.heap)
                [] i.heap.fault = "none" /\ i.bp < 0 ->
                     Invalid /\ UNCHANGED status
                [] OTHER -> phase' = "valid"
                            /\ UNCHANGED <<status, errors, stats, trace, blocks, tracenum>>
    /\ UNCHANGED <<opts, noptions, file, timer, index>>

Op == trace.ops[opnum]

(* newp is a pointer to char, which is signed in this build. *)
SignedChar(byte) == IF byte < 128 THEN byte ELSE byte - 256

(* The block that a call has returned is checked, filled and kept. *)
Adopt(a, list, kept) ==
    LET size == Op.size
    IN  CASE a.heap.fault # "none" ->
               Crash(a.heap) /\ heap' = a.heap /\ UNCHANGED <<ranges, opnum>>
          [] a.heap.fault = "none" /\ a.bp = NULL ->
               /\ Invalid /\ heap' = a.heap /\ UNCHANGED <<status, ranges, opnum>>
          [] a.heap.fault = "none" /\ a.bp # NULL /\ size = 0 ->
               /\ Exit("assert") /\ heap' = a.heap /\ ranges' = list
               /\ UNCHANGED <<errors, stats, trace, blocks, tracenum, opnum>>
          [] a.heap.fault = "none" /\ a.bp # NULL /\ size # 0
             /\ ~ RangeOK(a.heap, list, a.bp, size) ->
               /\ Invalid /\ heap' = a.heap /\ ranges' = list
               /\ UNCHANGED <<status, opnum>>
          [] a.heap.fault = "none" /\ a.bp # NULL /\ size # 0
             /\ RangeOK(a.heap, list, a.bp, size) ->
               /\ ranges' = add_range(list, a.bp, size)
               /\ IF \A j \in 0 .. kept - 1 :
                        SignedChar(Peek(a.heap, a.bp + j)) = Op.index % 256
                  THEN /\ heap' = Memset(a.heap, a.bp, size, Op.index % 256)
                       /\ blocks' = [blocks EXCEPT ![Op.index] =
                                        [lo |-> a.bp, size |-> size]]
                       /\ opnum' = opnum + 1
                       /\ UNCHANGED <<phase, errors, stats, trace, tracenum>>
                  ELSE Invalid /\ heap' = a.heap /\ UNCHANGED opnum
               /\ UNCHANGED status

Request(type) ==
    /\ phase = "valid" /\ opnum <= trace.num_ops /\ Op.type = type

ValidAlloc ==
    /\ Request("a")
    /\ Adopt(MMMalloc(heap, Op.size), ranges, 0)
    /\ UNCHANGED <<opts, noptions, file, timer, index>>

ValidRealloc ==
    /\ Request("r")
    /\ LET old == blocks[Op.index]
       IN  Adopt(MMRealloc(heap, old.lo, Op.size), remove_range(ranges, old.lo),
                 IF Op.size < old.size THEN Op.size ELSE old.size)
    /\ UNCHANGED <<opts, noptions, file, timer, index>>

ValidFree ==
    /\ Request("f")
    /\ \E h \in {MMFree(heap, blocks[Op.index].lo)} :
           /\ heap' = h
           /\ ranges' = remove_range(ranges, blocks[Op.index].lo)
           /\ IF h.fault # "none" THEN Crash(h) /\ UNCHANGED opnum
              ELSE /\ opnum' = opnum + 1
                   /\ UNCHANGED <<phase, status, errors, stats, trace, blocks, tracenum>>
    /\ UNCHANGED <<opts, noptions, file, timer, index>>

ValidDone ==
    /\ phase = "valid" /\ opnum > trace.num_ops
    /\ stats' = [stats EXCEPT ![tracenum].valid = TRUE]
    /\ phase' = "util"
    /\ UNCHANGED <<status, opts, noptions, file, tracenum, trace, opnum, blocks,
                   ranges, heap, errors, timer, index>>

-----------------------------------------------------------------------------
(***************************************************************************)
(* eval_mm_util() and eval_mm_speed() replay the trace without checks: a   *)
(* call that fails now ends the driver.                                    *)
(***************************************************************************)
Returned(s, op, a) ==
    LET old == s.blocks[op.index]
        total == s.total + CASE op.type = "a" -> op.size
                             [] op.type = "r" -> op.size - old.size
                             [] OTHER -> - old.size
    IN  IF a.heap.fault # "none" THEN [s EXCEPT !.end = a.heap.fault]
        ELSE IF a.bp = NULL THEN [s EXCEPT !.end = "app_error"]
        ELSE [s EXCEPT !.heap = a.heap, !.total = total,
                       !.max = IF total > @ THEN total ELSE @,
                       !.blocks[op.index] =
                            IF op.type = "f" THEN @
                            ELSE [lo |-> a.bp, size |-> op.size]]

Replayed(s, op) ==
    LET old == s.blocks[op.index]
    IN  Returned(s, op,
            CASE op.type = "a" -> MMMalloc(s.heap, op.size)
              [] op.type = "r" -> MMRealloc(s.heap, old.lo, op.size)
              [] OTHER -> [heap |-> MMFree(s.heap, old.lo), bp |-> old.lo])

Replay ==
    LET i == MMInit(MemReset(heap))
        Run[n \in 0 .. trace.num_ops] ==
          IF n = 0
          THEN [heap |-> i.heap, blocks |-> blocks, total |-> 0, max |-> 0,
                end |-> IF i.heap.fault # "none" THEN i.heap.fault
                        ELSE IF i.bp < 0 THEN "app_error" ELSE "none"]
          ELSE LET s == Run[n - 1]
               IN  IF s.end # "none" THEN s ELSE Replayed(s, trace.ops[n])
    IN  Run[trace.num_ops]

(* Utilisation is the high water mark hwm over the size of the heap. *)
eval_mm_util ==
    /\ phase = "util"
    /\ \E r \in {Replay} :
           /\ heap' = r.heap
           /\ blocks' = r.blocks
           /\ IF r.end # "none" THEN Exit(r.end) /\ UNCHANGED <<stats, timer>>
              ELSE /\ phase' = "speed"
                   /\ stats' = [stats EXCEPT ![tracenum].hwm = r.max,
                                             ![tracenum].size = HeapSize(r.heap)]
                   /\ \E clock \in Starts : timer' = FsecsBegin(timer, clock)
                   /\ UNCHANGED status
    /\ UNCHANGED <<opts, noptions, file, tracenum, trace, opnum, ranges, errors, index>>

eval_mm_speed ==
    /\ phase = "speed" /\ ~ FsecsDone(timer)
    /\ \E r \in {Replay} :
           /\ heap' = r.heap
           /\ blocks' = r.blocks
           /\ IF r.end # "none" THEN Exit(r.end) /\ UNCHANGED timer
              ELSE Round /\ UNCHANGED <<phase, status>>
    /\ UNCHANGED <<opts, noptions, file, tracenum, trace, opnum, ranges, errors,
                   stats, index>>

SpeedDone ==
    /\ phase = "speed" /\ FsecsDone(timer)
    /\ stats' = [stats EXCEPT ![tracenum].secs = fsecs(timer)]
    /\ timer' = FsecsEnd(timer)
    /\ NextTrace("read", "results")
    /\ UNCHANGED <<status, opts, noptions, file, opnum, ranges, heap, errors, index>>

-----------------------------------------------------------------------------
(***************************************************************************)
(* The summary.  A time of 0 makes the throughput infinite.                *)
(***************************************************************************)
Total(field) ==
    LET Sum_[n \in 0 .. num_tracefiles] ==
          IF n = 0 THEN 0 ELSE Sum_[n - 1] + stats[n][field]
    IN  Sum_[num_tracefiles]

avg_mm_util ==
    LET Sum_[n \in 0 .. num_tracefiles] ==
          IF n = 0 THEN 0
          ELSE Sum_[n - 1] + (100 * stats[n].hwm) \div stats[n].size
    IN  Sum_[num_tracefiles] \div num_tracefiles

(* What printresults() adds up: the valid traces only. *)
printresults ==
    LET Sum_[n \in 0 .. num_tracefiles] ==
          IF n = 0 THEN [ops |-> 0, secs |-> 0, util |-> 0]
          ELSE IF ~ stats[n].valid THEN Sum_[n - 1]
          ELSE [ops |-> Sum_[n - 1].ops + stats[n].ops,
                secs |-> Sum_[n - 1].secs + stats[n].secs,
                util |-> Sum_[n - 1].util + (100 * stats[n].hwm) \div stats[n].size]
    IN  Sum_[num_tracefiles]

(* Variant: the share of the throughput has no cap. *)
perfindex_NoCap ==
    LET secs == Total("secs")
        p1 == (UTIL_WEIGHT * avg_mm_util) \div 100
        p2 == IF secs = 0 THEN 100 - UTIL_WEIGHT
              ELSE ((100 - UTIL_WEIGHT) * Total("ops"))
                       \div (secs * AVG_LIBC_THRUPUT)
    IN  p1 + p2

(* Compensated times may be negative; such a throughput meets no cap.     *)
perfindex ==
    LET secs == Total("secs")
        p1 == (UTIL_WEIGHT * avg_mm_util) \div 100
        share == (100 - UTIL_WEIGHT) * Total("ops")
        p2 == CASE secs < 0 -> -(share \div (-secs * AVG_LIBC_THRUPUT))
                [] secs >= 0 /\ Total("ops") > secs * AVG_LIBC_THRUPUT ->
                     100 - UTIL_WEIGHT
                [] OTHER -> share \div (secs * AVG_LIBC_THRUPUT)
    IN  p1 + p2

Results ==
    /\ phase = "results"
    /\ index' = IF errors = 0 THEN perfindex ELSE 0
    /\ Exit("ok")
    /\ UNCHANGED <<opts, noptions, file, tracenum, trace, opnum, blocks, ranges,
                   heap, errors, stats, timer>>

Exited == phase = "exit" /\ UNCHANGED vars

-----------------------------------------------------------------------------
Init ==
    /\ phase = "options" /\ status = "running"
    /\ opts = [single |-> FALSE, tracedir |-> "default",
               run_libc |-> FALSE]
    /\ noptions = 0
    /\ file = [p \in Paths |-> Unread]
    /\ tracenum = 1 /\ trace = NoTrace /\ opnum = 0
    /\ blocks = <<>> /\ ranges = <<>>
    /\ heap \in NoHeap
    /\ errors = 0
    /\ stats = [n \in 1 .. NumDefault |-> NoStats]
    /\ timer \in {NewTimer(kind) : kind \in Timers}
    /\ index = Untouched

Next ==
    \/ \E c \in {"g", "f", "t", "a", "l", "v", "V", "h", "?"} : GetOption(c)
    \/ EndOfOptions
    \/ LibcRead
    \/ eval_libc_valid
    \/ eval_libc_speed
    \/ LibcDone
    \/ ClearFails
    \/ mem_init
    \/ ReadTrace
    \/ InitValid
    \/ ValidAlloc
    \/ ValidRealloc
    \/ ValidFree
    \/ ValidDone
    \/ eval_mm_util
    \/ eval_mm_speed
    \/ SpeedDone
    \/ Results
    \/ Exited

Spec == Init /\ [][Next]_vars

-----------------------------------------------------------------------------
(***************************************************************************)
(* The traces of a file.                                                   *)
(***************************************************************************)
Live(ops) == {i \in {op.index : op \in Range(ops)} :
                 ~ \E k \in DOMAIN ops : ops[k].type = "f" /\ ops[k].index = i}

NumIds(ops) == Cardinality({ops[k].index : k \in DOMAIN ops})

(* ops and one more request that a program can make. *)
Longer(ops, types, sizes) ==
    LET req(t, i, n) == Append(ops, [type |-> t, index |-> i, size |-> n])
    IN  (IF "a" \in types THEN {req("a", NumIds(ops), n) : n \in sizes} ELSE {})
        \cup (IF "f" \in types THEN {req("f", i, 0) : i \in Live(ops)} ELSE {})
        \cup (IF "r" \in types
              THEN {req("r", i, n) : i \in Live(ops), n \in sizes} ELSE {})

(* The traces that begin with one of the prefixes and go on for n requests. *)
Traces(prefixes, n, types, sizes) ==
    LET Upto[k \in 0 .. n] ==
          IF k = 0 THEN prefixes
          ELSE UNION {Longer(ops, types, sizes) : ops \in Upto[k - 1]}
    IN  {[num_ids |-> NumIds(ops), num_ops |-> Len(ops), ops |-> ops] :
             ops \in Upto[n]}

-----------------------------------------------------------------------------
(***************************************************************************)
(* Properties                                                              *)
(***************************************************************************)
TypeOK ==
    /\ status \in {"running", "ok", "failed", "assert", "wild", "exit", "app_error"}
    /\ (phase = "exit") = (status # "running")
    /\ tracenum \in 1 .. NumDefault
    /\ errors \in 0 .. 2 * NumDefault
    /\ stats \in [1 .. NumDefault -> [ops : Nat, valid : BOOLEAN, secs : Int,
                                      hwm : Nat, size : Nat \ {0}]]
    /\ index \in Int

Freed(i) == \E k \in 1 .. opnum - 1 : trace.ops[k].type = "f" /\ trace.ops[k].index = i

InUse == {i \in DOMAIN blocks : blocks[i] # NoBlock /\ ~ Freed(i)}

Payload(b) == b.lo .. b.lo + b.size - 1

(***************************************************************************)
(* While a trace is checked, the payloads in use lie apart and each holds  *)
(* what the driver has put into it: what add_range() only looks at the     *)
(* ends of is true of every byte.  The state of main() is well typed.      *)
(***************************************************************************)
PayloadsApart ==
    /\ TypeOK
    /\ phase = "valid" =>
        /\ \A i, j \in InUse : i # j => Payload(blocks[i]) \cap Payload(blocks[j]) = {}
        /\ \A i \in InUse : \A a \in Payload(blocks[i]) : Peek(heap, a) = i % 256

(***************************************************************************)
(* A trace that was found valid replays: when the driver measures, no call *)
(* that has succeeded before returns NULL, and the replay for the          *)
(* utilisation meets the heap that was checked, with every block at the    *)
(* same place.  That the memory of all the replays is exhausted, which     *)
(* mem_init() answers with an exit of its own, is not excluded.            *)
(***************************************************************************)
ReplayIsTheSame ==
    [][/\ status' # "app_error"
       /\ phase = "util" /\ phase' = "speed" =>
            blocks' = blocks /\ HeapSize(heap') = HeapSize(heap)]_vars

(***************************************************************************)
(* An index other than 0 is given only if every trace was valid, it is at  *)
(* most 100, no trace uses more of the heap than there is, and the totals  *)
(* that printresults() shows, of the valid traces, are the ones that       *)
(* main() has made the index of, of all traces.                            *)
(***************************************************************************)
IndexIsEarned ==
    status = "ok" /\ index > 0 =>
        /\ index <= 100
        /\ \A n \in 1 .. num_tracefiles :
            stats[n].valid /\ stats[n].hwm <= stats[n].size
        /\ printresults.ops = Total("ops") /\ printresults.secs = Total("secs")
        /\ printresults.util \div num_tracefiles = avg_mm_util

(***************************************************************************)
(* While fcyc() measures, values[] holds the K least of all the samples it *)
(* has taken, in order, whatever the order they came in.                   *)
(***************************************************************************)
SamplesKBest == phase \in {"speed", "libc speed"} => KBest(timer)

(***************************************************************************)
(* A measurement is the time that has passed: the difference of two counter*)
(* readings is exact when the low word has wrapped around, and so is the   *)
(* difference of two timevals when the microseconds have.                  *)
(***************************************************************************)
MeasuresElapsed ==
    [][(phase \in {"speed", "libc speed"} /\ timer'.clock > timer.clock)
        => ResultIsElapsed(timer', timer'.clock - timer.clock)]_vars

=============================================================================
